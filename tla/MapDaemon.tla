------------------------------ MODULE MapDaemon ------------------------------
(***************************************************************************)
(* The daemon map: dbserver_get2() of perditiondb_daemon.c in every        *)
(* perdition child, the datagram exchange perdition_un_send_recv() of      *)
(* unix_socket.c, and the map daemon of server.c that answers it.          *)
(*                                                                         *)
(* The children and the daemons share nothing but unix datagram sockets in *)
(* the file system.  Daemons come and go: one may be killed, may be told   *)
(* to stop, or be started while an older one still runs.  A datagram       *)
(* carries no number that would tie an answer to a request, and requests   *)
(* are repeated after a timeout, so answers may come late and twice.       *)
(***************************************************************************)
EXTENDS Integers, Sequences, FiniteSets

CONSTANTS
  Clients,     \* perdition child processes that look up users
  Daemons,     \* places a daemon runs at; two run at once during an upgrade
  None,        \* no daemon, no child
  Strange,     \* packets that a process other than the daemon sends to a child
  retry,       \* the option max_retry
  MaxLookups,  \* bound: lookups of one child
  QueueLen     \* datagrams a socket queues before its senders block

ASSUME ProcessesAssumption ==
  /\ None \notin Daemons \cup Clients
  /\ retry \in Nat
  /\ QueueLen \in Nat \ {0}
  /\ MaxLookups \in Nat

\* The socket of a child's lookup: mkdtemp() gives every lookup a directory
\* of its own.
SameSocketName(c, n) == [who |-> c, n |-> 0]       \* mutant: a fixed name

SocketName(c, n) == [who |-> c, n |-> n]

\* (No client stands in for the key of a packet that has none.)
Lookups == [who : Clients \cup {None}, n : Nat]

\* A packet is a request for a key, a response for a key, or neither.  Keys
\* are told apart by the lookup that asks for them.
Packets == [kind : {"req", "rsp", "bad"}, key : Lookups]

\* What other processes send: packets of every kind.  (A packet that would be
\* cut off or padded when it is sent again with the length of the request that
\* it has overwritten counts as "bad".)
ASSUME StrangeAssumption == Strange \subseteq Packets

Request(k)  == [kind |-> "req", key |-> k]
Response(k) == [kind |-> "rsp", key |-> k]

\* a datagram with the name of the socket that it was sent from, as recvfrom
\* returns it to the daemon, and to the child: there it is the daemon's or not
Requests == [from : Lookups, pkt : Packets]
Answers  == [daemon : BOOLEAN, pkt : Packets]

VARIABLES
  pc,       \* child: "idle", or in the "send" or the "wait" loop
  lookup,   \* child: number of its current or latest lookup
  msg,      \* child: the packet buffer, request and response alike
  attempt,  \* child: the counter of the send loop
  inbox,    \* child: datagrams queued at its socket
  result,   \* child: how its latest lookup ended
  answer,   \* child: the packet dbserver_get2() read the answer from
  refused,  \* history: how often the current lookup found no daemon
  misled,   \* history: has the lookup sent a request for a key not its own?
  state,    \* daemon: "down", "binding" or "up"
  queue,    \* daemon: datagrams queued at its socket
  current,  \* daemon: the request it is replying to, <<>> in recvfrom()
  path      \* the daemon whose socket server_socket names, or None

client == <<pc, lookup, msg, attempt, inbox, result, answer, refused, misled>>
daemon == <<state, queue, current, path>>
vars   == <<client, daemon>>

Results == {"none", "answer", "malformed", "gave_up", "error"}

Socket(c) == SocketName(c, lookup[c])

Key(c) == [who |-> c, n |-> lookup[c]]

\* somebody receives at server_socket; else sendto() fails with ENOENT
\* (nothing there) or ECONNREFUSED (the socket of a process that is gone)
Listening == path # None /\ state[path] = "up"

-----------------------------------------------------------------------------
(* The child: dbserver_get2().                                             *)

\* the packet is built, the socket made and bound
Open(c) ==
  /\ pc[c] = "idle" /\ lookup[c] < MaxLookups
  /\ pc' = [pc EXCEPT ![c] = "send"]
  /\ lookup' = [lookup EXCEPT ![c] = @ + 1]
  /\ msg' = [msg EXCEPT ![c] = Request([who |-> c, n |-> lookup[c] + 1])]
  /\ result' = [result EXCEPT ![c] = "none"]
  /\ misled' = [misled EXCEPT ![c] = FALSE]
  /\ UNCHANGED <<attempt, inbox, answer, refused, daemon>>

\* a system call fails, or the uninitialised peer.fd that is tested in place
\* of sock.fd happens to be negative
OpenFails(c) ==
  /\ pc[c] = "idle" /\ lookup[c] < MaxLookups
  /\ lookup' = [lookup EXCEPT ![c] = @ + 1]
  /\ result' = [result EXCEPT ![c] = "error"]
  /\ misled' = [misled EXCEPT ![c] = FALSE]
  /\ UNCHANGED <<pc, msg, attempt, inbox, answer, refused, daemon>>

\* leave: perdition_un_close() and the return to getserver(); the locals of
\* perdition_un_send_recv() end with the call
Close(c, how) ==
  /\ pc' = [pc EXCEPT ![c] = "idle"]
  /\ result' = [result EXCEPT ![c] = how]
  /\ answer' = [answer EXCEPT ![c] = msg'[c]]
  /\ inbox' = [inbox EXCEPT ![c] = <<>>]
  /\ attempt' = [attempt EXCEPT ![c] = 0]
  /\ refused' = [refused EXCEPT ![c] = 0]

-----------------------------------------------------------------------------
(* The child: perdition_un_send_recv().                                    *)

\* sendto() succeeds, with what is in the buffer.  It blocks while the daemon's
\* queue is full.
Send(c) ==
  /\ pc[c] = "send" /\ attempt[c] < retry
  /\ Listening /\ Len(queue[path]) < QueueLen
  /\ queue' = [queue EXCEPT ![path] =
                 Append(@, [from |-> Socket(c), pkt |-> msg[c]])]
  /\ pc' = [pc EXCEPT ![c] = "wait"]
  /\ misled' = [misled EXCEPT ![c] = @ \/ (msg[c].kind = "req" /\ msg[c].key # Key(c))]
  /\ UNCHANGED <<lookup, msg, attempt, inbox, result, answer, refused, state,
                 current, path>>

InterruptCounts(n) == n + 1                     \* mutant: no attempt--

\* EINTR: attempt-- before the for loop's attempt++
AfterInterrupt(n) == (n - 1) + 1

SendInterrupted(c) ==
  /\ pc[c] = "send" /\ attempt[c] < retry
  /\ attempt' = [attempt EXCEPT ![c] = AfterInterrupt(@)]
  /\ UNCHANGED <<pc, lookup, msg, inbox, result, answer, refused, misled, daemon>>

\* ENOENT or ECONNREFUSED: sleep, and the next attempt
SendRefused(c) ==
  /\ pc[c] = "send" /\ attempt[c] < retry
  /\ ~Listening
  /\ attempt' = [attempt EXCEPT ![c] = @ + 1]
  /\ refused' = [refused EXCEPT ![c] = @ + 1]
  /\ UNCHANGED <<pc, lookup, msg, inbox, result, answer, misled, daemon>>

GiveUp(c) ==
  /\ pc[c] = "send" /\ attempt[c] >= retry
  /\ UNCHANGED msg
  /\ Close(c, "gave_up")
  /\ UNCHANGED <<lookup, misled, daemon>>

TimeoutWaits(c) ==                       \* mutant: select again, do not resend
  /\ pc[c] = "wait" /\ inbox[c] = <<>>
  /\ UNCHANGED vars

\* select() returns 0: goto resend, with attempt as it is
Timeout(c) ==
  /\ pc[c] = "wait" /\ inbox[c] = <<>>
  /\ pc' = [pc EXCEPT ![c] = "send"]
  /\ UNCHANGED <<lookup, msg, attempt, inbox, result, answer, refused, misled,
                 daemon>>

\* sendto(), select() or recvfrom() fails for another reason
IoError(c) ==
  /\ pc[c] \in {"send", "wait"}
  /\ UNCHANGED msg
  /\ Close(c, "error")
  /\ UNCHANGED <<lookup, misled, daemon>>

AnySender(dgram) == TRUE                    \* mutant: strcmp() dropped

\* strcmp(unaddr.sun_path, peer->name) = 0
FromServer(dgram) == dgram.daemon

\* recvfrom() overwrites the buffer; then the sender's name decides
Receive(c) ==
  /\ pc[c] = "wait" /\ inbox[c] # <<>>
  /\ msg' = [msg EXCEPT ![c] = Head(inbox[c]).pkt]
  /\ IF FromServer(Head(inbox[c]))
     THEN Close(c, IF Head(inbox[c]).pkt.kind = "rsp" THEN "answer"
                                                      ELSE "malformed")
     ELSE /\ inbox' = [inbox EXCEPT ![c] = Tail(@)]
          /\ UNCHANGED <<pc, result, answer, attempt, refused>>
  /\ UNCHANGED <<lookup, misled, daemon>>

-----------------------------------------------------------------------------
(* The daemon: main() of server.c.                                         *)

\* unlink() of whatever is at server_socket
Start(d) ==
  /\ state[d] = "down"
  /\ state' = [state EXCEPT ![d] = "binding"]
  /\ path' = None
  /\ UNCHANGED <<client, queue, current>>

\* bind(); if another daemon was faster it fails, and perdition_un_close()
\* removes that daemon's socket
Bind(d) ==
  /\ state[d] = "binding"
  /\ IF path = None
     THEN path' = d /\ state' = [state EXCEPT ![d] = "up"]
     ELSE path' = None /\ state' = [state EXCEPT ![d] = "down"]
  /\ UNCHANGED <<client, queue, current>>

\* recvfrom(); a packet that is no request is dropped without an answer
Take(d) ==
  /\ state[d] = "up" /\ current[d] = <<>> /\ queue[d] # <<>>
  /\ queue' = [queue EXCEPT ![d] = Tail(@)]
  /\ current' = [current EXCEPT ![d] =
       IF Head(queue[d]).pkt.kind = "req" THEN <<Head(queue[d])>> ELSE <<>>]
  /\ UNCHANGED <<client, state, path>>

\* the child whose socket has this name, if there still is one
Bound(name) == {c \in Clients : pc[c] # "idle" /\ Socket(c) = name}

\* sendto() the address the request came from.  ENOENT and ECONNREFUSED are
\* ignored; the call blocks while the child's queue is full.
Reply(d) ==
  /\ state[d] = "up" /\ current[d] # <<>>
  /\ \/ /\ Bound(Head(current[d]).from) = {}
        /\ UNCHANGED inbox
     \/ \E c \in Bound(Head(current[d]).from) :
          /\ Len(inbox[c]) < QueueLen
          /\ inbox' = [inbox EXCEPT ![c] =
               Append(@, [daemon |-> TRUE,
                          pkt    |-> Response(Head(current[d]).pkt.key)])]
  /\ current' = [current EXCEPT ![d] = <<>>]
  /\ UNCHANGED <<pc, lookup, msg, attempt, result, answer, refused, misled, state,
                 queue, path>>

\* SIGTERM or an error: perdition_un_close() unlinks server_socket, whoever's
\* socket that is by now
Stop(d) ==
  /\ state[d] = "up"
  /\ state' = [state EXCEPT ![d] = "down"]
  /\ queue' = [queue EXCEPT ![d] = <<>>]
  /\ current' = [current EXCEPT ![d] = <<>>]
  /\ path' = None
  /\ UNCHANGED client

\* killed: the socket file stays
Crash(d) ==
  /\ state[d] \in {"binding", "up"}
  /\ state' = [state EXCEPT ![d] = "down"]
  /\ queue' = [queue EXCEPT ![d] = <<>>]
  /\ current' = [current EXCEPT ![d] = <<>>]
  /\ UNCHANGED <<client, path>>

\* another process sends to a child's socket
Stranger(c, pkt) ==
  /\ pc[c] # "idle" /\ inbox[c] = <<>>
  /\ inbox' = [inbox EXCEPT ![c] = <<[daemon |-> FALSE, pkt |-> pkt]>>]
  /\ UNCHANGED <<pc, lookup, msg, attempt, result, answer, refused, misled, daemon>>

-----------------------------------------------------------------------------
Init ==
  /\ pc = [c \in Clients |-> "idle"]
  /\ lookup = [c \in Clients |-> 0]
  /\ msg = [c \in Clients |-> Request([who |-> c, n |-> 0])]
  /\ attempt = [c \in Clients |-> 0]
  /\ inbox = [c \in Clients |-> <<>>]
  /\ result = [c \in Clients |-> "none"]
  /\ answer = msg
  /\ refused = [c \in Clients |-> 0]
  /\ misled = [c \in Clients |-> FALSE]
  /\ state = [d \in Daemons |-> "down"]
  /\ queue = [d \in Daemons |-> <<>>]
  /\ current = [d \in Daemons |-> <<>>]
  /\ path = None

\* what a process does as long as it runs
ClientStep(c) ==
  Send(c) \/ SendRefused(c) \/ GiveUp(c) \/ Timeout(c) \/ Receive(c)

DaemonStep(d) == Take(d) \/ Reply(d)

ClientFault(c) ==
  \/ OpenFails(c) \/ SendInterrupted(c) \/ IoError(c)
  \/ \E pkt \in Strange : Stranger(c, pkt)

DaemonLife(d) == Start(d) \/ Bind(d) \/ Stop(d) \/ Crash(d)

Next ==
  \/ \E c \in Clients : Open(c) \/ ClientStep(c) \/ ClientFault(c)
  \/ \E d \in Daemons : DaemonStep(d) \/ DaemonLife(d)

Spec == Init /\ [][Next]_vars

\* The child and the daemon are scheduled.  Nobody is obliged to start a
\* daemon, to keep one running, or to begin a lookup.
FairSpec ==
  /\ Spec
  /\ \A c \in Clients : WF_vars(ClientStep(c))
  /\ \A d \in Daemons : WF_vars(DaemonStep(d)) /\ WF_vars(Bind(d))

-----------------------------------------------------------------------------
\* Types of the children's and the daemons' variables: the retry counter of
\* perdition_un_send_recv() in particular never becomes negative.
TypeOK ==
  /\ pc \in [Clients -> {"idle", "send", "wait"}]
  /\ lookup \in [Clients -> Nat]
  /\ msg \in [Clients -> Packets]
  /\ attempt \in [Clients -> Nat]
  /\ inbox \in [Clients -> Seq(Answers)]
  /\ result \in [Clients -> Results]
  /\ answer \in [Clients -> Packets]
  /\ refused \in [Clients -> Nat]
  /\ misled \in [Clients -> BOOLEAN]
  /\ state \in [Daemons -> {"down", "binding", "up"}]
  /\ queue \in [Daemons -> Seq(Requests)]
  /\ current \in [Daemons -> Seq(Requests)]
  /\ path \in Daemons \cup {None}

\* dbserver_get2() answers with what the daemon said about the key of this
\* call, although packets carry no request number, requests are repeated, and
\* answers may arrive when the child is already asking for another key.  One
\* history is excepted: recvfrom() put a request of some other process over the
\* call's own, "not from server, ignoring", and after a timeout the call itself
\* sent that one (unix_socket.c:160).
AnswerIsForTheKey ==
  \A c \in Clients :
    result[c] = "answer" => answer[c].key = Key(c) \/ misled[c]

\* The child gives up only after it found no daemon max_retry times in this
\* lookup: neither signals nor slow daemons use up its attempts.
GivesUpWhenRefused ==
  [][\A c \in Clients :
       pc[c] # "idle" /\ pc'[c] = "idle" /\ result'[c] = "gave_up"
         => refused[c] >= retry]_vars

\* Every lookup of a child returns, with the daemon's answer or without, when
\* the child and the daemon are scheduled and the daemon at last stays up or
\* stays down: requests that died with a daemon are sent again.  That needs one
\* child and one daemon at a time, with several the two can block in sendto()
\* on each other's queue, and no datagrams of other processes, which would take
\* the request's place in the buffer.  (perdition_un_send_recv())
LookupReturns ==
  (/\ \A d \in Daemons : <>[](state[d] = "up") \/ <>[](state[d] = "down")
   /\ [](\A d, e \in Daemons : state[d] = "up" /\ state[e] = "up" => d = e)
   /\ [](\A c \in Clients : \A n \in DOMAIN inbox[c] : inbox[c][n].daemon))
    => \A c \in Clients : pc[c] # "idle" ~> pc[c] = "idle"

-----------------------------------------------------------------------------
(* The daemon map is a MapService: of the datagrams there remains whether  *)
(* an answer for the call's key waits at the child's socket.               *)

Phase(c)   == IF pc[c] = "idle" THEN "idle" ELSE "asking"
Served(c)  == \E n \in DOMAIN inbox[c] :
                inbox[c][n].daemon /\ inbox[c][n].pkt.key = Key(c)
Outcome(c) == IF result[c] # "answer" THEN [how |-> result[c]]
              ELSE IF answer[c].key = Key(c) THEN [how |-> "answer", key |-> answer[c].key]
              ELSE [how |-> "mistaken"]

Service == INSTANCE MapService WITH
  Callers  <- Clients,
  patience <- retry,
  phase    <- [c \in Clients |-> Phase(c)],
  number   <- lookup,
  served   <- [c \in Clients |-> Served(c)],
  refusals <- refused,
  outcome  <- [c \in Clients |-> Outcome(c)]

\* dbserver_get2() and the daemon are a service as MapService promises it,
\* although datagrams are repeated, come late, and die with a daemon or a socket.
\* Datagrams of others do not end a call ("not from server, ignoring",
\* unix_socket.c); what they can do is mislead it.
ImplementsMapService == Service!ServiceSpec
=============================================================================
