--------------------------- MODULE MapDaemonProofs ---------------------------
(***************************************************************************)
(* What the daemon map guarantees for any number of children and daemons,  *)
(* lookups, retries and queued datagrams, proved with TLAPS.               *)
(*                                                                         *)
(* Packets carry no request number, so that an answer belongs to the key   *)
(* of the call is a fact about socket names: a request that is on its way  *)
(* asks for the key of the lookup whose socket it was sent from, unless    *)
(* another process's datagram has taken its place in the child's buffer.   *)
(***************************************************************************)
EXTENDS MapDaemon, TLAPS

\* a request was sent in the current or an earlier lookup, and that lookup, while it
\* lasts, has been misled if the request is not for its key
Honest(q) ==
  LET c == q.from.who
  IN /\ c \in Clients /\ q.from.n <= lookup[c]
     /\ q.from.n = lookup[c] /\ q.pkt.kind = "req" => q.pkt.key = q.from \/ misled[c]

TrueRequests == {q \in Requests : Honest(q)}

\* what may wait at the socket of a child that looks up key, and is misled or not
TrueAnswers(key, astray) ==
  {a \in Answers : a.daemon => a.pkt.kind = "rsp" /\ (a.pkt.key = key \/ astray)}

RequestsInv ==
  /\ queue \in [Daemons -> Seq(TrueRequests)]
  /\ current \in [Daemons -> Seq({q \in TrueRequests : q.pkt.kind = "req"})]

InboxInv ==
  \A c \in Clients :
    /\ pc[c] = "idle" => inbox[c] = <<>>
    /\ inbox[c] \in Seq(TrueAnswers(Key(c), misled[c]))

AttemptInv == \A c \in Clients : attempt[c] = refused[c]

\* Daemons send responses only, and what another process sends ends no lookup.
NothingMalformed ==
  \A c \in Clients : result[c] # "malformed"

\* the inductive invariant
IInv ==
  /\ TypeOK /\ RequestsInv /\ InboxInv /\ AttemptInv
  /\ AnswerIsForTheKey /\ NothingMalformed

-----------------------------------------------------------------------------
\* The first element of a nonempty sequence and the rest of it.
LEMMA HeadTail ==
  ASSUME NEW S, NEW s \in Seq(S), s # <<>>
  PROVE  Head(s) \in S /\ Tail(s) \in Seq(S)
  OBVIOUS

\* One more element at the end of a sequence.
LEMMA Appended ==
  ASSUME NEW S, NEW s \in Seq(S), NEW e \in S
  PROVE  Append(s, e) \in Seq(S)
  OBVIOUS

\* What a child asks for is well-typed.
LEMMA KeyTypes ==
  ASSUME TypeOK, NEW c \in Clients
  PROVE  /\ Key(c) \in Lookups /\ Socket(c) \in Lookups
         /\ Key(c) = Socket(c)
  BY DEF TypeOK, Key, Socket, SocketName, Lookups

\* Closing one child's socket ends its lookup and nobody else's.
LEMMA Closed ==
  ASSUME TypeOK, NEW c \in Clients, NEW how, Close(c, how)
  PROVE  /\ result'[c] = how
         /\ \A x \in Clients \ {c} : pc'[x] = pc[x]
  BY DEF TypeOK, Close

\* Initially nobody has asked anything.
LEMMA InitIInv == Init => IInv
<1> SUFFICES ASSUME Init PROVE IInv
  OBVIOUS
<1>1. TypeOK
  BY DEF Init, TypeOK, Request, Packets, Lookups, Results
<1>2. RequestsInv
  BY DEF Init, RequestsInv
<1>3. AttemptInv /\ AnswerIsForTheKey /\ NothingMalformed
  BY DEF Init, AttemptInv, AnswerIsForTheKey, NothingMalformed
<1>4. InboxInv
  BY DEF Init, InboxInv
<1> QED
  BY <1>1, <1>2, <1>3, <1>4 DEF IInv

\* Types after a step.
LEMMA TypeStep ==
  ASSUME IInv, [Next]_vars
  PROVE  TypeOK'
<1> USE ProcessesAssumption DEF IInv, TypeOK, client, daemon
<1>1. ASSUME NEW c \in Clients, Open(c)
      PROVE  TypeOK'
  <2>1. Request([who |-> c, n |-> lookup[c] + 1]) \in Packets
    BY DEF Request, Packets, Lookups
  <2>2. "none" \in Results
    BY DEF Results
  <2> QED
    BY <1>1, <2>1, <2>2 DEF Open
<1>2. ASSUME NEW c \in Clients, Send(c)
      PROVE  TypeOK'
  <2>1. [from |-> Socket(c), pkt |-> msg[c]] \in Requests
    BY KeyTypes DEF Requests
  <2> QED
    BY <1>2, <2>1, SMTT(30) DEF Send, Listening
<1>3. ASSUME NEW c \in Clients, SendRefused(c)
      PROVE  TypeOK'
  BY <1>3 DEF SendRefused
<1>4. ASSUME NEW c \in Clients, GiveUp(c)
      PROVE  TypeOK'
  <2>1. "gave_up" \in Results
    BY DEF Results
  <2> QED
    BY <1>4, <2>1 DEF GiveUp, Close
<1>5. ASSUME NEW c \in Clients, Timeout(c)
      PROVE  TypeOK'
  BY <1>5 DEF Timeout
<1>6. ASSUME NEW c \in Clients, Receive(c)
      PROVE  TypeOK'
  <2> DEFINE dg == Head(inbox[c])
  <2>1. dg \in Answers /\ Tail(inbox[c]) \in Seq(Answers)
    BY <1>6, HeadTail DEF Receive
  <2>2. dg.pkt \in Packets
    BY <2>1 DEF Answers
  <2>3. {"answer", "malformed"} \subseteq Results
    BY DEF Results
  <2>4. msg' \in [Clients -> Packets] /\ UNCHANGED <<lookup, misled, daemon>>
    BY <1>6, <2>2 DEF Receive
  <2>5. CASE FromServer(dg)
    <3>1. PICK how \in {"answer", "malformed"} : Close(c, how)
      BY <1>6, <2>5 DEF Receive
    <3> QED
      BY <2>3, <2>4, <3>1 DEF Close
  <2>6. CASE ~FromServer(dg)
    <3>1. inbox' = [inbox EXCEPT ![c] = Tail(@)]
      BY <1>6, <2>6 DEF Receive
    <3>2. UNCHANGED <<pc, result, answer, attempt, refused>>
      BY <1>6, <2>6 DEF Receive
    <3> QED
      BY <2>1, <2>4, <3>1, <3>2
  <2> QED
    BY <2>5, <2>6
<1>7. ASSUME NEW c \in Clients, OpenFails(c)
      PROVE  TypeOK'
  <2>1. "error" \in Results
    BY DEF Results
  <2> QED
    BY <1>7, <2>1 DEF OpenFails
<1>8. ASSUME NEW c \in Clients, SendInterrupted(c)
      PROVE  TypeOK'
  BY <1>8 DEF SendInterrupted, AfterInterrupt
<1>9. ASSUME NEW c \in Clients, IoError(c)
      PROVE  TypeOK'
  <2>1. "error" \in Results
    BY DEF Results
  <2> QED
    BY <1>9, <2>1 DEF IoError, Close
<1>10. ASSUME NEW c \in Clients, NEW pkt \in Strange, Stranger(c, pkt)
      PROVE  TypeOK'
  <2>1. <<[daemon |-> FALSE, pkt |-> pkt]>> \in Seq(Answers)
    BY StrangeAssumption DEF Answers
  <2> QED
    BY <1>10, <2>1 DEF Stranger
<1>11. ASSUME NEW d \in Daemons, Take(d)
      PROVE  TypeOK'
  <2>1. Head(queue[d]) \in Requests /\ Tail(queue[d]) \in Seq(Requests)
    BY <1>11, HeadTail DEF Take
  <2> QED
    BY <1>11, <2>1 DEF Take
<1>12. ASSUME NEW d \in Daemons, Reply(d)
      PROVE  TypeOK'
  <2> DEFINE rsp == [daemon |-> TRUE,
                     pkt |-> Response(Head(current[d]).pkt.key)]
  <2>1. Head(current[d]) \in Requests
    BY <1>12, HeadTail DEF Reply
  <2>2. rsp \in Answers
    BY <2>1 DEF Answers, Requests, Response, Packets
  <2>3. \/ UNCHANGED inbox
        \/ \E c \in Clients : inbox' = [inbox EXCEPT ![c] = Append(@, rsp)]
    <3>1. \/ UNCHANGED inbox
          \/ \E c \in Bound(Head(current[d]).from) : inbox' = [inbox EXCEPT ![c] = Append(@, rsp)]
      BY <1>12, Zenon DEF Reply
    <3>2. Bound(Head(current[d]).from) \subseteq Clients
      BY DEF Bound
    <3> HIDE DEF rsp
    <3> QED
      BY <3>1, <3>2, Zenon
  <2> HIDE DEF rsp
  <2>4. \A c \in Clients : Append(inbox[c], rsp) \in Seq(Answers)
    BY <2>2, Appended
  <2>5. inbox' \in [Clients -> Seq(Answers)]
    <3>1. inbox \in [Clients -> Seq(Answers)]
      BY DEF TypeOK
    <3>2. CASE UNCHANGED inbox
      BY <3>1, <3>2
    <3>3. ASSUME NEW c \in Clients, inbox' = [inbox EXCEPT ![c] = Append(@, rsp)]
          PROVE  inbox' \in [Clients -> Seq(Answers)]
      <4> DEFINE longer == Append(inbox[c], rsp)
      <4>1. longer \in Seq(Answers)
        BY <2>4
      <4>2. inbox' = [inbox EXCEPT ![c] = longer]
        BY <3>3
      <4> HIDE DEF longer
      <4> QED
        BY <3>1, <4>1, <4>2
    <3> QED
      BY <2>3, <3>2, <3>3
  <2> QED
    BY <1>12, <2>5 DEF Reply
<1>13. ASSUME NEW d \in Daemons, Start(d)
      PROVE  TypeOK'
  BY <1>13 DEF Start
<1>14. ASSUME NEW d \in Daemons, Bind(d)
      PROVE  TypeOK'
  BY <1>14 DEF Bind
<1>15. ASSUME NEW d \in Daemons, Stop(d)
      PROVE  TypeOK'
  BY <1>15 DEF Stop
<1>16. ASSUME NEW d \in Daemons, Crash(d)
      PROVE  TypeOK'
  BY <1>16 DEF Crash
<1>17. CASE UNCHANGED vars
  BY <1>17 DEF vars, client, daemon
<1> QED
  BY <1>1, <1>2, <1>3, <1>4, <1>5, <1>6, <1>7, <1>8, <1>9, <1>10, <1>11,
     <1>12, <1>13, <1>14, <1>15, <1>16, <1>17
  DEF Next, ClientStep, ClientFault, DaemonStep, DaemonLife

\* A child's lookups only follow one another, and none stops to be misled.
LEMMA Growth ==
  ASSUME TypeOK, [Next]_vars, NEW x \in Clients
  PROVE  \/ lookup'[x] = lookup[x] /\ (misled[x] => misled'[x])
         \/ lookup'[x] = lookup[x] + 1
<1> DEFINE G == \/ lookup'[x] = lookup[x] /\ (misled[x] => misled'[x])
                \/ lookup'[x] = lookup[x] + 1
<1> USE DEF TypeOK
<1>1. ASSUME NEW c \in Clients, Open(c) \/ OpenFails(c) PROVE G
  <2>1. /\ lookup' = [lookup EXCEPT ![c] = @ + 1]
        /\ misled' = [misled EXCEPT ![c] = FALSE]
    BY <1>1 DEF Open, OpenFails
  <2>2. CASE x = c
    BY <2>1, <2>2
  <2>3. CASE x # c
    BY <2>1, <2>3
  <2> QED
    BY <2>2, <2>3
<1>2. ASSUME NEW c \in Clients, Send(c) PROVE G
  <2>1. /\ lookup' = lookup
        /\ misled' = [misled EXCEPT ![c] = @ \/ (msg[c].kind = "req" /\ msg[c].key # Key(c))]
    BY <1>2 DEF Send
  <2>2. misled[x] => misled'[x]
    BY <2>1, Zenon
  <2> QED
    BY <2>1, <2>2
<1>3. CASE UNCHANGED <<lookup, misled>>
  BY <1>3
<1>4. ASSUME NEW c \in Clients,
             \/ SendRefused(c) \/ GiveUp(c) \/ Timeout(c) \/ Receive(c)
             \/ SendInterrupted(c) \/ IoError(c)
             \/ \E pkt \in Strange : Stranger(c, pkt)
      PROVE  UNCHANGED <<lookup, misled>>
  BY <1>4 DEF SendRefused, GiveUp, Timeout, Receive, SendInterrupted, IoError, Stranger
<1>5. ASSUME NEW d \in Daemons, DaemonStep(d) \/ DaemonLife(d)
      PROVE  UNCHANGED <<lookup, misled>>
  BY <1>5 DEF DaemonStep, DaemonLife, Take, Reply, Start, Bind, Stop, Crash, client
<1>6. CASE UNCHANGED vars
  BY <1>3, <1>6 DEF vars, client
<1> QED
  BY <1>1, <1>2, <1>3, <1>4, <1>5, <1>6 DEF Next, ClientStep, ClientFault

\* So a request that is on its way stays what it is.
LEMMA RequestsStay ==
  ASSUME TypeOK, [Next]_vars
  PROVE  TrueRequests \subseteq TrueRequests'
<1> SUFFICES ASSUME NEW q \in Requests, Honest(q) PROVE Honest(q)'
  BY DEF TrueRequests
<1> DEFINE c == q.from.who
<1>1. c \in Clients /\ q.from.n <= lookup[c] /\ q.from.n \in Nat /\ lookup[c] \in Nat
  BY DEF Honest, Requests, Lookups, TypeOK
<1>2. \/ lookup'[c] = lookup[c] /\ (misled[c] => misled'[c])
      \/ lookup'[c] = lookup[c] + 1
  BY <1>1, Growth
<1>3. q.from.n = lookup[c] /\ q.pkt.kind = "req" => q.pkt.key = q.from \/ misled[c]
  BY DEF Honest
<1> HIDE DEF c
<1>4. c \in Clients /\ q.from.n <= lookup'[c]
  BY <1>1, <1>2
<1>5. q.from.n = lookup'[c] /\ q.pkt.kind = "req" => q.pkt.key = q.from \/ misled'[c]
  <2>1. q.from.n = lookup'[c] => q.from.n = lookup[c] /\ (misled[c] => misled'[c])
    BY <1>1, <1>2
  <2> QED
    BY <1>3, <2>1
<1> QED
  BY <1>4, <1>5 DEF Honest, c

\* Sequences over a larger set.
LEMMA MoreSeqs ==
  ASSUME NEW S, NEW T, S \subseteq T
  PROVE  Seq(S) \subseteq Seq(T)
  OBVIOUS

\* Requests keep to the socket of the lookup that sent them.
LEMMA RequestsStep ==
  ASSUME IInv, [Next]_vars
  PROVE  RequestsInv'
<1> DEFINE Asked == {q \in TrueRequests : q.pkt.kind = "req"}
<1> USE DEF IInv
<1>1. Seq(TrueRequests) \subseteq Seq(TrueRequests') /\ Seq(Asked) \subseteq Seq(Asked')
  <2>1. TrueRequests \subseteq TrueRequests'
    BY RequestsStay
  <2>2. Asked \subseteq Asked'
    BY <2>1
  <2> HIDE DEF Asked
  <2> QED
    BY <2>1, <2>2, MoreSeqs, Zenon
<1>2. queue \in [Daemons -> Seq(TrueRequests)] /\ current \in [Daemons -> Seq(Asked)]
  BY DEF RequestsInv
<1>3. RequestsInv' <=>
        queue' \in [Daemons -> Seq(TrueRequests')] /\ current' \in [Daemons -> Seq(Asked')]
  BY DEF RequestsInv
<1> DEFINE SR == Seq(TrueRequests)
           SA == Seq(Asked)
           Later == queue' \in [Daemons -> SR] /\ current' \in [Daemons -> SA]
<1>4. ASSUME Later PROVE RequestsInv'
  <2> DEFINE SR2 == Seq(TrueRequests')
             SA2 == Seq(Asked')
  <2>1. SR \subseteq SR2 /\ SA \subseteq SA2
    BY <1>1
  <2>2. Later
    BY <1>4
  <2> HIDE DEF SR, SA, SR2, SA2, Asked
  <2>3. queue' \in [Daemons -> SR2] /\ current' \in [Daemons -> SA2]
    BY <2>1, <2>2
  <2> QED
    BY <1>3, <2>3 DEF SR2, SA2
<1>5. CASE UNCHANGED <<queue, current>>
  BY <1>2, <1>4, <1>5
<1>6. ASSUME NEW c \in Clients, Send(c) PROVE RequestsInv'
  <2> DEFINE e == [from |-> Socket(c), pkt |-> msg[c]]
  <2>1. ASSUME NEW q, q = e PROVE q \in TrueRequests'
    <3>1. q \in Requests
      BY <2>1, KeyTypes DEF Requests, TypeOK
    <3>2. /\ lookup' = lookup
          /\ misled' = [misled EXCEPT ![c] = @ \/ (msg[c].kind = "req" /\ msg[c].key # Key(c))]
      BY <1>6 DEF Send
    <3>3. /\ q.from.who = c /\ q.from.n = lookup[c] /\ q.pkt = msg[c] /\ q.from = Key(c)
          /\ lookup[c] \in Nat /\ misled \in [Clients -> BOOLEAN]
      BY <2>1 DEF Socket, SocketName, Key, TypeOK
    <3>4. msg[c].kind = "req" => msg[c].key = Key(c) \/ misled'[c]
      BY <3>2, <3>3, Zenon
    <3> HIDE DEF e
    <3>5. q.from.who \in Clients /\ q.from.n <= lookup'[q.from.who]
      BY <3>2, <3>3
    <3>6. q.pkt.kind = "req" => q.pkt.key = q.from \/ misled'[q.from.who]
      BY <3>3, <3>4
    <3>7. Honest(q)'
      BY <3>5, <3>6 DEF Honest
    <3> QED
      BY <3>1, <3>7 DEF TrueRequests
  <2>2. path \in Daemons /\ current' = current /\ queue' = [queue EXCEPT ![path] = Append(@, e)]
    BY <1>6 DEF Send, Listening, TypeOK
  <2> HIDE DEF e, Asked
  <2> DEFINE SR2 == Seq(TrueRequests')
             SA2 == Seq(Asked')
  <2>3. SR \subseteq SR2 /\ SA \subseteq SA2
    BY <1>1
  <2>4. Append(queue[path], e) \in SR2
    <3>1. queue[path] \in SR2
      BY <1>2, <2>2, <2>3
    <3> QED
      BY <2>1, <3>1, Appended
  <2>5. queue \in [Daemons -> SR] /\ current \in [Daemons -> SA]
    BY <1>2
  <2> HIDE DEF SR, SA, SR2, SA2
  <2>6. queue' \in [Daemons -> SR2] /\ current' \in [Daemons -> SA2]
    BY <2>2, <2>3, <2>4, <2>5
  <2> QED
    BY <1>3, <2>6 DEF SR2, SA2
<1>7. ASSUME NEW d \in Daemons, Take(d) PROVE RequestsInv'
  <2>1. Head(queue[d]) \in TrueRequests /\ Tail(queue[d]) \in SR
    BY <1>2, <1>7, HeadTail DEF Take
  <2>2. queue' \in [Daemons -> SR]
    BY <1>2, <1>7, <2>1 DEF Take
  <2>3. current' \in [Daemons -> SA]
    <3>1. CASE Head(queue[d]).pkt.kind = "req"
      <4>1. <<Head(queue[d])>> \in SA
        BY <2>1, <3>1
      <4>2. current' = [current EXCEPT ![d] = <<Head(queue[d])>>]
        BY <1>7, <3>1 DEF Take
      <4> HIDE DEF SA
      <4> QED
        BY <1>2, <4>1, <4>2 DEF SA
    <3>2. CASE Head(queue[d]).pkt.kind # "req"
      BY <1>2, <1>7, <3>2 DEF Take
    <3> QED
      BY <3>1, <3>2
  <2> QED
    BY <1>4, <2>2, <2>3
<1>8. ASSUME NEW d \in Daemons, Reply(d) \/ Stop(d) \/ Crash(d) PROVE RequestsInv'
  <2>1. Later
    <3>1. /\ queue' \in {queue, [queue EXCEPT ![d] = <<>>]}
          /\ current' = [current EXCEPT ![d] = <<>>]
      BY <1>8 DEF Reply, Stop, Crash
    <3>2. <<>> \in SR /\ <<>> \in SA
      OBVIOUS
    <3> HIDE DEF Asked
    <3> QED
      BY <1>2, <3>1, <3>2
  <2> QED
    BY <1>4, <2>1
<1>9. ASSUME NEW c \in Clients,
             \/ Open(c) \/ OpenFails(c) \/ SendRefused(c) \/ GiveUp(c) \/ Timeout(c)
             \/ Receive(c) \/ SendInterrupted(c) \/ IoError(c)
             \/ \E pkt \in Strange : Stranger(c, pkt)
      PROVE  UNCHANGED <<queue, current>>
  BY <1>9 DEF Open, OpenFails, SendRefused, GiveUp, Timeout, Receive, SendInterrupted,
              IoError, Stranger, daemon
<1>10. ASSUME NEW d \in Daemons, Start(d) \/ Bind(d) PROVE UNCHANGED <<queue, current>>
  BY <1>10 DEF Start, Bind
<1>11. CASE UNCHANGED vars
  BY <1>5, <1>11 DEF vars, daemon
<1> QED
  BY <1>5, <1>6, <1>7, <1>8, <1>9, <1>10, <1>11
  DEF Next, ClientStep, ClientFault, DaemonStep, DaemonLife

\* Answers wait at the socket of the lookup that they are for.
LEMMA InboxStep ==
  ASSUME IInv, [Next]_vars
  PROVE  InboxInv'
<1> USE DEF IInv, TypeOK, InboxInv, Key, client, daemon
<1>1. ASSUME NEW c \in Clients, Open(c)
      PROVE  InboxInv'
  <2>1. pc[c] = "idle" /\ inbox[c] = <<>>
    BY <1>1 DEF Open
  <2>2. /\ UNCHANGED inbox
        /\ \A x \in Clients \ {c} :
             pc'[x] = pc[x] /\ lookup'[x] = lookup[x] /\ misled'[x] = misled[x]
    BY <1>1 DEF Open
  <2>3. ASSUME NEW x \in Clients \ {c}
        PROVE  /\ pc'[x] = "idle" => inbox'[x] = <<>>
               /\ inbox'[x] \in Seq(TrueAnswers(Key(x)', misled'[x]))
    <3>1. Key(x)' = Key(x)
      BY <2>2
    <3>2. /\ pc[x] = "idle" => inbox[x] = <<>>
          /\ inbox[x] \in Seq(TrueAnswers(Key(x), misled[x]))
      OBVIOUS
    <3> QED
      BY <2>2, <3>1, <3>2, Zenon
  <2>4. inbox'[c] \in Seq(TrueAnswers(Key(c)', misled'[c]))
    BY <2>1, <2>2
  <2> QED
    BY <2>1, <2>2, <2>3, <2>4, Zenon
<1>2. ASSUME NEW c \in Clients, Send(c)
      PROVE  InboxInv'
  <2> SUFFICES ASSUME NEW x \in Clients
               PROVE  /\ pc'[x] = "idle" => inbox'[x] = <<>>
                      /\ inbox'[x] \in Seq(TrueAnswers(Key(x)', misled'[x]))
    OBVIOUS
  <2>1. UNCHANGED <<lookup, inbox>> /\ (pc'[x] = "idle" => pc[x] = "idle")
    BY <1>2 DEF Send
  <2>2. misled[x] => misled'[x]
    BY <1>2, Zenon DEF Send
  <2>3. TrueAnswers(Key(x), misled[x]) \subseteq TrueAnswers(Key(x)', misled'[x])
    BY <2>1, <2>2 DEF TrueAnswers
  <2>4. inbox[x] \in Seq(TrueAnswers(Key(x)', misled'[x]))
    BY <2>3, MoreSeqs
  <2> QED
    BY <2>1, <2>4
<1>3. ASSUME NEW c \in Clients, SendRefused(c)
      PROVE  InboxInv'
  BY <1>3 DEF SendRefused
<1>4. ASSUME NEW c \in Clients, GiveUp(c)
      PROVE  InboxInv'
  BY <1>4 DEF GiveUp, Close
<1>5. ASSUME NEW c \in Clients, Timeout(c)
      PROVE  InboxInv'
  BY <1>5 DEF Timeout
<1>6. ASSUME NEW c \in Clients, Receive(c)
      PROVE  InboxInv'
  <2>1. CASE FromServer(Head(inbox[c]))
    <3>1. PICK how \in {"answer", "malformed"} : Close(c, how)
      BY <1>6, <2>1 DEF Receive
    <3>2. UNCHANGED <<lookup, misled>>
      BY <1>6 DEF Receive
    <3> QED
      BY <3>1, <3>2 DEF Close
  <2>2. CASE ~FromServer(Head(inbox[c]))
    <3>1. Tail(inbox[c]) \in Seq(TrueAnswers(Key(c), misled[c]))
      BY <1>6, HeadTail DEF Receive
    <3> QED
      BY <1>6, <2>2, <3>1 DEF Receive
  <2> QED
    BY <2>1, <2>2
<1>7. ASSUME NEW c \in Clients, OpenFails(c)
      PROVE  InboxInv'
  <2>1. pc[c] = "idle" /\ inbox[c] = <<>>
    BY <1>7 DEF OpenFails
  <2>2. /\ UNCHANGED inbox
        /\ \A x \in Clients \ {c} :
             pc'[x] = pc[x] /\ lookup'[x] = lookup[x] /\ misled'[x] = misled[x]
    BY <1>7 DEF OpenFails
  <2>3. ASSUME NEW x \in Clients \ {c}
        PROVE  /\ pc'[x] = "idle" => inbox'[x] = <<>>
               /\ inbox'[x] \in Seq(TrueAnswers(Key(x)', misled'[x]))
    <3>1. Key(x)' = Key(x)
      BY <2>2
    <3>2. /\ pc[x] = "idle" => inbox[x] = <<>>
          /\ inbox[x] \in Seq(TrueAnswers(Key(x), misled[x]))
      OBVIOUS
    <3> QED
      BY <2>2, <3>1, <3>2, Zenon
  <2>4. inbox'[c] \in Seq(TrueAnswers(Key(c)', misled'[c]))
    BY <2>1, <2>2
  <2> QED
    BY <2>1, <2>2, <2>3, <2>4, Zenon
<1>8. ASSUME NEW c \in Clients, SendInterrupted(c)
      PROVE  InboxInv'
  BY <1>8 DEF SendInterrupted, AfterInterrupt
<1>9. ASSUME NEW c \in Clients, IoError(c)
      PROVE  InboxInv'
  BY <1>9 DEF IoError, Close
<1>10. ASSUME NEW c \in Clients, NEW pkt \in Strange, Stranger(c, pkt)
      PROVE  InboxInv'
  <2>1. [daemon |-> FALSE, pkt |-> pkt] \in TrueAnswers(Key(c), misled[c])
    BY StrangeAssumption DEF TrueAnswers, Answers
  <2>2. <<[daemon |-> FALSE, pkt |-> pkt]>> \in Seq(TrueAnswers(Key(c), misled[c]))
    BY <2>1
  <2> QED
    BY <1>10, <2>2 DEF Stranger
<1>11. ASSUME NEW d \in Daemons, Take(d)
      PROVE  InboxInv'
  BY <1>11 DEF Take
<1>12. ASSUME NEW d \in Daemons, Reply(d)
      PROVE  InboxInv'
  <2> DEFINE req == Head(current[d])
             rsp == [daemon |-> TRUE, pkt |-> Response(req.pkt.key)]
  <2>1. req \in TrueRequests /\ req.pkt.kind = "req"
    <3> DEFINE S == {q \in TrueRequests : q.pkt.kind = "req"}
    <3>1. current[d] \in Seq(S) /\ current[d] # <<>>
      BY <1>12 DEF Reply, RequestsInv
    <3>2. req \in S
      BY <3>1, HeadTail
    <3> QED
      BY <3>2
  <2>2. UNCHANGED <<pc, lookup, misled>>
    BY <1>12 DEF Reply
  <2>3. CASE UNCHANGED inbox
    BY <2>2, <2>3
  <2>4. ASSUME NEW c \in Bound(req.from),
               inbox' = [inbox EXCEPT ![c] = Append(@, rsp)]
        PROVE  InboxInv'
    <3>1. c \in Clients /\ pc[c] # "idle" /\ Key(c) = req.from
      BY <2>4, KeyTypes DEF Bound
    <3>2. rsp \in TrueAnswers(Key(c), misled[c])
      <4>1. req \in Requests /\ req.from.who = c /\ req.from.n = lookup[c]
        BY <2>1, <3>1 DEF TrueRequests
      <4>2. req.pkt.key = Key(c) \/ misled[c]
        BY <2>1, <3>1, <4>1 DEF TrueRequests, Honest
      <4>3. rsp \in Answers
        BY <4>1 DEF Requests, Answers, Response, Packets
      <4> QED
        BY <4>2, <4>3 DEF TrueAnswers, Response
    <3>3. inbox' = [inbox EXCEPT ![c] = Append(@, rsp)]
      BY <2>4
    <3> HIDE DEF rsp
    <3>4. Append(inbox[c], rsp) \in Seq(TrueAnswers(Key(c), misled[c]))
      BY <3>1, <3>2, Appended
    <3> QED
      BY <2>2, <3>1, <3>3, <3>4
  <2> QED
    BY <1>12, <2>3, <2>4 DEF Reply
<1>13. ASSUME NEW d \in Daemons, Start(d)
      PROVE  InboxInv'
  BY <1>13 DEF Start
<1>14. ASSUME NEW d \in Daemons, Bind(d)
      PROVE  InboxInv'
  BY <1>14 DEF Bind
<1>15. ASSUME NEW d \in Daemons, Stop(d)
      PROVE  InboxInv'
  BY <1>15 DEF Stop
<1>16. ASSUME NEW d \in Daemons, Crash(d)
      PROVE  InboxInv'
  BY <1>16 DEF Crash
<1>17. CASE UNCHANGED vars
  BY <1>17 DEF vars, client, daemon
<1> HIDE DEF InboxInv, TypeOK, Key
<1> QED
  BY <1>1, <1>2, <1>3, <1>4, <1>5, <1>6, <1>7, <1>8, <1>9, <1>10, <1>11,
     <1>12, <1>13, <1>14, <1>15, <1>16, <1>17
  DEF Next, ClientStep, ClientFault, DaemonStep, DaemonLife

\* attempt counts refusals and nothing else.
LEMMA AttemptStep ==
  ASSUME IInv, [Next]_vars
  PROVE  AttemptInv'
<1> USE DEF IInv, TypeOK, AttemptInv, client, daemon
<1>1. ASSUME NEW c \in Clients, Open(c)
      PROVE  AttemptInv'
  BY <1>1 DEF Open
<1>2. ASSUME NEW c \in Clients, Send(c)
      PROVE  AttemptInv'
  BY <1>2 DEF Send
<1>3. ASSUME NEW c \in Clients, SendRefused(c)
      PROVE  AttemptInv'
  BY <1>3 DEF SendRefused
<1>4. ASSUME NEW c \in Clients, GiveUp(c)
      PROVE  AttemptInv'
  BY <1>4 DEF GiveUp, Close
<1>5. ASSUME NEW c \in Clients, Timeout(c)
      PROVE  AttemptInv'
  BY <1>5 DEF Timeout
<1>6. ASSUME NEW c \in Clients, Receive(c)
      PROVE  AttemptInv'
  <2>1. CASE FromServer(Head(inbox[c]))
    <3>1. PICK how \in {"answer", "malformed"} : Close(c, how)
      BY <1>6, <2>1 DEF Receive
    <3> QED
      BY <3>1 DEF Close
  <2>2. CASE ~FromServer(Head(inbox[c]))
    BY <1>6, <2>2 DEF Receive
  <2> QED
    BY <2>1, <2>2
<1>7. ASSUME NEW c \in Clients, OpenFails(c)
      PROVE  AttemptInv'
  BY <1>7 DEF OpenFails
<1>8. ASSUME NEW c \in Clients, SendInterrupted(c)
      PROVE  AttemptInv'
  BY <1>8 DEF SendInterrupted, AfterInterrupt
<1>9. ASSUME NEW c \in Clients, IoError(c)
      PROVE  AttemptInv'
  BY <1>9 DEF IoError, Close
<1>10. ASSUME NEW c \in Clients, NEW pkt \in Strange, Stranger(c, pkt)
      PROVE  AttemptInv'
  BY <1>10 DEF Stranger
<1>11. ASSUME NEW d \in Daemons, Take(d)
      PROVE  AttemptInv'
  BY <1>11 DEF Take
<1>12. ASSUME NEW d \in Daemons, Reply(d)
      PROVE  AttemptInv'
  BY <1>12 DEF Reply
<1>13. ASSUME NEW d \in Daemons, Start(d)
      PROVE  AttemptInv'
  BY <1>13 DEF Start
<1>14. ASSUME NEW d \in Daemons, Bind(d)
      PROVE  AttemptInv'
  BY <1>14 DEF Bind
<1>15. ASSUME NEW d \in Daemons, Stop(d)
      PROVE  AttemptInv'
  BY <1>15 DEF Stop
<1>16. ASSUME NEW d \in Daemons, Crash(d)
      PROVE  AttemptInv'
  BY <1>16 DEF Crash
<1>17. CASE UNCHANGED vars
  BY <1>17 DEF vars, client, daemon
<1> QED
  BY <1>1, <1>2, <1>3, <1>4, <1>5, <1>6, <1>7, <1>8, <1>9, <1>10, <1>11,
     <1>12, <1>13, <1>14, <1>15, <1>16, <1>17
  DEF Next, ClientStep, ClientFault, DaemonStep, DaemonLife

\* An answer that is accepted came from a daemon, for the key if the call asked for it.
LEMMA AnswerStep ==
  ASSUME IInv, [Next]_vars
  PROVE  AnswerIsForTheKey' /\ NothingMalformed'
<1> USE DEF IInv, TypeOK, AnswerIsForTheKey, NothingMalformed, Key,
       client, daemon
<1>1. ASSUME NEW c \in Clients, Open(c)
      PROVE  AnswerIsForTheKey' /\ NothingMalformed'
  BY <1>1 DEF Open
<1>2. ASSUME NEW c \in Clients, Send(c)
      PROVE  AnswerIsForTheKey' /\ NothingMalformed'
  BY <1>2 DEF Send
<1>3. ASSUME NEW c \in Clients, SendRefused(c)
      PROVE  AnswerIsForTheKey' /\ NothingMalformed'
  BY <1>3 DEF SendRefused
<1>4. ASSUME NEW c \in Clients, GiveUp(c)
      PROVE  AnswerIsForTheKey' /\ NothingMalformed'
  BY <1>4 DEF GiveUp, Close
<1>5. ASSUME NEW c \in Clients, Timeout(c)
      PROVE  AnswerIsForTheKey' /\ NothingMalformed'
  BY <1>5 DEF Timeout
<1>6. ASSUME NEW c \in Clients, Receive(c)
      PROVE  AnswerIsForTheKey' /\ NothingMalformed'
  <2>1. Head(inbox[c]) \in TrueAnswers(Key(c), misled[c])
    BY <1>6, HeadTail DEF Receive, InboxInv
  <2>2. CASE FromServer(Head(inbox[c]))
    <3>1. /\ Head(inbox[c]).pkt.kind = "rsp"
          /\ Head(inbox[c]).pkt.key = Key(c) \/ misled[c]
      BY <2>1, <2>2 DEF FromServer, TrueAnswers
    <3>2. Close(c, "answer") /\ UNCHANGED <<lookup, misled>>
      BY <1>6, <2>2, <3>1 DEF Receive
    <3>3. msg'[c] = Head(inbox[c]).pkt
      BY <1>6 DEF Receive
    <3> QED
      BY <3>1, <3>2, <3>3 DEF Close
  <2>3. CASE ~FromServer(Head(inbox[c]))
    BY <1>6, <2>3 DEF Receive
  <2> QED
    BY <2>2, <2>3
<1>7. ASSUME NEW c \in Clients, OpenFails(c)
      PROVE  AnswerIsForTheKey' /\ NothingMalformed'
  BY <1>7 DEF OpenFails
<1>8. ASSUME NEW c \in Clients, SendInterrupted(c)
      PROVE  AnswerIsForTheKey' /\ NothingMalformed'
  BY <1>8 DEF SendInterrupted, AfterInterrupt
<1>9. ASSUME NEW c \in Clients, IoError(c)
      PROVE  AnswerIsForTheKey' /\ NothingMalformed'
  BY <1>9 DEF IoError, Close
<1>10. ASSUME NEW c \in Clients, NEW pkt \in Strange, Stranger(c, pkt)
      PROVE  AnswerIsForTheKey' /\ NothingMalformed'
  BY <1>10 DEF Stranger
<1>11. ASSUME NEW d \in Daemons, Take(d)
      PROVE  AnswerIsForTheKey' /\ NothingMalformed'
  BY <1>11 DEF Take
<1>12. ASSUME NEW d \in Daemons, Reply(d)
      PROVE  AnswerIsForTheKey' /\ NothingMalformed'
  BY <1>12 DEF Reply
<1>13. ASSUME NEW d \in Daemons, Start(d)
      PROVE  AnswerIsForTheKey' /\ NothingMalformed'
  BY <1>13 DEF Start
<1>14. ASSUME NEW d \in Daemons, Bind(d)
      PROVE  AnswerIsForTheKey' /\ NothingMalformed'
  BY <1>14 DEF Bind
<1>15. ASSUME NEW d \in Daemons, Stop(d)
      PROVE  AnswerIsForTheKey' /\ NothingMalformed'
  BY <1>15 DEF Stop
<1>16. ASSUME NEW d \in Daemons, Crash(d)
      PROVE  AnswerIsForTheKey' /\ NothingMalformed'
  BY <1>16 DEF Crash
<1>17. CASE UNCHANGED vars
  BY <1>17 DEF vars, client, daemon
<1> QED
  BY <1>1, <1>2, <1>3, <1>4, <1>5, <1>6, <1>7, <1>8, <1>9, <1>10, <1>11,
     <1>12, <1>13, <1>14, <1>15, <1>16, <1>17
  DEF Next, ClientStep, ClientFault, DaemonStep, DaemonLife

-----------------------------------------------------------------------------
\* The inductive invariant holds in every reachable state.
THEOREM Invariance == Spec => []IInv
<1>1. IInv /\ [Next]_vars => IInv'
  BY TypeStep, RequestsStep, InboxStep, AttemptStep, AnswerStep
  DEF IInv
<1> QED
  BY InitIInv, <1>1, PTL DEF Spec

\* Every variable of the exchange keeps its type, for any number of children
\* and daemons.
THEOREM TypeCorrect == Spec => []TypeOK
<1>1. IInv => TypeOK
  BY DEF IInv
<1> QED
  BY Invariance, <1>1, PTL

\* dbserver_get2() never returns the answer to another call, although answers
\* are late, repeated, and carry no number: the sockets keep them apart.  The
\* exception is a call that itself sent a request which some other process put
\* over its own ("not from server, ignoring", unix_socket.c:160).
THEOREM AnswersMatch == Spec => []AnswerIsForTheKey
<1>1. IInv => AnswerIsForTheKey
  BY DEF IInv
<1> QED
  BY Invariance, <1>1, PTL

\* perdition_un_send_recv() gives up only after max_retry refusals of the same
\* lookup, whatever signals and timeouts came between them.
THEOREM GivingUp == Spec => GivesUpWhenRefused
<1> DEFINE P(c) == pc[c] # "idle" /\ pc'[c] = "idle" /\ result'[c] = "gave_up"
                     => refused[c] >= retry
<1>1. ASSUME IInv, [Next]_vars
      PROVE  [\A c \in Clients : P(c)]_vars
  <2> SUFFICES ASSUME NEW x \in Clients PROVE P(x) \/ UNCHANGED vars
    OBVIOUS
  <2> USE <1>1 DEF IInv, TypeOK, AttemptInv, client, daemon
  <2>1. ASSUME NEW c \in Clients, Open(c)
        PROVE  P(x)
    BY <2>1 DEF Open
  <2>2. ASSUME NEW c \in Clients, Send(c)
        PROVE  P(x)
    BY <2>2 DEF Send
  <2>3. ASSUME NEW c \in Clients, SendRefused(c)
        PROVE  P(x)
    BY <2>3 DEF SendRefused
  <2>4. ASSUME NEW c \in Clients, GiveUp(c)
        PROVE  P(x)
    BY <2>4, ProcessesAssumption, Closed DEF GiveUp
  <2>5. ASSUME NEW c \in Clients, Timeout(c)
        PROVE  P(x)
    BY <2>5 DEF Timeout
  <2>6. ASSUME NEW c \in Clients, Receive(c)
        PROVE  P(x)
    <3>1. CASE FromServer(Head(inbox[c]))
      <4>1. PICK how \in {"answer", "malformed"} : Close(c, how)
        BY <2>6, <3>1 DEF Receive
      <4> QED
        BY <4>1, Closed
    <3>2. CASE ~FromServer(Head(inbox[c]))
      BY <2>6, <3>2 DEF Receive
    <3> QED
      BY <3>1, <3>2
  <2>7. ASSUME NEW c \in Clients, OpenFails(c)
        PROVE  P(x)
    BY <2>7 DEF OpenFails
  <2>8. ASSUME NEW c \in Clients, SendInterrupted(c)
        PROVE  P(x)
    BY <2>8 DEF SendInterrupted, AfterInterrupt
  <2>9. ASSUME NEW c \in Clients, IoError(c)
        PROVE  P(x)
    BY <2>9, Closed DEF IoError
  <2>10. ASSUME NEW c \in Clients, NEW pkt \in Strange, Stranger(c, pkt)
        PROVE  P(x)
    BY <2>10 DEF Stranger
  <2>11. ASSUME NEW d \in Daemons, Take(d)
        PROVE  P(x)
    BY <2>11 DEF Take
  <2>12. ASSUME NEW d \in Daemons, Reply(d)
        PROVE  P(x)
    BY <2>12 DEF Reply
  <2>13. ASSUME NEW d \in Daemons, Start(d)
        PROVE  P(x)
    BY <2>13 DEF Start
  <2>14. ASSUME NEW d \in Daemons, Bind(d)
        PROVE  P(x)
    BY <2>14 DEF Bind
  <2>15. ASSUME NEW d \in Daemons, Stop(d)
        PROVE  P(x)
    BY <2>15 DEF Stop
  <2>16. ASSUME NEW d \in Daemons, Crash(d)
        PROVE  P(x)
    BY <2>16 DEF Crash
  <2>17. CASE UNCHANGED vars
    BY <2>17
  <2> QED
    BY <1>1, <2>1, <2>2, <2>3, <2>4, <2>5, <2>6, <2>7, <2>8, <2>9,
       <2>10, <2>11, <2>12, <2>13, <2>14, <2>15, <2>16, <2>17
    DEF Next, ClientStep, ClientFault, DaemonStep, DaemonLife
<1>2. IInv /\ [Next]_vars => [\A c \in Clients : P(c)]_vars
  BY <1>1
<1> QED
  BY Invariance, <1>2, PTL DEF Spec, GivesUpWhenRefused

-----------------------------------------------------------------------------
(* The daemon map implements MapService.                                   *)

\* A child's step that changes nothing of the service.
LEMMA Unseen ==
  ASSUME \A x \in Clients : /\ Phase(x)' = Phase(x) /\ Served(x)' = Served(x)
                            /\ Outcome(x)' = Outcome(x),
         UNCHANGED <<lookup, refused, misled>>
  PROVE  UNCHANGED Service!svars
<1>1. /\ [x \in Clients |-> Phase(x)]' = [x \in Clients |-> Phase(x)]
      /\ [x \in Clients |-> Served(x)]' = [x \in Clients |-> Served(x)]
      /\ [x \in Clients |-> Outcome(x)]' = [x \in Clients |-> Outcome(x)]
  OBVIOUS
<1> QED
  BY <1>1 DEF Service!svars

\* The end of a lookup: the call returns how the lookup ended.
LEMMA CloseReturns ==
  ASSUME TypeOK, NEW c \in Clients, pc[c] # "idle", NEW how, Close(c, how),
         UNCHANGED <<lookup, misled>>, NEW outcome,
         outcome = IF how # "answer" THEN [how |-> how]
                   ELSE IF msg'[c].key = Key(c) THEN [how |-> "answer", key |-> msg'[c].key]
                   ELSE [how |-> "mistaken"],
         outcome = [how |-> "gave_up"] => refused[c] >= retry,
         outcome = Service!Answered(c) => Served(c),
         outcome = Service!Mistaken => misled[c]
  PROVE  Service!Return(c, outcome)
<1>1. /\ Phase(c) = "asking" /\ Phase(c)' = "idle"
      /\ \A x \in Clients \ {c} : Phase(x)' = Phase(x)
  BY DEF Close, Phase, TypeOK
<1>2. [x \in Clients |-> Phase(x)]' = [[x \in Clients |-> Phase(x)] EXCEPT ![c] = "idle"]
  BY <1>1
<1>3. /\ Served(c)' = FALSE
      /\ \A x \in Clients \ {c} : Served(x)' = Served(x)
  BY DEF Close, Served, TypeOK, Key
<1>4. [x \in Clients |-> Served(x)]' = [[x \in Clients |-> Served(x)] EXCEPT ![c] = FALSE]
  BY <1>3
<1>5. /\ Outcome(c)' = outcome
      /\ \A x \in Clients \ {c} : Outcome(x)' = Outcome(x)
  <2>1. /\ result'[c] = how /\ answer'[c] = msg'[c]
        /\ \A x \in Clients \ {c} : result'[x] = result[x] /\ answer'[x] = answer[x]
    BY DEF Close, TypeOK
  <2>2. \A x \in Clients : Key(x)' = Key(x)
    BY DEF Key
  <2>3. Outcome(c)' = outcome
    BY <2>1, <2>2 DEF Outcome
  <2>4. ASSUME NEW x \in Clients \ {c} PROVE Outcome(x)' = Outcome(x)
    BY <2>1, <2>2 DEF Outcome
  <2> QED
    BY <2>3, <2>4
<1>6. [x \in Clients |-> Outcome(x)]' = [[x \in Clients |-> Outcome(x)] EXCEPT ![c] = outcome]
  BY <1>5
<1>7. refused' = [refused EXCEPT ![c] = 0]
  BY DEF Close
<1> QED
  BY <1>1, <1>2, <1>4, <1>6, <1>7 DEF Service!Return, Service!Failed

\* Reading a datagram that is ignored takes no answer out of the queue.
LEMMA TailKeepsDaemon ==
  ASSUME NEW s \in Seq(Answers), s # <<>>, ~Head(s).daemon, NEW k
  PROVE  (\E n \in DOMAIN Tail(s) : Tail(s)[n].daemon /\ Tail(s)[n].pkt.key = k)
           <=> \E n \in DOMAIN s : s[n].daemon /\ s[n].pkt.key = k
<1> DEFINE P(a) == a.daemon /\ a.pkt.key = k
<1>1. /\ Len(s) \in Nat \ {0} /\ DOMAIN s = 1 .. Len(s) /\ ~P(s[1])
      /\ DOMAIN Tail(s) = 1 .. Len(s) - 1
      /\ \A n \in 1 .. Len(s) - 1 : Tail(s)[n] = s[n + 1]
  OBVIOUS
<1> HIDE DEF P
<1>2. ASSUME NEW n \in DOMAIN s, P(s[n]) PROVE \E m \in DOMAIN Tail(s) : P(Tail(s)[m])
  <2>1. n # 1 /\ n - 1 \in DOMAIN Tail(s)
    BY <1>1, <1>2
  <2>2. Tail(s)[n - 1] = s[n]
    BY <1>1, <2>1
  <2> QED
    BY <1>2, <2>1, <2>2
<1>3. ASSUME NEW n \in DOMAIN Tail(s), P(Tail(s)[n]) PROVE \E m \in DOMAIN s : P(s[m])
  <2>1. n + 1 \in DOMAIN s
    BY <1>1
  <2> QED
    BY <1>1, <1>3, <2>1
<1>4. (\E n \in DOMAIN Tail(s) : P(Tail(s)[n])) <=> \E n \in DOMAIN s : P(s[n])
  BY <1>2, <1>3
<1> QED
  BY <1>4 DEF P

\* One more datagram answers a call if it is the daemon's for the call's key, and
\* otherwise leaves the call as it is.
LEMMA AppendedDaemon ==
  ASSUME NEW s \in Seq(Answers), NEW e, e.daemon, NEW k
  PROVE  (\E n \in DOMAIN Append(s, e) : Append(s, e)[n].daemon /\ Append(s, e)[n].pkt.key = k)
           <=> e.pkt.key = k \/ \E n \in DOMAIN s : s[n].daemon /\ s[n].pkt.key = k
<1> DEFINE P(a) == a.daemon /\ a.pkt.key = k
<1>1. /\ Len(s) \in Nat /\ DOMAIN s = 1 .. Len(s)
      /\ DOMAIN Append(s, e) = 1 .. Len(s) + 1
      /\ Append(s, e)[Len(s) + 1] = e
      /\ \A n \in 1 .. Len(s) : Append(s, e)[n] = s[n]
  OBVIOUS
<1>2. P(e) <=> e.pkt.key = k
  OBVIOUS
<1> HIDE DEF P
<1>3. (\E n \in DOMAIN Append(s, e) : P(Append(s, e)[n])) <=> P(e) \/ \E n \in DOMAIN s : P(s[n])
  BY <1>1
<1> QED
  BY <1>2, <1>3 DEF P

\* A step of a child is a step of its call, or none that the service shows.
LEMMA ClientRefines ==
  ASSUME IInv, NEW c \in Clients, Open(c) \/ ClientStep(c) \/ ClientFault(c)
  PROVE  Service!ServiceNext \/ UNCHANGED Service!svars
<1> USE DEF IInv
<1>1. CASE Open(c)
  <2>1. /\ Phase(c) = "idle" /\ Phase(c)' = "asking"
        /\ \A x \in Clients \ {c} : Phase(x)' = Phase(x)
    BY <1>1 DEF Open, Phase, TypeOK
  <2>2. [x \in Clients |-> Phase(x)]' = [[x \in Clients |-> Phase(x)] EXCEPT ![c] = "asking"]
    BY <2>1
  <2>3. /\ Outcome(c)' = Service!Failed("none")
        /\ \A x \in Clients \ {c} : Outcome(x)' = Outcome(x)
    <3>1. \A x \in Clients \ {c} : Key(x)' = Key(x) /\ result'[x] = result[x]
      BY <1>1 DEF Open, Key, TypeOK
    <3>2. result'[c] = "none" /\ answer' = answer
      BY <1>1 DEF Open, TypeOK
    <3> QED
      BY <3>1, <3>2 DEF Outcome, Service!Failed
  <2>4. [x \in Clients |-> Outcome(x)]'
          = [[x \in Clients |-> Outcome(x)] EXCEPT ![c] = Service!Failed("none")]
    BY <2>3
  <2>5. [x \in Clients |-> Served(x)]' = [x \in Clients |-> Served(x)]
    <3>1. inbox[c] = <<>> /\ inbox' = inbox
      BY <1>1 DEF Open, InboxInv
    <3>2. \A x \in Clients \ {c} : Key(x)' = Key(x)
      BY <1>1 DEF Open, Key, TypeOK
    <3>3. \A x \in Clients : Served(x)' = Served(x)
      BY <3>1, <3>2 DEF Served
    <3> QED
      BY <3>3
  <2>6. Service!Call(c)
    BY <1>1, <2>1, <2>2, <2>4, <2>5 DEF Open, Service!Call
  <2> QED
    BY <2>6 DEF Service!ServiceNext
<1>2. CASE OpenFails(c)
  <2>1. Phase(c) = "idle" /\ [x \in Clients |-> Phase(x)]' = [x \in Clients |-> Phase(x)]
    BY <1>2 DEF OpenFails, Phase
  <2>2. /\ Outcome(c)' = Service!Failed("error")
        /\ \A x \in Clients \ {c} : Outcome(x)' = Outcome(x)
    <3>1. \A x \in Clients \ {c} : Key(x)' = Key(x) /\ result'[x] = result[x]
      BY <1>2 DEF OpenFails, Key, TypeOK
    <3>2. result'[c] = "error" /\ answer' = answer
      BY <1>2 DEF OpenFails, TypeOK
    <3> QED
      BY <3>1, <3>2 DEF Outcome, Service!Failed
  <2>3. [x \in Clients |-> Outcome(x)]'
          = [[x \in Clients |-> Outcome(x)] EXCEPT ![c] = Service!Failed("error")]
    BY <2>2
  <2>4. [x \in Clients |-> Served(x)]' = [x \in Clients |-> Served(x)]
    <3>1. inbox[c] = <<>> /\ inbox' = inbox
      BY <1>2 DEF OpenFails, InboxInv
    <3>2. \A x \in Clients \ {c} : Key(x)' = Key(x)
      BY <1>2 DEF OpenFails, Key, TypeOK
    <3>3. \A x \in Clients : Served(x)' = Served(x)
      BY <3>1, <3>2 DEF Served
    <3> QED
      BY <3>3
  <2>5. Service!CallFails(c)
    BY <1>2, <2>1, <2>3, <2>4 DEF OpenFails, Service!CallFails
  <2> QED
    BY <2>5 DEF Service!ServiceNext
<1>3. CASE Send(c) \/ SendInterrupted(c) \/ Timeout(c)
  <2>1. pc[c] # "idle" /\ \A x \in Clients : Phase(x)' = Phase(x)
    BY <1>3 DEF Send, SendInterrupted, Timeout, Phase, TypeOK
  <2>2. UNCHANGED <<lookup, inbox, result, answer, refused>>
    BY <1>3 DEF Send, SendInterrupted, Timeout
  <2>3. \A x \in Clients : Served(x)' = Served(x) /\ Outcome(x)' = Outcome(x)
    BY <2>2 DEF Served, Outcome, Key
  <2>4. misled' = misled \/ misled' = [misled EXCEPT ![c] = TRUE]
    <3>1. CASE ~Send(c)
      BY <1>3, <3>1 DEF SendInterrupted, Timeout
    <3>2. CASE Send(c)
      <4> DEFINE wrong == msg[c].kind = "req" /\ msg[c].key # Key(c)
      <4>1. misled' = [misled EXCEPT ![c] = misled[c] \/ wrong]
        BY <3>2 DEF Send
      <4> HIDE DEF wrong
      <4>2. misled \in [Clients -> BOOLEAN]
        BY DEF TypeOK
      <4>3. (misled[c] \/ wrong) = TRUE \/ (misled[c] \/ wrong) = misled[c]
        BY <4>2, Zenon
      <4>4. misled = [misled EXCEPT ![c] = misled[c]]
        BY <4>2
      <4> QED
        BY <4>1, <4>3, <4>4, Zenon
    <3> QED
      BY <3>1, <3>2
  <2>5. CASE misled' = misled
    BY <2>1, <2>2, <2>3, <2>5, Unseen
  <2>6. CASE misled' = [misled EXCEPT ![c] = TRUE]
    <3>1. /\ Phase(c) = "asking"
          /\ [x \in Clients |-> Phase(x)]' = [x \in Clients |-> Phase(x)]
          /\ [x \in Clients |-> Served(x)]' = [x \in Clients |-> Served(x)]
          /\ [x \in Clients |-> Outcome(x)]' = [x \in Clients |-> Outcome(x)]
      BY <2>1, <2>3 DEF Phase
    <3>2. Service!Mislead(c)
      BY <2>2, <2>6, <3>1 DEF Service!Mislead
    <3> QED
      BY <3>2 DEF Service!ServiceNext
  <2> QED
    BY <2>4, <2>5, <2>6
<1>4. CASE SendRefused(c)
  <2>1. /\ Phase(c) = "asking"
        /\ [x \in Clients |-> Phase(x)]' = [x \in Clients |-> Phase(x)]
        /\ [x \in Clients |-> Served(x)]' = [x \in Clients |-> Served(x)]
        /\ [x \in Clients |-> Outcome(x)]' = [x \in Clients |-> Outcome(x)]
    BY <1>4 DEF SendRefused, Phase, Served, Outcome, Key
  <2>2. Service!Refuse(c)
    BY <1>4, <2>1 DEF SendRefused, Service!Refuse
  <2> QED
    BY <2>2 DEF Service!ServiceNext
<1>5. CASE GiveUp(c)
  <2>1. /\ Close(c, "gave_up") /\ UNCHANGED <<lookup, misled>> /\ pc[c] # "idle"
        /\ attempt[c] >= retry
    BY <1>5 DEF GiveUp
  <2>2. refused[c] >= retry
    BY <2>1 DEF AttemptInv
  <2>3. Service!Failed("gave_up") \notin {Service!Answered(c), Service!Mistaken}
    BY DEF Service!Failed, Service!Answered, Service!Mistaken
  <2>4. Service!Return(c, Service!Failed("gave_up"))
    BY <2>1, <2>2, <2>3, CloseReturns DEF Service!Failed
  <2> QED
    BY <2>4 DEF Service!ServiceNext
<1>6. CASE IoError(c)
  <2>1. Close(c, "error") /\ UNCHANGED <<lookup, misled>> /\ pc[c] # "idle"
    BY <1>6 DEF IoError
  <2>2. Service!Failed("error") \notin
          {Service!Answered(c), Service!Mistaken, [how |-> "gave_up"]}
    BY DEF Service!Failed, Service!Answered, Service!Mistaken
  <2>3. Service!Return(c, Service!Failed("error"))
    BY <2>1, <2>2, CloseReturns DEF Service!Failed
  <2> QED
    BY <2>3 DEF Service!ServiceNext
<1>7. CASE Receive(c)
  <2>2. /\ inbox[c] \in Seq(TrueAnswers(Key(c), misled[c])) /\ inbox[c] # <<>> /\ pc[c] # "idle"
        /\ msg'[c] = Head(inbox[c]).pkt /\ UNCHANGED <<lookup, misled>>
    BY <1>7 DEF Receive, InboxInv, TypeOK
  <2>3. Head(inbox[c]) \in TrueAnswers(Key(c), misled[c])
    BY <2>2, HeadTail
  <2>4. CASE FromServer(Head(inbox[c]))
    <3>1. /\ Head(inbox[c]).daemon /\ Head(inbox[c]).pkt.kind = "rsp"
          /\ Head(inbox[c]).pkt.key = Key(c) \/ misled[c]
      BY <2>3, <2>4 DEF FromServer, TrueAnswers
    <3>2. Close(c, "answer")
      BY <1>7, <2>4, <3>1 DEF Receive
    <3>3. /\ Service!Answered(c) = [how |-> "answer", key |-> Key(c)]
          /\ Service!Answered(c) \notin {[how |-> "gave_up"], Service!Mistaken}
          /\ Service!Mistaken # [how |-> "gave_up"]
      BY DEF Service!Answered, Service!Mistaken, Service!Failed, Key
    <3>4. CASE msg'[c].key = Key(c)
      <4>1. Served(c)
        BY <2>2, <3>1, <3>4 DEF Served
      <4>2. Service!Return(c, Service!Answered(c))
        BY <2>2, <3>2, <3>3, <3>4, <4>1, CloseReturns
      <4> QED
        BY <4>2 DEF Service!ServiceNext
    <3>5. CASE msg'[c].key # Key(c)
      <4>1. misled[c]
        BY <2>2, <3>1, <3>5
      <4>2. Service!Mistaken = [how |-> "mistaken"]
        BY DEF Service!Mistaken, Service!Failed
      <4>3. Service!Return(c, Service!Mistaken)
        BY <2>2, <3>2, <3>3, <3>5, <4>1, <4>2, CloseReturns
      <4> QED
        BY <4>3 DEF Service!ServiceNext
    <3> QED
      BY <3>4, <3>5
  <2>5. CASE ~FromServer(Head(inbox[c]))
    <3>1. /\ inbox' = [inbox EXCEPT ![c] = Tail(@)]
          /\ UNCHANGED <<pc, result, answer, lookup, refused, misled>>
      BY <1>7, <2>5 DEF Receive
    <3>2. \A x \in Clients : Phase(x)' = Phase(x) /\ Outcome(x)' = Outcome(x)
      BY <3>1 DEF Phase, Outcome, Key
    <3>3. inbox[c] \in Seq(Answers) /\ ~Head(inbox[c]).daemon
      BY <2>5 DEF TypeOK, FromServer
    <3>4. Served(c) <=> \E n \in DOMAIN Tail(inbox[c]) :
                          Tail(inbox[c])[n].daemon /\ Tail(inbox[c])[n].pkt.key = Key(c)
      BY <2>2, <3>3, TailKeepsDaemon DEF Served
    <3>5. \A x \in Clients : Served(x)' = Served(x)
      BY <3>1, <3>4 DEF Served, TypeOK, Key
    <3> QED
      BY <3>1, <3>2, <3>5, Unseen
  <2> QED
    BY <2>4, <2>5
<1>8. ASSUME NEW pkt \in Strange, Stranger(c, pkt)
      PROVE  UNCHANGED Service!svars
  <2>1. /\ inbox' = [inbox EXCEPT ![c] = <<[daemon |-> FALSE, pkt |-> pkt]>>]
        /\ inbox[c] = <<>>
        /\ UNCHANGED <<pc, result, answer, lookup, refused, misled>>
    BY <1>8 DEF Stranger
  <2>2. \A x \in Clients : Phase(x)' = Phase(x) /\ Outcome(x)' = Outcome(x)
    BY <2>1 DEF Phase, Outcome, Key
  <2>3. \A x \in Clients : Served(x)' = Served(x)
    BY <2>1 DEF Served, TypeOK, Key
  <2> QED
    BY <2>1, <2>2, <2>3, Unseen
<1> QED
  BY <1>1, <1>2, <1>3, <1>4, <1>5, <1>6, <1>7, <1>8 DEF ClientStep, ClientFault

\* Of what the daemons do the service shows an answer that reaches a child.
LEMMA DaemonRefines ==
  ASSUME IInv, NEW d \in Daemons, DaemonStep(d) \/ DaemonLife(d)
  PROVE  Service!ServiceNext \/ UNCHANGED Service!svars
<1> USE DEF IInv
<1>1. CASE UNCHANGED client
  <2>1. \A x \in Clients : /\ Phase(x)' = Phase(x) /\ Served(x)' = Served(x)
                           /\ Outcome(x)' = Outcome(x)
    BY <1>1 DEF client, Phase, Served, Outcome, Key
  <2> QED
    BY <1>1, <2>1, Unseen DEF client
<1>2. CASE Reply(d)
  <2>1. CASE UNCHANGED inbox
    BY <1>1, <1>2, <2>1 DEF Reply, client
  <2>2. CASE ~UNCHANGED inbox
    <3>1. PICK c \in Clients :
            /\ pc[c] # "idle"
            /\ inbox' = [inbox EXCEPT ![c] =
                 Append(@, [daemon |-> TRUE, pkt |-> Response(Head(current[d]).pkt.key)])]
      BY <1>2, <2>2 DEF Reply, Bound
    <3>2. UNCHANGED <<pc, lookup, result, answer, refused, misled>>
      BY <1>2 DEF Reply
    <3>3. /\ Phase(c) = "asking"
          /\ [x \in Clients |-> Phase(x)]' = [x \in Clients |-> Phase(x)]
          /\ [x \in Clients |-> Outcome(x)]' = [x \in Clients |-> Outcome(x)]
      BY <3>1, <3>2 DEF Phase, Outcome, Key
    <3>4. inbox[c] \in Seq(Answers)
      BY DEF TypeOK
    <3>5. /\ Served(c)' <=> Head(current[d]).pkt.key = Key(c) \/ Served(c)
          /\ \A x \in Clients \ {c} : Served(x)' = Served(x)
      <4> DEFINE e == [daemon |-> TRUE, pkt |-> Response(Head(current[d]).pkt.key)]
      <4>1. /\ e.daemon /\ e.pkt.key = Head(current[d]).pkt.key
            /\ inbox'[c] = Append(inbox[c], e)
        BY <3>1 DEF TypeOK, Response
      <4>2. \A x \in Clients \ {c} : inbox'[x] = inbox[x]
        BY <3>1 DEF TypeOK
      <4>3. \A x \in Clients : Key(x)' = Key(x)
        BY <3>2 DEF Key
      <4> HIDE DEF e
      <4>4. (\E n \in DOMAIN inbox'[c] : inbox'[c][n].daemon /\ inbox'[c][n].pkt.key = Key(c))
              <=> e.pkt.key = Key(c) \/ Served(c)
        BY <3>4, <4>1, AppendedDaemon DEF Served
      <4> QED
        BY <4>1, <4>2, <4>3, <4>4 DEF Served
    <3>6. CASE Head(current[d]).pkt.key = Key(c)
      <4>1. Served(c)' = TRUE
        BY <3>5, <3>6 DEF Served
      <4>2. [x \in Clients |-> Served(x)]' = [[x \in Clients |-> Served(x)] EXCEPT ![c] = TRUE]
        BY <3>5, <4>1
      <4>3. Service!Serve(c)
        BY <3>2, <3>3, <4>2 DEF Service!Serve
      <4> QED
        BY <4>3 DEF Service!ServiceNext
    <3>7. CASE Head(current[d]).pkt.key # Key(c)
      <4>1. Served(c)' = Served(c)
        BY <3>5, <3>7, Zenon DEF Served
      <4>2. \A x \in Clients : /\ Phase(x)' = Phase(x) /\ Served(x)' = Served(x)
                               /\ Outcome(x)' = Outcome(x)
        BY <3>2, <3>5, <4>1 DEF Phase, Outcome, Key
      <4> QED
        BY <3>2, <4>2, Unseen
    <3> QED
      BY <3>6, <3>7
  <2> QED
    BY <2>1, <2>2
<1>3. CASE Take(d) \/ DaemonLife(d)
  BY <1>1, <1>3 DEF Take, DaemonLife, Start, Bind, Stop, Crash
<1> QED
  BY <1>2, <1>3 DEF DaemonStep

\* The daemon map is a service as MapService promises it, for any number of children
\* and daemons, queues of any length and any datagrams of other processes: an answer is
\* one that a daemon gave to this call's key while the call lasted, no call is given up
\* before max_retry refusals, and nothing else ends one but an error.  Only a call that
\* sent another process's request in place of its own may return the answer to that.
THEOREM Refinement == Spec => ImplementsMapService
<1>1. Init => Service!ServiceInit
  <2> SUFFICES ASSUME Init PROVE Service!ServiceInit
    OBVIOUS
  <2>1. \A x \in Clients : /\ Phase(x) = "idle" /\ Served(x) = FALSE
                           /\ Outcome(x) = Service!Failed("none")
    BY DEF Init, Phase, Served, Outcome, Service!Failed
  <2> QED
    BY <2>1 DEF Init, Service!ServiceInit
<1>2. IInv /\ [Next]_vars => [Service!ServiceNext]_(Service!svars)
  <2> SUFFICES ASSUME IInv, [Next]_vars
               PROVE  Service!ServiceNext \/ UNCHANGED Service!svars
    OBVIOUS
  <2>1. CASE UNCHANGED vars
    <3>1. \A x \in Clients : /\ Phase(x)' = Phase(x) /\ Served(x)' = Served(x)
                             /\ Outcome(x)' = Outcome(x)
      BY <2>1 DEF vars, client, Phase, Served, Outcome, Key
    <3> QED
      BY <2>1, <3>1, Unseen DEF vars, client
  <2> QED
    BY <2>1, ClientRefines, DaemonRefines DEF Next
<1> QED
  BY <1>1, <1>2, Invariance, PTL DEF Spec, ImplementsMapService, Service!ServiceSpec

=============================================================================
