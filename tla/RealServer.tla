----------------------------- MODULE RealServer ------------------------------
(***************************************************************************)
(* The real server's side of the three protocols: out_setup and            *)
(* out_authenticate of pop3_out.c, imap4_out.c and managesieve_out.c, with *)
(* the part of main() that calls them and does TLS in between, against a   *)
(* server that keeps to the protocol.                                      *)
(*                                                                         *)
(* A server answers commands in order, each with one reply, and in IMAP4   *)
(* may put an untagged line of its own into one (a chatty server).         *)
(* perdition may be out of step with it: a read may time out while the     *)
(* answer is on its way, and some methods go on after such a failure; a    *)
(* line may be read in part only, when it is copied into a buffer whose    *)
(* size is that of an earlier line.  Allocation failures are left out.     *)
(***************************************************************************)
EXTENDS Integers, Sequences, FiniteSetsExt

CONSTANTS
  Protos,   \* the protocols: a subset of AllProtos
  Policies  \* what ssl_mode says about TLS to the server: a subset of AllPolicies

AllProtos   == {"POP3", "IMAP4", "MANAGESIEVE"}
AllPolicies == {"plain", "tls_outgoing", "tls_outgoing_force"}

ASSUME ProtosAssumption == Protos \subseteq AllProtos
ASSUME PoliciesAssumption == Policies \subseteq AllPolicies

VARIABLES
  proto, policy,
  pc,         \* the reply that is read next, or where main() is
  status,     \* what the latest method returned, as a number ...
  flags,      \* ... and which PROTOCOL_S_ flags are in it
  io,         \* "fd" or "ssl"
  tag,        \* our_tag, counted
  cmd,        \* number of the latest command that was written
  lines,      \* what the server has sent and perdition has not read
  srv,        \* server: what it expects
  chatty,     \* server: whether it sends untagged lines of its own
  resp,       \* whether server_resp_line is set
  announced,  \* history: the capabilities that the server announced last
  agreed,     \* history: what the server said to STARTTLS
  trouble     \* history: whether reading or writing has failed

vars == <<proto, policy, pc, status, flags, io, tag, cmd, lines, srv, chatty,
          resp, announced, agreed, trouble>>
setting == <<proto, policy, chatty, resp>>

Caps == {"STARTTLS", "LOGINDISABLED", "SASL_PLAIN"}

\* tags: perdition's own are counted from 0
Untagged  == -1   \* "*"
Cont      == -2   \* "+"
NotATag   == -3   \* a word from the middle of a line
NoTag     == -4   \* POP3 and MANAGESIEVE have none

\* A line, with the number of the command it is part of the answer to.  A list
\* of capabilities is one line.  The word is "own" in perdition's own greeting,
\* and "rest" in what was left of a line that was read in part.
Line(t, word, caps) == [n |-> cmd', tag |-> t, word |-> word, caps |-> caps]

Words == {"OK", "own", "NO", "CAPABILITY", "list", "chat", "rest"}

Lines == [n : Nat, tag : Int, word : Words, caps : SUBSET Caps]

Imap == proto = "IMAP4"

\* what perdition expects before the first word of a reply
Tag == IF Imap THEN tag ELSE NoTag

\* what the server puts there: the tag of the command that is being written
Echo == IF Imap THEN tag' ELSE NoTag

-----------------------------------------------------------------------------
(* The server.                                                             *)

\* what a reply looks like on the wire
OnTheWire(reply) ==
  {reply} \cup
  IF ~chatty THEN {}
  ELSE {SubSeq(reply, 1, i) \o <<Line(Untagged, "chat", {})>>
          \o SubSeq(reply, i + 1, Len(reply)) : i \in 0..Len(reply) - 1}

Positive == {<<Line(Echo, "OK", {})>>}
Negative == {<<Line(Echo, "NO", {})>>}
GoOn     == {<<Line(Cont, "chat", {})>>}
BadTag   == {<<Line(NotATag, "NO", {})>>}

CapabilityReply(caps) ==
  CASE proto = "IMAP4"       -> <<Line(Untagged, "CAPABILITY", caps),
                                  Line(Echo, "OK", {})>>
    [] proto = "POP3"        -> <<Line(NoTag, "OK", {}),
                                  Line(NoTag, "list", caps)>>
    [] proto = "MANAGESIEVE" -> <<Line(NoTag, "OK", caps)>>

\* a command, the server's state after it, and the answer
Answer(c, next, reply) ==
  \/ /\ c = "CAPABILITY" /\ next = srv
     /\ \/ reply \in Negative /\ UNCHANGED announced
        \/ \E caps \in SUBSET Caps :
             announced' = caps /\ reply = CapabilityReply(caps)
     /\ UNCHANGED agreed
  \/ /\ c = "STARTTLS"
     /\ \/ next = "tls" /\ agreed' = "yes" /\ reply \in Positive
        \/ next = srv /\ agreed' = "no" /\ reply \in Negative
     /\ UNCHANGED announced
  \/ /\ c \in {"LOGIN", "USER", "name"} /\ UNCHANGED <<announced, agreed>>
     /\ \/ /\ c = "LOGIN" \/ c = "USER" \/ srv = "name"
           /\ \/ /\ next = IF c = "LOGIN" THEN "name" ELSE "password"
                 /\ reply \in IF Imap THEN GoOn ELSE Positive
              \/ next = "command" /\ reply \in Negative
        \/ c = "name" /\ srv # "name" /\ next = srv /\ reply \in BadTag
  \/ /\ c \in {"password", "AUTHENTICATE"} /\ UNCHANGED <<announced, agreed>>
     /\ \/ /\ c = "AUTHENTICATE" \/ srv = "password"
           /\ \/ next = "in" /\ reply \in Positive
              \/ next = "command" /\ reply \in Negative
        \/ c = "password" /\ srv # "password" /\ next = srv /\ reply \in BadTag

-----------------------------------------------------------------------------
(* Reading a reply, and what follows.                                      *)

\* where in ls the wait for a reply with this tag ends: untagged lines are
\* passed over when a tagged one is expected
Ends(ls, t) == {i \in 1..Len(ls) : t = Untagged \/ ls[i].tag # Untagged}

AnyWord(line, t, word) == IF line.tag # t THEN -1 ELSE 1  \* mutant: a NO will do

\* token_cmp() of the tag and of the word
Compare(line, t, word) ==
  IF line.tag # t THEN -1 ELSE IF line.word = word THEN 1 ELSE 0

NoLine == [n |-> 0, tag |-> NoTag, word |-> "NO", caps |-> {}]

After(ls, i) == SubSeq(ls, i + 1, Len(ls))

\* out_response: the outcomes of waiting in ls for a reply.  What is read may be
\* copied into a buffer that has the size of an earlier line: after an untagged
\* line was passed over ("chat"), or in any case ("always").  If the line does not
\* fit, what is left of it will be read as the next one, and the result is -1 if
\* not even its second word fitted.
Response(ls, t, word, cut) ==
  LET ends == Ends(ls, t)
      last == IF ends = {} THEN Len(ls) + 1 ELSE Min(ends)
      Read(r, rest) == [r |-> r, line |-> ls[last], rest |-> rest, failed |-> FALSE]
      Rest == [ls[last] EXCEPT !.tag = NotATag, !.word = "rest"]
  IN {[r |-> -1, line |-> NoLine, rest |-> After(ls, i), failed |-> TRUE] :
        i \in 0..last - 1}
     \cup (IF ends = {} THEN {}
           ELSE {Read(Compare(ls[last], t, word), After(ls, last))})
     \cup (IF ends = {} \/ cut = "never" \/ (cut = "chat" /\ last = 1) THEN {}
           ELSE {Read(r, <<Rest>> \o After(ls, last)) :
                   r \in {Compare(ls[last], t, word)} \cup {-1 : i \in 2..last}})

\* imap4_out_get_capability: r is 1 if cap is announced.  When the first line is
\* another one r is 0, with the reply unread; when the tagged line fails r is
\* still the 1 of the line before.
Capability(cap, cut) ==
  UNION {IF x.r < 1 THEN {[r |-> x.r, rest |-> x.rest, failed |-> x.failed,
                           inc |-> 0]}
         ELSE {[r |-> IF y.r < 0 \/ cap \in x.line.caps THEN 1 ELSE 0,
                rest |-> y.rest, failed |-> y.failed,
                inc |-> IF y.r < 0 THEN 0 ELSE 1] :
                 y \in Response(x.rest, tag, "OK", cut)} :
         x \in Response(lines, Untagged, "CAPABILITY", "never")}

\* the next command is written, with tag t, after x was read
Say(x, c, next, t) ==
  /\ pc' = next
  /\ tag' = t
  /\ cmd' = cmd + 1
  /\ \E srv2 \in {"command", "tls", "name", "password", "in"},
        reply \in UNION {Positive, Negative, GoOn, BadTag,
                         {CapabilityReply(caps) : caps \in SUBSET Caps}} :
       /\ Answer(c, srv2, reply)
       /\ srv' = srv2
       /\ \E sent \in OnTheWire(reply) : lines' = x.rest \o sent
  /\ trouble' = (trouble \/ x.failed)
  /\ UNCHANGED <<setting, status, io>>

\* a method returns v with the flags fs
Leave(x, next, v, fs) ==
  /\ pc' = next /\ status' = v /\ flags' = fs
  /\ lines' = x.rest
  /\ trouble' = (trouble \/ x.failed)
  /\ UNCHANGED <<setting, io, cmd, srv, announced, agreed>>

\* the next write fails
Broken(x) == [x EXCEPT !.failed = TRUE]

SetUp(x, v, fs) == Leave(x, "decide", v, fs) /\ UNCHANGED tag

Finish(x, v) == Leave(x, "done", v, flags)

-----------------------------------------------------------------------------
(* out_setup.                                                              *)

\* an error that leaves the result of strcmp() as the status
Strcmp(x) == \E v \in {-1, 1}, fs \in SUBSET {"STARTTLS"} : SetUp(x, v, fs)

\* the greeting of pop3_out_setup and imap4_out_setup
Greeting ==
  /\ pc = "greeting" /\ proto # "MANAGESIEVE"
  /\ \E x \in Response(lines, IF Imap THEN Untagged ELSE NoTag, "OK", "never") :
       \/ x.r = -1 /\ SetUp(x, -1, {})
       \/ x.r = 0 /\ SetUp(x, 0, {})  \* also if it is perdition's own
       \/ x.r = 1 /\ policy = "plain" /\ SetUp(x, 1, {})
       \/ /\ x.r = 1 /\ policy # "plain"
          /\ \/ Say(x, "CAPABILITY", "capability", tag) /\ UNCHANGED flags
             \* the write fails: POP3 returns the 1 of the greeting
             \/ proto = "POP3" /\ SetUp(Broken(x), 1, {})
             \/ Imap /\ Strcmp(Broken(x))

ImapCapability ==
  /\ pc = "capability" /\ Imap
  /\ \E x \in Capability("STARTTLS", "chat") :
       \/ x.r = -1 /\ Strcmp(x)
       \/ x.r = 0 /\ policy = "tls_outgoing"
                  /\ Leave(x, "decide", 1, {}) /\ tag' = tag + x.inc
       \/ x.r = 0 /\ policy = "tls_outgoing_force"
                  /\ Leave(x, "decide", 0, {}) /\ tag' = tag + x.inc
       \/ x.r = 1 /\ Strcmp(Broken(x))
       \/ x.r = 1 /\ Say(x, "STARTTLS", "starttls", tag + x.inc) /\ UNCHANGED flags

\* Any tagged answer will do.  n, the size of the buffer, still is the length of
\* the line that imap4_out_get_capability() read last.
ImapStartTls ==
  /\ pc = "starttls" /\ Imap
  /\ \E x \in Response(lines, tag, "OK", "always") :
       \/ x.r = -1 /\ SetUp(x, -1, {})
       \/ x.r # -1 /\ Leave(x, "decide", 1, {"STARTTLS"}) /\ tag' = tag + 1

\* every error after the greeting returns what is known so far, as a success
PopCapa ==
  /\ pc = "capability" /\ proto = "POP3"
  /\ \E x \in Response(lines, NoTag, "OK", "never") :
       \/ x.r # 1 /\ SetUp(x, 1, {})
       \/ \* the list of capabilities, up to "."
          /\ x.r = 1
          /\ \E y \in Response(x.rest, NoTag, "list", "never") :
               \/ y.r # 1 /\ \E fs \in {{}, {"STARTTLS"}} : SetUp(y, 1, fs)
               \/ y.r = 1 /\ "STARTTLS" \notin y.line.caps /\ SetUp(y, 1, {})
               \/ /\ y.r = 1 /\ "STARTTLS" \in y.line.caps
                  /\ \/ Say(y, "STARTTLS", "starttls", tag) /\ UNCHANGED flags
                     \/ SetUp(Broken(y), 1, {"STARTTLS"})

\* the answer to STLS is read, but status is tested in place of tmp_status
PopStls ==
  /\ pc = "starttls" /\ proto = "POP3"
  /\ \E x \in Response(lines, NoTag, "OK", "never") : SetUp(x, 1, {"STARTTLS"})

\* managesieve_out_capability() and managesieve_out_setup()
SieveGreeting ==
  /\ pc = "greeting" /\ proto = "MANAGESIEVE"
  /\ \E x \in Response(lines, NoTag, "OK", "never") :
       LET fs  == x.line.caps \ {"LOGINDISABLED"}
           tls == "STARTTLS" \in fs
       IN \/ x.r < 1 /\ SetUp(x, x.r, {})
          \* status ^= PROTOCOL_S_STARTTLS
          \/ x.r = 1 /\ policy = "plain"
                     /\ SetUp(x, 1, IF tls THEN fs \ {"STARTTLS"}
                                           ELSE fs \cup {"STARTTLS"})
          \/ x.r = 1 /\ policy = "tls_outgoing" /\ ~tls /\ SetUp(x, 1, fs)
          \/ x.r = 1 /\ policy = "tls_outgoing_force" /\ ~tls /\ SetUp(x, -1, {})
          \/ /\ x.r = 1 /\ policy # "plain" /\ tls
             /\ \/ Say(x, "STARTTLS", "starttls", tag) /\ flags' = fs
                \/ SetUp(Broken(x), -1, {})

SieveStartTls ==
  /\ pc = "starttls" /\ proto = "MANAGESIEVE"
  /\ \E x \in Response(lines, NoTag, "OK", "never") :
       SetUp(x, x.r, IF x.r = 1 THEN flags ELSE {})

-----------------------------------------------------------------------------
(* main().                                                                 *)

UnforcedAfterSetup ==  \* mutant: "TLS not present" is not tested
  IF status = 0 THEN "refused"
  ELSE IF status < 0 THEN "exited"
  ELSE IF policy # "plain" /\ "STARTTLS" \in flags THEN "handshake"
  ELSE "flush"

AfterSetup ==
  IF status = 0 THEN "refused"
  ELSE IF status < 0 THEN "exited"
  ELSE IF policy # "plain" /\ "STARTTLS" \in flags THEN "handshake"
  ELSE IF policy = "tls_outgoing_force" THEN "refused"
  ELSE "flush"

Decide ==
  /\ pc = "decide" /\ pc' = AfterSetup
  /\ UNCHANGED <<setting, status, flags, io, tag, cmd, lines, srv, announced,
                 agreed, trouble>>

\* The handshake can only succeed with a server that is waiting for it and has
\* nothing else on its way: the rest of a line has been read from the connection
\* already.  A MANAGESIEVE server then sends its capabilities.
Handshake ==
  /\ pc = "handshake"
  /\ UNCHANGED cmd
  /\ \/ /\ srv = "tls" /\ \A i \in DOMAIN lines : lines[i].word = "rest"
        /\ pc' = "flush" /\ io' = "ssl" /\ srv' = "command"
        /\ IF proto = "MANAGESIEVE"
           THEN \E caps \in SUBSET Caps :
                  announced' = caps /\ lines' = lines \o CapabilityReply(caps)
           ELSE UNCHANGED <<announced, lines>>
     \/ pc' = "exited" /\ UNCHANGED <<io, srv, announced, lines>>
  /\ UNCHANGED <<setting, status, flags, tag, agreed, trouble>>

\* what is on its way when nothing was read
Pending(ls) == [rest |-> ls, failed |-> FALSE]

NoFlush == {lines}                          \* mutant: nothing is dropped

\* token_flush() drops what has been read from the connection and not been used:
\* the rest of a line, and without a handshake any part of what was sent
AfterFlush ==
  LET known == Cardinality({i \in DOMAIN lines : lines[i].word = "rest"})
  IN {After(lines, i) : i \in known..(IF io = "ssl" THEN known ELSE Len(lines))}

-----------------------------------------------------------------------------
(* out_authenticate.                                                       *)

\* the SASL mechanism decides
SievePlain(x, fs) ==
  \/ "SASL_PLAIN" \notin fs /\ Finish(x, 3) /\ UNCHANGED tag
  \/ /\ "SASL_PLAIN" \in fs
     /\ \/ Say(x, "AUTHENTICATE", "authenticate", tag) /\ UNCHANGED flags
        \/ Finish(Broken(x), -1) /\ UNCHANGED tag

AlwaysCapability == proto = "MANAGESIEVE"   \* mutant: tls_state not tested

\* after a handshake the server's new capabilities are read first
ReadsCapability == proto = "MANAGESIEVE" /\ io = "ssl"

Authenticate ==
  /\ pc = "flush"
  /\ \E ls \in AfterFlush :
       \/ Imap /\ Say(Pending(ls), "CAPABILITY", "auth_capability", tag)
               /\ UNCHANGED flags
       \/ Imap /\ Finish(Broken(Pending(ls)), -1) /\ tag' = tag + 1
       \/ proto = "POP3" /\ Say(Pending(ls), "USER", "user", tag) /\ UNCHANGED flags
       \/ proto = "POP3" /\ Finish(Broken(Pending(ls)), -1) /\ UNCHANGED tag
       \/ /\ ReadsCapability
          /\ pc' = "auth_capability" /\ lines' = ls
          /\ UNCHANGED <<setting, status, flags, io, tag, cmd, srv, announced,
                         agreed, trouble>>
       \/ /\ proto = "MANAGESIEVE" /\ ~ReadsCapability
          /\ SievePlain(Pending(ls), flags)

SieveAuthCapability ==
  /\ pc = "auth_capability" /\ proto = "MANAGESIEVE"
  /\ \E x \in Response(lines, NoTag, "OK", "never") :
       \/ x.r < 1 /\ Finish(x, x.r) /\ UNCHANGED tag
       \/ x.r = 1 /\ SievePlain(x, x.line.caps)

WrongCapability == "STARTTLS"               \* mutant: the other capability

RefusedBy == "LOGINDISABLED"

\* replies are copied for the client if server_resp_line is set
Copied == IF resp THEN "chat" ELSE "never"

ImapAuthCapability ==
  /\ pc = "auth_capability" /\ Imap
  /\ \E x \in Capability(RefusedBy, Copied) :
       \/ x.r = -1 /\ Finish(x, -1) /\ tag' = tag + 1
       \/ x.r = 1 /\ Finish(x, 2) /\ tag' = tag + x.inc + 1
       \/ x.r = 0 /\ Finish(Broken(x), -1) /\ tag' = tag + x.inc + 1
       \/ x.r = 0 /\ Say(x, "LOGIN", "login", tag + x.inc) /\ UNCHANGED flags

\* the continuation requests for the two literals: what comes in their place
\* is not looked at
ImapLiteral(here, c, next) ==
  /\ pc = here /\ Imap
  /\ \E x \in Response(lines, Cont, "OK", Copied) :
       \/ Say(x, c, next, tag) /\ UNCHANGED flags
       \/ Finish(Broken(x), -1) /\ tag' = tag + 1

ImapLogin == ImapLiteral("login", "name", "name")
ImapName  == ImapLiteral("name", "password", "password")

ImapPassword ==
  /\ pc = "password" /\ Imap
  /\ \E x \in Response(lines, tag, "OK", Copied) :
       Finish(x, x.r) /\ tag' = tag + 1

PopUser ==
  /\ pc = "user"
  /\ \E x \in Response(lines, NoTag, "OK", "never") :
       \/ x.r < 1 /\ Finish(x, x.r) /\ UNCHANGED tag
       \/ x.r = 1 /\ Say(x, "password", "pass", tag) /\ UNCHANGED flags
       \/ x.r = 1 /\ Finish(Broken(x), -1) /\ UNCHANGED tag

\* the answer to PASS, or to AUTHENTICATE
Verdict ==
  /\ pc \in {"pass", "authenticate"} /\ UNCHANGED tag
  /\ \E x \in Response(lines, NoTag, "OK", "never") : Finish(x, x.r)

-----------------------------------------------------------------------------
Greetings ==
  IF proto = "MANAGESIEVE"
  THEN {[n |-> 0, tag |-> NoTag, word |-> w, caps |-> caps] :
          w \in {"OK", "NO"}, caps \in SUBSET Caps}
  ELSE {[n |-> 0, tag |-> IF Imap THEN Untagged ELSE NoTag, word |-> w,
         caps |-> {}] : w \in {"OK", "own", "NO"}}

Init ==
  /\ proto \in Protos /\ policy \in Policies
  /\ pc = "greeting" /\ status = 0 /\ flags = {} /\ io = "fd"
  /\ tag = 0 /\ cmd = 0
  /\ \E g \in Greetings : lines = <<g>> /\ announced = g.caps
  /\ srv = "command" /\ chatty \in {FALSE, Imap} /\ resp \in {FALSE, chatty}
  /\ agreed = "none" /\ trouble = FALSE

Ended == pc \in {"done", "refused", "exited"} /\ UNCHANGED vars

Next ==
  \/ Greeting \/ ImapCapability \/ ImapStartTls \/ PopCapa \/ PopStls
  \/ SieveGreeting \/ SieveStartTls
  \/ Decide \/ Handshake \/ Authenticate
  \/ SieveAuthCapability \/ ImapAuthCapability \/ ImapLogin \/ ImapName
  \/ ImapPassword \/ PopUser \/ Verdict
  \/ Ended

Spec == Init /\ [][Next]_vars

-----------------------------------------------------------------------------
Reading == {"greeting", "capability", "starttls", "auth_capability", "login",
            "name", "password", "user", "pass", "authenticate"}

\* out_authenticate returns 1 only if the server has let the user in, although
\* IMAP4's goes on after refusals, a chatty server makes it leave replies unread
\* and it reuses the tag of a command whose reply it has not read.  This is so
\* while reading and writing succeed: see the README for what two timeouts do.
SuccessIsReal ==
  pc = "done" /\ status = 1 /\ ~trouble => srv = "in"

\* What is unread when perdition waits is part of the answer to the latest
\* command, and nothing older: not the second half of a STARTTLS reply that was
\* read into a buffer too short for it, which token_flush() is there to drop.
AnswersPaired ==
  pc \in Reading /\ ~trouble /\ ~chatty =>
    \A i \in DOMAIN lines : lines[i].n = cmd

\* perdition never waits for a reply that the server does not owe it, in which
\* case both would wait until the timeout: not even after timeouts, or with a
\* server that sends lines of its own.
NeverWaitsInVain ==
  pc \in Reading \ {"greeting"} => Ends(lines, Tag) # {}

\* "If the LOGINDISABLED capability is set processing stops"
\* (imap4_out_authenticate): no LOGIN is written to a server whose latest list of
\* capabilities has it.  Two histories are excepted.  Reading has failed; or the
\* server put a line of its own before the reply to a CAPABILITY: then
\* imap4_out_get_capability() takes that line for the list, finds nothing in it,
\* and LOGIN is written with the reply, or a part of it, unread
\* (imap4_out.c:103-107).  And main() starts a handshake with a MANAGESIEVE server
\* only if that has agreed to it (managesieve_out_setup).  Of POP3 and IMAP4 the
\* latter is not true.
ServerIsObeyed ==
  ~trouble =>
    /\ pc = "login" /\ "LOGINDISABLED" \in announced =>
         chatty /\ \E i \in DOMAIN lines : lines[i].n < cmd
    /\ pc = "handshake" /\ proto = "MANAGESIEVE" => agreed = "yes"

\* With tls_outgoing_force neither the user's name nor the password leaves
\* unencrypted, whatever the server says and whichever read or write of
\* out_setup fails, although out_setup reports some failures as successes.
NoPlaintextCredentials ==
  policy = "tls_outgoing_force" /\ io = "fd" =>
    pc \notin {"login", "name", "password", "user", "pass", "authenticate"}

=============================================================================
