----------------------------- MODULE ClientSide ------------------------------
(***************************************************************************)
(* The client's side of the three protocols: the greeting and in_get_auth  *)
(* of pop3_in.c, imap4_in.c and managesieve_in.c, with the part of main()  *)
(* that calls them, does TLS, drops what was read too early and answers a  *)
(* login.                                                                  *)
(*                                                                         *)
(* The client keeps to the protocol but may pipeline, mistype and send     *)
(* literals; it waits for a continuation request before the data of a      *)
(* synchronising one, and gives its command up when that is refused.  What *)
(* it has sent and perdition has not read is a sequence of lines and data. *)
(* Allocation failures and literals longer than MAX_LINE_LENGTH are left   *)
(* out.                                                                    *)
(***************************************************************************)
EXTENDS Integers, Sequences, FiniteSetsExt

CONSTANTS
  Protos,       \* the protocols: a subset of AllProtos
  Modes,        \* what ssl_mode says about the client: a subset of AllModes
  Shapes,       \* what the client sends: a subset of AllShapes
  MaxCommands,  \* bound: number of commands that a client sends
  MaxPipeline   \* bound: number of them that are unanswered at a time

AllProtos == {"POP3", "IMAP4", "MANAGESIEVE"}
AllModes  == {"plain", "tls_listen", "tls_listen_force", "ssl_listen"}
AllShapes == {"common", "noop_tag", "unread_literal"}

ASSUME ProtosAssumption == Protos \subseteq AllProtos
ASSUME ModesAssumption == Modes \subseteq AllModes
ASSUME ShapesAssumption == Shapes \subseteq AllShapes
ASSUME BoundsAssumption == MaxCommands \in Nat /\ MaxPipeline \in Nat

VARIABLES
  proto, mode,
  disabled,   \* opt.login_disabled
  pc,         \* what is read next, what in_get_auth returned, or where main() is
  io,         \* "fd" or "ssl"
  tls,        \* whether tls_state has SSL_MODE_TLS_LISTEN
  wire,       \* what the client has sent and perdition has not read
  todo,       \* client: the rest of its command, after a synchronising literal
  cont,       \* whether a continuation request is on its way
  asked,      \* history: number of commands that were sent ...
  answered,   \* ... and of the final replies that were written
  name, pw,   \* the credentials, compared to those that were sent
  quoted,     \* imap4_in_get_auth: status is IMAP4_QUOTED_STRING
  listed,     \* history: the capabilities that the client was told last
  trouble,    \* history: whether a write, or the read of a literal, has failed
  flushed,    \* history: whether token_flush() has dropped anything
  failed      \* history: whether a login has failed

vars == <<proto, mode, disabled, pc, io, tls, wire, todo, cont, asked, answered,
          name, pw, quoted, listed, trouble, flushed, failed>>
setting == <<proto, mode, disabled>>
client  == <<asked, flushed, failed>>
link    == <<io, tls>>
creds   == <<name, pw, quoted>>

Pop   == proto = "POP3"
Imap  == proto = "IMAP4"
Sieve == proto = "MANAGESIEVE"

TlsListen == mode \in {"tls_listen", "tls_listen_force"}

-----------------------------------------------------------------------------
(* What a client sends.                                                    *)

\* A string that is an argument: how it is sent, and whether its content is
\* empty, ordinary or has quotes in it.  For a SASL challenge "odd" is one that
\* does not decode.
Arg(how, content) == [how |-> how, content |-> content]

Literal(a) == a.how \in {"sync", "nonsync"}

\* enc: whether it is sent encrypted
Line(word, args) == [word |-> word, args |-> args, enc |-> io = "ssl"]
Data(a) == Line("data", <<a>>)

\* what follows a literal's length
Body(a) == IF a.content = "empty" THEN <<>> ELSE <<Data(a)>>
Tail1(a) == IF Literal(a) THEN Body(a) \o <<Line("rest", <<>>)>> ELSE <<>>

With1(word, a) == <<Line(word, <<a>>)>> \o Tail1(a)

Login(n, p) ==
  IF Literal(n)
  THEN <<Line("LOGIN", <<n>>)>> \o Body(n) \o <<Line("rest", <<p>>)>> \o Tail1(p)
  ELSE <<Line("LOGIN", <<n, p>>)>> \o Tail1(p)

Atom == Arg("atom", "plain")

Bare(words) == {<<Line(w, args)>> : w \in words, args \in {<<>>, <<Atom>>}}

PopCommands ==
  Bare({"CAPA", "STLS", "USER", "PASS", "QUIT", "other"})
    \cup {<<Line("USER", <<Atom, Atom>>)>>, <<Line("", <<>>)>>}

ImapNames == {Arg("quoted", "plain")}
               \cup {Arg(h, c) : h \in {"sync", "nonsync"}, c \in {"plain", "empty"}}
ImapPasswords == {Arg(h, c) : h \in {"quoted", "sync", "nonsync"},
                              c \in {"odd", "empty"}}
ImapCommands ==
  Bare({"NOOP", "STARTTLS", "CAPABILITY", "AUTHENTICATE", "LOGOUT", "LOGIN",
        "other", "badtag"})
    \cup {Login(n, p) : n \in ImapNames, p \in ImapPasswords}
    \cup {<<Line("LOGIN", <<Atom, Atom, Atom>>)>>, <<Line("tagonly", <<>>)>>}

Challenges == {Arg(h, c) : h \in {"quoted", "nonsync"}, c \in {"plain", "odd"}}

Plain(a) ==
  <<Line("AUTHENTICATE", <<Arg("quoted", "PLAIN"), a>>)>> \o Tail1(a)

SieveCommands ==
  Bare({"CAPABILITY", "LOGOUT", "STARTTLS", "other"})
    \cup {<<Line("NOOP", <<>>)>>, <<Line("NOOP", <<Atom>>)>>}
    \cup {<<Line("AUTHENTICATE", args)>> :
            args \in {<<>>, <<Atom>>, <<Arg("quoted", "PLAIN")>>,
                      <<Arg("quoted", "PLAIN"), Atom>>}}
    \cup {Plain(a) : a \in Challenges}
    \* a literal that is followed by something else
    \cup {SubSeq(Plain(Arg("nonsync", "plain")), 1, 2) \o <<Line("rest", <<Atom>>)>>}

\* Legal MANAGESIEVE commands that perdition does not answer, or answers twice:
\* see the README.
SieveOddities ==
  (IF "noop_tag" \notin Shapes THEN {}
   ELSE {With1("NOOP", Arg(h, "plain")) : h \in {"quoted", "nonsync"}})
    \cup (IF "unread_literal" \notin Shapes THEN {}
          ELSE {Plain(Arg("nonsync", "empty")),
                <<Line("AUTHENTICATE", <<Arg("quoted", "X"), Arg("nonsync", "plain")>>)>>
                  \o Tail1(Arg("nonsync", "plain"))})

Commands ==
  CASE Pop -> PopCommands
    [] Imap -> ImapCommands
    [] Sieve -> SieveCommands \cup SieveOddities

\* how far the client gets before it waits for a continuation request
Waits(items) ==
  Min({i \in 1..Len(items) :
         i = Len(items)
           \/ /\ items[i].args # <<>> /\ items[i].word # "data"
              /\ items[i].args[Len(items[i].args)].how = "sync"})

Send(items) ==
  LET n == Waits(items)
  IN wire' = wire \o SubSeq(items, 1, n)
       /\ todo' = SubSeq(items, n + 1, Len(items))

Talking == pc \notin {"served", "exited"}

Command ==
  /\ Talking /\ pc # "handshake" /\ todo = <<>>
  /\ asked < MaxCommands /\ asked - answered < MaxPipeline
  /\ \E items \in Commands :
       /\ Send(items)
       \* a command without a valid tag gets no tagged reply
       /\ asked' = IF items[1].word = "badtag" THEN asked ELSE asked + 1
       /\ items[1].word = "badtag" => Len(wire) < MaxPipeline
  /\ UNCHANGED <<setting, pc, link, cont, answered, creds, listed, trouble,
                 flushed, failed>>

Continue ==
  /\ Talking /\ cont /\ todo # <<>>
  /\ Send(todo)
  /\ cont' = FALSE
  /\ UNCHANGED <<setting, pc, link, client, answered, creds, listed, trouble>>

-----------------------------------------------------------------------------
(* Writing.                                                                *)

\* the reply to a command: a client that was told so gives up what it has not
\* sent, unless the continuation request comes first
Answered ==
  /\ answered' = answered + 1
  /\ todo' = IF answered' = asked /\ ~cont THEN <<>> ELSE todo

Unanswered == UNCHANGED <<answered, todo>>

\* writing the reply leads to next, failing to write it to broken; t is whether
\* an earlier write has failed
Write(t, next, broken) ==
  \/ pc' = next /\ Answered /\ trouble' = t
  \/ pc' = broken /\ Unanswered /\ trouble' = TRUE

Reply(next, broken) == Write(trouble, next, broken) /\ UNCHANGED <<creds, listed>>

Tagged(next, broken) == Reply(next, broken)    \* mutant: the old tag is used

\* a line that is no final reply
Untagged(next, broken) ==
  /\ \/ pc' = next /\ UNCHANGED trouble
     \/ pc' = broken /\ trouble' = TRUE
  /\ Unanswered /\ UNCHANGED <<creds, listed>>

Quietly(next) == pc' = next /\ Unanswered /\ UNCHANGED trouble

AlwaysStarttls(t) ==                    \* mutant: PROTOCOL_C_DEL forgotten
  IF TlsListen THEN {"STARTTLS"} ELSE {}

\* the capability functions, with tls_state t
Starttls(t) == {c \in {"STARTTLS"} : TlsListen /\ ~t}

PopCapability(t) == Starttls(t)

ImapCapability(t) ==
  Starttls(t) \cup {c \in {"LOGINDISABLED"} :
                      (disabled \/ mode = "tls_listen_force") /\ ~t}

SieveCapability(t) == Starttls(t)

Capability(t) ==
  CASE Pop -> PopCapability(t)
    [] Imap -> ImapCapability(t)
    [] Sieve -> SieveCapability(t)

\* the list of capabilities is written, as the reply to a command
List(t, broken) ==
  /\ \/ Write(t, "line", broken) /\ answered' # answered /\ listed' = Capability(tls)
     \/ Write(t, "line", broken) /\ answered' = answered /\ UNCHANGED listed
  /\ UNCHANGED creds

-----------------------------------------------------------------------------
(* Reading.                                                                *)

\* A line, and what follows.  Data that nobody has asked for is the beginning of
\* the next line.
NextLine ==
  IF wire[1].word = "data" THEN [line |-> Line("junk", <<>>), rest |-> Tail(Tail(wire))]
  ELSE [line |-> wire[1], rest |-> Tail(wire)]

ReadLine(here) == pc = here /\ wire # <<>> /\ wire' = NextLine.rest

\* token_read() of a literal
ReadData(here) == pc = here /\ wire # <<>> /\ wire' = Tail(wire)

Reading == {"line", "name", "space", "password", "challenge", "noop"}

\* a timeout, or the end of the connection, in a read that ends the session (of a
\* line that came late: ImapLate)
ReadFails ==
  /\ pc \in Reading \ {"name", "password"} /\ Quietly("failed")
  /\ UNCHANGED <<setting, client, link, wire, cont, creds, listed>>

TlsReady == TlsListen /\ io = "fd"

-----------------------------------------------------------------------------
(* pop3_in_get_auth.                                                       *)

PassAnyTime(word, args) ==  \* mutant: PASS before USER
  CASE word = "USER" -> Len(args) # 1
    [] word \in {"CAPA", "QUIT"} -> args # <<>>
    [] OTHER -> word = ""

\* the tests that end in __POP3_IN_ERR
PopWrong(word, args) ==
  CASE word = ""     -> TRUE
    [] word = "CAPA" -> args # <<>>
    [] word = "STLS" -> TlsListen /\ (args # <<>> \/ io = "ssl")
    [] word = "USER" -> Len(args) # 1
    [] word = "PASS" -> name = "none" \/ args = <<>>
    [] word = "QUIT" -> args # <<>>
    [] OTHER -> FALSE

\* what is done for a command, also one that is wrong if saying so fails: the
\* break in the macro leaves the macro only
PopObey(word, args, t) ==
  CASE word = "CAPA" -> List(t, "line")
    [] word = "STLS" /\ TlsReady ->
         Write(t, "starttls", "starttls") /\ UNCHANGED <<creds, listed>>
    [] word = "USER" /\ args # <<>> ->
         /\ name' = IF Len(args) = 1 THEN "same" ELSE "altered"
         /\ Write(t, "line", "line") /\ UNCHANGED <<pw, quoted, listed>>
    [] word = "USER" /\ args = <<>> ->
         pc' = "failed" /\ Unanswered /\ trouble' = t /\ UNCHANGED <<creds, listed>>
    [] word = "PASS" ->
         \* queue_to_string() of no tokens writes in front of its buffer
         /\ \/ pc' = "auth"
            \/ args = <<>> /\ pc' = "exited"
         /\ pw' = IF args = <<>> THEN "none" ELSE "same"
         /\ Unanswered /\ trouble' = t /\ UNCHANGED <<name, quoted, listed>>
    [] word = "QUIT" -> Write(t, "quit", "failed") /\ UNCHANGED <<creds, listed>>
    [] OTHER -> Write(t, "line", "failed") /\ UNCHANGED <<creds, listed>>

PopLine ==
  /\ Pop /\ ReadLine("line")
  /\ LET l == NextLine.line
     IN IF PopWrong(l.word, l.args)
        THEN \/ pc' = "line" /\ Answered /\ UNCHANGED <<trouble, creds, listed>>
             \/ PopObey(l.word, l.args, TRUE)
        ELSE PopObey(l.word, l.args, trouble)
  /\ UNCHANGED <<setting, client, link, cont>>

-----------------------------------------------------------------------------
(* imap4_in_get_auth.                                                      *)

Bad == Reply("line", "failed") /\ UNCHANGED cont

NeverAsk(a) == UNCHANGED <<cont, trouble>>  \* mutant: no continuation request

\* the continuation request; failing to write it goes unnoticed
Ask(a) ==
  \/ a.how = "sync" /\ cont' = TRUE /\ UNCHANGED trouble
  \/ a.how = "sync" /\ UNCHANGED cont /\ trouble' = TRUE
  \/ a.how # "sync" /\ UNCHANGED <<cont, trouble>>

\* imap4_token_to_string(), for a quoted string if q: of a quoted string, a word
\* or a literal
Converted(a, q) ==
  IF (a.how = "quoted" /\ ~q) \/ (Literal(a) /\ q /\ a.content = "odd")
  THEN "altered" ELSE "same"

\* the second argument of LOGIN; q is the status of the first one's wrapper
Password(a, q) ==
  IF Literal(a)
  THEN /\ pc' = IF a.content = "empty" THEN "no_password" ELSE "password"
       /\ Ask(a) /\ Unanswered /\ UNCHANGED <<pw, listed>>
  ELSE Quietly("auth") /\ pw' = Converted(a, q) /\ UNCHANGED <<cont, listed>>

ImapLogin(args) ==
  \/ Len(args) \notin {1, 2} /\ Bad
  \/ /\ Len(args) = 2 /\ ~Literal(args[1])
     /\ name' = Converted(args[1], TRUE) /\ quoted' = TRUE
     /\ Password(args[2], TRUE)
  \/ Len(args) = 1 /\ ~Literal(args[1]) /\ Bad
  \/ Len(args) = 2 /\ Literal(args[1]) /\ Bad
  \/ /\ Len(args) = 1 /\ Literal(args[1])
     /\ pc' = IF args[1].content = "empty" THEN "space" ELSE "name"
     /\ name' = "empty" /\ quoted' = FALSE
     /\ Ask(args[1]) /\ Unanswered /\ UNCHANGED <<pw, listed>>

ImapLine ==
  /\ Imap /\ ReadLine("line")
  /\ LET l == NextLine.line
         bare == l.args = <<>>
     IN CASE l.word \in {"badtag", "rest", "junk"} ->
               Untagged("line", "failed") /\ UNCHANGED cont
          [] l.word = "STARTTLS" /\ bare /\ TlsReady ->
               Reply("starttls", "failed") /\ UNCHANGED cont
          [] l.word = "CAPABILITY" /\ bare -> List(trouble, "line") /\ UNCHANGED cont
          [] l.word = "LOGOUT" /\ bare -> Reply("quit", "failed") /\ UNCHANGED cont
          [] l.word = "LOGIN" -> ImapLogin(l.args)
          \* NOOP and AUTHENTICATE, which is refused; and all that is wrong
          [] OTHER -> Bad
  /\ UNCHANGED <<setting, client, link>>

ImapName ==
  /\ ReadData("name") /\ name' = Converted(wire[1].args[1], FALSE)
  /\ Quietly("space")
  /\ UNCHANGED <<setting, client, link, cont, pw, quoted, listed>>

\* the line after the literal is read again, for the space and the password
ImapSpace ==
  /\ ReadLine("space")
  /\ LET l == NextLine.line
     IN IF Len(l.args) # 1 \/ name = "empty" THEN Bad
        ELSE Password(l.args[1], quoted) /\ UNCHANGED <<name, quoted>>
  /\ UNCHANGED <<setting, client, link>>

\* the end of its line is left unread
ImapPassword ==
  /\ ReadData("password") /\ pw' = Converted(wire[1].args[1], quoted)
  /\ Quietly("auth")
  /\ UNCHANGED <<setting, client, link, cont, name, quoted, listed>>

\* Neither came in time, or not all of it: LOGIN is wrong, and what comes of the
\* literal later is the beginning of the next line.  (A client that is answered in
\* the middle of a line sends the rest of it.  One that was never asked for it has
\* lost its connection: nothing more can be written to it.)
ImapDataFails ==
  /\ pc \in {"name", "password"}
  /\ \/ /\ pc = "name" /\ (cont \/ wire # <<>>)
        /\ pc' = "late" /\ answered' = answered + 1 /\ UNCHANGED todo
     \/ pc = "password" /\ pc' = "line" /\ Answered
     \/ pc' = "failed" /\ Unanswered
  /\ trouble' = TRUE
  /\ UNCHANGED <<setting, client, link, wire, cont, creds, listed>>

\* the first word of such a line is its tag
ImapLate ==
  /\ ReadLine("late") /\ Untagged("line", "failed")
  /\ UNCHANGED <<setting, client, link, cont>>

ImapNoPassword ==
  /\ pc = "no_password" /\ Bad
  /\ UNCHANGED <<setting, client, link, wire>>

-----------------------------------------------------------------------------
(* managesieve_in_get_auth.                                                *)

\* what is read after a reply: managesieve_in_get_auth goes on after OK and NO
No == Reply("line", "failed")

\* the challenge is decoded
Decode(a) ==
  IF a.content # "plain" THEN No
  ELSE Quietly("auth") /\ name' = "same" /\ pw' = "same" /\ UNCHANGED <<quoted, listed>>

\* The OK of a NOOP with an argument: managesieve_write() prints the response code
\* from its second part on, and the message with the last part.
OkWithTag == Quietly("line") /\ UNCHANGED <<creds, listed>>

\* managesieve_in_authenticate_cmd() and managesieve_in_sasl_plain()
SieveAuthenticate(args) ==
  IF Len(args) # 2 \/ args[1] # Arg("quoted", "PLAIN") \/ args[2].how = "atom" THEN No
  ELSE IF Literal(args[2]) /\ args[2].content # "empty"
  THEN Quietly("challenge") /\ UNCHANGED <<creds, listed>>
  ELSE Decode(args[2])

SieveNoop(args) ==
  IF args = <<>> THEN Reply("line", "failed")
  ELSE IF Len(args) > 1 \/ args[1].how = "atom" THEN No
  ELSE IF Literal(args[1]) THEN Quietly("noop") /\ UNCHANGED <<creds, listed>>
  ELSE OkWithTag

SieveCapabilityCmd(args) == IF args = <<>> THEN List(trouble, "failed") ELSE No

SieveLogout(args) == IF args = <<>> THEN Reply("quit", "failed") ELSE No

SieveStarttls(args) == IF args = <<>> THEN Reply("starttls", "failed") ELSE No

SieveLine ==
  /\ Sieve /\ ReadLine("line")
  /\ LET l == NextLine.line
     IN CASE l.word = "AUTHENTICATE" -> SieveAuthenticate(l.args)
          [] l.word = "NOOP" -> SieveNoop(l.args)
          [] l.word = "CAPABILITY" -> SieveCapabilityCmd(l.args)
          [] l.word = "LOGOUT" -> SieveLogout(l.args)
          [] l.word = "STARTTLS" /\ TlsReady -> SieveStarttls(l.args)
          \* an unknown command; failing to say so is taken for a NO
          [] OTHER -> Reply("line", "line")
  /\ UNCHANGED <<setting, client, link, cont>>

\* a literal and the line that ends it
SieveLiteral ==
  /\ pc \in {"challenge", "noop"} /\ wire # <<>> /\ wire' = Tail(Tail(wire))
  /\ IF wire[2].args # <<>> THEN No
     ELSE IF pc = "noop" THEN OkWithTag ELSE Decode(wire[1].args[1])
  /\ UNCHANGED <<setting, client, link, cont>>

-----------------------------------------------------------------------------
(* main().                                                                 *)

GreetingCaps == IF Pop THEN {"unknown"} ELSE Capability(FALSE)

\* the greeting; IMAP4's and MANAGESIEVE's have the capabilities
Greeting ==
  /\ pc = "greeting"
  /\ \/ pc' = "start" /\ listed' = GreetingCaps
     \/ pc' = "exited" /\ UNCHANGED listed
  /\ UNCHANGED <<setting, client, link, wire, cont, answered, todo, creds, trouble>>

StarttlsPost ==
  \/ pc' = "line" /\ listed' = Capability(tls) /\ UNCHANGED trouble
  \/ pc' = "failed" /\ trouble' = TRUE /\ UNCHANGED listed

\* in_get_auth is called.  MANAGESIEVE's first writes the capabilities if there
\* is TLS: after the handshake, but also when it is called again.
Start ==
  /\ pc = "start"
  /\ name' = "none" /\ pw' = "none" /\ quoted' = FALSE
  /\ IF Sieve /\ tls THEN StarttlsPost
     ELSE pc' = "line" /\ UNCHANGED <<listed, trouble>>
  /\ UNCHANGED <<setting, client, link, wire, cont, answered, todo>>

NoFlush ==                                     \* mutant: nothing is dropped
  {[rest |-> wire, net |-> n] : n \in 0..Len(wire)}

\* token_flush() drops what was read from the connection and not used, maybe half
\* a line.  What is left, and how much of it is still to be read from the
\* connection:
AfterFlush ==
  LET Rest(i) == SubSeq(wire, i + 1, Len(wire))
      Half(l) == [word |-> "junk", args |-> <<>>, enc |-> l.enc]
  IN {[rest |-> Rest(i), net |-> Len(Rest(i))] : i \in 0..Len(wire)}
       \cup {[rest |-> <<Half(wire[i])>> \o Rest(i), net |-> Len(Rest(i)) + 1] :
               i \in {j \in 1..Len(wire) : wire[j].word # "data"}}

Flush(f) == wire' = f.rest /\ flushed' = (flushed \/ f.rest # wire)

\* "Login Disabled"
LoginRefused == disabled \/ (mode = "tls_listen_force" /\ ~tls)

Decide ==
  /\ \/ pc \in {"failed", "quit"} /\ pc' = "exited" /\ UNCHANGED <<wire, flushed>>
     \/ /\ pc = "starttls"
        /\ \E f \in AfterFlush :
             /\ Flush(f)
             \* plain text in place of the client's handshake makes it fail
             /\ pc' = IF f.net = 0 THEN "handshake" ELSE "exited"
     \/ /\ pc = "auth"
        /\ \E f \in AfterFlush : Flush(f)
        /\ pc' = IF LoginRefused THEN "refused" ELSE "lookup"
  /\ UNCHANGED <<setting, link, asked, failed, cont, answered, todo, creds, listed,
                 trouble>>

Handshake ==
  /\ pc = "handshake"
  /\ \/ pc' = "start" /\ io' = "ssl" /\ tls' = TRUE
        /\ listed' = {"unknown"}   \* a client has to forget them
     \/ pc' = "exited" /\ UNCHANGED <<link, listed>>
  /\ UNCHANGED <<setting, client, wire, cont, answered, todo, creds, trouble>>

\* a login fails: PERDITION_CLEAN_UP_MAIN
Refuse ==
  /\ pc \in {"refused", "lookup"}
  /\ Write(trouble, "start", "start")
  /\ tls' = FALSE /\ failed' = TRUE
  /\ UNCHANGED <<setting, io, asked, flushed, wire, cont, creds, listed>>

\* a login succeeds, or ends the process
Serve ==
  /\ pc = "lookup"
  /\ \/ pc' = "served" /\ Answered /\ UNCHANGED trouble
     \/ Quietly("exited")
  /\ UNCHANGED <<setting, client, link, wire, cont, creds, listed>>

-----------------------------------------------------------------------------
Init ==
  /\ proto \in Protos /\ mode \in Modes /\ disabled \in BOOLEAN
  /\ pc = "greeting" /\ io = (IF mode = "ssl_listen" THEN "ssl" ELSE "fd")
  /\ tls = FALSE /\ wire = <<>> /\ todo = <<>> /\ cont = FALSE
  /\ asked = 0 /\ answered = 0
  /\ name = "none" /\ pw = "none" /\ quoted = FALSE
  /\ listed = {"unknown"} /\ trouble = FALSE /\ flushed = FALSE /\ failed = FALSE

Ended == ~Talking /\ UNCHANGED vars

Next ==
  \/ Command \/ Continue \/ ReadFails
  \/ Greeting \/ Start \/ Decide \/ Handshake \/ Refuse \/ Serve
  \/ PopLine
  \/ ImapLine \/ ImapName \/ ImapSpace \/ ImapPassword \/ ImapNoPassword
  \/ ImapDataFails \/ ImapLate
  \/ SieveLine \/ SieveLiteral
  \/ Ended

Spec == Init /\ [][Next]_vars

-----------------------------------------------------------------------------
\* Nothing that the client, or anybody on the way, sent before the handshake is
\* read after it: token_flush() comes between in_get_auth and the handshake.
PlaintextNotObeyed ==
  io = "ssl" => \A i \in DOMAIN wire : wire[i].enc

\* While perdition waits for the client the client is not waiting for perdition:
\* every command that was read has its reply, and every synchronising literal its
\* continuation request, until a write or the read of a literal fails or
\* token_flush() drops a command.
NobodyWaits ==
  pc \in Reading /\ wire = <<>> /\ ~trouble /\ ~flushed =>
    answered >= asked \/ (cont /\ todo # <<>>)

\* No command gets two final replies, also when its literals are refused, its line
\* is read in two parts or the end of it is left for the next read: until
\* token_flush() drops the half of a command.
OneReply == ~flushed => answered <= asked

\* What a client is told by a greeting or a list of capabilities is so: STARTTLS
\* is listed iff it would be obeyed, LOGINDISABLED iff LOGIN would be refused.  A
\* failed login makes the former wrong (tls_state is reset), and login_disabled
\* with TLS the latter.
HonestCapability ==
  pc = "line" /\ listed # {"unknown"} /\ ~failed =>
    /\ "STARTTLS" \in listed <=> TlsReady
    /\ "LOGINDISABLED" \in listed => LoginRefused
    /\ Imap /\ LoginRefused /\ ~(disabled /\ tls) => "LOGINDISABLED" \in listed

\* in_get_auth returns 0 only with a name and a password ("auth_return is seeded"),
\* whichever way they were sent, in sessions in which no write and no read of a
\* literal has failed.
SuccessIsSeeded ==
  pc \in {"auth", "lookup"} /\ ~trouble =>
    name \in {"same", "altered"} /\ pw # "none"

\* "Either way, the input_token return can be used as an 8bit clean value"
\* (imap4_token_wrapper): the credentials are those that the client has sent.
CredentialsIntact ==
  pc = "auth" /\ ~trouble => name = "same" /\ pw = "same"
=============================================================================
