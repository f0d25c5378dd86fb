-------------------------- MODULE ClientSideProofs ---------------------------
(***************************************************************************)
(* What the client's side guarantees for every protocol, mode, client and  *)
(* bound on what the client sends, proved with TLAPS.  First what          *)
(* in_get_auth says and returns (IInv); then what is on its way (WireInv)  *)
(* and who waits for whom (WaitInv).                                       *)
(***************************************************************************)
EXTENDS ClientSide, FiniteSetTheorems, WellFoundedInduction, TLAPS

Places == {"greeting", "start", "line", "late", "name", "space", "password", "no_password",
           "challenge", "noop", "auth", "lookup", "refused", "starttls", "handshake",
           "quit", "failed", "served", "exited"}

TypeOK ==
  /\ proto \in AllProtos /\ mode \in AllModes /\ disabled \in BOOLEAN
  /\ pc \in Places /\ io \in {"fd", "ssl"} /\ tls \in BOOLEAN
  /\ name \in {"none", "same", "altered", "empty"}
  /\ trouble \in BOOLEAN

\* what tls_state says of the connection, until a failed login resets it
LinkInv ==
  /\ tls => io = "ssl"
  /\ mode = "ssl_listen" => io = "ssl" /\ ~tls
  /\ ~failed /\ io = "ssl" /\ mode # "ssl_listen" => tls
  /\ pc = "greeting" => ~tls
  /\ pc \in {"starttls", "handshake"} => TlsReady

\* what the client was told last
ListedInv == ~failed => listed = {"unknown"} \/ listed = Capability(tls)

\* the name, at each place
SeedInv ==
  /\ Pop => name # "empty"
  /\ pc = "space" => name # "none"
  /\ pc \in {"password", "no_password"} => name \in {"same", "altered"}
  /\ pc \in {"auth", "lookup"} /\ ~trouble => name \in {"same", "altered"} /\ pw # "none"

\* who reads what
PlaceInv ==
  /\ pc \in {"name", "late", "space", "password", "no_password"} => Imap
  /\ pc = "late" => trouble
  /\ pc \in {"challenge", "noop"} => Sieve

IInv == TypeOK /\ LinkInv /\ ListedInv /\ SeedInv /\ PlaceInv

-----------------------------------------------------------------------------
\* What a command of POP3 leads to.
LEMMA PopObeyOutcome ==
  ASSUME NEW word, NEW args, NEW t \in BOOLEAN, PopObey(word, args, t)
  PROVE  /\ trouble' \in BOOLEAN /\ (t => trouble')
         /\ listed' = listed \/ listed' = Capability(tls)
         /\ name' \in {name, "same", "altered"}
         /\ pc' \in {"line", "starttls", "failed", "auth", "exited", "quit"}
         /\ pc' = "starttls" => TlsReady
         /\ pc' = "auth" => name' = name /\ (args # <<>> => pw' = "same") /\ word = "PASS"
<1> USE DEF Write, List, creds
<1>1. CASE word = "CAPA"
  <2>1. List(t, "line")
    BY <1>1, Zenon DEF PopObey
  <2> QED
    BY <2>1
<1>2. CASE word = "STLS" /\ TlsReady
  <2>1. Write(t, "starttls", "starttls") /\ UNCHANGED <<creds, listed>>
    BY <1>2, Zenon DEF PopObey
  <2> QED
    BY <1>2, <2>1
<1>3. CASE word = "USER" /\ args # <<>>
  <2>1. /\ name' = IF Len(args) = 1 THEN "same" ELSE "altered"
        /\ Write(t, "line", "line") /\ UNCHANGED <<pw, quoted, listed>>
    BY <1>3, Zenon DEF PopObey
  <2> QED
    BY <2>1
<1>4. CASE word = "USER" /\ args = <<>>
  <2>1. pc' = "failed" /\ Unanswered /\ trouble' = t /\ UNCHANGED <<creds, listed>>
    BY <1>4, Zenon DEF PopObey
  <2> QED
    BY <2>1
<1>5. CASE word = "PASS"
  <2>1. /\ pc' = "auth" \/ (args = <<>> /\ pc' = "exited")
        /\ pw' = IF args = <<>> THEN "none" ELSE "same"
        /\ Unanswered /\ trouble' = t /\ UNCHANGED <<name, quoted, listed>>
    BY <1>5, Zenon DEF PopObey
  <2> QED
    BY <1>5, <2>1
<1>6. CASE word = "QUIT"
  <2>1. Write(t, "quit", "failed") /\ UNCHANGED <<creds, listed>>
    BY <1>6, Zenon DEF PopObey
  <2> QED
    BY <2>1
<1>7. CASE word \notin {"CAPA", "USER", "PASS", "QUIT"} /\ ~(word = "STLS" /\ TlsReady)
  <2>1. Write(t, "line", "failed") /\ UNCHANGED <<creds, listed>>
    BY <1>7, Zenon DEF PopObey
  <2> QED
    BY <2>1
<1> QED
  BY <1>1, <1>2, <1>3, <1>4, <1>5, <1>6, <1>7
-----------------------------------------------------------------------------
\* What every handler of a line or of a literal does to what the invariant is about.
Handled ==
  /\ trouble' \in BOOLEAN /\ (trouble => trouble')
  /\ listed' = listed \/ listed' = Capability(tls)
  /\ name' \in {"none", "same", "altered", "empty"}
  /\ pc' \in Places \ {"greeting", "handshake"}
  /\ pc' = "starttls" => TlsReady
  /\ Pop => name' # "empty"
  /\ pc' = "space" => name' # "none"
  /\ pc' \in {"password", "no_password"} => name' \in {"same", "altered"}
  /\ pc' \in {"name", "late", "space", "password", "no_password"} => Imap
  /\ pc' = "late" => trouble'
  /\ pc' \in {"challenge", "noop"} => Sieve
  /\ pc' \in {"auth", "lookup"} /\ ~trouble' => name' \in {"same", "altered"} /\ pw' # "none"

\* pop3_in_get_auth.
LEMMA PopHandled == IInv /\ PopLine => Handled
<1> SUFFICES ASSUME IInv, PopLine PROVE Handled
  OBVIOUS
<1> USE DEF IInv, TypeOK, SeedInv
<1> DEFINE l == NextLine.line
<1>1. CASE PopWrong(l.word, l.args) /\ ~PopObey(l.word, l.args, TRUE)
  <2>1. pc' = "line" /\ Answered /\ UNCHANGED <<trouble, creds, listed>>
    BY <1>1, Zenon DEF PopLine
  <2> QED
    BY <2>1 DEF Handled, Places, creds
<1>2. CASE PopObey(l.word, l.args, TRUE)
  <2>1. /\ trouble' = TRUE
        /\ listed' = listed \/ listed' = Capability(tls)
        /\ name' \in {name, "same", "altered"}
        /\ pc' \in {"line", "starttls", "failed", "auth", "exited", "quit"}
        /\ pc' = "starttls" => TlsReady
    BY <1>2, PopObeyOutcome
  <2> QED
    BY <2>1 DEF Handled, Places, PopLine
<1>3. CASE ~PopWrong(l.word, l.args) /\ PopObey(l.word, l.args, trouble)
  <2>1. /\ trouble' \in BOOLEAN /\ (trouble => trouble')
        /\ listed' = listed \/ listed' = Capability(tls)
        /\ name' \in {name, "same", "altered"}
        /\ pc' \in {"line", "starttls", "failed", "auth", "exited", "quit"}
        /\ pc' = "starttls" => TlsReady
        /\ pc' = "auth" => name' = name /\ (l.args # <<>> => pw' = "same") /\ l.word = "PASS"
    BY <1>3, PopObeyOutcome
  <2>2. l.word = "PASS" => name # "none" /\ l.args # <<>>
    BY <1>3, Zenon DEF PopWrong
  <2> QED
    BY <2>1, <2>2 DEF Handled, Places, PopLine
<1> QED
  BY <1>1, <1>2, <1>3, Zenon DEF PopLine

\* A reply, a list of capabilities or a line that is no reply keeps the credentials.
LEMMA PlainHandled ==
  ASSUME IInv, NEW next \in {"line", "quit", "starttls"}, NEW broken \in {"line", "failed"},
         next = "starttls" => TlsReady,
         Reply(next, broken) \/ Untagged(next, broken) \/ List(trouble, broken)
  PROVE  Handled
  BY DEF IInv, TypeOK, SeedInv, Handled, Places, Reply, Untagged, List, Write, creds

\* The second argument of LOGIN: a name was converted before.
LEMMA PasswordHandled ==
  ASSUME IInv, Imap, NEW a, NEW q, Password(a, q), name' \in {"same", "altered"}
  PROVE  Handled
<1> USE DEF IInv, TypeOK, SeedInv, Handled, Places
<1>1. CASE Literal(a)
  <2>1. /\ pc' \in {"no_password", "password"} /\ listed' = listed
        /\ trouble' \in BOOLEAN /\ (trouble => trouble')
    BY <1>1 DEF Password, Ask
  <2> QED
    BY <2>1 DEF Imap, Pop
<1>2. CASE ~Literal(a)
  <2>1. pc' = "auth" /\ trouble' = trouble /\ pw' \in {"same", "altered"} /\ listed' = listed
    BY <1>2 DEF Password, Quietly, Converted
  <2> QED
    BY <2>1 DEF Imap, Pop
<1> QED
  BY <1>1, <1>2

\* LOGIN's arguments.
LEMMA LoginHandled ==
  ASSUME IInv, Imap, NEW args, ImapLogin(args)
  PROVE  Handled
<1>1. CASE Bad
  <2>1. Reply("line", "failed")
    BY <1>1 DEF Bad
  <2> QED
    BY <2>1, PlainHandled
<1>2. CASE /\ Len(args) = 2 /\ ~Literal(args[1])
           /\ name' = Converted(args[1], TRUE) /\ quoted' = TRUE
           /\ Password(args[2], TRUE)
  <2>1. name' \in {"same", "altered"}
    BY <1>2 DEF Converted
  <2> QED
    BY <1>2, <2>1, PasswordHandled
<1>3. CASE /\ Len(args) = 1 /\ Literal(args[1])
           /\ pc' = IF args[1].content = "empty" THEN "space" ELSE "name"
           /\ name' = "empty" /\ quoted' = FALSE
           /\ Ask(args[1]) /\ Unanswered /\ UNCHANGED <<pw, listed>>
  <2>0. pc' \in {"space", "name"}
    BY <1>3
  <2>1. name' = "empty" /\ listed' = listed /\ Ask(args[1])
    BY <1>3, Zenon
  <2>2. trouble' \in BOOLEAN /\ (trouble => trouble')
    BY <2>1 DEF IInv, TypeOK, Ask
  <2> QED
    BY <2>0, <2>1, <2>2 DEF Handled, Places, Imap, Pop
<1> QED
  BY <1>1, <1>2, <1>3, Zenon DEF ImapLogin

ImapReads ==
  \/ ImapLine \/ ImapName \/ ImapSpace \/ ImapPassword \/ ImapNoPassword
  \/ ImapDataFails \/ ImapLate

\* imap4_in_get_auth.
LEMMA ImapHandled ==
  IInv /\ ImapReads => Handled
<1> SUFFICES ASSUME IInv, ImapReads PROVE Handled
  OBVIOUS
<1>0. ASSUME Bad PROVE Handled
  <2>1. Reply("line", "failed")
    BY <1>0 DEF Bad
  <2> QED
    BY <2>1, PlainHandled
<1>1. CASE ImapLine
  <2> DEFINE l == NextLine.line
  <2>1. CASE l.word \in {"badtag", "rest", "junk"}
    <3>1. Untagged("line", "failed")
      BY <1>1, <2>1, Zenon DEF ImapLine
    <3> QED
      BY <3>1, PlainHandled
  <2>2. CASE l.word = "STARTTLS" /\ l.args = <<>> /\ TlsReady
    <3>1. Reply("starttls", "failed")
      BY <1>1, <2>2, Zenon DEF ImapLine
    <3> QED
      BY <2>2, <3>1, PlainHandled
  <2>3. CASE l.word = "CAPABILITY" /\ l.args = <<>>
    <3>1. List(trouble, "line")
      BY <1>1, <2>3, Zenon DEF ImapLine
    <3> QED
      BY <3>1, PlainHandled
  <2>4. CASE l.word = "LOGOUT" /\ l.args = <<>>
    <3>1. Reply("quit", "failed")
      BY <1>1, <2>4, Zenon DEF ImapLine
    <3> QED
      BY <3>1, PlainHandled
  <2>5. CASE l.word = "LOGIN"
    <3>1. Imap /\ ImapLogin(l.args)
      BY <1>1, <2>5, Zenon DEF ImapLine
    <3> QED
      BY <3>1, LoginHandled
  <2>6. CASE /\ l.word \notin {"badtag", "rest", "junk", "LOGIN"}
             /\ ~(l.word = "STARTTLS" /\ l.args = <<>> /\ TlsReady)
             /\ ~(l.word \in {"CAPABILITY", "LOGOUT"} /\ l.args = <<>>)
    <3>1. Bad
      BY <1>1, <2>6, Zenon DEF ImapLine
    <3> QED
      BY <3>1, <1>0
  <2> QED
    BY <2>1, <2>2, <2>3, <2>4, <2>5, <2>6
<1>2. CASE ImapName
  <2>1. /\ name' \in {"same", "altered"} /\ pc' = "space" /\ pc = "name"
        /\ trouble' = trouble /\ listed' = listed
    BY <1>2 DEF ImapName, ReadData, Quietly, Converted
  <2> QED
    BY <2>1 DEF IInv, TypeOK, PlaceInv, Handled, Places
<1>3. CASE ImapSpace
  <2> DEFINE l == NextLine.line
  <2>1. CASE Bad
    BY <2>1, <1>0
  <2>2. CASE name # "empty" /\ Password(l.args[1], quoted) /\ UNCHANGED <<name, quoted>>
    <3>1. name' \in {"same", "altered"}
      BY <1>3, <2>2 DEF IInv, TypeOK, SeedInv, ImapSpace, ReadLine
    <3> QED
      BY <1>3, <2>2, <3>1, PasswordHandled DEF IInv, PlaceInv, ImapSpace, ReadLine
  <2> QED
    BY <1>3, <2>1, <2>2, Zenon DEF ImapSpace
<1>4. CASE ImapPassword
  <2>1. /\ pw' \in {"same", "altered"} /\ pc' = "auth" /\ pc = "password"
        /\ trouble' = trouble /\ listed' = listed /\ name' = name
    BY <1>4 DEF ImapPassword, Quietly, Converted, ReadData
  <2> QED
    BY <2>1 DEF IInv, TypeOK, SeedInv, Handled, Places
<1>5. CASE ImapNoPassword
  BY <1>5, <1>0 DEF ImapNoPassword
<1>6. CASE ImapDataFails
  <2>1. /\ pc' \in {"line", "late", "failed"} /\ pc \in {"name", "password"}
        /\ trouble' = TRUE /\ listed' = listed /\ name' = name
    BY <1>6 DEF ImapDataFails, creds
  <2> QED
    BY <2>1 DEF IInv, TypeOK, SeedInv, PlaceInv, Handled, Places
<1>7. CASE ImapLate
  <2>1. Untagged("line", "failed")
    BY <1>7 DEF ImapLate
  <2> QED
    BY <2>1, PlainHandled
<1> QED
  BY <1>1, <1>2, <1>3, <1>4, <1>5, <1>6, <1>7 DEF ImapReads

\* ManageSieve's replies to a command and to its literal.
LEMMA DecodeHandled ==
  ASSUME IInv, Sieve, NEW a, Decode(a)
  PROVE  Handled
<1>1. CASE No
  <2>1. Reply("line", "failed")
    BY <1>1 DEF No
  <2> QED
    BY <2>1, PlainHandled
<1>2. CASE Quietly("auth") /\ name' = "same" /\ pw' = "same" /\ UNCHANGED <<quoted, listed>>
  BY <1>2 DEF IInv, TypeOK, Handled, Places, Quietly
<1> QED
  BY <1>1, <1>2, Zenon DEF Decode

\* The writes of managesieve_in.c change neither name nor password.
LEMMA SieveReplies ==
  ASSUME IInv, Sieve, NEW next \in {"line", "challenge", "noop"},
         Quietly(next), UNCHANGED <<creds, listed>>
  PROVE  Handled
  BY DEF IInv, TypeOK, SeedInv, Handled, Places, Quietly, creds, Sieve, Pop

\* managesieve_in_get_auth.
LEMMA SieveHandled ==
  IInv /\ (SieveLine \/ SieveLiteral) => Handled
<1> SUFFICES ASSUME IInv, SieveLine \/ SieveLiteral
    PROVE Handled
  OBVIOUS
<1>0. /\ Sieve
      /\ No => Handled
      /\ OkWithTag => Handled
  <2>1. Sieve
    BY DEF IInv, PlaceInv, SieveLine, SieveLiteral
  <2>2. No => Handled
    <3> SUFFICES ASSUME No PROVE Handled
      OBVIOUS
    <3>1. Reply("line", "failed")
      BY DEF No
    <3> QED
      BY <3>1, PlainHandled
  <2>3. OkWithTag => Handled
    BY <2>1, SieveReplies DEF OkWithTag
  <2> QED
    BY <2>1, <2>2, <2>3
<1>1. CASE SieveLine
  <2> DEFINE l == NextLine.line
  <2> HIDE DEF l
  <2>1. CASE l.word = "AUTHENTICATE"
    <3>1. SieveAuthenticate(l.args)
      BY <1>1, <2>1, Zenon DEF SieveLine, l
    <3>2. \/ No
          \/ Quietly("challenge") /\ UNCHANGED <<creds, listed>>
          \/ Decode(l.args[2])
      BY <3>1, Zenon DEF SieveAuthenticate
    <3> QED
      BY <1>0, <3>2, SieveReplies, DecodeHandled
  <2>2. CASE l.word = "NOOP"
    <3>1. SieveNoop(l.args)
      BY <1>1, <2>2, Zenon DEF SieveLine, l
    <3>2. \/ No
          \/ Reply("line", "failed")
          \/ Quietly("noop") /\ UNCHANGED <<creds, listed>>
          \/ OkWithTag
      BY <3>1, Zenon DEF SieveNoop
    <3> QED
      BY <1>0, <3>2, SieveReplies, PlainHandled
  <2>3. CASE l.word = "CAPABILITY"
    <3>1. SieveCapabilityCmd(l.args)
      BY <1>1, <2>3, Zenon DEF SieveLine, l
    <3>2. List(trouble, "failed") \/ No
      BY <3>1, Zenon DEF SieveCapabilityCmd
    <3> QED
      BY <1>0, <3>2, PlainHandled
  <2>4. CASE l.word = "LOGOUT"
    <3>1. SieveLogout(l.args)
      BY <1>1, <2>4, Zenon DEF SieveLine, l
    <3>2. Reply("quit", "failed") \/ No
      BY <3>1, Zenon DEF SieveLogout
    <3> QED
      BY <1>0, <3>2, PlainHandled
  <2>5. CASE l.word = "STARTTLS" /\ TlsReady
    <3>1. SieveStarttls(l.args)
      BY <1>1, <2>5, Zenon DEF SieveLine, l
    <3>2. Reply("starttls", "failed") \/ No
      BY <3>1, Zenon DEF SieveStarttls
    <3> QED
      BY <1>0, <2>5, <3>2, PlainHandled
  <2>6. CASE /\ l.word \notin {"AUTHENTICATE", "NOOP", "CAPABILITY", "LOGOUT"}
             /\ ~(l.word = "STARTTLS" /\ TlsReady)
    <3>1. Reply("line", "line")
      BY <1>1, <2>6, Zenon DEF SieveLine, l
    <3> QED
      BY <3>1, PlainHandled
  <2> QED
    BY <2>1, <2>2, <2>3, <2>4, <2>5, <2>6
<1>2. CASE SieveLiteral
  <2>1. No \/ OkWithTag \/ Decode(wire[1].args[1])
    BY <1>2, Zenon DEF SieveLiteral
  <2> QED
    BY <1>0, <2>1, DecodeHandled
<1> QED
  BY <1>1, <1>2

Handler == \/ PopLine
           \/ ImapReads
           \/ SieveLine \/ SieveLiteral

\* What is read and handled, whichever protocol it is.
LEMMA HandlerHandled == IInv /\ Handler => Handled
  BY PopHandled, ImapHandled, SieveHandled DEF Handler

\* A handler keeps what else the invariant mentions.
LEMMA HandlerFrame ==
  Handler => /\ proto' = proto /\ mode' = mode /\ disabled' = disabled
             /\ io' = io /\ tls' = tls /\ failed' = failed /\ pc # "greeting"
  BY DEF Handler, PopLine, ImapReads, ImapLine, ImapName, ImapSpace, ImapPassword,
         ImapNoPassword, ImapDataFails, ImapLate, SieveLine, SieveLiteral, setting, client, link, ReadLine, ReadData

\* The capabilities depend on nothing that a handler changes.
LEMMA CapabilityFrame ==
  UNCHANGED <<proto, mode, disabled, tls>> => Capability(tls)' = Capability(tls)
  BY DEF Capability, PopCapability, ImapCapability, SieveCapability, Starttls, TlsListen,
         Pop, Imap, Sieve

\* The invariant holds initially ...
LEMMA InitInv == Init => IInv
  BY ProtosAssumption, ModesAssumption
     DEF Init, IInv, TypeOK, LinkInv, ListedInv, SeedInv, PlaceInv, Places, AllProtos,
         AllModes, TlsReady

\* ... and every step of the client, of in_get_auth and of main() keeps it.
LEMMA StepInv == IInv /\ [Next]_vars => IInv'
<1> SUFFICES ASSUME IInv, [Next]_vars PROVE IInv'
  OBVIOUS
<1> USE DEF IInv
<1>1. CASE Handler
  <2>1. Handled
    BY <1>1, HandlerHandled
  <2>2. /\ proto' = proto /\ mode' = mode /\ disabled' = disabled
        /\ io' = io /\ tls' = tls /\ failed' = failed /\ pc # "greeting"
    BY <1>1, HandlerFrame
  <2>3. Capability(tls)' = Capability(tls)
    BY <2>2, CapabilityFrame
  <2>4. TypeOK'
    BY <2>1, <2>2 DEF Handled, TypeOK
  <2>5. LinkInv'
    BY <2>1, <2>2 DEF Handled, LinkInv, TlsReady, TlsListen
  <2>6. ListedInv'
    BY <2>1, <2>2, <2>3 DEF Handled, ListedInv
  <2>7. SeedInv' /\ PlaceInv'
    BY <2>1, <2>2 DEF Handled, SeedInv, PlaceInv, Pop, Imap, Sieve
  <2> QED
    BY <2>4, <2>5, <2>6, <2>7
<1>2. CASE Command \/ Continue \/ Ended \/ UNCHANGED vars
  <2>1. UNCHANGED <<proto, mode, disabled, pc, io, tls, name, pw, listed, trouble, failed>>
    BY <1>2 DEF Command, Continue, Ended, vars, setting, client, link, creds
  <2>2. Capability(tls)' = Capability(tls)
    BY <2>1, CapabilityFrame
  <2> QED
    BY <2>1, <2>2 DEF TypeOK, LinkInv, ListedInv, SeedInv, PlaceInv, TlsReady, TlsListen,
                      Pop, Imap, Sieve
<1>3. CASE ReadFails \/ Decide \/ Serve
  <2>1. UNCHANGED <<proto, mode, disabled, io, tls, name, pw, listed, failed>>
    BY <1>3 DEF ReadFails, Decide, Serve, setting, client, link, creds
  <2>2. Capability(tls)' = Capability(tls)
    BY <2>1, CapabilityFrame
  <2>3. trouble' = trouble
    BY <1>3 DEF ReadFails, Decide, Serve, Quietly
  <2>4. pc' \in {"failed", "exited", "handshake", "refused", "lookup", "served"}
    BY <1>3 DEF ReadFails, Decide, Serve, Quietly
  <2>5. pc' = "handshake" => pc = "starttls"
    BY <1>3 DEF ReadFails, Decide, Serve, Quietly
  <2>6. pc' = "lookup" => pc = "auth"
    BY <1>3 DEF ReadFails, Decide, Serve, Quietly
  <2> QED
    BY <2>1, <2>2, <2>3, <2>4, <2>5, <2>6
       DEF TypeOK, LinkInv, ListedInv, SeedInv, PlaceInv, TlsReady, TlsListen, Pop, Imap,
           Sieve, Places
<1>4. CASE Greeting
  <2>1. /\ UNCHANGED <<proto, mode, disabled, io, tls, name, pw, trouble, failed>>
        /\ pc = "greeting" /\ pc' \in {"start", "exited"}
        /\ listed' \in {listed, GreetingCaps}
    BY <1>4 DEF Greeting, setting, client, link, creds
  <2>2. Capability(tls)' = Capability(tls)
    BY <2>1, CapabilityFrame
  <2>3. ~tls /\ tls = FALSE
    BY <2>1 DEF LinkInv, TypeOK
  <2>4. GreetingCaps \in {{"unknown"}, Capability(tls)}
    BY <2>3 DEF GreetingCaps
  <2> QED
    BY <2>1, <2>2, <2>4
       DEF TypeOK, LinkInv, ListedInv, SeedInv, PlaceInv, TlsReady, TlsListen, Pop, Imap,
           Sieve, Places
<1>5. CASE Start
  <2>1. /\ UNCHANGED <<proto, mode, disabled, io, tls, failed>> /\ name' = "none"
        /\ listed' \in {listed, Capability(tls)} /\ pc' \in {"line", "failed"}
        /\ trouble' \in BOOLEAN
    BY <1>5 DEF Start, StarttlsPost, TypeOK, setting, client, link
  <2>2. Capability(tls)' = Capability(tls)
    BY <2>1, CapabilityFrame
  <2> QED
    BY <2>1, <2>2 
       DEF TypeOK, LinkInv, ListedInv, SeedInv, PlaceInv, Pop, Places
<1>6. CASE Handshake
  <2>1. /\ UNCHANGED <<proto, mode, disabled, name, pw, trouble, failed>>
        /\ pc = "handshake" /\ pc' \in {"start", "exited"}
        /\ (io' = "ssl" /\ tls' = TRUE /\ listed' = {"unknown"}) 
             \/ UNCHANGED <<io, tls, listed>>
    BY <1>6 DEF Handshake, setting, client, link, creds
  <2>2. UNCHANGED tls => Capability(tls)' = Capability(tls)
    BY <2>1, CapabilityFrame
  <2>3. TlsReady
    BY <2>1 DEF LinkInv
  <2>4. TypeOK' /\ SeedInv' /\ PlaceInv'
    BY <2>1 DEF TypeOK, SeedInv, PlaceInv, Pop, Places
  <2>5. LinkInv'
    BY <2>1, <2>3 DEF TypeOK, LinkInv, TlsReady, TlsListen
  <2>6. ListedInv'
    BY <2>1, <2>2 DEF ListedInv
  <2> QED
    BY <2>4, <2>5, <2>6
<1>7. CASE Refuse
  <2>1. /\ UNCHANGED <<proto, mode, disabled, io, name, pw>>
        /\ tls' = FALSE /\ failed' = TRUE /\ pc' = "start" /\ trouble' \in BOOLEAN
    BY <1>7 DEF Refuse, Write, TypeOK, setting, client, link, creds
  <2> QED
    BY <2>1 DEF TypeOK, LinkInv, ListedInv, SeedInv, PlaceInv, Pop, Places
<1> QED
  BY <1>1, <1>2, <1>3, <1>4, <1>5, <1>6, <1>7 DEF Next, Handler, ImapReads

-----------------------------------------------------------------------------
(***************************************************************************)
(* What is on its way.  The stream is what perdition has not read, sent or *)
(* held back by the client.  A command weighs 1 there until it is answered *)
(* or under way: a LOGIN whose name is a literal weighs as much as the     *)
(* line with its password, which is the one that it is answered after.     *)
(***************************************************************************)

stream == wire \o todo

Hows == {"atom", "quoted", "sync", "nonsync"}
Contents == {"plain", "odd", "empty", "PLAIN", "X"}
Args == [how : Hows, content : Contents]
Words == {"CAPA", "STLS", "USER", "PASS", "QUIT", "other", "", "NOOP", "STARTTLS",
          "CAPABILITY", "AUTHENTICATE", "LOGOUT", "LOGIN", "badtag", "tagonly", "data",
          "rest", "junk"}
Items == [word : Words, args : Seq(Args), enc : BOOLEAN]

\* a LOGIN whose name is a literal, and the line with its password
Split(l) == l.word = "LOGIN" /\ Len(l.args) = 1 /\ Literal(l.args[1])
Piece(l) == l.word = "rest" /\ Len(l.args) = 1 /\ l.args[1].how # "atom"

\* a line after which the client waits
SyncEnd(l) == l.args # <<>> /\ l.word # "data" /\ l.args[Len(l.args)].how = "sync"

\* a MANAGESIEVE command whose literal is read
Lit(l) ==
  \/ /\ l.word = "AUTHENTICATE" /\ Len(l.args) = 2 /\ l.args[1] = Arg("quoted", "PLAIN")
     /\ Literal(l.args[2]) /\ l.args[2].content # "empty"
  \/ l.word = "NOOP" /\ Len(l.args) = 1 /\ Literal(l.args[1])

Heavy(l) ==
  Piece(l) \/ (l.word \notin {"data", "rest", "junk", "badtag"} /\ ~Split(l))

Count(s) == Cardinality({n \in 1 .. Len(s) : Heavy(s[n])})

\* what comes behind a line
Follows(s, n) ==
  /\ Split(s[n]) /\ s[n].args[1].content = "empty" =>
       n + 1 <= Len(s) /\ Piece(s[n + 1])
  /\ Split(s[n]) /\ s[n].args[1].content # "empty" =>
       n + 2 <= Len(s) /\ s[n + 1].word = "data" /\ Piece(s[n + 2])
  /\ Lit(s[n]) =>
       n + 2 <= Len(s) /\ s[n + 1].word = "data" /\ s[n + 2].word = "rest"

Shape(s) == \A n \in 1 .. Len(s) : Follows(s, n)

-----------------------------------------------------------------------------
(* Sequences of lines.                                                     *)

\* A concatenation, element by element.
LEMMA ConcatElements ==
  ASSUME NEW s \in Seq(Items), NEW t \in Seq(Items)
  PROVE  /\ s \o t \in Seq(Items) /\ Len(s \o t) = Len(s) + Len(t)
         /\ Len(s) \in Nat /\ Len(t) \in Nat
         /\ \A n \in 1 .. Len(s) : (s \o t)[n] = s[n]
         /\ \A n \in 1 .. Len(t) : (s \o t)[Len(s) + n] = t[n]
         /\ \A n \in Len(s) + 1 .. Len(s) + Len(t) : (s \o t)[n] = t[n - Len(s)]
  OBVIOUS

\* A sequence without its first k elements.
LEMMA DropElements ==
  ASSUME NEW s \in Seq(Items), NEW k \in 0 .. Len(s)
  PROVE  LET d == SubSeq(s, k + 1, Len(s))
         IN /\ d \in Seq(Items) /\ Len(d) = Len(s) - k /\ Len(s) \in Nat
            /\ \A n \in 1 .. Len(s) - k : d[n] = s[n + k]
            /\ s = SubSeq(s, 1, k) \o d /\ SubSeq(s, 1, k) \in Seq(Items)
<1> DEFINE d == SubSeq(s, k + 1, Len(s))
           a == SubSeq(s, 1, k)
<1>1. /\ d \in Seq(Items) /\ Len(d) = Len(s) - k /\ Len(s) \in Nat
      /\ \A n \in 1 .. Len(s) - k : d[n] = s[n + k]
  OBVIOUS
<1>2. a \in Seq(Items) /\ Len(a) = k /\ \A n \in 1 .. k : a[n] = s[n]
  OBVIOUS
<1> HIDE DEF a, d
<1>3. /\ a \o d \in Seq(Items) /\ Len(a \o d) = k + Len(d)
      /\ \A n \in 1 .. k : (a \o d)[n] = a[n]
      /\ \A n \in k + 1 .. k + Len(d) : (a \o d)[n] = d[n - k]
  BY <1>1, <1>2, ConcatElements
<1>4. Len(a \o d) = Len(s)
  BY <1>1, <1>3
<1>5. \A n \in 1 .. Len(s) : s[n] = (a \o d)[n]
  <2> SUFFICES ASSUME NEW n \in 1 .. Len(s) PROVE s[n] = (a \o d)[n]
    OBVIOUS
  <2>1. CASE n <= k
    BY <1>1, <1>2, <1>3, <2>1
  <2>2. CASE n > k
    <3>1. n \in k + 1 .. k + Len(d) /\ n - k \in 1 .. Len(s) - k /\ (n - k) + k = n
      BY <1>1, <2>2
    <3>2. (a \o d)[n] = d[n - k] /\ d[n - k] = s[(n - k) + k]
      BY <1>1, <1>3, <3>1, Zenon
    <3> QED
      BY <3>1, <3>2, Zenon
  <2>3. n <= k \/ n > k
    BY <1>1
  <2> QED
    BY <2>1, <2>2, <2>3, Zenon
<1>6. s = a \o d
  <2> DEFINE c == a \o d
  <2>1. c \in Seq(Items) /\ Len(c) = Len(s) /\ \A n \in 1 .. Len(s) : s[n] = c[n]
    BY <1>3, <1>4, <1>5
  <2> HIDE DEF c
  <2>2. s = c
    BY <2>1
  <2> QED
    BY <2>2 DEF c
<1> QED
  BY <1>1, <1>2, <1>6 DEF a, d

\* Shifting a set of positions keeps its size.
LEMMA ShiftCardinality ==
  ASSUME NEW L \in SUBSET Int, IsFiniteSet(L), NEW s \in Int
  PROVE  IsFiniteSet({n + s : n \in L}) /\ Cardinality({n + s : n \in L}) = Cardinality(L)
<1> DEFINE f == [n \in L |-> n + s]
           M == {n + s : n \in L}
<1>1. f \in Injection(L, M)
  <2>1. f \in [L -> M]
    OBVIOUS
  <2>2. \A a, b \in L : f[a] = f[b] => a = b
    OBVIOUS
  <2> HIDE DEF f, M
  <2> QED
    BY <2>1, <2>2 DEF Injection, IsInjective
<1>2. f \in Surjection(L, M)
  BY DEF Surjection
<1>3. ExistsBijection(L, M)
  BY <1>1, <1>2 DEF ExistsBijection, Bijection
<1> QED
  BY <1>3, FS_Bijection

\* The weights of two sequences add up.
LEMMA CountIsNat ==
  ASSUME NEW s \in Seq(Items)
  PROVE  Count(s) \in Nat /\ IsFiniteSet({n \in 1 .. Len(s) : Heavy(s[n])})
<1>1. IsFiniteSet(1 .. Len(s))
  BY FS_Interval
<1> DEFINE H == {n \in 1 .. Len(s) : Heavy(s[n])}
<1>2. H \subseteq 1 .. Len(s)
  OBVIOUS
<1> HIDE DEF H
<1>3. IsFiniteSet(H) /\ Cardinality(H) \in Nat
  BY <1>1, <1>2, FS_Subset, FS_CardinalityType
<1> QED
  BY <1>3 DEF H, Count

\* The weight of what was sent is that of its parts ...
LEMMA CountConcat ==
  ASSUME NEW s \in Seq(Items), NEW t \in Seq(Items)
  PROVE  Count(s \o t) = Count(s) + Count(t)
<1> DEFINE st == s \o t
           A == {n \in 1 .. Len(s) : Heavy(s[n])}
           B == {n \in 1 .. Len(t) : Heavy(t[n])}
           C == {n \in 1 .. Len(st) : Heavy(st[n])}
           D == {n + Len(s) : n \in B}
<1>1. /\ st \in Seq(Items) /\ Len(st) = Len(s) + Len(t) /\ Len(s) \in Nat /\ Len(t) \in Nat
      /\ \A n \in 1 .. Len(s) : st[n] = s[n]
      /\ \A n \in 1 .. Len(t) : st[Len(s) + n] = t[n]
      /\ \A n \in Len(s) + 1 .. Len(s) + Len(t) : st[n] = t[n - Len(s)]
  BY ConcatElements
<1> HIDE DEF st
<1>2. C = A \cup D
  <2>1. ASSUME NEW n \in C PROVE n \in A \cup D
    <3>1. CASE n <= Len(s)
      BY <1>1, <3>1
    <3>2. CASE n > Len(s)
      <4>1. n - Len(s) \in B /\ n = (n - Len(s)) + Len(s)
        BY <1>1, <3>2
      <4> QED
        BY <4>1
    <3> QED
      BY <1>1, <3>1, <3>2
  <2>2. ASSUME NEW n \in A PROVE n \in C
    BY <1>1
  <2>3. ASSUME NEW n \in B PROVE n + Len(s) \in C
    <3>1. n + Len(s) = Len(s) + n /\ n + Len(s) \in 1 .. Len(st)
      BY <1>1
    <3> QED
      BY <1>1, <3>1
  <2> QED
    BY <2>1, <2>2, <2>3
<1>3. A \cap D = {}
  BY <1>1
<1>4. IsFiniteSet(A) /\ Cardinality(A) \in Nat /\ IsFiniteSet(B) /\ Cardinality(B) \in Nat
  BY CountIsNat DEF Count
<1>5. IsFiniteSet(D) /\ Cardinality(D) = Cardinality(B)
  <2>1. B \in SUBSET Int /\ Len(s) \in Int
    BY <1>1
  <2> HIDE DEF B
  <2> QED
    BY <1>4, <2>1, ShiftCardinality
<1> HIDE DEF A, B, C, D
<1>6. Cardinality(A \cup D) = Cardinality(A) + Cardinality(D) - Cardinality(A \cap D)
  BY <1>4, <1>5, FS_Union
<1>7. Cardinality(A \cap D) = 0
  BY <1>3, FS_EmptySet
<1>8. Cardinality(C) = Cardinality(A) + Cardinality(B)
  BY <1>2, <1>4, <1>5, <1>6, <1>7
<1> QED
  BY <1>8 DEF A, B, C, st, Count

\* ... for a part that was read, too.
LEMMA CountDrop ==
  ASSUME NEW s \in Seq(Items), NEW k \in 0 .. Len(s)
  PROVE  /\ Count(s) = Count(SubSeq(s, 1, k)) + Count(SubSeq(s, k + 1, Len(s)))
         /\ Count(SubSeq(s, 1, k)) \in Nat /\ Count(SubSeq(s, k + 1, Len(s))) \in Nat
<1> DEFINE d == SubSeq(s, k + 1, Len(s))
           a == SubSeq(s, 1, k)
<1>1. d \in Seq(Items) /\ a \in Seq(Items) /\ s = a \o d
  BY DropElements
<1> HIDE DEF a, d
<1>2. Count(a \o d) = Count(a) + Count(d) /\ Count(a) \in Nat /\ Count(d) \in Nat
  BY <1>1, CountConcat, CountIsNat
<1> QED
  BY <1>1, <1>2 DEF a, d

\* The weight of nothing, and of what has one heavy line at most.
LEMMA CountNone ==
  ASSUME NEW s \in Seq(Items)
  PROVE  Count(s) = 0 <=> \A n \in 1 .. Len(s) : ~Heavy(s[n])
<1> DEFINE H == {n \in 1 .. Len(s) : Heavy(s[n])}
<1>1. IsFiniteSet(H) /\ Count(s) = Cardinality(H)
  BY CountIsNat DEF Count
<1>2. Cardinality(H) = 0 <=> H = {}
  <2> HIDE DEF H
  <2> QED
    BY <1>1, FS_EmptySet
<1> QED
  BY <1>1, <1>2

\* One heavy line is a weight of one.
LEMMA CountSingle ==
  ASSUME NEW s \in Seq(Items), NEW k \in 1 .. Len(s), Heavy(s[k]),
         \A n \in 1 .. Len(s) : n # k => ~Heavy(s[n])
  PROVE  Count(s) = 1
<1>1. {n \in 1 .. Len(s) : Heavy(s[n])} = {k}
  OBVIOUS
<1> QED
  BY <1>1, FS_Singleton DEF Count

\* Shapes.
LEMMA ShapeConcat ==
  ASSUME NEW s \in Seq(Items), NEW t \in Seq(Items), Shape(s), Shape(t)
  PROVE  Shape(s \o t)
<1> DEFINE st == s \o t
<1>1. /\ st \in Seq(Items) /\ Len(st) = Len(s) + Len(t) /\ Len(s) \in Nat /\ Len(t) \in Nat
      /\ \A n \in 1 .. Len(s) : st[n] = s[n]
      /\ \A n \in 1 .. Len(t) : st[Len(s) + n] = t[n]
  BY ConcatElements
<1> HIDE DEF st
<1>2. ASSUME NEW n \in 1 .. Len(st) PROVE Follows(st, n)
  <2>1. CASE n \in 1 .. Len(s)
    <3>1. Follows(s, n) /\ st[n] = s[n]
      BY <1>1, <2>1 DEF Shape
    <3>2. n + 1 <= Len(s) => st[n + 1] = s[n + 1]
      BY <1>1, <2>1
    <3>3. n + 2 <= Len(s) => st[n + 2] = s[n + 2] /\ n + 1 <= Len(s)
      BY <1>1, <2>1
    <3>4. (n + 1 <= Len(s) => n + 1 <= Len(st)) /\ (n + 2 <= Len(s) => n + 2 <= Len(st))
      BY <1>1, <2>1
    <3> QED
      BY <3>1, <3>2, <3>3, <3>4, Zenon DEF Follows
  <2>2. CASE n \notin 1 .. Len(s)
    <3> DEFINE m == n - Len(s)
    <3>1. m \in 1 .. Len(t) /\ n = Len(s) + m
      BY <1>1, <2>2
    <3> HIDE DEF m
    <3>2. Follows(t, m) /\ st[n] = t[m]
      BY <1>1, <3>1 DEF Shape
    <3>3. m + 1 <= Len(t) => st[n + 1] = t[m + 1] /\ n + 1 <= Len(st)
      <4>1. m + 1 <= Len(t) => m + 1 \in 1 .. Len(t) /\ n + 1 = Len(s) + (m + 1)
        BY <1>1, <3>1
      <4> QED
        BY <1>1, <4>1
    <3>4. m + 2 <= Len(t) => st[n + 2] = t[m + 2] /\ n + 2 <= Len(st) /\ m + 1 <= Len(t)
      <4>1. m + 2 <= Len(t) =>
              /\ m + 2 \in 1 .. Len(t) /\ n + 2 = Len(s) + (m + 2)
              /\ n + 2 <= Len(st) /\ m + 1 <= Len(t)
        BY <1>1, <3>1
      <4> QED
        BY <1>1, <4>1
    <3> QED
      BY <3>2, <3>3, <3>4, Zenon DEF Follows
  <2> QED
    BY <2>1, <2>2
<1> QED
  BY <1>2 DEF Shape, st

\* Reading a line or data from the front leaves every LOGIN with what follows it.
LEMMA ShapeDrop ==
  ASSUME NEW s \in Seq(Items), Shape(s), NEW k \in 0 .. Len(s)
  PROVE  Shape(SubSeq(s, k + 1, Len(s)))
<1> DEFINE d == SubSeq(s, k + 1, Len(s))
<1>1. /\ d \in Seq(Items) /\ Len(d) = Len(s) - k /\ Len(s) \in Nat
      /\ \A n \in 1 .. Len(s) - k : d[n] = s[n + k]
  BY DropElements
<1> HIDE DEF d
<1>2. ASSUME NEW n \in 1 .. Len(d) PROVE Follows(d, n)
  <2> DEFINE m == n + k
  <2>1. m \in 1 .. Len(s) /\ d[n] = s[m]
    BY <1>1
  <2>2. m + 1 <= Len(s) => n + 1 <= Len(d) /\ d[n + 1] = s[m + 1]
    <3>1. m + 1 <= Len(s) => n + 1 \in 1 .. Len(s) - k /\ (n + 1) + k = m + 1
      BY <1>1
    <3> QED
      BY <1>1, <3>1
  <2>3. m + 2 <= Len(s) => n + 2 <= Len(d) /\ d[n + 2] = s[m + 2] /\ m + 1 <= Len(s)
    <3>1. m + 2 <= Len(s) => n + 2 \in 1 .. Len(s) - k /\ (n + 2) + k = m + 2
      BY <1>1
    <3> QED
      BY <1>1, <3>1
  <2> HIDE DEF m
  <2>4. Follows(s, m)
    BY <2>1 DEF Shape
  <2> QED
    BY <2>1, <2>2, <2>3, <2>4, Zenon DEF Follows
<1> QED
  BY <1>2 DEF Shape, d

-----------------------------------------------------------------------------
(* Whole commands.                                                         *)

\* a string whose data follow
Body1(l) ==
  \/ l.word = "LOGIN" /\ Len(l.args) = 2 /\ Literal(l.args[2]) /\ l.args[2].content # "empty"
  \/ Piece(l) /\ Literal(l.args[1]) /\ l.args[1].content # "empty"

\* what comes before a line
Behind(s, n) ==
  /\ Piece(s[n]) =>
       \/ n > 1 /\ Split(s[n - 1]) /\ s[n - 1].args[1].content = "empty"
       \/ n > 2 /\ Split(s[n - 2]) /\ s[n - 2].args[1].content # "empty"
  /\ s[n].word = "data" => n > 1 /\ n < Len(s) /\ s[n + 1].word = "rest"
  /\ Body1(s[n]) => n < Len(s) /\ s[n + 1].word = "data"

\* one whole command
IsCommand(s) ==
  /\ s \in Seq(Items) /\ s # <<>>
  /\ Shape(s) /\ \A n \in 1 .. Len(s) : Behind(s, n) /\ s[n].word # "junk"
  /\ Count(s) = IF s[1].word = "badtag" THEN 0 ELSE 1
  /\ ~SyncEnd(s[Len(s)]) /\ s[Len(s)].word # "data"
  /\ s[1].word \notin {"data", "rest"}

\* A line without a literal is a whole command.
LEMMA SingleCommand ==
  ASSUME NEW l \in Items, l.word \notin {"data", "rest", "junk"},
         \A n \in 1 .. Len(l.args) : ~Literal(l.args[n])
  PROVE  IsCommand(<<l>>)
<1> DEFINE s == <<l>>
<1>1. s \in Seq(Items) /\ Len(s) = 1 /\ s[1] = l /\ s # <<>>
  OBVIOUS
<1>2. l.args \in Seq(Args) /\ Len(l.args) \in Nat
  BY DEF Items
<1>3. ~Split(l) /\ ~Piece(l) /\ ~Lit(l) /\ ~Body1(l)
  BY <1>2 DEF Split, Piece, Lit, Body1
<1>4. ~SyncEnd(l)
  <2>1. l.args # <<>> => Len(l.args) \in 1 .. Len(l.args)
    BY <1>2
  <2> QED
    BY <2>1 DEF SyncEnd, Literal
<1>5. Heavy(l) <=> l.word # "badtag"
  BY <1>3 DEF Heavy
<1> HIDE DEF s
<1>6. \A n \in 1 .. Len(s) : n = 1
  BY <1>1
<1>7. Shape(s) /\ \A n \in 1 .. Len(s) : Behind(s, n) /\ s[n].word # "junk"
  BY <1>1, <1>3, <1>6 DEF Shape, Follows, Behind
<1>8. Count(s) = IF s[1].word = "badtag" THEN 0 ELSE 1
  <2>1. CASE l.word = "badtag"
    BY <1>1, <1>5, <1>6, <2>1, CountNone
  <2>2. CASE l.word # "badtag"
    <3>1. 1 \in 1 .. Len(s) /\ Heavy(s[1])
      BY <1>1, <1>5, <2>2
    <3> QED
      BY <1>1, <1>6, <2>2, <3>1, CountSingle
  <2> QED
    BY <2>1, <2>2
<1> QED
  BY <1>1, <1>4, <1>7, <1>8 DEF IsCommand, s

\* A command of several pieces: IMAP4's LOGIN, with its password in the h-th, and t
\* behind that.
LEMMA LoginCommand ==
  ASSUME NEW s \in Seq(Items), NEW h \in 1 .. 3, NEW t \in 0 .. 2, Len(s) = h + t,
         NEW p \in Args, p.how # "atom",
         s[1].word = "LOGIN",
         h = 1 => Len(s[1].args) = 2 /\ ~Literal(s[1].args[1]) /\ s[1].args[2] = p,
         h > 1 => /\ Split(s[1]) /\ (s[1].args[1].content = "empty" <=> h = 2)
                  /\ s[h].word = "rest" /\ s[h].args = <<p>>,
         h = 3 => s[2].word = "data",
         Literal(p) <=> t > 0,
         t > 0 => /\ p.content = "empty" <=> t = 1
                  /\ s[h + t].word = "rest" /\ s[h + t].args = <<>>,
         t = 2 => s[h + 1].word = "data"
  PROVE  IsCommand(s)
<1>1. \A n \in 1 .. Len(s) :
         n = 1 \/ (n = 2 /\ h = 3) \/ n = h \/ (n = h + 1 /\ t = 2) \/ (n = h + t /\ t > 0)
  OBVIOUS
<1>2. s # <<>> /\ 1 \in 1 .. Len(s) /\ h \in 1 .. Len(s) /\ h + t \in 1 .. Len(s)
  OBVIOUS
<1>3. h > 1 => Piece(s[h]) /\ s[h].args[1] = p /\ Len(s[h].args) = 1
  <2>1. <<p>>[1] = p /\ Len(<<p>>) = 1
    OBVIOUS
  <2>2. h > 1 => s[h].args[1] = p /\ Len(s[h].args) = 1
    BY <2>1, Zenon
  <2> QED
    BY <2>2 DEF Piece
<1>4. t > 0 => ~Piece(s[h + t]) /\ ~SyncEnd(s[h + t]) /\ Len(s[h + t].args) = 0
  BY DEF Piece, SyncEnd
<1>5. /\ h = 1 => ~Split(s[1])
      /\ ~Piece(s[1]) /\ ~Lit(s[1]) /\ (h > 1 => ~Body1(s[1]))
      /\ ~Lit(s[h]) /\ (h > 1 => ~Split(s[h]))
      /\ t > 0 => ~Lit(s[h + t]) /\ ~Split(s[h + t]) /\ ~Body1(s[h + t])
  BY <1>3, <1>4 DEF Split, Piece, Lit, Body1
<1>6. /\ h = 3 => ~Lit(s[2]) /\ ~Split(s[2]) /\ ~Body1(s[2]) /\ ~Piece(s[2])
      /\ t = 2 => ~Lit(s[h+1]) /\ ~Split(s[h+1]) /\ ~Body1(s[h+1]) /\ ~Piece(s[h+1])
  BY DEF Split, Piece, Lit, Body1
<1>7. Body1(s[h]) <=> t = 2
  BY <1>2, <1>3 DEF Body1
<1>8. Shape(s)
  <2> SUFFICES ASSUME NEW n \in 1 .. Len(s) PROVE Follows(s, n)
    BY DEF Shape
  <2>1. ~Lit(s[n])
    BY <1>1, <1>5, <1>6
  <2>2. Split(s[n]) => n = 1 /\ h > 1
    BY <1>1, <1>5, <1>6
  <2> QED
    BY <1>3, <2>1, <2>2 DEF Follows
<1>9. ASSUME NEW n \in 1 .. Len(s) PROVE Behind(s, n) /\ s[n].word # "junk"
  <2>1. Piece(s[n]) => n = h /\ h > 1
    BY <1>1, <1>4, <1>5, <1>6
  <2>2. Body1(s[n]) => n = h /\ t = 2
    BY <1>1, <1>5, <1>6, <1>7
  <2>3. Piece(s[n]) =>
          \/ n > 1 /\ Split(s[n - 1]) /\ s[n - 1].args[1].content = "empty"
          \/ n > 2 /\ Split(s[n - 2]) /\ s[n - 2].args[1].content # "empty"
    BY <2>1
  <2>4. s[n].word = "data" => (n = 2 /\ h = 3) \/ (n = h + 1 /\ t = 2)
    BY <1>1
  <2>5. s[n].word = "data" => n > 1 /\ n < Len(s) /\ s[n + 1].word = "rest"
    BY <2>4
  <2>6. Body1(s[n]) => n < Len(s) /\ s[n + 1].word = "data"
    BY <2>2
  <2>7. s[n].word # "junk"
    BY <1>1
  <2> QED
    BY <2>3, <2>5, <2>6, <2>7 DEF Behind
<1>10. Count(s) = 1
  <2>1. Heavy(s[h])
    BY <1>3, <1>5 DEF Heavy
  <2>2. \A n \in 1 .. Len(s) : n # h => ~Heavy(s[n])
    <3> SUFFICES ASSUME NEW n \in 1 .. Len(s), n # h PROVE ~Heavy(s[n])
      OBVIOUS
    <3> QED
      BY <1>1, <1>4, <1>5, <1>6 DEF Heavy
  <2> QED
    BY <1>2, <2>1, <2>2, CountSingle
<1>11. ~SyncEnd(s[Len(s)]) /\ s[Len(s)].word # "data"
  <2>1. CASE t > 0
    BY <1>4, <2>1
  <2>2. CASE t = 0
    <3>1. p.how # "sync" /\ Len(s) = h /\ s[h].word # "data"
      BY <2>2 DEF Literal
    <3>2. s[h].args[Len(s[h].args)] = p
      BY <1>3
    <3> QED
      BY <3>1, <3>2 DEF SyncEnd
  <2> QED
    BY <2>1, <2>2
<1> QED
  BY <1>2, <1>8, <1>9, <1>10, <1>11 DEF IsCommand

\* and MANAGESIEVE's AUTHENTICATE or NOOP with a literal.
LEMMA LiteralCommand ==
  ASSUME NEW s \in Seq(Items), Len(s) = 3, s[1].word \in {"AUTHENTICATE", "NOOP"},
         s[2].word = "data", s[3].word = "rest",
         s[3].args \in {<<>>, <<Atom>>}
  PROVE  IsCommand(s)
<1>1. \A n \in 1 .. Len(s) : n \in {1, 2, 3}
  OBVIOUS
<1>2. ~Piece(s[1]) /\ ~Piece(s[2]) /\ ~Piece(s[3])
  BY DEF Piece, Atom, Arg
<1>3. \A n \in 1 .. Len(s) : ~Split(s[n]) /\ ~Body1(s[n]) /\ (Lit(s[n]) => n = 1)
  BY <1>1, <1>2 DEF Split, Body1, Lit
<1>4. Shape(s)
  BY <1>1, <1>3 DEF Shape, Follows
<1>5. ASSUME NEW n \in 1 .. Len(s) PROVE Behind(s, n) /\ s[n].word # "junk"
  BY <1>1, <1>2, <1>3 DEF Behind
<1>6. Count(s) = 1
  <2>1. 1 \in 1 .. Len(s) /\ Heavy(s[1])
    BY <1>3 DEF Heavy
  <2>2. \A n \in 1 .. Len(s) : n # 1 => ~Heavy(s[n])
    BY <1>1, <1>2 DEF Heavy
  <2> QED
    BY <2>1, <2>2, CountSingle
<1>7. ~SyncEnd(s[3])
  BY DEF SyncEnd, Atom, Arg
<1> QED
  BY <1>4, <1>5, <1>6, <1>7 DEF IsCommand

-----------------------------------------------------------------------------
(* What a client may send.                                                 *)

\* which words and which strings a protocol has
PopWords == {"CAPA", "STLS", "USER", "PASS", "QUIT", "other", "", "junk"}
SieveWords == {"CAPABILITY", "LOGOUT", "STARTTLS", "other", "NOOP", "AUTHENTICATE", "data",
               "rest", "junk"}
Known(l) ==
  /\ Pop => l.word \in PopWords
  /\ Sieve => l.word \in SieveWords
  /\ SyncEnd(l) => Imap /\ (Split(l) \/ Heavy(l))

AllRead == "unread_literal" \notin Shapes
Common == Shapes \subseteq {"common"}

\* MANAGESIEVE: no literal is followed by one, and NOOP's argument is refused
Tame(l) ==
  /\ ~Piece(l)
  /\ Common /\ l.word = "NOOP" /\ l.args # <<>> => l.args[1].how = "atom"

\* MANAGESIEVE: data and the line that ends them are of a literal that is read
Led(s, n) ==
  /\ s[n].word = "data" => n > 1 /\ Lit(s[n - 1])
  /\ s[n].word = "rest" => n > 1 /\ s[n - 1].word = "data"

Sent(s) ==
  /\ IsCommand(s)
  /\ \A n \in 1 .. Len(s) : Known(s[n]) /\ (s[n].enc <=> io = "ssl")
  /\ Sieve /\ AllRead => \A n \in 1 .. Len(s) : Led(s, n)
  /\ Sieve => \A n \in 1 .. Len(s) : Tame(s[n])

\* the strings
LEMMA LineIsItem ==
  ASSUME NEW w \in Words, NEW a \in Seq(Args)
  PROVE  /\ Line(w, a) \in Items /\ Line(w, a).word = w /\ Line(w, a).args = a
         /\ Line(w, a).enc <=> io = "ssl"
  BY DEF Line, Items

\* Such a line, if its protocol knows the word, is among what a client may send.
LEMMA SingleSent ==
  ASSUME NEW w \in Words, NEW a \in Seq(Args), w \notin {"data", "rest", "junk"},
         \A n \in 1 .. Len(a) : ~Literal(a[n]),
         Pop => w \in PopWords, Sieve => w \in SieveWords,
         Sieve /\ Common /\ w = "NOOP" => a = <<>> \/ a = <<Atom>>
  PROVE  Sent(<<Line(w, a)>>)
<1> DEFINE l == Line(w, a)
           s == <<l>>
<1>1. l \in Items /\ l.word = w /\ l.args = a /\ (l.enc <=> io = "ssl")
  BY LineIsItem
<1> HIDE DEF l
<1>2. IsCommand(<<l>>)
  <2>1. l.word \notin {"data", "rest", "junk"} /\ \A n \in 1 .. Len(l.args) : ~Literal(l.args[n])
    BY <1>1
  <2> QED
    BY <1>1, <2>1, SingleCommand
<1>3. Len(s) = 1 /\ s[1] = l
  OBVIOUS
<1>4. ~SyncEnd(l)
  BY <1>2, <1>3 DEF IsCommand
<1> HIDE DEF s
<1>5. \A n \in 1 .. Len(s) : s[n] = l
  BY <1>3
<1>6. Known(l)
  BY <1>1, <1>4 DEF Known
<1>7. Sieve => Tame(l)
  <2>1. Len(<<Atom>>) = 1 /\ <<Atom>>[1].how = "atom"
    BY DEF Atom, Arg
  <2> QED
    BY <1>1, <2>1 DEF Tame, Piece
<1>8. Sent(s)
  BY <1>1, <1>2, <1>5, <1>6, <1>7 DEF Sent, Led, s
<1> QED
  BY <1>8 DEF l, s

\* A word that is no literal: the arguments of most commands.
LEMMA NoStrings ==
  /\ <<>> \in Seq(Args) /\ <<Atom>> \in Seq(Args) /\ <<Atom, Atom>> \in Seq(Args)
  /\ <<Atom, Atom, Atom>> \in Seq(Args)
  /\ \A n \in 1 .. Len(<<>>) : ~Literal(<<>>[n])
  /\ \A n \in 1 .. Len(<<Atom>>) : ~Literal(<<Atom>>[n])
  /\ \A n \in 1 .. Len(<<Atom, Atom>>) : ~Literal(<<Atom, Atom>>[n])
  /\ \A n \in 1 .. Len(<<Atom, Atom, Atom>>) : ~Literal(<<Atom, Atom, Atom>>[n])
  /\ Atom \in Args /\ ~Literal(Atom)
<1>1. Atom \in Args /\ ~Literal(Atom)
  BY DEF Atom, Arg, Args, Hows, Contents, Literal
<1> HIDE DEF Atom
<1> QED
  BY <1>1

\* The commands without arguments or with one word.
LEMMA BareSent ==
  ASSUME NEW words \in SUBSET Words,
         \A w \in words : w \notin {"data", "rest", "junk"},
         Pop => words \subseteq PopWords,
         Sieve => words \subseteq SieveWords /\ "NOOP" \notin words,
         NEW s \in Bare(words)
  PROVE  Sent(s)
<1>1. PICK w \in words, a \in {<<>>, <<Atom>>} : s = <<Line(w, a)>>
  BY DEF Bare
<1>2. w \in Words /\ w \notin {"data", "rest", "junk"} /\ (Pop => w \in PopWords)
      /\ (Sieve => w \in SieveWords /\ w # "NOOP")
  BY <1>1
<1>3. a \in Seq(Args) /\ \A n \in 1 .. Len(a) : ~Literal(a[n])
  BY <1>1, NoStrings
<1> QED
  BY <1>1, <1>2, <1>3, SingleSent

\* POP3's commands.
LEMMA PopSent == ASSUME Pop, NEW s \in PopCommands PROVE Sent(s)
<1> ~Imap /\ ~Sieve
  BY DEF Pop, Imap, Sieve
<1>1. CASE s \in Bare({"CAPA", "STLS", "USER", "PASS", "QUIT", "other"})
  <2> DEFINE words == {"CAPA", "STLS", "USER", "PASS", "QUIT", "other"}
  <2>1. /\ words \in SUBSET Words /\ words \subseteq PopWords
        /\ \A w \in words : w \notin {"data", "rest", "junk"}
    BY DEF Words, PopWords
  <2>2. s \in Bare(words)
    BY <1>1
  <2> HIDE DEF words
  <2> QED
    BY <2>1, <2>2, BareSent
<1>2. CASE s = <<Line("USER", <<Atom, Atom>>)>>
  <2>1. "USER" \in Words /\ "USER" \in PopWords /\ "USER" \notin {"data", "rest", "junk"}
    BY DEF Words, PopWords
  <2> QED
    BY <1>2, <2>1, NoStrings, SingleSent
<1>3. CASE s = <<Line("", <<>>)>>
  <2>1. "" \in Words /\ "" \in PopWords /\ "" \notin {"data", "rest", "junk"}
    BY DEF Words, PopWords
  <2> QED
    BY <1>3, <2>1, NoStrings, SingleSent
<1> QED
  BY <1>1, <1>2, <1>3 DEF PopCommands

\* The strings of LOGIN and of AUTHENTICATE.
LEMMA StringsTyped ==
  /\ \A n \in ImapNames : n \in Args /\ n.how \in {"quoted", "sync", "nonsync"}
                            /\ n.content \in {"plain", "empty"} /\ ~(n.how = "atom")
                            /\ (Literal(n) <=> n.how # "quoted")
  /\ \A p \in ImapPasswords : p \in Args /\ p.how \in {"quoted", "sync", "nonsync"}
                            /\ p.content \in {"odd", "empty"} /\ p.how # "atom"
                            /\ (Literal(p) <=> p.how # "quoted")
  /\ \A a \in Challenges : a \in Args /\ a.how \in {"quoted", "nonsync"}
                            /\ a.content \in {"plain", "odd"}
                            /\ (Literal(a) <=> a.how # "quoted")
  BY DEF ImapNames, ImapPasswords, Challenges, Arg, Args, Hows, Contents, Literal

\* Short sequences.
LEMMA SameElements ==
  ASSUME NEW s \in Seq(Items), NEW t \in Seq(Items), Len(s) = Len(t),
         \A n \in 1 .. Len(s) : s[n] = t[n]
  PROVE  s = t
  OBVIOUS

\* A sequence that has the elements of a concatenation is the concatenation.
LEMMA PiecewiseConcat ==
  ASSUME NEW s \in Seq(Items), NEW t \in Seq(Items), NEW c \in Seq(Items),
         Len(c) = Len(s) + Len(t),
         \A n \in 1 .. Len(s) : c[n] = s[n],
         \A n \in 1 .. Len(t) : c[Len(s) + n] = t[n]
  PROVE  s \o t = c
<1> DEFINE st == s \o t
<1>1. /\ st \in Seq(Items) /\ Len(st) = Len(s) + Len(t) /\ Len(s) \in Nat /\ Len(t) \in Nat
      /\ \A n \in 1 .. Len(s) : st[n] = s[n]
      /\ \A n \in Len(s) + 1 .. Len(s) + Len(t) : st[n] = t[n - Len(s)]
  BY ConcatElements
<1> HIDE DEF st
<1>2. ASSUME NEW n \in 1 .. Len(st) PROVE st[n] = c[n]
  <2>1. CASE n \in 1 .. Len(s)
    BY <1>1, <2>1
  <2>2. CASE n \notin 1 .. Len(s)
    <3>1. n \in Len(s) + 1 .. Len(s) + Len(t) /\ n - Len(s) \in 1 .. Len(t)
          /\ n = Len(s) + (n - Len(s))
      BY <1>1, <2>2
    <3>2. st[n] = t[n - Len(s)] /\ c[Len(s) + (n - Len(s))] = t[n - Len(s)]
      BY <1>1, <3>1
    <3> QED
      BY <3>1, <3>2, Zenon
  <2> QED
    BY <2>1, <2>2
<1>3. st = c
  BY <1>1, <1>2, SameElements
<1> QED
  BY <1>3 DEF st

\* Two and three lines.
LEMMA ShortConcat ==
  ASSUME NEW x \in Items, NEW y \in Items, NEW z \in Items
  PROVE  /\ <<x>> \o <<>> = <<x>> /\ <<>> \o <<x>> = <<x>>
         /\ <<x>> \o <<y>> = <<x, y>>
         /\ <<x, y>> \o <<z>> = <<x, y, z>>
<1>1. <<x>> \o <<>> = <<x>> /\ <<>> \o <<x>> = <<x>>
  OBVIOUS
<1>2. <<x>> \o <<y>> = <<x, y>>
  <2> DEFINE a == <<x>>
             b == <<y>>
             c == <<x, y>>
  <2>1. /\ a \in Seq(Items) /\ Len(a) = 1 /\ a[1] = x
        /\ b \in Seq(Items) /\ Len(b) = 1 /\ b[1] = y
        /\ c \in Seq(Items) /\ Len(c) = 2 /\ c[1] = x /\ c[2] = y
    OBVIOUS
  <2> HIDE DEF a, b, c
  <2>2. /\ Len(c) = Len(a) + Len(b)
        /\ \A n \in 1 .. Len(a) : c[n] = a[n]
        /\ \A n \in 1 .. Len(b) : c[Len(a) + n] = b[n]
    <3>1. Len(c) = Len(a) + Len(b)
      BY <2>1
    <3>2. \A n \in 1 .. Len(a) : n = 1
      BY <2>1
    <3>3. \A n \in 1 .. Len(b) : n = 1
      BY <2>1
    <3>4. Len(a) + 1 = 2
      BY <2>1
    <3> QED
      BY <2>1, <3>1, <3>2, <3>3, <3>4, Zenon
  <2>3. a \o b = c
    BY <2>1, <2>2, PiecewiseConcat, Zenon
  <2> QED
    BY <2>3 DEF a, b, c
<1>3. <<x, y>> \o <<z>> = <<x, y, z>>
  <2> DEFINE a == <<x, y>>
             b == <<z>>
             c == <<x, y, z>>
  <2>1. /\ a \in Seq(Items) /\ Len(a) = 2 /\ a[1] = x /\ a[2] = y
        /\ b \in Seq(Items) /\ Len(b) = 1 /\ b[1] = z
        /\ c \in Seq(Items) /\ Len(c) = 3 /\ c[1] = x /\ c[2] = y /\ c[3] = z
    OBVIOUS
  <2> HIDE DEF a, b, c
  <2>2. /\ Len(c) = Len(a) + Len(b)
        /\ \A n \in 1 .. Len(a) : c[n] = a[n]
        /\ \A n \in 1 .. Len(b) : c[Len(a) + n] = b[n]
    <3>1. Len(c) = Len(a) + Len(b)
      BY <2>1
    <3>2. \A n \in 1 .. Len(a) : n = 1 \/ n = 2
      BY <2>1
    <3>3. \A n \in 1 .. Len(b) : n = 1
      BY <2>1
    <3>4. Len(a) + 1 = 3
      BY <2>1
    <3> QED
      BY <2>1, <3>1, <3>2, <3>3, <3>4, Zenon
  <2>3. a \o b = c
    BY <2>1, <2>2, PiecewiseConcat, Zenon
  <2> QED
    BY <2>3 DEF a, b, c
<1> QED
  BY <1>1, <1>2, <1>3

\* LOGIN piece by piece.
LEMMA LoginSent ==
  ASSUME Imap, NEW n \in ImapNames, NEW p \in ImapPasswords PROVE Sent(Login(n, p))
<1> DEFINE D == Data(n)
           R == Line("rest", <<p>>)
           D2 == Data(p)
           E == Line("rest", <<>>)
           L1 == Line("LOGIN", <<n>>)
           L2 == Line("LOGIN", <<n, p>>)
           s == Login(n, p)
<1>0. ~Pop /\ ~Sieve
  BY DEF Pop, Imap, Sieve
<1>1. /\ n \in Args /\ p \in Args /\ n.content \in {"plain", "empty"}
      /\ p.content \in {"odd", "empty"} /\ n.how # "atom" /\ p.how # "atom"
  BY StringsTyped
<1>2. <<n>> \in Seq(Args) /\ <<p>> \in Seq(Args) /\ <<n, p>> \in Seq(Args) /\ <<>> \in Seq(Args)
  BY <1>1
<1>3. "data" \in Words /\ "rest" \in Words /\ "LOGIN" \in Words
  BY DEF Words
<1>4. /\ D \in Items /\ D.word = "data" /\ (D.enc <=> io = "ssl")
      /\ D2 \in Items /\ D2.word = "data" /\ (D2.enc <=> io = "ssl")
      /\ R \in Items /\ R.word = "rest" /\ R.args = <<p>> /\ (R.enc <=> io = "ssl")
      /\ E \in Items /\ E.word = "rest" /\ E.args = <<>> /\ (E.enc <=> io = "ssl")
      /\ L1 \in Items /\ L1.word = "LOGIN" /\ L1.args = <<n>> /\ (L1.enc <=> io = "ssl")
      /\ L2 \in Items /\ L2.word = "LOGIN" /\ L2.args = <<n, p>> /\ (L2.enc <=> io = "ssl")
  <2>1. \A w \in Words, x \in Seq(Args) :
          /\ Line(w, x) \in Items /\ Line(w, x).word = w /\ Line(w, x).args = x
          /\ Line(w, x).enc <=> io = "ssl"
    BY LineIsItem
  <2>2. D \in Items /\ D.word = "data" /\ (D.enc <=> io = "ssl")
    BY <1>2, <1>3, <2>1, Zenon DEF Data
  <2>3. D2 \in Items /\ D2.word = "data" /\ (D2.enc <=> io = "ssl")
    BY <1>2, <1>3, <2>1, Zenon DEF Data
  <2>4. R \in Items /\ R.word = "rest" /\ R.args = <<p>> /\ (R.enc <=> io = "ssl")
    BY <1>2, <1>3, <2>1, Zenon
  <2>5. E \in Items /\ E.word = "rest" /\ E.args = <<>> /\ (E.enc <=> io = "ssl")
    BY <1>2, <1>3, <2>1, Zenon
  <2>6. L1 \in Items /\ L1.word = "LOGIN" /\ L1.args = <<n>> /\ (L1.enc <=> io = "ssl")
    BY <1>2, <1>3, <2>1, Zenon
  <2>7. L2 \in Items /\ L2.word = "LOGIN" /\ L2.args = <<n, p>> /\ (L2.enc <=> io = "ssl")
    BY <1>2, <1>3, <2>1, Zenon
  <2> HIDE DEF D, D2, R, E, L1, L2
  <2> QED
    BY <2>2, <2>3, <2>4, <2>5, <2>6, <2>7, Zenon
<1>5. s = (IF Literal(n) THEN ((<<L1>> \o (IF n.content = "empty" THEN <<>> ELSE <<D>>)) \o <<R>>)
                                \o (IF Literal(p) THEN (IF p.content = "empty" THEN <<>> ELSE <<D2>>) \o <<E>> ELSE <<>>)
           ELSE <<L2>> \o (IF Literal(p) THEN (IF p.content = "empty" THEN <<>> ELSE <<D2>>) \o <<E>> ELSE <<>>))
  BY Zenon DEF Login, Body, Tail1
<1> HIDE DEF D, R, D2, E, L1, L2, s
<1> DEFINE h == IF ~Literal(n) THEN 1 ELSE IF n.content = "empty" THEN 2 ELSE 3
           t == IF ~Literal(p) THEN 0 ELSE IF p.content = "empty" THEN 1 ELSE 2
           a == IF ~Literal(n) THEN <<L2>> ELSE IF n.content = "empty" THEN <<L1, R>> ELSE <<L1, D, R>>
           b == IF ~Literal(p) THEN <<>> ELSE IF p.content = "empty" THEN <<E>> ELSE <<D2, E>>
<1>6. a \in Seq(Items) /\ Len(a) = h /\ b \in Seq(Items) /\ Len(b) = t
      /\ h \in 1 .. 3 /\ t \in 0 .. 2
  BY <1>4
<1>7. s = a \o b
  <2>1. /\ <<L1>> \o <<>> = <<L1>> /\ <<L1>> \o <<D>> = <<L1, D>>
        /\ <<L1>> \o <<R>> = <<L1, R>> /\ <<L1, D>> \o <<R>> = <<L1, D, R>>
        /\ <<>> \o <<E>> = <<E>> /\ <<D2>> \o <<E>> = <<D2, E>>
    BY <1>4, ShortConcat, Zenon
  <2> QED
    BY <1>5, <2>1, Zenon
<1>8. /\ a[1].word = "LOGIN"
      /\ h = 1 => a[1] = L2
      /\ h > 1 => a[1] = L1 /\ a[h] = R
      /\ h = 3 => a[2] = D
  BY <1>4
<1>9. /\ t > 0 => b[t] = E
      /\ t = 2 => b[1] = D2
  BY <1>4
<1>10. /\ h = 1 <=> ~Literal(n)
       /\ h > 1 => (n.content = "empty" <=> h = 2)
       /\ Literal(p) <=> t > 0
       /\ t > 0 => (p.content = "empty" <=> t = 1)
  OBVIOUS
<1>11. /\ \A m \in 1 .. h : a[m] \in {L1, L2, R, D}
       /\ \A m \in 1 .. t : b[m] \in {E, D2}
  <2>1. \A m \in 1 .. h : m = 1 \/ (m = 2 /\ h = 3) \/ m = h
    BY <1>6
  <2>2. \A m \in 1 .. t : m = t \/ (m = 1 /\ t = 2)
    BY <1>6
  <2>3. h = 1 \/ h > 1
    BY <1>6
  <2> HIDE DEF h, t, a, b
  <2> QED
    BY <1>8, <1>9, <2>1, <2>2, <2>3
<1> HIDE DEF h, t, a, b
<1>12. /\ s \in Seq(Items) /\ Len(s) = h + t
       /\ \A m \in 1 .. h : s[m] = a[m]
       /\ \A m \in 1 .. t : s[h + m] = b[m]
       /\ \A m \in h + 1 .. h + t : s[m] = b[m - h]
  <2>1. /\ a \o b \in Seq(Items) /\ Len(a \o b) = Len(a) + Len(b)
        /\ \A m \in 1 .. Len(a) : (a \o b)[m] = a[m]
        /\ \A m \in 1 .. Len(b) : (a \o b)[Len(a) + m] = b[m]
    BY <1>6, ConcatElements, Zenon
  <2>2. /\ s \in Seq(Items) /\ Len(s) = h + t
        /\ \A m \in 1 .. h : s[m] = a[m]
        /\ \A m \in 1 .. t : s[h + m] = b[m]
    BY <1>6, <1>7, <2>1, Zenon
  <2>3. ASSUME NEW m \in h + 1 .. h + t PROVE s[m] = b[m - h]
    <3>1. m - h \in 1 .. t /\ h + (m - h) = m
      BY <1>6
    <3> QED
      BY <2>2, <3>1, Zenon
  <2> QED
    BY <2>2, <2>3, Zenon
<1>13. /\ s[1] = a[1] /\ s[h] = a[h]
       /\ h = 3 => s[2] = a[2]
       /\ t > 0 => s[h + t] = b[t]
       /\ t = 2 => s[h + 1] = b[1]
  BY <1>6, <1>12
<1>14. /\ L1.args[1] = n /\ Len(L1.args) = 1 /\ L2.args[1] = n /\ L2.args[2] = p
       /\ Len(L2.args) = 2
  BY <1>4
<1>15. IsCommand(s)
  <2>1. h = 1 => Len(s[1].args) = 2 /\ ~Literal(s[1].args[1]) /\ s[1].args[2] = p
    BY <1>8, <1>10, <1>13, <1>14
  <2>2. h > 1 => /\ Split(s[1]) /\ (s[1].args[1].content = "empty" <=> h = 2)
                 /\ s[h].word = "rest" /\ s[h].args = <<p>>
    <3> SUFFICES ASSUME h > 1
        PROVE /\ Split(s[1]) /\ (s[1].args[1].content = "empty" <=> h = 2)
              /\ s[h].word = "rest" /\ s[h].args = <<p>>
      OBVIOUS
    <3>1. s[1] = L1 /\ s[h] = R /\ Literal(n)
      BY <1>6, <1>8, <1>10, <1>13
    <3> QED
      BY <1>4, <1>10, <1>14, <3>1 DEF Split
  <2>3. s[1].word = "LOGIN" /\ (h = 3 => s[2].word = "data")
    BY <1>4, <1>8, <1>13
  <2>4. t > 0 => /\ (p.content = "empty" <=> t = 1)
                 /\ s[h + t].word = "rest" /\ s[h + t].args = <<>>
    BY <1>4, <1>9, <1>10, <1>13
  <2>5. t = 2 => s[h + 1].word = "data"
    BY <1>4, <1>9, <1>13
  <2> QED
    <3>1. /\ Literal(p) <=> t > 0
          /\ t > 0 => (p.content = "empty" <=> t = 1)
      BY <1>10
    <3>2. /\ s \in Seq(Items) /\ h \in 1 .. 3 /\ t \in 0 .. 2 /\ Len(s) = h + t
          /\ p \in Args /\ p.how # "atom"
      BY <1>1, <1>6, <1>12, Zenon
    <3>3. h = 3 => s[2].word = "data"
      BY <2>3, Zenon
    <3>4. s[1].word = "LOGIN"
      BY <2>3, Zenon
    <3> QED
      BY <2>1, <2>2, <2>4, <2>5, <3>1, <3>2, <3>3, <3>4, LoginCommand, Zenon
<1>16. ASSUME NEW m \in 1 .. Len(s) PROVE Known(s[m]) /\ (s[m].enc <=> io = "ssl")
  <2>1. s[m] \in {L1, L2, R, D, E, D2}
    <3>1. CASE m <= h
      BY <1>6, <1>11, <1>12, <3>1
    <3>2. CASE m > h
      <4>1. m \in h + 1 .. h + t /\ m - h \in 1 .. t
        BY <1>6, <1>12, <3>2
      <4> QED
        BY <1>11, <1>12, <4>1
    <3> QED
      BY <1>6, <1>12, <3>1, <3>2
  <2>2. SyncEnd(s[m]) => Split(s[m]) \/ Heavy(s[m])
    <3>1. Len(<<p>>) = 1 /\ <<p>>[1] = p /\ Len(<<>>) = 0
      OBVIOUS
    <3>2. Piece(R)
      BY <1>1, <1>4, <3>1, Zenon DEF Piece
    <3>3. ~SyncEnd(E) /\ ~SyncEnd(D) /\ ~SyncEnd(D2)
      BY <1>4 DEF SyncEnd
    <3>4. L1.word = "LOGIN" /\ L2.word = "LOGIN"
      BY <1>4
    <3> QED
      BY <2>1, <3>2, <3>3, <3>4 DEF Heavy
  <2> QED
    BY <1>0, <1>4, <2>1, <2>2 DEF Known
<1>17. Sent(s)
  BY <1>0, <1>15, <1>16 DEF Sent
<1> QED
  BY <1>17 DEF s

\* IMAP4's commands.
LEMMA ImapSent == ASSUME Imap, NEW s \in ImapCommands PROVE Sent(s)
<1> ~Pop /\ ~Sieve
  BY DEF Pop, Imap, Sieve
<1> DEFINE words == {"NOOP", "STARTTLS", "CAPABILITY", "AUTHENTICATE", "LOGOUT", "LOGIN",
                     "other", "badtag"}
<1>1. CASE s \in Bare(words)
  <2>1. words \in SUBSET Words /\ \A w \in words : w \notin {"data", "rest", "junk"}
    BY DEF Words
  <2> HIDE DEF words
  <2> QED
    BY <1>1, <2>1, BareSent
<1>2. CASE s \in {Login(n, p) : n \in ImapNames, p \in ImapPasswords}
  BY <1>2, LoginSent
<1>3. CASE s = <<Line("LOGIN", <<Atom, Atom, Atom>>)>>
  <2>1. "LOGIN" \in Words /\ "LOGIN" \notin {"data", "rest", "junk"}
    BY DEF Words
  <2> QED
    BY <1>3, <2>1, NoStrings, SingleSent
<1>4. CASE s = <<Line("tagonly", <<>>)>>
  <2>1. "tagonly" \in Words /\ "tagonly" \notin {"data", "rest", "junk"}
    BY DEF Words
  <2> QED
    BY <1>4, <2>1, NoStrings, SingleSent
<1> QED
  BY <1>1, <1>2, <1>3, <1>4 DEF ImapCommands

\* A literal and the end of its line; and a line whose literal is empty.
LEMMA LiteralSent ==
  ASSUME Sieve, NEW w \in {"AUTHENTICATE", "NOOP"}, NEW a \in Seq(Args),
         a[Len(a)].how # "sync", NEW d \in Args, NEW r \in {<<>>, <<Atom>>},
         AllRead => Lit(Line(w, a)), w = "NOOP" => ~Common
  PROVE  Sent(<<Line(w, a), Data(d), Line("rest", r)>>)
<1> DEFINE l == Line(w, a)
           b == Data(d)
           e == Line("rest", r)
           s == <<l, b, e>>
<1>0. w \in Words /\ "data" \in Words /\ "rest" \in Words /\ r \in Seq(Args) /\ <<d>> \in Seq(Args)
  <2>1. w \in Words /\ "data" \in Words /\ "rest" \in Words
    BY DEF Words
  <2>2. <<d>> \in Seq(Args)
    OBVIOUS
  <2>3. r \in Seq(Args)
    BY NoStrings, Zenon
  <2> QED
    BY <2>1, <2>2, <2>3
<1>1. /\ l \in Items /\ l.word = w /\ l.args = a /\ (l.enc <=> io = "ssl")
      /\ b \in Items /\ b.word = "data" /\ (b.enc <=> io = "ssl")
      /\ e \in Items /\ e.word = "rest" /\ e.args = r /\ (e.enc <=> io = "ssl")
  <2>1. \A v \in Words, x \in Seq(Args) :
          /\ Line(v, x) \in Items /\ Line(v, x).word = v /\ Line(v, x).args = x
          /\ Line(v, x).enc <=> io = "ssl"
    BY LineIsItem
  <2>2. l \in Items /\ l.word = w /\ l.args = a /\ (l.enc <=> io = "ssl")
    BY <1>0, <2>1, Zenon
  <2>3. b \in Items /\ b.word = "data" /\ (b.enc <=> io = "ssl")
    BY <1>0, <2>1, Zenon DEF Data
  <2>4. e \in Items /\ e.word = "rest" /\ e.args = r /\ (e.enc <=> io = "ssl")
    BY <1>0, <2>1, Zenon
  <2> HIDE DEF l, b, e
  <2> QED
    BY <2>2, <2>3, <2>4, Zenon
<1>2. AllRead => Lit(l)
  OBVIOUS
<1> HIDE DEF l, b, e
<1>3. s \in Seq(Items) /\ Len(s) = 3 /\ s[1] = l /\ s[2] = b /\ s[3] = e
  BY <1>1
<1> HIDE DEF s
<1>4. IsCommand(s)
  BY <1>1, <1>3, LiteralCommand
<1>5. \A n \in 1 .. Len(s) : n = 1 \/ n = 2 \/ n = 3
  BY <1>3
<1>6. ~SyncEnd(l) /\ ~SyncEnd(b) /\ ~SyncEnd(e)
  BY <1>1 DEF SyncEnd, Atom, Arg
<1>7. ASSUME NEW n \in 1 .. Len(s) PROVE Known(s[n]) /\ (s[n].enc <=> io = "ssl")
  <2>1. s[n] = l \/ s[n] = b \/ s[n] = e
    BY <1>3, <1>5
  <2>2. s[n].word \in SieveWords /\ ~SyncEnd(s[n]) /\ (s[n].enc <=> io = "ssl")
    BY <1>1, <1>6, <2>1 DEF SieveWords
  <2> QED
    BY <2>2 DEF Known, Sieve, Pop
<1>8. ASSUME AllRead, NEW n \in 1 .. Len(s) PROVE Led(s, n)
  BY <1>1, <1>2, <1>3, <1>5, <1>8 DEF Led
<1>9. ASSUME NEW n \in 1 .. Len(s) PROVE Tame(s[n])
  <2>1. ~Piece(l) /\ ~Piece(b)
    BY <1>1 DEF Piece
  <2>2. ~Piece(e)
    <3>1. Len(<<>>) = 0 /\ <<Atom>>[1].how = "atom"
      BY DEF Atom, Arg
    <3> QED
      BY <1>1, <3>1 DEF Piece
  <2> QED
    BY <1>1, <1>3, <1>5, <2>1, <2>2 DEF Tame
<1>10. Sent(s)
  BY <1>4, <1>7, <1>8, <1>9 DEF Sent
<1> QED
  BY <1>10 DEF s, l, b, e

\* A line whose literal is empty has nothing but the end of its line behind it.
LEMMA EmptySent ==
  ASSUME Sieve, NEW a \in Args, a.how # "sync", a.content = "empty", ~AllRead
  PROVE  Sent(<<Line("AUTHENTICATE", <<Arg("quoted", "PLAIN"), a>>), Line("rest", <<>>)>>)
<1> DEFINE g == <<Arg("quoted", "PLAIN"), a>>
           l == Line("AUTHENTICATE", g)
           e == Line("rest", <<>>)
           s == <<l, e>>
<1>1. g \in Seq(Args) /\ Len(g) = 2 /\ g[2] = a /\ <<>> \in Seq(Args)
  BY DEF Arg, Args, Hows, Contents
<1> HIDE DEF g
<1>2. /\ l \in Items /\ l.word = "AUTHENTICATE" /\ l.args = g /\ (l.enc <=> io = "ssl")
      /\ e \in Items /\ e.word = "rest" /\ e.args = <<>> /\ (e.enc <=> io = "ssl")
  <2>1. "AUTHENTICATE" \in Words /\ "rest" \in Words
    BY DEF Words
  <2>2. l \in Items /\ l.word = "AUTHENTICATE" /\ l.args = g /\ (l.enc <=> io = "ssl")
    BY <1>1, <2>1, LineIsItem, Zenon
  <2>3. e \in Items /\ e.word = "rest" /\ e.args = <<>> /\ (e.enc <=> io = "ssl")
    BY <1>1, <2>1, LineIsItem, Zenon
  <2> QED
    BY <2>2, <2>3
<1> HIDE DEF l, e
<1>3. s \in Seq(Items) /\ Len(s) = 2 /\ s[1] = l /\ s[2] = e /\ s # <<>>
  BY <1>2
<1> HIDE DEF s
<1>4. \A n \in 1 .. Len(s) : n = 1 \/ n = 2
  BY <1>3
<1>5. /\ ~SyncEnd(l) /\ ~Split(l) /\ ~Piece(l) /\ ~Lit(l) /\ ~Body1(l) /\ Heavy(l)
      /\ ~SyncEnd(e) /\ ~Split(e) /\ ~Piece(e) /\ ~Lit(e) /\ ~Body1(e) /\ ~Heavy(e)
  <2>1. ~SyncEnd(l) /\ ~SyncEnd(e)
    BY <1>1, <1>2 DEF SyncEnd
  <2>2. ~Split(l) /\ ~Piece(l) /\ ~Body1(l) /\ ~Split(e) /\ ~Lit(e)
    BY <1>2 DEF Split, Piece, Lit, Body1
  <2>3. ~Lit(l)
    BY <1>1, <1>2 DEF Lit
  <2>4. ~Piece(e)
    <3>1. Len(e.args) = 0
      BY <1>2
    <3> QED
      BY <3>1 DEF Piece
  <2>5. ~Body1(e)
    BY <1>2, <2>4 DEF Body1
  <2> QED
    BY <1>2, <2>1, <2>2, <2>3, <2>4, <2>5 DEF Heavy
<1>6. \A n \in 1 .. Len(s) : /\ ~Split(s[n]) /\ ~Piece(s[n]) /\ ~Lit(s[n]) /\ ~Body1(s[n])
                             /\ s[n].word \in {"AUTHENTICATE", "rest"} /\ ~SyncEnd(s[n])
                             /\ (s[n].enc <=> io = "ssl")
  BY <1>2, <1>3, <1>4, <1>5
<1>7. Shape(s) /\ \A n \in 1 .. Len(s) : Behind(s, n) /\ s[n].word # "junk"
  BY <1>6 DEF Shape, Follows, Behind
<1>8. Count(s) = 1
  <2>1. 1 \in 1 .. Len(s) /\ Heavy(s[1]) /\ \A n \in 1 .. Len(s) : n # 1 => ~Heavy(s[n])
    BY <1>3, <1>4, <1>5
  <2> QED
    BY <1>3, <2>1, CountSingle
<1>9. IsCommand(s)
  BY <1>2, <1>3, <1>5, <1>7, <1>8 DEF IsCommand
<1>10. \A n \in 1 .. Len(s) : Known(s[n])
  BY <1>6 DEF Known, SieveWords, Sieve, Pop
<1>11. \A n \in 1 .. Len(s) : Tame(s[n])
  BY <1>6 DEF Tame
<1>12. Sent(s)
  BY <1>6, <1>9, <1>10, <1>11 DEF Sent
<1> QED
  BY <1>12 DEF s, l, e, g

\* A line of MANAGESIEVE's without a literal.
LEMMA SieveSingleSent ==
  ASSUME Sieve, NEW w \in SieveWords, w \notin {"data", "rest", "junk"},
         NEW a \in Seq(Args), \A n \in 1 .. Len(a) : ~Literal(a[n]),
         Common /\ w = "NOOP" => a = <<>> \/ a = <<Atom>>
  PROVE  Sent(<<Line(w, a)>>)
<1>1. w \in Words /\ ~Pop
  BY DEF SieveWords, Words, Sieve, Pop
<1> QED
  BY <1>1, SingleSent

\* An argument that ends a line: what follows.
LEMMA TailOfLiteral ==
  ASSUME NEW a \in Args, a.how \in {"quoted", "nonsync"}, NEW w \in Words, NEW g \in Seq(Args)
  PROVE  <<Line(w, g)>> \o Tail1(a) =
           IF a.how = "quoted" THEN <<Line(w, g)>>
           ELSE IF a.content = "empty" THEN <<Line(w, g), Line("rest", <<>>)>>
           ELSE <<Line(w, g), Data(a), Line("rest", <<>>)>>
<1> DEFINE l == Line(w, g)
           d == Data(a)
           e == Line("rest", <<>>)
<1>0. "data" \in Words /\ "rest" \in Words /\ <<>> \in Seq(Args) /\ <<a>> \in Seq(Args)
  <2>1. "data" \in Words /\ "rest" \in Words
    BY DEF Words
  <2>2. <<>> \in Seq(Args) /\ <<a>> \in Seq(Args)
    OBVIOUS
  <2> QED
    BY <2>1, <2>2
<1>1. l \in Items /\ d \in Items /\ e \in Items
  BY <1>0, LineIsItem DEF Data
<1>2. Literal(a) <=> a.how # "quoted"
  BY DEF Literal
<1>3. Tail1(a) = IF Literal(a) THEN (IF a.content = "empty" THEN <<>> ELSE <<d>>) \o <<e>> ELSE <<>>
  BY Zenon DEF Tail1, Body
<1> HIDE DEF l, d, e
<1>4. <<l>> \o <<>> = <<l>> /\ <<>> \o <<e>> = <<e>> /\ <<d>> \o <<e>> = <<d, e>>
      /\ <<l>> \o <<e>> = <<l, e>>
  BY <1>1, ShortConcat, Zenon
<1>5. <<l>> \o <<d, e>> = <<l, d, e>>
  <2> DEFINE x == <<l>>
             y == <<d, e>>
             c == <<l, d, e>>
  <2>1. /\ x \in Seq(Items) /\ Len(x) = 1 /\ x[1] = l
        /\ y \in Seq(Items) /\ Len(y) = 2 /\ y[1] = d /\ y[2] = e
        /\ c \in Seq(Items) /\ Len(c) = 3 /\ c[1] = l /\ c[2] = d /\ c[3] = e
    BY <1>1
  <2> HIDE DEF x, y, c
  <2>2. /\ Len(c) = Len(x) + Len(y)
        /\ \A n \in 1 .. Len(x) : c[n] = x[n]
        /\ \A n \in 1 .. Len(y) : c[Len(x) + n] = y[n]
    <3>1. Len(c) = Len(x) + Len(y) /\ Len(x) + 1 = 2 /\ Len(x) + 2 = 3
      BY <2>1
    <3>2. \A n \in 1 .. Len(x) : n = 1
      BY <2>1
    <3>3. \A n \in 1 .. Len(y) : n = 1 \/ n = 2
      BY <2>1
    <3> QED
      BY <2>1, <3>1, <3>2, <3>3, Zenon
  <2>3. x \o y = c
    BY <2>1, <2>2, PiecewiseConcat, Zenon
  <2> QED
    BY <2>3 DEF x, y, c
<1>6. <<l>> \o Tail1(a) =
        IF a.how = "quoted" THEN <<l>>
        ELSE IF a.content = "empty" THEN <<l, e>> ELSE <<l, d, e>>
  <2>1. CASE a.how = "quoted"
    BY <1>2, <1>3, <1>4, <2>1, Zenon
  <2>2. CASE a.how # "quoted" /\ a.content = "empty"
    BY <1>2, <1>3, <1>4, <2>2, Zenon
  <2>3. CASE a.how # "quoted" /\ a.content # "empty"
    BY <1>2, <1>3, <1>4, <1>5, <2>3, Zenon
  <2> QED
    BY <2>1, <2>2, <2>3, Zenon
<1> QED
  BY <1>6 DEF l, d, e

\* MANAGESIEVE's commands ...
LEMMA SieveSent == ASSUME Sieve, NEW s \in SieveCommands PROVE Sent(s)
<1> DEFINE Q == Arg("quoted", "PLAIN")
           words == {"CAPABILITY", "LOGOUT", "STARTTLS", "other"}
           b == Arg("nonsync", "plain")
<1>0. ~Pop /\ ~Imap
  BY DEF Pop, Imap, Sieve
<1>1. Q \in Args /\ ~Literal(Q) /\ Q.how = "quoted"
  BY DEF Arg, Args, Hows, Contents, Literal
<1>2. b \in Args /\ Literal(b) /\ b.how = "nonsync" /\ b.content = "plain"
  BY DEF Arg, Args, Hows, Contents, Literal
<1>3. "AUTHENTICATE" \in SieveWords /\ "NOOP" \in SieveWords /\ "AUTHENTICATE" \in Words
  BY DEF SieveWords, Words
<1>4. CASE s \in Bare(words)
  <2>1. /\ words \in SUBSET Words /\ words \subseteq SieveWords /\ "NOOP" \notin words
        /\ \A w \in words : w \notin {"data", "rest", "junk"}
    BY DEF Words, SieveWords
  <2> HIDE DEF words
  <2> QED
    BY <1>0, <1>4, <2>1, BareSent
<1>5. CASE s \in {<<Line("NOOP", <<>>)>>, <<Line("NOOP", <<Atom>>)>>}
  <2>1. "NOOP" \notin {"data", "rest", "junk"}
    OBVIOUS
  <2>2. PICK a \in {<<>>, <<Atom>>} : s = <<Line("NOOP", a)>>
    BY <1>5
  <2>3. a \in Seq(Args) /\ \A n \in 1 .. Len(a) : ~Literal(a[n])
    BY <2>2, NoStrings, Zenon
  <2> QED
    BY <1>3, <2>1, <2>2, <2>3, SieveSingleSent
<1>6. CASE s \in {<<Line("AUTHENTICATE", args)>> :
                     args \in {<<>>, <<Atom>>, <<Q>>, <<Q, Atom>>}}
  <2>1. "AUTHENTICATE" \notin {"data", "rest", "junk"}
    OBVIOUS
  <2>2. PICK a \in {<<>>, <<Atom>>, <<Q>>, <<Q, Atom>>} : s = <<Line("AUTHENTICATE", a)>>
    BY <1>6
  <2>3. /\ <<Q>> \in Seq(Args) /\ <<Q, Atom>> \in Seq(Args)
        /\ \A n \in 1 .. Len(<<Q>>) : ~Literal(<<Q>>[n])
        /\ \A n \in 1 .. Len(<<Q, Atom>>) : ~Literal(<<Q, Atom>>[n])
    <3>1. Atom \in Args /\ ~Literal(Atom)
      BY NoStrings
    <3> HIDE DEF Q
    <3> QED
      BY <1>1, <3>1
  <2>4. a \in Seq(Args) /\ \A n \in 1 .. Len(a) : ~Literal(a[n])
    BY <2>2, <2>3, NoStrings, Zenon
  <2> QED
    BY <1>3, <2>1, <2>2, <2>4, SieveSingleSent
<1>7. ASSUME NEW a \in Args, a.how \in {"quoted", "nonsync"}
      PROVE  /\ <<Q, a>> \in Seq(Args) /\ Len(<<Q, a>>) = 2 /\ <<Q, a>>[1] = Q /\ <<Q, a>>[2] = a
             /\ a.how = "quoted" => \A n \in 1 .. Len(<<Q, a>>) : ~Literal(<<Q, a>>[n])
             /\ a.how = "nonsync" /\ a.content # "empty" => Lit(Line("AUTHENTICATE", <<Q, a>>))
  <2> DEFINE g == <<Q, a>>
  <2>1. g \in Seq(Args) /\ Len(g) = 2 /\ g[1] = Q /\ g[2] = a
    BY <1>1, <1>7
  <2>2. \A n \in 1 .. Len(g) : n = 1 \/ n = 2
    BY <2>1
  <2>3. Literal(a) <=> a.how = "nonsync"
    BY <1>7 DEF Literal
  <2> HIDE DEF g, Q
  <2>4. a.how = "quoted" => \A n \in 1 .. Len(g) : ~Literal(g[n])
    BY <1>1, <2>1, <2>2, <2>3, <1>7
  <2>5. Line("AUTHENTICATE", g).word = "AUTHENTICATE" /\ Line("AUTHENTICATE", g).args = g
    BY <1>3, <2>1, LineIsItem, Zenon
  <2>6. a.how = "nonsync" /\ a.content # "empty" => Lit(Line("AUTHENTICATE", g))
    BY <2>1, <2>3, <2>5 DEF Lit, Q
  <2> QED
    BY <2>1, <2>4, <2>6 DEF g
<1>8. ASSUME NEW a \in Args, a.how \in {"quoted", "nonsync"}
      PROVE  Plain(a) = IF a.how = "quoted" THEN <<Line("AUTHENTICATE", <<Q, a>>)>>
                        ELSE IF a.content = "empty"
                        THEN <<Line("AUTHENTICATE", <<Q, a>>), Line("rest", <<>>)>>
                        ELSE <<Line("AUTHENTICATE", <<Q, a>>), Data(a), Line("rest", <<>>)>>
  <2>1. <<Q, a>> \in Seq(Args)
    BY <1>7, <1>8
  <2>2. <<Line("AUTHENTICATE", <<Q, a>>)>> \o Tail1(a) =
           IF a.how = "quoted" THEN <<Line("AUTHENTICATE", <<Q, a>>)>>
           ELSE IF a.content = "empty"
           THEN <<Line("AUTHENTICATE", <<Q, a>>), Line("rest", <<>>)>>
           ELSE <<Line("AUTHENTICATE", <<Q, a>>), Data(a), Line("rest", <<>>)>>
    BY <1>3, <1>8, <2>1, TailOfLiteral, Zenon
  <2> QED
    BY <2>2, Zenon DEF Plain
<1>9. CASE s \in {Plain(a) : a \in Challenges}
  <2>1. PICK a \in Challenges : s = Plain(a)
    BY <1>9
  <2>2. a \in Args /\ a.how \in {"quoted", "nonsync"} /\ a.content # "empty"
    BY StringsTyped
  <2>3. CASE a.how = "quoted"
    <3>1. s = <<Line("AUTHENTICATE", <<Q, a>>)>>
      BY <1>8, <2>1, <2>2, <2>3, Zenon
    <3>2. <<Q, a>> \in Seq(Args) /\ \A n \in 1 .. Len(<<Q, a>>) : ~Literal(<<Q, a>>[n])
      BY <1>7, <2>2, <2>3, Zenon
    <3>3. "AUTHENTICATE" \notin {"data", "rest", "junk"}
      OBVIOUS
    <3>4. Sent(<<Line("AUTHENTICATE", <<Q, a>>)>>)
      BY <1>3, <3>2, <3>3, SieveSingleSent, Zenon
    <3> QED
      BY <3>1, <3>4, Zenon
  <2>4. CASE a.how = "nonsync"
    <3>1. "nonsync" # "quoted" /\ "nonsync" # "sync"
      OBVIOUS
    <3>2. s = <<Line("AUTHENTICATE", <<Q, a>>), Data(a), Line("rest", <<>>)>>
      BY <1>8, <2>1, <2>2, <2>4, <3>1, Zenon
    <3>3. <<Q, a>> \in Seq(Args) /\ <<Q, a>>[Len(<<Q, a>>)].how # "sync"
          /\ Lit(Line("AUTHENTICATE", <<Q, a>>))
      BY <1>7, <2>2, <2>4, <3>1, Zenon
    <3>4. Sent(<<Line("AUTHENTICATE", <<Q, a>>), Data(a), Line("rest", <<>>)>>)
      BY <2>2, <3>3, LiteralSent, Zenon
    <3> QED
      BY <3>2, <3>4, Zenon
  <2> QED
    BY <2>2, <2>3, <2>4
<1>10. CASE s = SubSeq(Plain(b), 1, 2) \o <<Line("rest", <<Atom>>)>>
  <2> DEFINE l == Line("AUTHENTICATE", <<Q, b>>)
             d == Data(b)
             e == Line("rest", <<>>)
             f == Line("rest", <<Atom>>)
  <2>1. Plain(b) = <<l, d, e>>
    <3>1. b.how # "quoted" /\ b.content # "empty" /\ b.how \in {"quoted", "nonsync"}
      BY <1>2
    <3> HIDE DEF b
    <3> QED
      BY <1>2, <1>8, <3>1, Zenon
  <2>2. <<Q, b>> \in Seq(Args) /\ <<Q, b>>[Len(<<Q, b>>)].how # "sync" /\ Lit(l)
    <3>1. b.how # "sync" /\ b.content # "empty" /\ b.how \in {"quoted", "nonsync"}
      BY <1>2
    <3> HIDE DEF b
    <3> QED
      BY <1>2, <1>7, <3>1, Zenon
  <2>3. l \in Items /\ d \in Items /\ e \in Items /\ f \in Items
    <3>1. "data" \in Words /\ "rest" \in Words
      BY DEF Words
    <3>2. <<>> \in Seq(Args) /\ <<b>> \in Seq(Args) /\ <<Atom>> \in Seq(Args)
      BY <1>2, NoStrings
    <3> QED
      BY <1>3, <2>2, <3>1, <3>2, LineIsItem DEF Data
  <2>4. Sent(<<l, d, f>>)
    BY <1>2, <2>2, LiteralSent
  <2> HIDE DEF l, d, e, f
  <2>5. SubSeq(<<l, d, e>>, 1, 2) = <<l, d>>
    <3> DEFINE x == <<l, d, e>>
               y == SubSeq(x, 1, 2)
               z == <<l, d>>
    <3>1. x \in Seq(Items) /\ Len(x) = 3 /\ x[1] = l /\ x[2] = d
      BY <2>3
    <3>2. z \in Seq(Items) /\ Len(z) = 2 /\ z[1] = l /\ z[2] = d
      BY <2>3
    <3> HIDE DEF x, z
    <3>3. y \in Seq(Items) /\ Len(y) = 2 /\ \A n \in 1 .. 2 : y[n] = x[n]
      BY <3>1
    <3> HIDE DEF y
    <3>4. \A n \in 1 .. Len(y) : n = 1 \/ n = 2
      BY <3>3
    <3>5. \A n \in 1 .. Len(y) : y[n] = z[n]
      BY <3>1, <3>2, <3>3, <3>4
    <3>6. y = z
      BY <3>2, <3>3, <3>5, SameElements
    <3> QED
      BY <3>6 DEF x, y, z
  <2>6. <<l, d>> \o <<f>> = <<l, d, f>>
    BY <2>3, ShortConcat, Zenon
  <2>7. s = <<l, d, f>>
    BY <1>10, <2>1, <2>5, <2>6, Zenon DEF f
  <2> QED
    BY <2>4, <2>7, Zenon
<1> QED
  BY <1>4, <1>5, <1>6, <1>9, <1>10, Zenon DEF SieveCommands

\* ... and those that perdition does not answer, or answers twice.
LEMMA OddSent == ASSUME Sieve, NEW s \in SieveOddities PROVE Sent(s)
<1>1. CASE /\ "noop_tag" \in Shapes
           /\ s \in {With1("NOOP", Arg(h, "plain")) : h \in {"quoted", "nonsync"}}
  <2>0. ~Common
    BY <1>1 DEF Common
  <2>1. PICK h \in {"quoted", "nonsync"} : s = With1("NOOP", Arg(h, "plain"))
    BY <1>1
  <2> DEFINE a == Arg(h, "plain")
  <2>2. a \in Args /\ a.how = h /\ a.how \in {"quoted", "nonsync"} /\ a.content # "empty"
        /\ (Literal(a) <=> a.how = "nonsync")
    BY DEF Arg, Args, Hows, Contents, Literal
  <2> HIDE DEF a
  <2>3. /\ <<a>> \in Seq(Args) /\ Len(<<a>>) = 1 /\ <<a>>[1] = a
        /\ \A n \in 1 .. Len(<<a>>) : <<a>>[n] = a
        /\ "NOOP" \in Words /\ "NOOP" \in SieveWords /\ "NOOP" \notin {"data", "rest", "junk"}
    <3>1. <<a>> \in Seq(Args) /\ Len(<<a>>) = 1 /\ <<a>>[1] = a
          /\ \A n \in 1 .. Len(<<a>>) : <<a>>[n] = a
      BY <2>2
    <3>2. "NOOP" \in Words /\ "NOOP" \in SieveWords /\ "NOOP" \notin {"data", "rest", "junk"}
      BY DEF Words, SieveWords
    <3> QED
      BY <3>1, <3>2
  <2>4. <<Line("NOOP", <<a>>)>> \o Tail1(a) =
           IF a.how = "quoted" THEN <<Line("NOOP", <<a>>)>>
           ELSE IF a.content = "empty" THEN <<Line("NOOP", <<a>>), Line("rest", <<>>)>>
           ELSE <<Line("NOOP", <<a>>), Data(a), Line("rest", <<>>)>>
    BY <2>2, <2>3, TailOfLiteral, Zenon
  <2>5. s = <<Line("NOOP", <<a>>)>> \o Tail1(a)
    BY <2>1, Zenon DEF With1, a
  <2>6. CASE a.how = "quoted"
    <3>1. s = <<Line("NOOP", <<a>>)>>
      BY <2>4, <2>5, <2>6, Zenon
    <3>2. \A n \in 1 .. Len(<<a>>) : ~Literal(<<a>>[n])
      BY <2>2, <2>3, <2>6
    <3>3. Sent(<<Line("NOOP", <<a>>)>>)
      BY <2>0, <2>3, <3>2, SieveSingleSent, Zenon
    <3> QED
      BY <3>1, <3>3, Zenon
  <2>7. CASE a.how = "nonsync"
    <3>0. a.how # "quoted" /\ a.how # "sync"
      BY <2>7
    <3>1. s = <<Line("NOOP", <<a>>), Data(a), Line("rest", <<>>)>>
      BY <2>2, <2>4, <2>5, <3>0, Zenon
    <3>2. Line("NOOP", <<a>>).word = "NOOP" /\ Line("NOOP", <<a>>).args = <<a>>
      BY <2>3, LineIsItem, Zenon
    <3>3. Lit(Line("NOOP", <<a>>))
      BY <2>2, <2>3, <2>7, <3>2, Zenon DEF Lit
    <3>4. Sent(<<Line("NOOP", <<a>>), Data(a), Line("rest", <<>>)>>)
      BY <2>0, <2>2, <2>3, <3>0, <3>3, LiteralSent, Zenon
    <3> QED
      BY <3>1, <3>4, Zenon
  <2> QED
    BY <2>2, <2>6, <2>7
<1>2. CASE ~AllRead /\ s = Plain(Arg("nonsync", "empty"))
  <2> DEFINE a == Arg("nonsync", "empty")
             g == <<Arg("quoted", "PLAIN"), a>>
  <2>1. a \in Args /\ a.how = "nonsync" /\ a.how \in {"quoted", "nonsync"} /\ a.content = "empty"
        /\ a.how # "sync" /\ a.how # "quoted"
    BY DEF Arg, Args, Hows, Contents
  <2> HIDE DEF a
  <2>2. g \in Seq(Args)
    BY <2>1 DEF Arg, Args, Hows, Contents
  <2>3. "AUTHENTICATE" \in Words
    BY DEF Words
  <2>4. s = <<Line("AUTHENTICATE", g)>> \o Tail1(a)
    BY <1>2, Zenon DEF Plain, a
  <2>5. <<Line("AUTHENTICATE", g)>> \o Tail1(a) =
           IF a.how = "quoted" THEN <<Line("AUTHENTICATE", g)>>
           ELSE IF a.content = "empty" THEN <<Line("AUTHENTICATE", g), Line("rest", <<>>)>>
           ELSE <<Line("AUTHENTICATE", g), Data(a), Line("rest", <<>>)>>
    BY <2>1, <2>2, <2>3, TailOfLiteral, Zenon
  <2>6. s = <<Line("AUTHENTICATE", g), Line("rest", <<>>)>>
    BY <2>1, <2>4, <2>5, Zenon
  <2> QED
    BY <1>2, <2>1, <2>6, EmptySent
<1>3. CASE /\ ~AllRead
           /\ s = <<Line("AUTHENTICATE", <<Arg("quoted", "X"), Arg("nonsync", "plain")>>)>>
                    \o Tail1(Arg("nonsync", "plain"))
  <2> DEFINE a == Arg("nonsync", "plain")
             g == <<Arg("quoted", "X"), a>>
  <2>1. a \in Args /\ a.how = "nonsync" /\ a.how \in {"quoted", "nonsync"} /\ a.content # "empty"
        /\ a.how # "sync" /\ a.how # "quoted"
    BY DEF Arg, Args, Hows, Contents
  <2> HIDE DEF a
  <2>2. g \in Seq(Args) /\ g[Len(g)].how # "sync"
    BY <2>1 DEF Arg, Args, Hows, Contents
  <2>3. "AUTHENTICATE" \in Words /\ "AUTHENTICATE" \in {"AUTHENTICATE", "NOOP"}
        /\ <<>> \in {<<>>, <<Atom>>}
    BY DEF Words
  <2>4. s = <<Line("AUTHENTICATE", g)>> \o Tail1(a)
    BY <1>3, Zenon DEF a
  <2>5. <<Line("AUTHENTICATE", g)>> \o Tail1(a) =
           IF a.how = "quoted" THEN <<Line("AUTHENTICATE", g)>>
           ELSE IF a.content = "empty" THEN <<Line("AUTHENTICATE", g), Line("rest", <<>>)>>
           ELSE <<Line("AUTHENTICATE", g), Data(a), Line("rest", <<>>)>>
    BY <2>1, <2>2, <2>3, TailOfLiteral, Zenon
  <2>6. s = <<Line("AUTHENTICATE", g), Data(a), Line("rest", <<>>)>>
    BY <2>1, <2>4, <2>5, Zenon
  <2> HIDE DEF g
  <2>7. Sent(<<Line("AUTHENTICATE", g), Data(a), Line("rest", <<>>)>>)
    BY <1>3, <2>1, <2>2, <2>3, LiteralSent, Zenon
  <2> QED
    BY <2>6, <2>7, Zenon
<1> QED
  BY <1>1, <1>2, <1>3, Zenon DEF SieveOddities, AllRead

\* Whatever a client sends is one whole command of its protocol.
LEMMA CommandsSent ==
  ASSUME TypeOK, NEW s \in Commands PROVE Sent(s)
<1>0. /\ Pop => ~Imap /\ ~Sieve
      /\ Imap => ~Pop /\ ~Sieve
      /\ Sieve => ~Pop /\ ~Imap
      /\ Pop \/ Imap \/ Sieve
  BY DEF Pop, Imap, Sieve, TypeOK, AllProtos
<1>1. CASE Pop
  <2>1. s \in PopCommands
    BY <1>0, <1>1, Zenon DEF Commands
  <2> QED
    BY <1>1, <2>1, PopSent
<1>2. CASE Imap
  <2>1. s \in ImapCommands
    BY <1>0, <1>2, Zenon DEF Commands
  <2> QED
    BY <1>2, <2>1, ImapSent
<1>3. CASE Sieve
  <2>1. s \in SieveCommands \cup SieveOddities
    BY <1>0, <1>3, Zenon DEF Commands
  <2> QED
    BY <1>3, <2>1, SieveSent, OddSent
<1> QED
  BY <1>0, <1>1, <1>2, <1>3

-----------------------------------------------------------------------------
(* How far the client gets.                                                *)

\* The client stops at the first line after which it waits.
LEMMA WaitsWhere ==
  ASSUME NEW s \in Seq(Items), s # <<>>
  PROVE  /\ Waits(s) \in 1 .. Len(s)
         /\ Waits(s) < Len(s) => SyncEnd(s[Waits(s)])
         /\ \A m \in 1 .. Waits(s) - 1 : ~SyncEnd(s[m])
<1> DEFINE W == {i \in 1 .. Len(s) : i = Len(s) \/ SyncEnd(s[i])}
           V == {i \in 1..Len(s) :
                  i = Len(s)
                    \/ /\ s[i].args # <<>> /\ s[i].word # "data"
                       /\ s[i].args[Len(s[i].args)].how = "sync"}
<1>1. V = W
  BY DEF SyncEnd
<1>2. Len(s) \in Nat /\ Len(s) \in W /\ W \subseteq Nat
  OBVIOUS
<1> HIDE DEF W
<1>3. PICK x \in W : \A y \in W : ~(<<y, x>> \in OpToRel(<, Nat))
  <2>1. W # {}
    BY <1>2
  <2> QED
    BY <1>2, <2>1, NatLessThanWellFounded, WFMin, Zenon
<1>4. \E z \in W : \A y \in W : z <= y
  <2>1. \A y \in W : ~(y < x)
    BY <1>2, <1>3 DEF OpToRel
  <2>2. \A y \in W : x <= y
    BY <1>2, <2>1
  <2> QED
    BY <2>2
<1>5. Waits(s) = Min(W)
  BY <1>1, Zenon DEF Waits
<1>6. Min(W) \in W /\ \A y \in W : Min(W) <= y
  BY <1>4, Zenon DEF Min
<1> DEFINE w == Waits(s)
<1>7. w \in W /\ \A y \in W : w <= y
  BY <1>5, <1>6, Zenon
<1> HIDE DEF w
<1>8. /\ w \in 1 .. Len(s)
      /\ w < Len(s) => SyncEnd(s[w])
      /\ \A m \in 1 .. w - 1 : ~SyncEnd(s[m])
  <2>1. w \in 1 .. Len(s) /\ (w = Len(s) \/ SyncEnd(s[w]))
    BY <1>7 DEF W
  <2>2. ASSUME NEW m \in 1 .. w - 1 PROVE ~SyncEnd(s[m])
    <3>1. m \in 1 .. Len(s) /\ ~(w <= m)
      BY <1>2, <2>1
    <3> QED
      BY <1>7, <3>1 DEF W
  <2> QED
    BY <1>2, <2>1, <2>2
<1> QED
  BY <1>8 DEF w

\* The first k elements of a sequence.
LEMMA TakeElements ==
  ASSUME NEW s \in Seq(Items), NEW k \in 0 .. Len(s)
  PROVE  LET a == SubSeq(s, 1, k)
         IN a \in Seq(Items) /\ Len(a) = k /\ \A n \in 1 .. k : a[n] = s[n]
  OBVIOUS

\* Concatenation is associative.
LEMMA ConcatRegroup ==
  ASSUME NEW s \in Seq(Items), NEW t \in Seq(Items), NEW u \in Seq(Items)
  PROVE  (s \o t) \o u = s \o (t \o u)
<1> DEFINE st == s \o t
           tu == t \o u
           c == st \o u
<1>1. /\ st \in Seq(Items) /\ Len(st) = Len(s) + Len(t) /\ Len(s) \in Nat /\ Len(t) \in Nat
      /\ \A n \in 1 .. Len(s) : st[n] = s[n]
      /\ \A n \in 1 .. Len(t) : st[Len(s) + n] = t[n]
  BY ConcatElements
<1>2. /\ tu \in Seq(Items) /\ Len(tu) = Len(t) + Len(u) /\ Len(u) \in Nat
      /\ \A n \in 1 .. Len(t) : tu[n] = t[n]
      /\ \A n \in Len(t) + 1 .. Len(t) + Len(u) : tu[n] = u[n - Len(t)]
  BY ConcatElements
<1> HIDE DEF st, tu
<1>3. /\ c \in Seq(Items) /\ Len(c) = Len(st) + Len(u)
      /\ \A n \in 1 .. Len(st) : c[n] = st[n]
      /\ \A n \in Len(st) + 1 .. Len(st) + Len(u) : c[n] = u[n - Len(st)]
  BY <1>1, ConcatElements
<1> HIDE DEF c
<1>4. Len(c) = Len(s) + Len(tu)
  BY <1>1, <1>2, <1>3
<1>5. \A n \in 1 .. Len(s) : c[n] = s[n]
  BY <1>1, <1>3
<1>6. ASSUME NEW n \in 1 .. Len(tu) PROVE c[Len(s) + n] = tu[n]
  <2>1. CASE n \in 1 .. Len(t)
    <3>1. Len(s) + n \in 1 .. Len(st)
      BY <1>1, <2>1
    <3> QED
      BY <1>1, <1>2, <1>3, <2>1, <3>1
  <2>2. CASE n \notin 1 .. Len(t)
    <3>1. /\ n \in Len(t) + 1 .. Len(t) + Len(u)
          /\ Len(s) + n \in Len(st) + 1 .. Len(st) + Len(u)
          /\ (Len(s) + n) - Len(st) = n - Len(t)
      BY <1>1, <1>2, <2>2
    <3>2. c[Len(s) + n] = u[(Len(s) + n) - Len(st)] /\ tu[n] = u[n - Len(t)]
      BY <1>2, <1>3, <3>1
    <3> QED
      BY <3>1, <3>2, Zenon
  <2> QED
    BY <2>1, <2>2
<1>7. s \o tu = c
  BY <1>2, <1>3, <1>4, <1>5, <1>6, PiecewiseConcat, Zenon
<1> QED
  BY <1>7 DEF c, st, tu

\* What the client sends is behind what it has sent, and what it holds back behind that.
LEMMA Sending ==
  ASSUME NEW s \in Seq(Items), s # <<>>, NEW t \in Seq(Items),
         wire \in Seq(Items), Send(s), wire = t
  PROVE  /\ wire' \in Seq(Items) /\ todo' \in Seq(Items)
         /\ wire' \o todo' = t \o s
         /\ Len(wire') = Len(t) + Waits(s)
         /\ Len(todo') = Len(s) - Waits(s)
         /\ \A n \in 1 .. Len(t) : wire'[n] = t[n]
         /\ \A n \in Len(t) + 1 .. Len(wire') : wire'[n] = s[n - Len(t)]
         /\ \A n \in 1 .. Len(todo') : todo'[n] = s[n + Waits(s)]
<1> DEFINE w == Waits(s)
           a == SubSeq(s, 1, w)
           b == SubSeq(s, w + 1, Len(s))
<1>1. w \in 1 .. Len(s) /\ w \in 0 .. Len(s) /\ Len(s) \in Nat
  BY WaitsWhere
<1>2. wire' = t \o a /\ todo' = b
  BY Zenon DEF Send
<1> HIDE DEF w
<1>3. /\ a \in Seq(Items) /\ Len(a) = w /\ \A n \in 1 .. w : a[n] = s[n]
      /\ b \in Seq(Items) /\ Len(b) = Len(s) - w /\ \A n \in 1 .. Len(s) - w : b[n] = s[n + w]
      /\ s = a \o b
  BY <1>1, TakeElements, DropElements, Zenon
<1> HIDE DEF a, b
<1> DEFINE c == t \o a
<1>4. /\ c \in Seq(Items) /\ Len(c) = Len(t) + Len(a) /\ Len(t) \in Nat
      /\ \A n \in 1 .. Len(t) : c[n] = t[n]
      /\ \A n \in Len(t) + 1 .. Len(t) + Len(a) : c[n] = a[n - Len(t)]
  BY <1>3, ConcatElements
<1>5. c \o b = t \o s
  BY <1>3, ConcatRegroup, Zenon
<1> HIDE DEF c
<1>6. wire' = c /\ todo' = b
  BY <1>2 DEF c
<1>7. \A n \in Len(t) + 1 .. Len(c) : c[n] = s[n - Len(t)]
  <2> SUFFICES ASSUME NEW n \in Len(t) + 1 .. Len(c) PROVE c[n] = s[n - Len(t)]
    OBVIOUS
  <2>1. n \in Len(t) + 1 .. Len(t) + Len(a) /\ n - Len(t) \in 1 .. w
    BY <1>1, <1>3, <1>4
  <2> QED
    BY <1>3, <1>4, <2>1
<1>8. /\ c \in Seq(Items) /\ b \in Seq(Items) /\ c \o b = t \o s
      /\ Len(c) = Len(t) + w /\ Len(b) = Len(s) - w
      /\ \A n \in 1 .. Len(t) : c[n] = t[n]
      /\ \A n \in Len(t) + 1 .. Len(c) : c[n] = s[n - Len(t)]
      /\ \A n \in 1 .. Len(b) : b[n] = s[n + w]
  BY <1>3, <1>4, <1>5, <1>7
<1> QED
  BY <1>6, <1>8, Zenon DEF w

-----------------------------------------------------------------------------
(* The invariant of what is on its way.                                    *)

Dead == {"failed", "quit", "exited", "served"}

\* a command was read and has no reply yet; or it has one before the line with
\* its password
Busy == IF pc \in {"password", "no_password", "challenge", "noop", "auth", "lookup", "refused"}
        THEN 1 ELSE IF pc = "late" THEN -1 ELSE 0

LEMMA BusyRange == Busy \in Int /\ Busy >= -1 /\ Busy <= 1
  BY DEF Busy

\* nothing was dropped, and every literal is read
Steady == ~flushed /\ AllRead

StreamType ==
  /\ wire \in Seq(Items) /\ todo \in Seq(Items) /\ cont \in BOOLEAN
  /\ asked \in Nat /\ answered \in Nat /\ flushed \in BOOLEAN

KnownHere(n) == Known(stream[n]) /\ (stream[n].word = "junk" => flushed)

WordsInv == \A n \in 1 .. Len(stream) : KnownHere(n)

\* the client holds back what follows a line that it waits after, and nothing else
EndsInv ==
  /\ \A n \in 1 .. Len(wire) : SyncEnd(wire[n]) => n = Len(wire) /\ todo # <<>>
  /\ \A n \in 1 .. Len(wire) : wire[n].word = "data" => n < Len(wire)
  /\ todo # <<>> => Imap /\ ~SyncEnd(todo[Len(todo)]) /\ todo[Len(todo)].word # "data"
  /\ cont => wire = <<>> /\ todo # <<>>

ShapeInv ==
  /\ Shape(stream)
  /\ pc \in {"name", "late"} =>
       2 <= Len(stream) /\ stream[1].word = "data" /\ Piece(stream[2])
  /\ pc = "space" => 1 <= Len(stream) /\ Piece(stream[1])
  /\ pc \in {"challenge", "noop"} =>
       2 <= Len(stream) /\ stream[1].word = "data" /\ stream[2].word = "rest"

LedHere(n) ==
  /\ stream[n].word = "data" =>
       (n = 1 /\ pc \in {"challenge", "noop"}) \/ (n > 1 /\ Lit(stream[n - 1]))
  /\ stream[n].word = "rest" => n > 1 /\ stream[n - 1].word = "data"

SieveInv ==
  Sieve /\ Steady /\ pc \notin Dead => \A n \in 1 .. Len(stream) : LedHere(n)

\* every reply is of a command of its own
CreditInv == Imap \/ Steady => answered + Busy + Count(stream) <= asked

\* what a client sends before the handshake is not read after it
EncInv ==
  /\ io = "ssl" => \A n \in 1 .. Len(wire) : wire[n].enc
  /\ io = "ssl" /\ (\E n \in 1 .. Len(todo) : ~todo[n].enc) => ~cont /\ wire = <<>>
  /\ pc \in {"starttls", "handshake"} => ~cont
  /\ pc = "handshake" => wire = <<>>

WireInv ==
  /\ StreamType /\ WordsInv /\ EndsInv /\ ShapeInv /\ SieveInv /\ CreditInv /\ EncInv

-----------------------------------------------------------------------------
\* The client sends what is answered, nothing was dropped, no write has failed and
\* its session goes on.
Sure == Common /\ ~flushed /\ ~trouble /\ pc \notin Dead

TameInv ==
  /\ Sieve => \A n \in 1 .. Len(stream) : Tame(stream[n])
  /\ Sure => pc # "noop"

\* what is held back after a line that is answered has no weight
HeldInv ==
  /\ Count(todo) <= 1
  /\ wire # <<>> /\ SyncEnd(wire[Len(wire)]) /\ Heavy(wire[Len(wire)]) => Count(todo) = 0

\* what comes before a line, in the stream
BackHere(n) ==
  /\ Piece(stream[n]) =>
       \/ n = 1 /\ pc = "space"
       \/ n = 2 /\ pc = "name"
       \/ n > 1 /\ Split(stream[n - 1]) /\ stream[n - 1].args[1].content = "empty"
       \/ n > 2 /\ Split(stream[n - 2]) /\ stream[n - 2].args[1].content # "empty"
  /\ stream[n].word = "data" => n < Len(stream) /\ stream[n + 1].word = "rest"
  /\ Body1(stream[n]) => n < Len(stream) /\ stream[n + 1].word = "data"

BackInv ==
  Imap /\ Sure =>
    /\ \A n \in 1 .. Len(stream) : BackHere(n)
    /\ pc = "password" => stream # <<>> /\ stream[1].word = "data"

\* a client that holds something back waits for a continuation request that is on
\* its way, or for the reply to a line that is yet to be read
SyncInv ==
  Sure /\ todo # <<>> => cont \/ (wire # <<>> /\ SyncEnd(wire[Len(wire)]))

\* every command was answered, is under way or yet to be read
ExactInv == Sure => answered + Busy + Count(stream) = asked

WaitInv == TameInv /\ HeldInv /\ BackInv /\ SyncInv /\ ExactInv

-----------------------------------------------------------------------------
\* What a step that reads the first k lines or data does if the session goes on:
\* what was read is answered, under way or asked for.
EffectSure(k) ==
  /\ (answered' - answered) + Busy' = Busy + Count(SubSeq(wire, 1, k))
  /\ k > 0 /\ SyncEnd(wire[k]) => cont' \/ (Answered /\ Busy' = 0 /\ Heavy(wire[k]))
  /\ pc' # "noop"
  /\ Imap =>
       /\ pc = "name" => k = 1 /\ pc' = "space"
       /\ pc = "space" => k = 1
       /\ k = 1 /\ Split(wire[1]) =>
            pc' = IF wire[1].args[1].content = "empty" THEN "space" ELSE "name"
       /\ k = 2 => wire[1].word = "data"

\* What such a step does in any case.
Effect(k) ==
  /\ k \in 0 .. 2 /\ k <= Len(wire)
  /\ wire' = SubSeq(wire, k + 1, Len(wire))
  /\ \/ Unanswered
     \/ Answered /\ UNCHANGED cont
     \/ answered' = answered + 1 /\ UNCHANGED <<todo, cont>>
  /\ cont' = cont \/ (cont' = TRUE /\ k = 1 /\ SyncEnd(wire[1]))
  /\ UNCHANGED <<proto, io, asked, flushed>>
  /\ Imap \/ Steady => (answered' - answered) + Busy' <= Busy + Count(SubSeq(wire, 1, k))
  /\ pc' # "handshake"
  /\ pc' = "starttls" => cont' = cont /\ k > 0
  /\ pc' = "late" => UNCHANGED todo /\ k = 0 /\ pc = "name"
  /\ pc' = "name" =>
       Unanswered /\ k = 1 /\ Split(wire[1]) /\ wire[1].args[1].content # "empty"
  /\ pc' = "space" =>
       Unanswered /\ k = 1
         /\ (pc = "name" \/ (Split(wire[1]) /\ wire[1].args[1].content = "empty"))
  /\ pc' \in {"challenge", "noop"} => Unanswered /\ k = 1 /\ Lit(wire[1])
  /\ pc \in Dead => pc' \in Dead
  /\ Sieve /\ Steady /\ pc' \notin Dead =>
       \/ k = 0 /\ pc \notin {"challenge", "noop"}
       \/ k = 1 /\ wire[1].word # "data" /\ (Lit(wire[1]) => pc' \in {"challenge", "noop"})
       \/ k = 2 /\ wire[2].word = "rest"
  /\ trouble => trouble'
  /\ pc' = "password" => Unanswered /\ k = 1 /\ Body1(wire[1])
  /\ Sure' => EffectSure(k)

\* What is left of the stream.
LEMMA DropOfStream ==
  ASSUME NEW w \in Seq(Items), NEW t \in Seq(Items), NEW k \in 0 .. Len(w)
  PROVE  LET d == SubSeq(w, k + 1, Len(w))
             s == w \o t
             r == d \o t
         IN /\ r \in Seq(Items) /\ s \in Seq(Items)
            /\ r = SubSeq(s, k + 1, Len(s)) /\ k \in 0 .. Len(s)
            /\ Len(r) = Len(s) - k
            /\ \A n \in 1 .. Len(r) : r[n] = s[n + k]
            /\ Count(s) = Count(SubSeq(w, 1, k)) + Count(r)
<1> DEFINE d == SubSeq(w, k + 1, Len(w))
           a == SubSeq(w, 1, k)
           s == w \o t
           r == d \o t
<1>1. /\ d \in Seq(Items) /\ Len(d) = Len(w) - k /\ Len(w) \in Nat
      /\ \A n \in 1 .. Len(w) - k : d[n] = w[n + k]
      /\ w = a \o d /\ a \in Seq(Items)
  BY DropElements, Zenon
<1> HIDE DEF d, a
<1>2. /\ s \in Seq(Items) /\ Len(s) = Len(w) + Len(t) /\ Len(t) \in Nat
      /\ \A n \in 1 .. Len(w) : s[n] = w[n]
      /\ \A n \in Len(w) + 1 .. Len(w) + Len(t) : s[n] = t[n - Len(w)]
  BY ConcatElements
<1>3. /\ r \in Seq(Items) /\ Len(r) = Len(d) + Len(t)
      /\ \A n \in 1 .. Len(d) : r[n] = d[n]
      /\ \A n \in Len(d) + 1 .. Len(d) + Len(t) : r[n] = t[n - Len(d)]
  BY <1>1, ConcatElements
<1>4. Count(s) = Count(a) + Count(r)
  <2>1. s = a \o r
    BY <1>1, ConcatRegroup, Zenon
  <2> HIDE DEF s, r
  <2> QED
    BY <1>1, <1>3, <2>1, CountConcat
<1> HIDE DEF s, r
<1>5. Len(r) = Len(s) - k /\ k \in 0 .. Len(s)
  <2> DEFINE p == Len(w)
             q == Len(t)
  <2>1. p \in Nat /\ q \in Nat /\ k \in 0 .. p
    BY <1>1, <1>2
  <2>2. Len(s) = p + q /\ Len(r) = (p - k) + q
    BY <1>1, <1>2, <1>3, Zenon
  <2> HIDE DEF p, q
  <2> QED
    BY <2>1, <2>2
<1>6. ASSUME NEW n \in 1 .. Len(r) PROVE r[n] = s[n + k]
  <2>1. CASE n \in 1 .. Len(d)
    <3>1. n \in 1 .. Len(w) - k /\ n + k \in 1 .. Len(w)
      BY <1>1, <2>1
    <3> QED
      BY <1>1, <1>2, <1>3, <2>1, <3>1
  <2>2. CASE n \notin 1 .. Len(d)
    <3>1. /\ n \in Len(d) + 1 .. Len(d) + Len(t)
          /\ n + k \in Len(w) + 1 .. Len(w) + Len(t)
          /\ (n + k) - Len(w) = n - Len(d)
      BY <1>1, <1>3, <2>2, SMTT(30)
    <3>2. r[n] = t[n - Len(d)] /\ s[n + k] = t[(n + k) - Len(w)]
      BY <1>2, <1>3, <3>1
    <3> QED
      BY <3>1, <3>2, Zenon
  <2> QED
    BY <2>1, <2>2
<1> DEFINE e == SubSeq(s, k + 1, Len(s))
<1>7. /\ e \in Seq(Items) /\ Len(e) = Len(s) - k /\ Len(s) \in Nat
      /\ \A n \in 1 .. Len(s) - k : e[n] = s[n + k]
  BY <1>2, <1>5, DropElements, Zenon
<1> HIDE DEF e
<1>8. r = e
  BY <1>3, <1>5, <1>6, <1>7, SameElements
<1> QED
  BY <1>2, <1>3, <1>4, <1>5, <1>6, <1>8 DEF a, d, e, s, r

\* What of the stream is left in the end: all that was behind what was read; or,
\* if the client gave up what it held back, nothing that is answered.
LEMMA EffectOutcome ==
  ASSUME WireInv, NEW k, Effect(k)
  PROVE  /\ k \in 0 .. Len(stream) /\ k \in 0 .. Len(wire)
         /\ stream' \in Seq(Items) /\ wire' \in Seq(Items) /\ todo' \in Seq(Items)
         /\ Len(wire') = Len(wire) - k /\ Len(stream') \in Nat /\ Len(wire) \in Nat
         /\ Len(stream') <= Len(stream) - k /\ Len(stream) \in Nat
         /\ \A n \in 1 .. Len(wire') : wire'[n] = wire[n + k]
         /\ \A n \in 1 .. Len(stream') : stream'[n] = stream[n + k]
         /\ Shape(stream')
         /\ answered' \in Nat
         /\ Imap \/ Steady => answered' + Busy' + Count(stream') <= asked
         /\ Unanswered => Len(stream') = Len(stream) - k
         /\ \/ todo' = todo
            \/ /\ todo' = <<>> /\ ~cont /\ cont' = cont
               /\ \A n \in 1 .. Len(wire') : ~SyncEnd(wire'[n])
<1> DEFINE d == SubSeq(wire, k + 1, Len(wire))
           a == SubSeq(wire, 1, k)
           s == wire \o todo
           r == d \o todo
<1> USE DEF WireInv
<1>0. /\ wire \in Seq(Items) /\ todo \in Seq(Items) /\ Len(wire) \in Nat
      /\ k \in 0 .. Len(wire) /\ stream = s
  BY DEF Effect, StreamType, stream
<1>1. /\ d \in Seq(Items) /\ Len(d) = Len(wire) - k
      /\ \A n \in 1 .. Len(wire) - k : d[n] = wire[n + k]
      /\ a \in Seq(Items)
  BY <1>0, DropElements, Zenon
<1>2. /\ r \in Seq(Items) /\ s \in Seq(Items) /\ Len(s) \in Nat /\ Len(r) \in Nat
      /\ r = SubSeq(s, k + 1, Len(s)) /\ k \in 0 .. Len(s)
      /\ Len(r) = Len(s) - k
      /\ \A n \in 1 .. Len(r) : r[n] = s[n + k]
      /\ Count(s) = Count(a) + Count(r)
  <2>1. /\ r \in Seq(Items) /\ s \in Seq(Items)
        /\ r = SubSeq(s, k + 1, Len(s)) /\ k \in 0 .. Len(s)
        /\ Len(r) = Len(s) - k
        /\ \A n \in 1 .. Len(r) : r[n] = s[n + k]
        /\ Count(s) = Count(a) + Count(r)
    BY <1>0, DropOfStream, Zenon
  <2>2. Len(s) \in Nat /\ Len(r) \in Nat
    BY <2>1
  <2> QED
    BY <2>1, <2>2
<1>3. Shape(r)
  <2>1. Shape(s)
    BY <1>0 DEF ShapeInv
  <2> QED
    BY <1>2, <2>1, ShapeDrop, Zenon
<1>4. wire' = d /\ stream' = d \o todo'
  BY DEF Effect, stream
<1>5. Count(a) \in Nat /\ Count(r) \in Nat /\ Count(s) \in Nat /\ Count(d) \in Nat
      /\ Count(todo) \in Nat /\ Count(r) = Count(d) + Count(todo)
  <2>1. Count(a) \in Nat /\ Count(r) \in Nat /\ Count(s) \in Nat /\ Count(d) \in Nat
        /\ Count(todo) \in Nat
    BY <1>0, <1>1, <1>2, CountIsNat, Zenon
  <2>2. Count(d \o todo) = Count(d) + Count(todo)
    BY <1>0, <1>1, CountConcat, Zenon
  <2> QED
    BY <2>1, <2>2
<1>6. answered' \in Nat /\ Busy \in -1 .. 1 /\ Busy' \in -1 .. 1
  BY DEF Effect, Unanswered, Answered, StreamType, Busy
<1> HIDE DEF d, a, s, r
<1>7. Imap \/ Steady => answered' + Busy' + Count(r) <= asked
  <2> SUFFICES ASSUME Imap \/ Steady PROVE answered' + Busy' + Count(r) <= asked
    OBVIOUS
  <2>1. answered + Busy + Count(s) <= asked /\ answered \in Nat /\ asked \in Nat
    BY <1>0 DEF CreditInv, StreamType
  <2>2. (answered' - answered) + Busy' <= Busy + Count(a)
    BY DEF Effect, a
  <2>3. Count(s) = Count(a) + Count(r)
    BY <1>2
  <2> DEFINE b == Busy
             c == Busy'
  <2>4. b \in -1 .. 1 /\ c \in -1 .. 1 /\ answered + b + Count(s) <= asked
        /\ (answered' - answered) + c <= b + Count(a)
    BY <1>6, <2>1, <2>2
  <2> HIDE DEF b, c
  <2>5. answered' + c + Count(r) <= asked
    BY <1>5, <1>6, <2>1, <2>3, <2>4
  <2> QED
    BY <2>5 DEF c
<1>8. CASE todo' = todo
  <2>1. stream' = r
    BY <1>4, <1>8 DEF r
  <2>2. Len(stream') <= Len(s) - k
    BY <1>2, <2>1
  <2> QED
    BY <1>0, <1>1, <1>2, <1>3, <1>4, <1>6, <1>7, <1>8, <2>1, <2>2, Zenon
<1>9. CASE todo' # todo
  <2>1. Answered /\ UNCHANGED cont /\ todo' = <<>> /\ ~cont /\ answered' = asked
        /\ todo # <<>> /\ ~Unanswered
    BY <1>9 DEF Effect, Unanswered, Answered
  <2>2. Imap
    BY <2>1 DEF EndsInv
  <2>3. Count(r) = 0
    <3> DEFINE c == Busy'
    <3>1. asked \in Nat
      BY DEF StreamType
    <3>2. c \in 0 .. 1 /\ answered' + c + Count(r) <= asked
      BY <1>7, <1>9, <2>2 DEF Busy, Effect
    <3> HIDE DEF c
    <3> QED
      BY <1>5, <2>1, <3>1, <3>2
  <2>4. \A n \in 1 .. Len(r) : ~Heavy(r[n])
    BY <1>2, <2>3, CountNone
  <2>5. \A n \in 1 .. Len(r) : ~Split(r[n])
    <3> SUFFICES ASSUME NEW n \in 1 .. Len(r), Split(r[n]) PROVE FALSE
      OBVIOUS
    <3>1. Follows(r, n)
      BY <1>3 DEF Shape
    <3>2. PICK m \in {n + 1, n + 2} : m <= Len(r) /\ Piece(r[m])
      BY <3>1 DEF Follows
    <3>3. m \in 1 .. Len(r)
      BY <1>2, <3>2
    <3> QED
      BY <2>4, <3>2, <3>3 DEF Heavy
  <2>6. \A n \in 1 .. Len(r) : ~SyncEnd(r[n]) /\ ~Lit(r[n])
    <3> SUFFICES ASSUME NEW n \in 1 .. Len(r) PROVE ~SyncEnd(r[n]) /\ ~Lit(r[n])
      OBVIOUS
    <3>1. n + k \in 1 .. Len(s) /\ r[n] = s[n + k]
      BY <1>2
    <3>2. Known(r[n])
      BY <1>0, <3>1 DEF WordsInv, KnownHere
    <3>3. ~Heavy(r[n]) /\ ~Split(r[n])
      BY <2>4, <2>5
    <3>4. ~SyncEnd(r[n])
      BY <3>2, <3>3 DEF Known
    <3>5. ~Lit(r[n])
      BY <3>3 DEF Lit, Heavy
    <3> QED
      BY <3>4, <3>5
  <2>7. /\ Len(d) <= Len(r) /\ Len(d) \in Nat
        /\ \A n \in 1 .. Len(d) : r[n] = d[n]
    <3>1. /\ Len(d \o todo) = Len(d) + Len(todo) /\ Len(d) \in Nat /\ Len(todo) \in Nat
          /\ \A n \in 1 .. Len(d) : (d \o todo)[n] = d[n]
      BY <1>0, <1>1, ConcatElements, Zenon
    <3> QED
      BY <3>1 DEF r
  <2>8. \A n \in 1 .. Len(d) : ~Split(d[n]) /\ ~SyncEnd(d[n]) /\ ~Lit(d[n]) /\ d[n] = s[n + k]
    <3> SUFFICES ASSUME NEW n \in 1 .. Len(d)
        PROVE ~Split(d[n]) /\ ~SyncEnd(d[n]) /\ ~Lit(d[n]) /\ d[n] = s[n + k]
      OBVIOUS
    <3>1. n \in 1 .. Len(r) /\ d[n] = r[n]
      BY <1>2, <2>7
    <3> QED
      BY <1>2, <2>5, <2>6, <3>1
  <2>9. stream' = d
    <3>1. d \o <<>> = d
      BY <1>1
    <3> QED
      BY <1>4, <2>1, <3>1
  <2>10. Shape(d)
    BY <2>8 DEF Shape, Follows
  <2>11. Len(d) <= Len(s) - k
    BY <1>2, <2>7
  <2>12. Imap \/ Steady => answered' + Busy' + Count(d) <= asked
    <3>1. asked \in Nat
      BY DEF StreamType
    <3> HIDE DEF Busy
    <3> QED
      BY <1>5, <1>6, <1>7, <3>1
  <2>13. todo' \in Seq(Items)
    BY <2>1
  <2> QED
    BY <1>0, <1>1, <1>2, <1>4, <1>6, <2>1, <2>7, <2>8, <2>9, <2>10, <2>11, <2>12, <2>13, Zenon
<1> QED
  BY <1>8, <1>9

\* Such a step keeps the invariant.
LEMMA EffectKeeps ==
  ASSUME WireInv, NEW k, Effect(k) PROVE WireInv'
<1> USE DEF WireInv
<1>1. /\ k \in 0 .. Len(stream) /\ k \in 0 .. Len(wire)
      /\ stream' \in Seq(Items) /\ wire' \in Seq(Items) /\ todo' \in Seq(Items)
      /\ Len(wire') = Len(wire) - k /\ Len(stream') \in Nat /\ Len(wire) \in Nat
      /\ Len(stream') <= Len(stream) - k /\ Len(stream) \in Nat
      /\ \A n \in 1 .. Len(wire') : wire'[n] = wire[n + k]
      /\ \A n \in 1 .. Len(stream') : stream'[n] = stream[n + k]
      /\ Shape(stream')
      /\ answered' \in Nat
      /\ Imap \/ Steady => answered' + Busy' + Count(stream') <= asked
      /\ Unanswered => Len(stream') = Len(stream) - k
      /\ \/ todo' = todo
         \/ /\ todo' = <<>> /\ ~cont /\ cont' = cont
            /\ \A n \in 1 .. Len(wire') : ~SyncEnd(wire'[n])
  BY EffectOutcome
<1>2. /\ UNCHANGED <<proto, io, asked, flushed>> /\ k \in 0 .. 2
      /\ cont' = cont \/ (cont' = TRUE /\ k = 1 /\ SyncEnd(wire[1]))
  BY DEF Effect
<1>3. (Pop' <=> Pop) /\ (Imap' <=> Imap) /\ (Sieve' <=> Sieve) /\ (Steady' <=> Steady)
  BY <1>2 DEF Pop, Imap, Sieve, Steady, AllRead
<1>4. StreamType'
  BY <1>1, <1>2 DEF StreamType
<1>5. WordsInv'
  <2> SUFFICES ASSUME NEW n \in 1 .. Len(stream') PROVE KnownHere(n)'
    BY DEF WordsInv
  <2>1. n + k \in 1 .. Len(stream) /\ stream'[n] = stream[n + k]
    BY <1>1
  <2>2. Known(stream[n + k]) /\ (stream[n + k].word = "junk" => flushed)
    BY <2>1 DEF WordsInv, KnownHere
  <2> QED
    BY <1>2, <1>3, <2>1, <2>2 DEF KnownHere, Known
<1>6. EndsInv'
  <2>1. ASSUME NEW n \in 1 .. Len(wire') PROVE SyncEnd(wire'[n]) => n = Len(wire') /\ todo' # <<>>
    <3>1. n + k \in 1 .. Len(wire) /\ wire'[n] = wire[n + k]
      BY <1>1
    <3>2. SyncEnd(wire[n + k]) => n + k = Len(wire) /\ todo # <<>>
      BY <3>1 DEF EndsInv
    <3>3. n + k = Len(wire) => n = Len(wire')
      <4> DEFINE p == Len(wire)
                 q == Len(wire')
      <4>1. p \in Nat /\ q = p - k /\ k \in 0 .. p /\ n \in 1 .. q
        BY <1>1
      <4> HIDE DEF p, q
      <4>2. n + k = p => n = q
        BY <4>1
      <4> QED
        BY <4>2 DEF p, q
    <3> QED
      BY <1>1, <3>1, <3>2, <3>3, Zenon
  <2>2. ASSUME NEW n \in 1 .. Len(wire') PROVE wire'[n].word = "data" => n < Len(wire')
    <3>1. n + k \in 1 .. Len(wire) /\ wire'[n] = wire[n + k]
      BY <1>1
    <3>2. wire[n + k].word = "data" => n + k < Len(wire)
      BY <3>1 DEF EndsInv
    <3>3. n + k < Len(wire) => n < Len(wire')
      BY <1>1
    <3> QED
      BY <3>1, <3>2, <3>3, Zenon
  <2>3. todo' # <<>> => Imap' /\ ~SyncEnd(todo'[Len(todo')]) /\ todo'[Len(todo')].word # "data"
    <3>1. todo # <<>> => Imap /\ ~SyncEnd(todo[Len(todo)]) /\ todo[Len(todo)].word # "data"
      BY DEF EndsInv
    <3> QED
      BY <1>1, <1>3, <3>1
  <2>4. cont' => wire' = <<>> /\ todo' # <<>>
    <3> SUFFICES ASSUME cont' PROVE wire' = <<>> /\ todo' # <<>>
      OBVIOUS
    <3>1. CASE cont
      <4>1. wire = <<>> /\ todo # <<>>
        BY <3>1 DEF EndsInv
      <4>2. Len(wire') = 0
        <5>1. Len(wire) = 0
          BY <4>1
        <5>2. k = 0
          BY <1>1, <5>1
        <5> QED
          BY <1>1, <5>1, <5>2
      <4>3. wire' = <<>>
        BY <1>1, <4>2
      <4>4. todo' = todo
        BY <1>1, <3>1
      <4> QED
        BY <4>1, <4>3, <4>4
    <3>2. CASE ~cont
      <4>1. k = 1 /\ SyncEnd(wire[1]) /\ cont' # cont
        BY <1>2, <3>2
      <4>2. 1 = Len(wire) /\ todo # <<>>
        BY <1>1, <4>1 DEF EndsInv
      <4>3. Len(wire') = 0
        <5>1. Len(wire') = Len(wire) - k
          BY <1>1
        <5>2. Len(wire') = 1 - 1
          BY <4>1, <4>2, <5>1, Zenon
        <5> QED
          BY <5>2
      <4>4. wire' = <<>>
        BY <1>1, <4>3
      <4>5. todo' = todo
        BY <1>1, <4>1
      <4> QED
        BY <4>2, <4>4, <4>5
    <3> QED
      BY <3>1, <3>2
  <2> QED
    BY <2>1, <2>2, <2>3, <2>4 DEF EndsInv
<1>7. ShapeInv'
  <2>1. k > 0 => wire[1] = stream[1] /\ k \in 1 .. Len(wire) /\ Len(wire) <= Len(stream)
    <3>1. /\ Len(wire \o todo) = Len(wire) + Len(todo) /\ Len(wire) \in Nat /\ Len(todo) \in Nat
          /\ \A n \in 1 .. Len(wire) : (wire \o todo)[n] = wire[n]
      BY ConcatElements, Zenon DEF StreamType
    <3>2. k > 0 => 1 \in 1 .. Len(wire) /\ k \in 1 .. Len(wire)
      BY <1>1
    <3> QED
      BY <3>1, <3>2 DEF stream
  <2>2. Shape(stream)
    BY DEF ShapeInv
  <2>3. ASSUME pc' = "name"
        PROVE  2 <= Len(stream') /\ stream'[1].word = "data" /\ Piece(stream'[2])
    <3>1. Unanswered /\ k = 1 /\ Split(wire[1]) /\ wire[1].args[1].content # "empty"
      BY <2>3 DEF Effect
    <3>2. Follows(stream, 1) /\ Split(stream[1]) /\ stream[1].args[1].content # "empty"
      BY <1>1, <2>1, <2>2, <3>1 DEF Shape
    <3>3. 3 <= Len(stream) /\ stream[2].word = "data" /\ Piece(stream[3])
      BY <3>2 DEF Follows
    <3>4. 2 <= Len(stream') /\ stream'[1] = stream[2] /\ stream'[2] = stream[3]
      BY <1>1, <3>1, <3>3
    <3> QED
      BY <3>3, <3>4
  <2>4. ASSUME pc' = "space"
        PROVE  1 <= Len(stream') /\ Piece(stream'[1])
    <3>1. Unanswered /\ k = 1
            /\ (pc = "name" \/ (Split(wire[1]) /\ wire[1].args[1].content = "empty"))
      BY <2>4 DEF Effect
    <3>2. 2 <= Len(stream) /\ Piece(stream[2])
      <4>1. CASE pc = "name"
        BY <4>1 DEF ShapeInv
      <4>2. CASE Split(wire[1]) /\ wire[1].args[1].content = "empty"
        <5>1. Follows(stream, 1) /\ Split(stream[1]) /\ stream[1].args[1].content = "empty"
          BY <1>1, <2>1, <2>2, <3>1, <4>2 DEF Shape
        <5> QED
          BY <5>1 DEF Follows
      <4> QED
        BY <3>1, <4>1, <4>2
    <3>4. 1 <= Len(stream') /\ stream'[1] = stream[2]
      BY <1>1, <3>1, <3>2
    <3> QED
      BY <3>2, <3>4
  <2>5. ASSUME pc' \in {"challenge", "noop"}
        PROVE  2 <= Len(stream') /\ stream'[1].word = "data" /\ stream'[2].word = "rest"
    <3>1. Unanswered /\ k = 1 /\ Lit(wire[1])
      BY <2>5 DEF Effect
    <3>2. Follows(stream, 1) /\ Lit(stream[1])
      BY <1>1, <2>1, <2>2, <3>1 DEF Shape
    <3>3. 3 <= Len(stream) /\ stream[2].word = "data" /\ stream[3].word = "rest"
      BY <3>2 DEF Follows
    <3>4. 2 <= Len(stream') /\ stream'[1] = stream[2] /\ stream'[2] = stream[3]
      BY <1>1, <3>1, <3>3
    <3> QED
      BY <3>3, <3>4
  <2>6. ASSUME pc' = "late"
        PROVE  2 <= Len(stream') /\ stream'[1].word = "data" /\ Piece(stream'[2])
    <3>1. UNCHANGED todo /\ k = 0 /\ pc = "name"
      BY <2>6 DEF Effect
    <3>2. 2 <= Len(stream) /\ stream[1].word = "data" /\ Piece(stream[2])
      BY <3>1 DEF ShapeInv
    <3>3. stream' = stream
      <4>1. wire' = SubSeq(wire, 1, Len(wire)) /\ wire \in Seq(Items)
        BY <3>1 DEF Effect, StreamType
      <4>2. wire' = wire
        BY <4>1
      <4> QED
        BY <3>1, <4>2 DEF stream
    <3> QED
      BY <3>2, <3>3
  <2> QED
    BY <1>1, <2>3, <2>4, <2>5, <2>6 DEF ShapeInv
<1>8. SieveInv'
  <2> SUFFICES ASSUME Sieve, Steady, pc' \notin Dead, NEW n \in 1 .. Len(stream')
      PROVE LedHere(n)'
    BY <1>3 DEF SieveInv
  <2>1. pc \notin Dead
    BY DEF Effect
  <2>2. n + k \in 1 .. Len(stream) /\ stream'[n] = stream[n + k]
    BY <1>1
  <2>3. LedHere(n + k)
    BY <2>1, <2>2 DEF SieveInv
  <2>4. \/ k = 0 /\ pc \notin {"challenge", "noop"}
        \/ k = 1 /\ wire[1].word # "data" /\ (Lit(wire[1]) => pc' \in {"challenge", "noop"})
        \/ k = 2 /\ wire[2].word = "rest"
    BY DEF Effect
  <2>5. \A m \in 1 .. Len(wire) : wire[m] = stream[m]
    BY ConcatElements, Zenon DEF StreamType, stream
  <2>6. CASE n > 1
    <3>1. n - 1 \in 1 .. Len(stream') /\ (n - 1) + k = (n + k) - 1 /\ n + k > 1 /\ n + k # 1
      BY <1>1, <2>6
    <3>2. stream'[n - 1] = stream[(n + k) - 1]
      BY <1>1, <3>1, Zenon
    <3> QED
      BY <2>2, <2>3, <2>6, <3>1, <3>2 DEF LedHere
  <2>7. CASE n = 1 /\ k = 0
    <3>1. stream'[n] = stream[1] /\ LedHere(1) /\ pc \notin {"challenge", "noop"}
      BY <2>2, <2>3, <2>4, <2>7
    <3>2. stream[1].word # "data" /\ stream[1].word # "rest"
      BY <3>1 DEF LedHere
    <3> QED
      BY <3>1, <3>2 DEF LedHere
  <2>8. CASE n = 1 /\ k = 1
    <3>1. stream'[n] = stream[2] /\ LedHere(2) /\ 1 \in 1 .. Len(wire)
      BY <1>1, <2>2, <2>3, <2>8
    <3>2. stream[1].word # "data" /\ (Lit(stream[1]) => pc' \in {"challenge", "noop"})
      BY <2>4, <2>5, <2>8, <3>1
    <3>3. /\ stream[2].word = "data" => Lit(stream[1])
          /\ stream[2].word # "rest"
      BY <3>1, <3>2 DEF LedHere
    <3> QED
      BY <2>8, <3>1, <3>2, <3>3 DEF LedHere
  <2>9. CASE n = 1 /\ k = 2
    <3>1. stream'[n] = stream[3] /\ LedHere(3) /\ 2 \in 1 .. Len(wire)
      BY <1>1, <2>2, <2>3, <2>9
    <3>2. stream[2].word = "rest"
      BY <2>4, <2>5, <2>9, <3>1
    <3>3. stream[3].word # "data" /\ stream[3].word # "rest"
      BY <3>1, <3>2 DEF LedHere, Lit
    <3> QED
      BY <3>1, <3>3 DEF LedHere
  <2> QED
    BY <1>1, <1>2, <2>6, <2>7, <2>8, <2>9
<1>9. CreditInv'
  BY <1>1, <1>2, <1>3 DEF CreditInv
<1>10. EncInv'
  <2>1. io' = "ssl" => \A n \in 1 .. Len(wire') : wire'[n].enc
    <3> SUFFICES ASSUME io = "ssl", NEW n \in 1 .. Len(wire') PROVE wire'[n].enc
      BY <1>2
    <3>1. n + k \in 1 .. Len(wire) /\ wire'[n] = wire[n + k]
      BY <1>1
    <3> QED
      BY <3>1 DEF EncInv
  <2>2. ASSUME io' = "ssl", NEW n \in 1 .. Len(todo'), ~todo'[n].enc
        PROVE  ~cont' /\ wire' = <<>>
    <3>1. todo' = todo
      <4>1. Len(todo') # 0
        BY <1>1, <2>2
      <4> QED
        BY <1>1, <4>1
    <3>2. ~cont /\ wire = <<>>
      BY <1>2, <2>2, <3>1 DEF EncInv
    <3>3. k = 0 /\ Len(wire') = 0
      BY <1>1, <3>2
    <3> QED
      BY <1>1, <1>2, <3>2, <3>3
  <2>3. pc' \in {"starttls", "handshake"} => ~cont'
    <3> SUFFICES ASSUME pc' \in {"starttls", "handshake"} PROVE ~cont'
      OBVIOUS
    <3>1. cont' = cont /\ k > 0
      BY DEF Effect
    <3>2. wire # <<>>
      BY <1>1, <3>1
    <3> QED
      BY <3>1, <3>2 DEF EndsInv
  <2>4. pc' # "handshake"
    BY DEF Effect
  <2> QED
    BY <2>1, <2>2, <2>3, <2>4 DEF EncInv
<1> QED
  BY <1>4, <1>5, <1>6, <1>7, <1>8, <1>9, <1>10

-----------------------------------------------------------------------------
(* What the handlers do with a line.                                       *)

\* What is taken for the next line.
LEMMA Lines ==
  ASSUME WireInv, wire # <<>>
  PROVE  /\ 1 \in 1 .. Len(wire) /\ Len(wire) \in Nat /\ wire[1] = stream[1]
         /\ 1 \in 1 .. Len(stream)
         /\ wire[1].word # "data" =>
              NextLine.line = wire[1] /\ NextLine.rest = SubSeq(wire, 2, Len(wire))
         /\ wire[1].word = "data" =>
              /\ NextLine.line.word = "junk" /\ NextLine.line.args = <<>>
              /\ NextLine.rest = SubSeq(wire, 3, Len(wire)) /\ 2 <= Len(wire)
         /\ Tail(wire) = SubSeq(wire, 2, Len(wire))
         /\ 2 <= Len(wire) => Tail(Tail(wire)) = SubSeq(wire, 3, Len(wire))
<1>1. wire \in Seq(Items) /\ todo \in Seq(Items)
  BY DEF WireInv, StreamType
<1>2. 1 \in 1 .. Len(wire) /\ Len(wire) \in Nat
  BY <1>1
<1>3. wire[1] = stream[1] /\ 1 \in 1 .. Len(stream)
  <2>1. /\ Len(wire \o todo) = Len(wire) + Len(todo) /\ Len(wire) \in Nat /\ Len(todo) \in Nat
        /\ \A n \in 1 .. Len(wire) : (wire \o todo)[n] = wire[n]
    BY <1>1, ConcatElements, Zenon
  <2> QED
    BY <1>2, <2>1 DEF stream
<1>4. wire[1].word = "data" => 2 <= Len(wire)
  BY <1>2 DEF WireInv, EndsInv
<1>5. Tail(wire) = SubSeq(wire, 2, Len(wire))
  BY <1>1, <1>2
<1>6. 2 <= Len(wire) => Tail(Tail(wire)) = SubSeq(wire, 3, Len(wire))
  <2> SUFFICES ASSUME 2 <= Len(wire) PROVE Tail(Tail(wire)) = SubSeq(wire, 3, Len(wire))
    OBVIOUS
  <2> DEFINE a == Tail(wire)
             b == Tail(a)
             c == SubSeq(wire, 3, Len(wire))
  <2>1. a \in Seq(Items) /\ Len(a) = Len(wire) - 1 /\ \A n \in 1 .. Len(a) : a[n] = wire[n + 1]
    BY <1>1, <1>2
  <2>2. c \in Seq(Items) /\ Len(c) = Len(wire) - 2 /\ \A n \in 1 .. Len(c) : c[n] = wire[n + 2]
    <3>1. 2 \in 0 .. Len(wire) /\ 2 + 1 = 3
      BY <1>2
    <3>2. \A k \in 0 .. Len(wire) :
            /\ SubSeq(wire, k + 1, Len(wire)) \in Seq(Items)
            /\ Len(SubSeq(wire, k + 1, Len(wire))) = Len(wire) - k
            /\ \A n \in 1 .. Len(wire) - k : SubSeq(wire, k + 1, Len(wire))[n] = wire[n + k]
      BY <1>1, DropElements
    <3>3. /\ c \in Seq(Items) /\ Len(c) = Len(wire) - 2
          /\ \A n \in 1 .. Len(wire) - 2 : c[n] = wire[n + 2]
      BY <3>1, <3>2, Zenon
    <3> QED
      BY <3>3, Zenon
  <2> HIDE DEF a, c
  <2>3. b \in Seq(Items) /\ Len(b) = Len(a) - 1 /\ \A n \in 1 .. Len(b) : b[n] = a[n + 1]
    BY <1>2, <2>1
  <2> HIDE DEF b
  <2>4. Len(b) = Len(c)
    BY <1>2, <2>1, <2>2, <2>3
  <2>5. ASSUME NEW n \in 1 .. Len(b) PROVE b[n] = c[n]
    <3>1. n + 1 \in 1 .. Len(a) /\ (n + 1) + 1 = n + 2 /\ n \in 1 .. Len(c)
      BY <1>2, <2>1, <2>3, <2>4
    <3>2. a[n + 1] = wire[(n + 1) + 1]
      BY <2>1, <3>1, Zenon
    <3> QED
      BY <2>2, <2>3, <3>1, <3>2
  <2>6. b = c
    BY <2>2, <2>3, <2>4, <2>5, SameElements
  <2> QED
    BY <2>6 DEF a, b, c
<1>7. wire[1].word # "data" => NextLine.line = wire[1] /\ NextLine.rest = Tail(wire)
  BY DEF NextLine
<1>8. wire[1].word = "data" => /\ NextLine.line.word = "junk" /\ NextLine.line.args = <<>>
                               /\ NextLine.rest = Tail(Tail(wire))
  BY DEF NextLine, Line
<1> QED
  BY <1>2, <1>3, <1>4, <1>5, <1>6, <1>7, <1>8

\* The weight of what is read.
LEMMA WeightTaken ==
  ASSUME WireInv
  PROVE  /\ \A k \in 0 .. Len(wire) : Count(SubSeq(wire, 1, k)) \in Nat
         /\ Count(SubSeq(wire, 1, 0)) = 0
         /\ 1 <= Len(wire) /\ Heavy(wire[1]) => Count(SubSeq(wire, 1, 1)) = 1
         /\ 1 <= Len(wire) /\ ~Heavy(wire[1]) => Count(SubSeq(wire, 1, 1)) = 0
         /\ 2 <= Len(wire) /\ ~Heavy(wire[1]) /\ ~Heavy(wire[2]) =>
              Count(SubSeq(wire, 1, 2)) = 0
         /\ 2 <= Len(wire) /\ ~Heavy(wire[1]) /\ Heavy(wire[2]) =>
              Count(SubSeq(wire, 1, 2)) = 1
<1>1. wire \in Seq(Items) /\ Len(wire) \in Nat
  BY DEF WireInv, StreamType
<1>2. \A k \in 0 .. Len(wire) : Count(SubSeq(wire, 1, k)) \in Nat
  BY <1>1, CountDrop
<1>3. ASSUME 1 <= Len(wire), Heavy(wire[1]) PROVE Count(SubSeq(wire, 1, 1)) = 1
  <2> DEFINE a == SubSeq(wire, 1, 1)
  <2>1. a \in Seq(Items) /\ Len(a) = 1 /\ a[1] = wire[1]
    <3>1. 1 \in 0 .. Len(wire)
      BY <1>1, <1>3
    <3>2. a \in Seq(Items) /\ Len(a) = 1 /\ \A n \in 1 .. 1 : a[n] = wire[n]
      BY <1>1, <3>1, TakeElements, Zenon
    <3>3. 1 \in 1 .. 1
      OBVIOUS
    <3> QED
      BY <3>2, <3>3, Zenon
  <2> HIDE DEF a
  <2>2. 1 \in 1 .. Len(a) /\ Heavy(a[1]) /\ \A n \in 1 .. Len(a) : n # 1 => ~Heavy(a[n])
    BY <1>3, <2>1
  <2>3. Count(a) = 1
    BY <2>1, <2>2, CountSingle
  <2> QED
    BY <2>3 DEF a
<1>4. ASSUME NEW k \in 0 .. Len(wire), \A n \in 1 .. k : ~Heavy(wire[n])
      PROVE  Count(SubSeq(wire, 1, k)) = 0
  <2> DEFINE a == SubSeq(wire, 1, k)
  <2>1. a \in Seq(Items) /\ Len(a) = k /\ \A n \in 1 .. k : a[n] = wire[n]
    BY <1>1, TakeElements, Zenon
  <2> HIDE DEF a
  <2>2. \A n \in 1 .. Len(a) : ~Heavy(a[n])
    BY <1>4, <2>1
  <2>3. Count(a) = 0
    BY <2>1, <2>2, CountNone
  <2> QED
    BY <2>3 DEF a
<1>5. Count(SubSeq(wire, 1, 0)) = 0
  <2>1. 0 \in 0 .. Len(wire) /\ \A n \in 1 .. 0 : ~Heavy(wire[n])
    BY <1>1
  <2> QED
    BY <1>4, <2>1, Zenon
<1>6. ASSUME 1 <= Len(wire), ~Heavy(wire[1]) PROVE Count(SubSeq(wire, 1, 1)) = 0
  <2>1. 1 \in 0 .. Len(wire) /\ \A n \in 1 .. 1 : n = 1
    BY <1>1, <1>6
  <2> QED
    BY <1>4, <1>6, <2>1, Zenon
<1>7. ASSUME 2 <= Len(wire), ~Heavy(wire[1]), ~Heavy(wire[2]) PROVE Count(SubSeq(wire, 1, 2)) = 0
  <2>1. 2 \in 0 .. Len(wire) /\ \A n \in 1 .. 2 : n = 1 \/ n = 2
    BY <1>1, <1>7
  <2> QED
    BY <1>4, <1>7, <2>1, Zenon
<1>8. ASSUME 2 <= Len(wire), ~Heavy(wire[1]), Heavy(wire[2]) PROVE Count(SubSeq(wire, 1, 2)) = 1
  <2> DEFINE a == SubSeq(wire, 1, 2)
  <2>1. a \in Seq(Items) /\ Len(a) = 2 /\ a[1] = wire[1] /\ a[2] = wire[2]
    <3>1. 2 \in 0 .. Len(wire)
      BY <1>1, <1>8
    <3>2. a \in Seq(Items) /\ Len(a) = 2 /\ \A n \in 1 .. 2 : a[n] = wire[n]
      BY <1>1, <3>1, TakeElements, Zenon
    <3>3. 1 \in 1 .. 2 /\ 2 \in 1 .. 2
      OBVIOUS
    <3> QED
      BY <3>2, <3>3, Zenon
  <2> HIDE DEF a
  <2>2. 2 \in 1 .. Len(a) /\ Heavy(a[2]) /\ \A n \in 1 .. Len(a) : n # 2 => ~Heavy(a[n])
    BY <1>8, <2>1
  <2>3. Count(a) = 1
    BY <2>1, <2>2, CountSingle
  <2> QED
    BY <2>3 DEF a
<1> QED
  BY <1>2, <1>3, <1>5, <1>6, <1>7, <1>8

\* A command was answered, given up with the connection, or is under way.
Settled ==
  /\ Unanswered \/ Answered
  /\ UNCHANGED cont
  /\ (answered' - answered) + Busy' <= 1 /\ answered' - answered >= 0
  /\ pc' \notin {"handshake", "name", "space", "challenge", "noop", "password", "no_password",
                "late"}
  /\ trouble => trouble'
  /\ Sure' => (Answered /\ Busy' = 0) \/ (Unanswered /\ pc' = "auth")

\* Writing a reply, or failing to, settles a command.
LEMMA WriteSettled ==
  ASSUME answered \in Nat, UNCHANGED cont,
         trouble \in BOOLEAN, NEW t \in BOOLEAN, trouble => t,
         NEW next \in {"line", "quit", "starttls", "start", "served"},
         NEW broken \in {"line", "failed", "starttls", "start"},
         Write(t, next, broken) \/ List(t, broken) \/ Reply(next, broken)
  PROVE  Settled /\ pc' \in {next, broken, "line"} /\ Busy' = 0 /\ (Sure' => Answered)
<1>1. \/ (pc' = next \/ pc' = "line") /\ Answered /\ (trouble' = t \/ trouble' = trouble)
      \/ pc' = broken /\ Unanswered /\ trouble' = TRUE
  BY DEF Write, List, Reply
<1>2. pc' \in {"line", "quit", "starttls", "start", "served", "failed"}
  BY <1>1
<1>3. Busy' = 0
  BY <1>2 DEF Busy
<1>4. answered' = answered \/ answered' = answered + 1
  BY <1>1 DEF Answered, Unanswered
<1>5. (answered' - answered) + Busy' <= 1 /\ answered' - answered >= 0
  <2>1. (answered' - answered) + 0 <= 1 /\ answered' - answered >= 0
    <3>1. answered \in Int
      OBVIOUS
    <3> QED
      BY <1>4, <3>1
  <2> QED
    BY <1>3, <2>1, Zenon
<1>6. (trouble => trouble') /\ (Sure' => Answered)
  BY <1>1 DEF Sure
<1> QED
  BY <1>1, <1>2, <1>3, <1>5, <1>6 DEF Settled

\* So does handing the credentials over, or giving the connection up.
LEMMA QuietSettled ==
  ASSUME answered \in Nat, UNCHANGED cont, Unanswered, trouble => trouble',
         pc' \in {"line", "auth", "failed", "exited"}, Sure' => pc' # "line"
  PROVE  Settled
<1>1. answered' = answered /\ Busy' \in {0, 1}
  BY DEF Unanswered, Busy
<1> DEFINE b == Busy'
<1>2. b \in {0, 1}
  BY <1>1
<1> HIDE DEF b
<1>3. (answered' - answered) + b <= 1 /\ answered' - answered >= 0
  BY <1>1, <1>2
<1>4. Sure' => pc' = "auth"
  BY DEF Sure, Dead
<1> QED
  BY <1>3, <1>4 DEF Settled, b

\* A command of POP3 or MANAGESIEVE that is read and settled.
LEMMA SettledEffect ==
  ASSUME WireInv, NEW k \in {1, 2}, k <= Len(wire), wire' = SubSeq(wire, k + 1, Len(wire)),
         UNCHANGED <<proto, io, asked, flushed>>, pc \notin Dead, Settled, ~Imap, Busy = 0,
         Known(wire[1]),
         Steady => k = 1 /\ Heavy(wire[1]),
         Sieve /\ Steady => wire[1].word # "data" /\ ~Lit(wire[1])
  PROVE  Effect(k)
<1>1. Steady => Count(SubSeq(wire, 1, k)) = 1
  <2> SUFFICES ASSUME Steady PROVE Count(SubSeq(wire, 1, k)) = 1
    OBVIOUS
  <2>1. k = 1 /\ Heavy(wire[1]) /\ 1 <= Len(wire)
    OBVIOUS
  <2>2. Count(SubSeq(wire, 1, 1)) = 1
    BY <2>1, WeightTaken
  <2> QED
    BY <2>1, <2>2
<1>2. Imap \/ Steady => (answered' - answered) + Busy' <= Busy + Count(SubSeq(wire, 1, k))
  <2> SUFFICES ASSUME Steady
      PROVE (answered' - answered) + Busy' <= Busy + Count(SubSeq(wire, 1, k))
    OBVIOUS
  <2>1. (answered' - answered) + Busy' <= 1
    BY DEF Settled
  <2>2. 0 + 1 = 1
    OBVIOUS
  <2> QED
    BY <1>1, <2>1, <2>2, Zenon
<1>3. Sieve /\ Steady => k = 1 /\ wire[1].word # "data" /\ (Lit(wire[1]) => pc' \in {"challenge", "noop"})
  OBVIOUS
<1>4. Sure' => EffectSure(k)
  <2> SUFFICES ASSUME Sure' PROVE EffectSure(k)
    OBVIOUS
  <2>1. Steady /\ k = 1
    BY DEF Sure, Common, Steady, AllRead
  <2>2. (answered' - answered) + Busy' = Busy + Count(SubSeq(wire, 1, k))
    <3>1. answered \in Nat
      BY DEF WireInv, StreamType
    <3>2. (answered' - answered = 1 /\ Busy' = 0) \/ (answered' - answered = 0 /\ Busy' = 1)
      BY <3>1 DEF Settled, Answered, Unanswered, Busy
    <3>3. (answered' - answered) + Busy' = 1
      <4>1. 1 + 0 = 1 /\ 0 + 1 = 1
        OBVIOUS
      <4> QED
        BY <3>2, <4>1, Zenon
    <3>4. Busy + Count(SubSeq(wire, 1, k)) = 1
      <4>1. 0 + 1 = 1
        OBVIOUS
      <4> QED
        BY <1>1, <2>1, <4>1, Zenon
    <3> QED
      BY <3>3, <3>4, Zenon
  <2>3. ~SyncEnd(wire[k])
    BY <2>1 DEF Known
  <2>4. pc' # "noop"
    BY DEF Settled
  <2> QED
    BY <2>2, <2>3, <2>4, Zenon DEF EffectSure
<1> QED
  BY <1>2, <1>3, <1>4 DEF Effect, Settled

\* A session has one protocol.
LEMMA OneProtocol ==
  TypeOK => /\ Pop => ~Imap /\ ~Sieve
            /\ Imap => ~Pop /\ ~Sieve
            /\ Sieve => ~Pop /\ ~Imap
            /\ Pop \/ Imap \/ Sieve
  BY DEF Pop, Imap, Sieve, TypeOK, AllProtos

\* POP3
LEMMA PopObeySettled ==
  ASSUME answered \in Nat, UNCHANGED cont, trouble \in BOOLEAN, NEW t \in BOOLEAN, trouble => t,
         NEW word, NEW args, PopObey(word, args, t)
  PROVE  Settled
<1>1. CASE word = "CAPA"
  <2>1. List(t, "line")
    BY <1>1, Zenon DEF PopObey
  <2> QED
    BY <2>1, WriteSettled
<1>2. CASE word = "STLS" /\ TlsReady
  <2>1. Write(t, "starttls", "starttls")
    BY <1>2, Zenon DEF PopObey
  <2> QED
    BY <2>1, WriteSettled
<1>3. CASE word = "USER" /\ args # <<>>
  <2>1. Write(t, "line", "line")
    BY <1>3, Zenon DEF PopObey
  <2> QED
    BY <2>1, WriteSettled
<1>4. CASE word = "USER" /\ args = <<>>
  <2>1. pc' = "failed" /\ Unanswered /\ trouble' = t
    BY <1>4, Zenon DEF PopObey
  <2> QED
    BY <2>1, QuietSettled
<1>5. CASE word = "PASS"
  <2>1. (pc' = "auth" \/ (args = <<>> /\ pc' = "exited")) /\ Unanswered /\ trouble' = t
    BY <1>5, Zenon DEF PopObey
  <2> QED
    BY <2>1, QuietSettled
<1>6. CASE word = "QUIT"
  <2>1. Write(t, "quit", "failed")
    BY <1>6, Zenon DEF PopObey
  <2> QED
    BY <2>1, WriteSettled
<1>7. CASE word \notin {"CAPA", "USER", "PASS", "QUIT"} /\ ~(word = "STLS" /\ TlsReady)
  <2>1. Write(t, "line", "failed")
    BY <1>7, Zenon DEF PopObey
  <2> QED
    BY <2>1, WriteSettled
<1> QED
  BY <1>1, <1>2, <1>3, <1>4, <1>5, <1>6, <1>7

\* pop3_in_get_auth reads a line and settles it.
LEMMA PopEffect == ASSUME IInv, WireInv, WaitInv, PopLine PROVE Effect(1)
<1>1. /\ Pop /\ pc = "line" /\ wire # <<>> /\ wire' = NextLine.rest
      /\ UNCHANGED <<proto, io, asked, flushed, cont>>
  BY DEF PopLine, ReadLine, setting, client, link
<1>2. ~Imap /\ ~Sieve
  BY <1>1, OneProtocol DEF IInv
<1>3. KnownHere(1) /\ wire[1] = stream[1] /\ 1 <= Len(wire)
  BY <1>1, Lines DEF WireInv, WordsInv
<1>4. wire[1].word \in PopWords /\ (Steady => wire[1].word # "junk") /\ Known(wire[1])
  BY <1>1, <1>3 DEF KnownHere, Known, Steady
<1>5. wire' = SubSeq(wire, 2, Len(wire))
  BY <1>1, <1>4, Lines DEF PopWords
<1>6. Steady => Heavy(wire[1])
  BY <1>4 DEF Heavy, Split, Piece, PopWords
<1>7. Settled
  <2>1. answered \in Nat /\ trouble \in BOOLEAN /\ TRUE \in BOOLEAN
    BY DEF WireInv, StreamType, IInv, TypeOK
  <2>2. \/ pc' = "line" /\ Answered /\ trouble' = trouble
        \/ PopObey(NextLine.line.word, NextLine.line.args, TRUE)
        \/ PopObey(NextLine.line.word, NextLine.line.args, trouble)
    BY Zenon DEF PopLine
  <2>3. CASE pc' = "line" /\ Answered /\ trouble' = trouble
    <3>1. Write(trouble, "line", "line")
      BY <2>3 DEF Write
    <3> QED
      BY <1>1, <2>1, <3>1, WriteSettled
  <2> QED
    BY <1>1, <2>1, <2>2, <2>3, PopObeySettled
<1>8. 1 \in {1, 2} /\ 1 + 1 = 2 /\ pc \notin Dead /\ Busy = 0
  BY <1>1 DEF Dead, Busy
<1>9. UNCHANGED <<proto, io, asked, flushed>>
  BY <1>1
<1> QED
  BY <1>2, <1>3, <1>4, <1>5, <1>6, <1>7, <1>8, <1>9, SettledEffect, Zenon

\* IMAP4: a LOGIN whose name is a literal waits for the name.
Paused ==
  /\ Unanswered
  /\ \/ cont' = cont
     \/ cont' = TRUE /\ SyncEnd(wire[1])
  /\ \/ pc' = "space" /\ Split(wire[1]) /\ wire[1].args[1].content = "empty"
     \/ pc' = "name" /\ Split(wire[1]) /\ wire[1].args[1].content # "empty"
  /\ trouble => trouble'
  /\ Sure' => (SyncEnd(wire[1]) => cont')

\* or is settled, with the continuation request for its password
SettledAsking ==
  /\ Unanswered \/ (Answered /\ UNCHANGED cont)
  /\ cont' = cont \/ (cont' = TRUE /\ SyncEnd(wire[1]))
  /\ (answered' - answered) + Busy' <= 1 /\ answered' - answered >= 0
  /\ pc' \notin {"handshake", "name", "space", "challenge", "noop", "late"}
  /\ pc' = "starttls" => UNCHANGED cont
  /\ pc' = "password" => Unanswered /\ Body1(wire[1])
  /\ trouble => trouble'
  /\ Sure' => \/ Answered /\ Busy' = 0
              \/ Unanswered /\ Busy' = 1 /\ (SyncEnd(wire[1]) => cont')

\* A line that is settled, or whose password is asked for.
LEMMA AskingEffect ==
  ASSUME WireInv, 1 <= Len(wire), wire' = SubSeq(wire, 2, Len(wire)), Imap, ~Sieve,
         UNCHANGED <<proto, io, asked, flushed>>, pc \in {"line", "space"},
         SettledAsking, Heavy(wire[1])
  PROVE  Effect(1)
<1>1. (answered' - answered) + Busy' <= Busy + Count(SubSeq(wire, 1, 1))
  <2>1. Count(SubSeq(wire, 1, 1)) = 1
    BY WeightTaken
  <2>2. Busy \in {0, 1} /\ Busy' \in -1 .. 1
    BY DEF Busy
  <2>3. (answered' - answered) + Busy' <= 1
    BY DEF SettledAsking
  <2>4. answered' - answered \in Int
    BY DEF SettledAsking, Unanswered, Answered, WireInv, StreamType
  <2> DEFINE d == answered' - answered
             b == Busy
             c == Busy'
  <2>5. d \in Int /\ b \in {0, 1} /\ c \in -1 .. 1 /\ d + c <= 1
    BY <2>2, <2>3, <2>4
  <2> HIDE DEF b, c, d
  <2>6. d + c <= b + 1
    BY <2>5
  <2> QED
    BY <2>1, <2>6 DEF b, c, d
<1>2. wire' = SubSeq(wire, 1 + 1, Len(wire)) /\ pc \notin Dead
  BY DEF Dead
<1>3. Sure' => EffectSure(1)
  <2> SUFFICES ASSUME Sure' PROVE EffectSure(1)
    OBVIOUS
  <2>1. (answered' - answered) + Busy' = Busy + Count(SubSeq(wire, 1, 1))
    <3>1. answered \in Nat
      BY DEF WireInv, StreamType
    <3>2. \/ answered' - answered = 1 /\ Busy' = 0
          \/ answered' - answered = 0 /\ Busy' = 1
      BY <3>1 DEF SettledAsking, Answered, Unanswered
    <3>3. Busy = 0 /\ Count(SubSeq(wire, 1, 1)) = 1
      BY WeightTaken DEF Busy
    <3>4. 1 + 0 = 1 /\ 0 + 1 = 1
      OBVIOUS
    <3> QED
      BY <3>2, <3>3, <3>4, Zenon
  <2>2. SyncEnd(wire[1]) => cont' \/ (Answered /\ Busy' = 0 /\ Heavy(wire[1]))
    BY DEF SettledAsking
  <2>3. pc' # "noop" /\ ~Split(wire[1]) /\ 1 # 2 /\ pc # "name"
    BY DEF SettledAsking, Heavy, Split, Piece
  <2> QED
    BY <2>1, <2>2, <2>3, Zenon DEF EffectSure
<1> QED
  BY <1>1, <1>2, <1>3 DEF Effect, SettledAsking

\* A LOGIN whose name is asked for.
LEMMA PausedEffect ==
  ASSUME WireInv, 1 <= Len(wire), wire' = SubSeq(wire, 2, Len(wire)), Imap, ~Sieve,
         UNCHANGED <<proto, io, asked, flushed>>, pc = "line", Paused
  PROVE  Effect(1)
<1>1. (answered' - answered) + Busy' <= Busy + Count(SubSeq(wire, 1, 1))
  <2>1. Count(SubSeq(wire, 1, 1)) \in Nat
    BY WeightTaken DEF WireInv, StreamType
  <2>2. Busy \in {0, 1} /\ Busy' = 0
    BY DEF Busy, Paused
  <2>3. answered' = answered /\ answered \in Nat
    BY DEF Paused, Unanswered, WireInv, StreamType
  <2> DEFINE b == Busy
             c == Busy'
             e == Count(SubSeq(wire, 1, 1))
  <2>5. b \in {0, 1} /\ c = 0 /\ e \in Nat
    BY <2>1, <2>2
  <2> HIDE DEF b, c, e
  <2>6. (answered' - answered) + c <= b + e
    BY <2>3, <2>5
  <2> QED
    BY <2>6 DEF b, c, e
<1>2. wire' = SubSeq(wire, 1 + 1, Len(wire)) /\ pc \notin Dead
  BY DEF Dead
<1>3. Sure' => EffectSure(1)
  <2> SUFFICES ASSUME Sure' PROVE EffectSure(1)
    OBVIOUS
  <2>1. (answered' - answered) + Busy' = Busy + Count(SubSeq(wire, 1, 1))
    <3>1. answered' - answered = 0 /\ Busy' = 0 /\ Busy = 0
      BY DEF Paused, Unanswered, Busy, WireInv, StreamType
    <3>2. ~Heavy(wire[1])
      BY DEF Paused, Split, Heavy, Piece
    <3>3. Count(SubSeq(wire, 1, 1)) = 0
      BY <3>2, WeightTaken
    <3> QED
      BY <3>1, <3>3, Zenon
  <2>2. SyncEnd(wire[1]) => cont'
    BY DEF Paused
  <2>3. pc' # "noop" /\ 1 # 2 /\ pc \notin {"name", "space"}
    BY DEF Paused
  <2>4. pc' = IF wire[1].args[1].content = "empty" THEN "space" ELSE "name"
    BY DEF Paused
  <2> QED
    BY <2>1, <2>2, <2>3, <2>4 DEF EffectSure
<1> QED
  BY <1>1, <1>2, <1>3 DEF Effect, Paused

\* A reply settles a line that asked for nothing.
LEMMA SettledIsAsking == Settled /\ Busy' = 0 /\ (Sure' => Answered) => SettledAsking
  BY DEF Settled, SettledAsking

\* The password, the last argument of the line.
LEMMA PasswordAsking ==
  ASSUME WireInv, NEW a, NEW q, Password(a, q),
         wire[1].args # <<>>, wire[1].word # "data", a = wire[1].args[Len(wire[1].args)],
         (wire[1].word = "LOGIN" /\ Len(wire[1].args) = 2) \/ Piece(wire[1])
  PROVE  SettledAsking
<1>1. Unanswered /\ pc' \in {"no_password", "password", "auth"}
  BY DEF Password, Quietly
<1>2. cont' = cont \/ (cont' = TRUE /\ a.how = "sync")
  <2>1. CASE Literal(a)
    BY <2>1 DEF Password, Ask
  <2>2. CASE ~Literal(a)
    BY <2>2 DEF Password
  <2> QED
    BY <2>1, <2>2
<1>3. answered' = answered /\ answered \in Nat
  BY <1>1 DEF Unanswered, WireInv, StreamType
<1>4. Busy' = 1
  BY <1>1 DEF Busy
<1>5. (answered' - answered) + 1 <= 1 /\ answered' - answered >= 0
  BY <1>3
<1>6. (answered' - answered) + Busy' <= 1 /\ answered' - answered >= 0
  BY <1>4, <1>5, Zenon
<1>7. pc' = "password" => Body1(wire[1])
  <2> SUFFICES ASSUME pc' = "password" PROVE Body1(wire[1])
    OBVIOUS
  <2>1. Literal(a) /\ a.content # "empty"
    BY DEF Password, Quietly
  <2>2. Piece(wire[1]) => Len(wire[1].args) = 1
    BY DEF Piece
  <2> QED
    BY <2>1, <2>2 DEF Body1
<1>8. /\ trouble => trouble'
      /\ a.how = "sync" => cont' \/ trouble'
  <2>1. CASE Literal(a)
    BY <2>1 DEF Password, Ask
  <2>2. CASE ~Literal(a)
    BY <2>2 DEF Password, Quietly, Literal
  <2> QED
    BY <2>1, <2>2
<1>9. Sure' => (SyncEnd(wire[1]) => cont')
  BY <1>8 DEF Sure, SyncEnd
<1> QED
  BY <1>1, <1>2, <1>4, <1>6, <1>7, <1>8, <1>9 DEF SettledAsking, SyncEnd

\* A step that reads nothing.
LEMMA StillEffect ==
  ASSUME WireInv, UNCHANGED <<wire, proto, io, asked, flushed, cont>>, Unanswered \/ Answered,
         (answered' - answered) + Busy' <= Busy, trouble => trouble',
         Sure' => (answered' - answered) + Busy' = Busy,
         pc' \notin {"handshake", "starttls", "name", "space", "password", "challenge", "noop", "late"},
         pc \in Dead \cup {"name", "space", "challenge", "noop"} => pc' \in Dead
  PROVE  Effect(0)
<1>1. wire' = SubSeq(wire, 0 + 1, Len(wire)) /\ 0 <= Len(wire)
  BY DEF WireInv, StreamType
<1>2. (answered' - answered) + Busy' <= Busy + Count(SubSeq(wire, 1, 0))
  <2>1. Count(SubSeq(wire, 1, 0)) \in Nat
    BY <1>1, WeightTaken DEF WireInv, StreamType
  <2>2. Busy \in -1 .. 1 /\ Busy' \in -1 .. 1 /\ answered' - answered \in Int
    BY DEF Busy, Unanswered, Answered, WireInv, StreamType
  <2> DEFINE b == Busy
             c == Busy'
             d == answered' - answered
             e == Count(SubSeq(wire, 1, 0))
  <2>3. b \in -1 .. 1 /\ c \in -1 .. 1 /\ d \in Int /\ e \in Nat /\ d + c <= b
    BY <2>1, <2>2
  <2> HIDE DEF b, c, d, e
  <2>4. d + c <= b + e
    BY <2>3
  <2> QED
    BY <2>4 DEF b, c, d, e
<1>3. Sure' => EffectSure(0)
  <2>1. Count(SubSeq(wire, 1, 0)) = 0 /\ Busy \in Int
    BY WeightTaken DEF Busy
  <2> DEFINE b == Busy
             e == Count(SubSeq(wire, 1, 0))
  <2>2. b \in Int /\ e = 0
    BY <2>1
  <2> HIDE DEF b, e
  <2>3. b + e = b
    BY <2>2
  <2>4. Busy + Count(SubSeq(wire, 1, 0)) = Busy
    BY <2>3 DEF b, e
  <2>5. Sure' => pc \notin {"name", "space"}
    BY DEF Sure
  <2>6. ~(0 > 0) /\ 0 # 1 /\ 0 # 2
    OBVIOUS
  <2> QED
    BY <2>4, <2>5, <2>6, Zenon DEF EffectSure
<1> QED
  BY <1>1, <1>2, <1>3 DEF Effect

\* A step that reads something, and no more.
LEMMA SilentEffect ==
  ASSUME WireInv, NEW k \in {1, 2}, k <= Len(wire), wire' = SubSeq(wire, k + 1, Len(wire)),
         UNCHANGED <<proto, io, asked, flushed, cont>>, Unanswered, Imap, ~Sieve,
         pc \notin Dead, Busy' = 0 \/ Busy = 1, trouble => trouble',
         pc' \notin {"handshake", "starttls", "name", "password", "challenge", "noop", "late"},
         pc' = "space" => k = 1 /\ pc = "name",
         pc \notin {"space", "late"}, pc = "name" => k = 1 /\ pc' = "space",
         Sure' => /\ Busy' = Busy /\ Count(SubSeq(wire, 1, k)) = 0
                  /\ ~SyncEnd(wire[k]) /\ ~Split(wire[1]) /\ (k = 2 => wire[1].word = "data")
  PROVE  Effect(k)
<1>1. (answered' - answered) + Busy' <= Busy + Count(SubSeq(wire, 1, k))
  <2>1. Count(SubSeq(wire, 1, k)) \in Nat
    BY WeightTaken DEF WireInv, StreamType
  <2>2. Busy \in {0, 1} /\ Busy' \in {0, 1}
    BY DEF Busy
  <2>3. answered' = answered /\ answered \in Nat
    BY DEF Unanswered, WireInv, StreamType
  <2> DEFINE b == Busy
             c == Busy'
             e == Count(SubSeq(wire, 1, k))
  <2>4. b \in {0, 1} /\ c \in {0, 1} /\ e \in Nat /\ (c = 0 \/ b = 1)
    BY <2>1, <2>2
  <2> HIDE DEF b, c, e
  <2>5. (answered' - answered) + c <= b + e
    BY <2>3, <2>4
  <2> QED
    BY <2>5 DEF b, c, e
<1>2. Sure' => EffectSure(k)
  <2> SUFFICES ASSUME Sure' PROVE EffectSure(k)
    OBVIOUS
  <2>1. (answered' - answered) + Busy' = Busy + Count(SubSeq(wire, 1, k))
    <3>1. answered' - answered = 0
      BY DEF Unanswered, WireInv, StreamType
    <3> DEFINE b == Busy
    <3>2. b \in Int
      BY DEF Busy
    <3> HIDE DEF b
    <3>3. 0 + b = b + 0
      BY <3>2
    <3>4. 0 + Busy = Busy + 0
      BY <3>3 DEF b
    <3> QED
      BY <3>1, <3>4, Zenon
  <2> QED
    BY <2>1, Zenon DEF EffectSure
<1> QED
  BY <1>1, <1>2 DEF Effect

\* imap4_in_get_auth reads one line, one literal or nothing.
LEMMA ImapEffect ==
  ASSUME IInv, WireInv, WaitInv,
         ImapReads
  PROVE  \E k \in 0 .. 2 : Effect(k)
<1>1. Imap /\ ~Sieve /\ answered \in Nat
  <2>1. Imap
    BY DEF IInv, PlaceInv, ImapReads, ImapLine, ImapName, ImapSpace, ImapPassword,
           ImapNoPassword, ImapDataFails, ImapLate, ReadLine, ReadData
  <2> QED
    BY <2>1, OneProtocol DEF IInv, WireInv, StreamType
<1>2. UNCHANGED <<proto, io, asked, flushed>> /\ pc \notin Dead
  BY DEF ImapReads, ImapLine, ImapName, ImapSpace, ImapPassword, ImapNoPassword,
         ImapDataFails, ImapLate, ReadLine, ReadData, setting, client, link, Dead
<1>3. /\ trouble \in BOOLEAN /\ (trouble => trouble')
      /\ Sure' => Sure
  <2>1. Handler
    BY DEF Handler
  <2>2. trouble \in BOOLEAN /\ (trouble => trouble')
    BY <2>1, HandlerHandled DEF Handled, IInv, TypeOK
  <2> QED
    BY <1>2, <2>2 DEF Sure
<1>9. Bad => SettledAsking
  BY <1>1, <1>3, WriteSettled, SettledIsAsking DEF Bad
\* what BackInv says of the line that is read
<1>10. ASSUME Sure, wire # <<>>, pc \notin {"name", "space"}
       PROVE  /\ ~Piece(wire[1])
              /\ wire[1].word = "data" => 2 <= Len(wire) /\ wire[2].word = "rest" /\ ~Piece(wire[2])
  <2>1. 1 \in 1 .. Len(wire) /\ wire[1] = stream[1] /\ 1 \in 1 .. Len(stream) /\ Len(wire) \in Nat
    BY <1>10, Lines
  <2>2. BackHere(1)
    BY <1>1, <1>10, <2>1 DEF WaitInv, BackInv
  <2>3. ~Piece(wire[1])
    BY <1>10, <2>1, <2>2 DEF BackHere
  <2>4. ASSUME wire[1].word = "data" PROVE 2 <= Len(wire) /\ wire[2].word = "rest" /\ ~Piece(wire[2])
    <3>1. 2 <= Len(wire)
      BY <1>10, <2>4, Lines
    <3>2. 2 \in 1 .. Len(wire) /\ wire[2] = stream[2] /\ 2 \in 1 .. Len(stream)
      <4>1. /\ Len(stream) = Len(wire) + Len(todo) /\ Len(todo) \in Nat
            /\ \A n \in 1 .. Len(wire) : stream[n] = wire[n]
        BY ConcatElements, Zenon DEF WireInv, StreamType, stream
      <4> QED
        BY <2>1, <3>1, <4>1
    <3>3. BackHere(2)
      BY <1>1, <1>10, <3>2 DEF WaitInv, BackInv
    <3>4. stream[2].word = "rest"
      BY <2>1, <2>2, <2>4 DEF BackHere
    <3>5. ~Split(stream[1])
      BY <2>1, <2>4 DEF Split
    <3>6. ~Piece(stream[2])
      BY <1>10, <3>3, <3>5 DEF BackHere
    <3> QED
      BY <3>1, <3>2, <3>4, <3>6
  <2> QED
    BY <2>3, <2>4
<1>4. CASE ImapLine
  <2> DEFINE l == NextLine.line
  <2>1. pc = "line" /\ wire # <<>> /\ wire' = NextLine.rest
    BY <1>4 DEF ImapLine, ReadLine
  <2>2. 1 \in 1 .. Len(wire) /\ 1 <= Len(wire)
    BY <2>1, Lines
  <2>3. CASE l.word \in {"badtag", "rest", "junk"}
    <3>1. Untagged("line", "failed") /\ UNCHANGED cont
      BY <1>4, <2>3, Zenon DEF ImapLine
    <3>2. pc' \in {"line", "failed"} /\ Unanswered /\ Busy' = 0 /\ Busy = 0
      BY <2>1, <3>1 DEF Untagged, Busy
    <3>3. PICK k \in {1, 2} :
            /\ k <= Len(wire) /\ wire' = SubSeq(wire, k + 1, Len(wire))
            /\ Sure' => /\ Count(SubSeq(wire, 1, k)) = 0
                        /\ ~SyncEnd(wire[k]) /\ ~Split(wire[1])
                        /\ (k = 2 => wire[1].word = "data")
      <4>1. CASE wire[1].word = "data"
        <5>1. 2 <= Len(wire) /\ wire' = SubSeq(wire, 2 + 1, Len(wire))
          BY <2>1, <4>1, Lines
        <5>2. ASSUME Sure'
              PROVE Count(SubSeq(wire, 1, 2)) = 0 /\ ~SyncEnd(wire[2]) /\ ~Split(wire[1])
          <6>1. wire[2].word = "rest" /\ ~Piece(wire[2])
            BY <1>3, <1>10, <2>1, <4>1, <5>2
          <6>2. ~Heavy(wire[1]) /\ ~Heavy(wire[2]) /\ ~Split(wire[1]) /\ ~Split(wire[2])
            BY <4>1, <6>1 DEF Heavy, Piece, Split
          <6>3. Count(SubSeq(wire, 1, 2)) = 0
            BY <5>1, <6>2, WeightTaken
          <6>4. ~SyncEnd(wire[2])
            <7>1. 2 \in 1 .. Len(wire) /\ \A n \in 1 .. Len(wire) : n \in 1 .. Len(stream) /\ stream[n] = wire[n]
              BY <5>1, ConcatElements DEF WireInv, StreamType, stream
            <7>2. Known(wire[2])
              BY <7>1 DEF WireInv, WordsInv, KnownHere
            <7> QED
              BY <6>2, <7>2 DEF Known
          <6> QED
            BY <6>2, <6>3, <6>4
        <5> QED
          BY <4>1, <5>1, <5>2
      <4>2. CASE wire[1].word # "data"
        <5>1. wire' = SubSeq(wire, 1 + 1, Len(wire)) /\ l = wire[1]
          BY <2>1, <4>2, Lines
        <5>2. ASSUME Sure'
              PROVE Count(SubSeq(wire, 1, 1)) = 0 /\ ~SyncEnd(wire[1]) /\ ~Split(wire[1])
          <6>1. ~Piece(wire[1])
            BY <1>3, <1>10, <2>1, <5>2
          <6>2. ~Heavy(wire[1]) /\ ~Split(wire[1])
            BY <2>3, <5>1, <6>1 DEF Heavy, Split
          <6>3. Count(SubSeq(wire, 1, 1)) = 0
            BY <2>2, <6>2, WeightTaken
          <6>4. KnownHere(1) /\ wire[1] = stream[1]
            BY <2>1, Lines DEF WireInv, WordsInv
          <6> QED
            BY <6>2, <6>3, <6>4 DEF KnownHere, Known
        <5>3. 1 # 2 /\ 1 \in {1, 2}
          OBVIOUS
        <5> HIDE DEF l
        <5> QED
          BY <2>2, <5>1, <5>2, <5>3, Zenon
      <4> QED
        BY <4>1, <4>2
    <3>4. Effect(k)
      BY <1>1, <1>2, <1>3, <2>1, <3>1, <3>2, <3>3, SilentEffect
    <3> QED
      BY <3>4
  <2>4. CASE l.word \notin {"badtag", "rest", "junk"}
    <3>1. wire[1].word # "data" /\ l = wire[1] /\ wire' = SubSeq(wire, 2, Len(wire))
      BY <2>1, <2>4, Lines
    <3> HIDE DEF l
    <3>2. Heavy(wire[1]) <=> ~Split(wire[1])
      BY <2>4, <3>1 DEF Heavy, Piece, Split
    <3>3. Split(wire[1]) => l.word = "LOGIN"
      BY <3>1 DEF Split
    <3>4. (SettledAsking /\ ~Split(wire[1])) \/ Paused
      <4>1. CASE l.word = "STARTTLS" /\ l.args = <<>> /\ TlsReady
        <5>1. Reply("starttls", "failed") /\ UNCHANGED cont
          BY <1>4, <4>1, Zenon DEF ImapLine, l
        <5>2. SettledAsking
          BY <1>1, <1>3, <5>1, WriteSettled, SettledIsAsking
        <5> QED
          BY <3>3, <4>1, <5>2
      <4>2. CASE l.word = "CAPABILITY" /\ l.args = <<>>
        <5>1. List(trouble, "line") /\ UNCHANGED cont
          BY <1>4, <4>2, Zenon DEF ImapLine, l
        <5>2. SettledAsking
          BY <1>1, <1>3, <5>1, WriteSettled, SettledIsAsking
        <5> QED
          BY <3>3, <4>2, <5>2
      <4>3. CASE l.word = "LOGOUT" /\ l.args = <<>>
        <5>1. Reply("quit", "failed") /\ UNCHANGED cont
          BY <1>4, <4>3, Zenon DEF ImapLine, l
        <5>2. SettledAsking
          BY <1>1, <1>3, <5>1, WriteSettled, SettledIsAsking
        <5> QED
          BY <3>3, <4>3, <5>2
      <4>4. CASE l.word = "LOGIN"
        <5> DEFINE args == wire[1].args
        <5>1. ImapLogin(args)
          BY <1>4, <3>1, <4>4, Zenon DEF ImapLine, l
        <5>2. CASE Bad /\ ~(Len(args) = 1 /\ Literal(args[1]))
          BY <1>9, <5>2 DEF Split
        <5>3. CASE Len(args) = 2 /\ Password(args[2], TRUE)
          <6>1. args # <<>> /\ args[2] = args[Len(args)]
            BY <5>3
          <6>2. SettledAsking
            BY <3>1, <4>4, <5>3, <6>1, PasswordAsking
          <6> QED
            BY <5>3, <6>2 DEF Split
        <5>4. CASE /\ Len(args) = 1 /\ Literal(args[1])
                   /\ pc' = IF args[1].content = "empty" THEN "space" ELSE "name"
                   /\ Ask(args[1]) /\ Unanswered
          <6>1. Split(wire[1])
            BY <3>1, <4>4, <5>4 DEF Split
          <6>2. args[1].how = "sync" => SyncEnd(wire[1])
            <7>1. args # <<>> /\ args[1] = args[Len(args)]
              BY <5>4
            <7> QED
              BY <3>1, <7>1 DEF SyncEnd
          <6>3. /\ cont' = cont \/ (cont' = TRUE /\ args[1].how = "sync")
                /\ args[1].how = "sync" => cont' \/ trouble'
            BY <5>4 DEF Ask
          <6>4. Sure' => (SyncEnd(wire[1]) => cont')
            <7>1. args # <<>> /\ args[1] = args[Len(args)]
              BY <5>4
            <7> QED
              BY <6>3, <7>1 DEF SyncEnd, Sure
          <6> QED
            BY <1>3, <5>4, <6>1, <6>2, <6>3, <6>4 DEF Paused
        <5>5. \/ Bad /\ ~(Len(args) = 1 /\ Literal(args[1]))
              \/ Len(args) = 2 /\ Password(args[2], TRUE)
              \/ /\ Len(args) = 1 /\ Literal(args[1])
                 /\ pc' = IF args[1].content = "empty" THEN "space" ELSE "name"
                 /\ Ask(args[1]) /\ Unanswered
          <6>1. 1 # 2
            OBVIOUS
          <6>2. Len(args) = 1 => Len(args) \in {1, 2} /\ Len(args) # 2
            BY <6>1, Zenon
          <6> QED
            BY <5>1, <6>2, Zenon DEF ImapLogin
        <5> QED
          BY <5>2, <5>3, <5>4, <5>5
      <4>5. CASE /\ l.word # "LOGIN"
                 /\ ~(l.word = "STARTTLS" /\ l.args = <<>> /\ TlsReady)
                 /\ ~(l.word \in {"CAPABILITY", "LOGOUT"} /\ l.args = <<>>)
        <5>1. Bad
          BY <1>4, <2>4, <4>5, Zenon DEF ImapLine, l
        <5> QED
          BY <1>9, <3>3, <4>5, <5>1
      <4> QED
        BY <4>1, <4>2, <4>3, <4>4, <4>5
    <3>5. Effect(1)
      BY <1>1, <1>2, <2>1, <2>2, <3>1, <3>2, <3>4, AskingEffect, PausedEffect
    <3> QED
      BY <3>5
  <2> QED
    BY <2>3, <2>4
<1>5. CASE ImapName
  <2>1. /\ pc = "name" /\ wire # <<>> /\ wire' = Tail(wire) /\ pc' = "space" /\ Unanswered
        /\ UNCHANGED cont
    BY <1>5 DEF ImapName, ReadData, Quietly
  <2>2. 1 <= Len(wire) /\ wire' = SubSeq(wire, 1 + 1, Len(wire)) /\ Busy' = 0 /\ Busy = 0
    BY <2>1, Lines DEF Busy
  <2>4. wire[1].word = "data"
    BY <2>1, Lines DEF WireInv, ShapeInv
  <2>5. ~Heavy(wire[1]) /\ ~Split(wire[1]) /\ ~SyncEnd(wire[1])
    BY <2>4 DEF Heavy, Piece, Split, SyncEnd
  <2>6. Count(SubSeq(wire, 1, 1)) = 0
    BY <2>2, <2>5, WeightTaken
  <2>3. Effect(1)
    BY <1>1, <1>2, <1>3, <2>1, <2>2, <2>5, <2>6, SilentEffect
  <2> QED
    BY <2>3
<1>6. CASE ImapSpace
  <2> DEFINE l == NextLine.line
  <2>1. pc = "space" /\ wire # <<>> /\ wire' = NextLine.rest
    BY <1>6 DEF ImapSpace, ReadLine
  <2>2. Piece(wire[1]) /\ 1 <= Len(wire)
    BY <2>1, Lines DEF WireInv, ShapeInv
  <2>3. /\ wire[1].word # "data" /\ l = wire[1] /\ wire' = SubSeq(wire, 2, Len(wire))
        /\ Heavy(wire[1])
    BY <2>1, <2>2, Lines DEF Piece, Heavy
  <2> HIDE DEF l
  <2>4. Bad \/ (Len(l.args) = 1 /\ Password(l.args[1], quoted))
    BY <1>6, Zenon DEF ImapSpace, l
  <2>5. SettledAsking
    <3>1. CASE Bad
      BY <1>9, <3>1
    <3>2. CASE Len(l.args) = 1 /\ Password(l.args[1], quoted)
      <4>1. l.args # <<>> /\ l.args[1] = l.args[Len(l.args)]
        BY <3>2
      <4> QED
        BY <2>2, <2>3, <3>2, <4>1, PasswordAsking
    <3> QED
      BY <2>4, <3>1, <3>2
  <2>6. Effect(1)
    BY <1>1, <1>2, <2>1, <2>2, <2>3, <2>5, AskingEffect
  <2> QED
    BY <2>6
<1>7. CASE ImapPassword
  <2>1. /\ pc = "password" /\ wire # <<>> /\ wire' = Tail(wire) /\ pc' = "auth" /\ Unanswered
        /\ UNCHANGED cont
    BY <1>7 DEF ImapPassword, ReadData, Quietly
  <2>2. 1 <= Len(wire) /\ wire' = SubSeq(wire, 1 + 1, Len(wire)) /\ Busy = 1 /\ Busy' = 1
    BY <2>1, Lines DEF Busy
  <2>4. Sure' => wire[1].word = "data"
    BY <1>1, <1>3, <2>1, Lines DEF WaitInv, BackInv
  <2>5. Sure' => ~Heavy(wire[1]) /\ ~Split(wire[1]) /\ ~SyncEnd(wire[1])
    BY <2>4 DEF Heavy, Piece, Split, SyncEnd
  <2>6. Sure' => Count(SubSeq(wire, 1, 1)) = 0
    BY <2>2, <2>5, WeightTaken
  <2>3. Effect(1)
    BY <1>1, <1>2, <1>3, <2>1, <2>2, <2>5, <2>6, SilentEffect
  <2> QED
    BY <2>3
<1>8. CASE ImapNoPassword
  <2>1. /\ pc = "no_password" /\ UNCHANGED <<wire, cont>> /\ Bad
    BY <1>8 DEF ImapNoPassword, Bad
  <2>2. /\ Settled /\ Busy = 1 /\ Busy' = 0 /\ (Sure' => Answered)
        /\ pc' \notin {"handshake", "starttls", "name", "space", "password", "challenge", "noop", "late"}
    BY <1>1, <1>3, <2>1, WriteSettled DEF Busy, Bad, Settled
  <2>3. (answered' - answered) + Busy' <= Busy
    BY <2>2, Zenon DEF Settled
  <2>5. Sure' => (answered' - answered) + Busy' = Busy
    <3>1. Sure' => answered' - answered = 1
      BY <1>1, <2>2 DEF Answered
    <3>2. 1 + 0 = 1
      OBVIOUS
    <3> QED
      BY <2>2, <3>1, <3>2, Zenon
  <2>6. pc \notin Dead \cup {"name", "space", "challenge", "noop"}
    BY <2>1 DEF Dead
  <2>4. Effect(0)
    BY <1>2, <1>3, <2>1, <2>2, <2>3, <2>5, <2>6, StillEffect DEF Settled
  <2> QED
    BY <2>4
<1>11. CASE ImapDataFails
  <2>1. /\ pc \in {"name", "password"} /\ UNCHANGED <<wire, cont>> /\ trouble' = TRUE
        /\ ~Sure' /\ pc' \in {"line", "late", "failed"}
        /\ \/ pc = "name" /\ pc' = "late" /\ answered' = answered + 1 /\ UNCHANGED todo
           \/ pc = "password" /\ pc' = "line" /\ Answered
           \/ pc' = "failed" /\ Unanswered
    BY <1>11 DEF ImapDataFails, Sure
  <2>2. wire' = SubSeq(wire, 0 + 1, Len(wire)) /\ 0 <= Len(wire)
    BY <2>1 DEF WireInv, StreamType
  <2>3. Count(SubSeq(wire, 1, 0)) = 0
    BY WeightTaken DEF WireInv, StreamType
  <2>4. (answered' - answered) + Busy' <= Busy
    <3>1. CASE pc = "name" /\ pc' = "late" /\ answered' = answered + 1
      <4>1. Busy = 0 /\ Busy' = -1 /\ answered' - answered = 1
        BY <1>1, <3>1 DEF Busy
      <4>2. 1 + (-1) <= 0
        OBVIOUS
      <4> QED
        BY <4>1, <4>2, Zenon
    <3>2. CASE pc = "password" /\ pc' = "line" /\ Answered
      <4>1. Busy = 1 /\ Busy' = 0 /\ answered' - answered = 1
        BY <1>1, <3>2 DEF Busy, Answered
      <4>2. 1 + 0 <= 1
        OBVIOUS
      <4> QED
        BY <4>1, <4>2, Zenon
    <3>3. CASE pc' = "failed" /\ Unanswered
      <4>1. Busy \in {0, 1} /\ Busy' = 0 /\ answered' - answered = 0
        BY <1>1, <2>1, <3>3 DEF Busy, Unanswered
      <4> DEFINE b == Busy
      <4>2. b \in {0, 1} => 0 + 0 <= b
        OBVIOUS
      <4> QED
        BY <4>1, <4>2, Zenon
    <3> QED
      BY <2>1, <3>1, <3>2, <3>3
  <2>5. (answered' - answered) + Busy' <= Busy + Count(SubSeq(wire, 1, 0))
    <3> DEFINE b == Busy
    <3>1. b + 0 = b
      BY DEF Busy
    <3> QED
      BY <2>3, <2>4, <3>1, Zenon
  <2>6. Effect(0)
    BY <1>1, <1>2, <1>3, <2>1, <2>2, <2>5 DEF Effect, Dead
  <2> QED
    BY <2>6
<1>12. CASE ImapLate
  <2>1. /\ pc = "late" /\ wire # <<>> /\ wire' = NextLine.rest /\ UNCHANGED cont
        /\ Unanswered /\ pc' \in {"line", "failed"}
    BY <1>12 DEF ImapLate, ReadLine, Untagged
  <2>2. 2 <= Len(wire) /\ wire[1].word = "data" /\ Piece(wire[2])
    <3>1. wire[1] = stream[1] /\ wire[1].word = "data" /\ Piece(stream[2])
      BY <2>1, Lines DEF WireInv, ShapeInv
    <3>2. 2 <= Len(wire)
      BY <2>1, <3>1, Lines
    <3>3. wire[2] = stream[2]
      <4>1. \A n \in 1 .. Len(wire) : stream[n] = wire[n]
        BY ConcatElements, Zenon DEF WireInv, StreamType, stream
      <4>2. 2 \in 1 .. Len(wire)
        BY <2>1, <3>2, Lines
      <4> QED
        BY <4>1, <4>2
    <3> QED
      BY <3>1, <3>2, <3>3
  <2>3. wire' = SubSeq(wire, 2 + 1, Len(wire))
    BY <2>1, <2>2, Lines DEF NextLine
  <2>4. Count(SubSeq(wire, 1, 2)) = 1
    <3>1. ~Heavy(wire[1]) /\ Heavy(wire[2])
      BY <2>2 DEF Heavy, Piece
    <3> QED
      BY <2>2, <3>1, WeightTaken
  <2>5. ~Sure
    BY <2>1 DEF IInv, PlaceInv, Sure
  <2>6. (answered' - answered) + Busy' <= Busy + Count(SubSeq(wire, 1, 2))
    <3>1. answered' - answered = 0 /\ Busy' = 0 /\ Busy = -1
      BY <1>1, <2>1 DEF Unanswered, Busy
    <3>2. 0 + 0 <= (-1) + 1
      OBVIOUS
    <3> QED
      BY <2>4, <3>1, <3>2, Zenon
  <2>7. Effect(2)
    BY <1>1, <1>2, <1>3, <2>1, <2>2, <2>3, <2>5, <2>6 DEF Effect, Dead
  <2> QED
    BY <2>7
<1> QED
  BY <1>4, <1>5, <1>6, <1>7, <1>8, <1>11, <1>12 DEF ImapReads

\* managesieve_in_get_auth reads one line, or a literal and the end of its line.
LEMMA SieveEffect ==
  ASSUME IInv, WireInv, WaitInv, SieveLine \/ SieveLiteral
  PROVE  \E k \in 0 .. 2 : Effect(k)
<1>1. Sieve /\ ~Imap /\ answered \in Nat
  <2>1. Sieve
    BY DEF IInv, PlaceInv, SieveLine, SieveLiteral
  <2> QED
    BY <2>1, OneProtocol DEF IInv, WireInv, StreamType
<1>2. UNCHANGED <<proto, io, asked, flushed, cont>> /\ pc \notin Dead
  BY DEF SieveLine, SieveLiteral, ReadLine, setting, client, link, Dead
<1>6. /\ trouble \in BOOLEAN /\ (trouble => trouble')
      /\ Sure' => Sure /\ Steady /\ Common
  <2>1. Handler
    BY DEF Handler
  <2>2. trouble \in BOOLEAN /\ (trouble => trouble')
    BY <2>1, HandlerHandled DEF Handled, IInv, TypeOK
  <2> QED
    BY <1>2, <2>2 DEF Sure, Steady, AllRead, Common
<1>3. (No => Settled) /\ (OkWithTag /\ ~Sure' => Settled) /\ (\A a : Decode(a) => Settled)
  <2>1. No => Settled
    BY <1>1, <1>2, <1>6, WriteSettled DEF No
  <2>2. OkWithTag /\ ~Sure' => Settled
    BY <1>1, <1>2, <1>6, QuietSettled DEF OkWithTag, Quietly
  <2>3. ASSUME NEW a, Decode(a) PROVE Settled
    <3>1. No \/ Quietly("auth")
      BY <2>3, Zenon DEF Decode
    <3> QED
      BY <1>1, <1>2, <1>6, <2>1, <3>1, QuietSettled DEF Quietly
  <2> QED
    BY <2>1, <2>2, <2>3
<1>4. CASE SieveLine
  <2> DEFINE l == NextLine.line
  <2>1. pc = "line" /\ wire # <<>> /\ wire' = NextLine.rest
    BY <1>4 DEF SieveLine, ReadLine
  <2>2. 1 \in 1 .. Len(wire) /\ 1 <= Len(wire) /\ wire[1] = stream[1] /\ 1 \in 1 .. Len(stream)
    BY <2>1, Lines
  <2>3. Steady => wire[1].word \notin {"data", "rest", "junk"}
    <3> SUFFICES ASSUME Steady PROVE wire[1].word \notin {"data", "rest", "junk"}
      OBVIOUS
    <3>1. LedHere(1) /\ KnownHere(1)
      BY <1>1, <1>2, <2>2 DEF WireInv, SieveInv, WordsInv
    <3> QED
      BY <2>1, <2>2, <3>1 DEF LedHere, KnownHere, Steady
  <2>4. wire[1].word \in SieveWords
    <3>1. KnownHere(1)
      BY <2>2 DEF WireInv, WordsInv
    <3> QED
      BY <1>1, <2>2, <3>1 DEF KnownHere, Known
  <2>5. Steady => Heavy(wire[1])
    BY <2>3, <2>4 DEF Heavy, Split, Piece, SieveWords
  <2>6. /\ wire[1].word # "data" => l = wire[1] /\ wire' = SubSeq(wire, 1 + 1, Len(wire))
        /\ wire[1].word = "data" =>
             /\ l.word = "junk" /\ wire' = SubSeq(wire, 2 + 1, Len(wire)) /\ 2 <= Len(wire)
    BY <2>1, Lines
  <2> HIDE DEF l
  \* a NOOP whose tag is not refused is not sent by a common client
  <2>10. ASSUME l.word = "NOOP", l.args # <<>>, l.args[1].how # "atom" PROVE ~Sure'
    <3>1. l = wire[1]
      BY <2>6, <2>10
    <3>2. Tame(stream[1])
      BY <1>1, <2>2 DEF WaitInv, TameInv
    <3> QED
      BY <1>6, <2>2, <2>10, <3>1, <3>2 DEF Tame
  <2>7. \/ Settled /\ ~Lit(l)
        \/ /\ Unanswered /\ pc' \in {"challenge", "noop"} /\ Lit(l)
           /\ Sure' => pc' = "challenge"
    <3>1. CASE l.word = "AUTHENTICATE"
      <4> DEFINE args == l.args
                 b == args[2]
      <4>1. SieveAuthenticate(args)
        BY <1>4, <3>1, Zenon DEF SieveLine, l
      <4>2. CASE Len(args) # 2 \/ args[1] # Arg("quoted", "PLAIN") \/ b.how = "atom"
        <5>1. No
          BY <4>1, <4>2, Zenon DEF SieveAuthenticate
        <5>2. ~Lit(l)
          BY <3>1, <4>2 DEF Lit, Literal
        <5> QED
          BY <1>3, <5>1, <5>2
      <4>3. CASE /\ ~(Len(args) # 2 \/ args[1] # Arg("quoted", "PLAIN") \/ b.how = "atom")
                 /\ Literal(b) /\ b.content # "empty"
        <5>1. Quietly("challenge")
          BY <4>1, <4>3, Zenon DEF SieveAuthenticate
        <5>2. Lit(l)
          BY <3>1, <4>3 DEF Lit
        <5> QED
          BY <5>1, <5>2 DEF Quietly
      <4>4. CASE /\ ~(Len(args) # 2 \/ args[1] # Arg("quoted", "PLAIN") \/ b.how = "atom")
                 /\ ~(Literal(b) /\ b.content # "empty")
        <5>1. Decode(b)
          BY <4>1, <4>4, Zenon DEF SieveAuthenticate
        <5>2. ~Lit(l)
          BY <3>1, <4>4 DEF Lit
        <5> QED
          BY <1>3, <5>1, <5>2
      <4> QED
        BY <4>2, <4>3, <4>4, Zenon
    <3>2. CASE l.word = "NOOP"
      <4> DEFINE args == l.args
                 b == args[1]
      <4>1. SieveNoop(args)
        BY <1>4, <3>2, Zenon DEF SieveLine, l
      <4>2. CASE args = <<>>
        <5>1. Reply("line", "failed")
          BY <4>1, <4>2, Zenon DEF SieveNoop
        <5>2. Settled
          BY <1>1, <1>2, <1>6, <5>1, WriteSettled
        <5>3. Len(l.args) = 0
          BY <4>2
        <5>4. ~Lit(l)
          <6>1. l.word # "AUTHENTICATE"
            BY <3>2
          <6>2. Len(l.args) # 1
            BY <5>3
          <6> QED
            BY <6>1, <6>2, Zenon DEF Lit
        <5> QED
          BY <5>2, <5>4
      <4>3. CASE args # <<>> /\ (Len(args) > 1 \/ b.how = "atom")
        <5>1. No
          BY <4>1, <4>3, Zenon DEF SieveNoop
        <5>2. ~Lit(l)
          <6>1. l.word # "AUTHENTICATE"
            BY <3>2
          <6>2. Len(l.args) = 1 => l.args[1].how = "atom"
            BY <4>3
          <6>3. l.args[1].how = "atom" => ~Literal(l.args[1])
            BY DEF Literal
          <6> QED
            BY <6>1, <6>2, <6>3, Zenon DEF Lit
        <5> QED
          BY <1>3, <5>1, <5>2
      <4>4. CASE args # <<>> /\ ~(Len(args) > 1 \/ b.how = "atom") /\ Literal(b)
        <5>1. Quietly("noop")
          BY <4>1, <4>4, Zenon DEF SieveNoop
        <5>3. ~Sure'
          BY <2>10, <3>2, <4>4
        <5>2. Lit(l)
          <6>1. wire[1].word # "data" /\ l = wire[1]
            BY <2>6, <3>2
          <6>2. args \in Seq(Args)
            <7>1. wire[1] \in Items
              BY <2>2 DEF WireInv, StreamType
            <7> QED
              BY <6>1, <7>1 DEF Items
          <6> DEFINE n == Len(args)
          <6>4. n \in Nat /\ n # 0
            BY <4>4, <6>2
          <6>5. ~(n > 1)
            BY <4>4
          <6> HIDE DEF n
          <6>6. n = 1
            BY <6>4, <6>5
          <6>3. Len(args) = 1
            BY <6>6 DEF n
          <6> QED
            BY <3>2, <4>4, <6>3 DEF Lit
        <5> QED
          BY <5>1, <5>2, <5>3 DEF Quietly
      <4>5. CASE args # <<>> /\ ~(Len(args) > 1 \/ b.how = "atom") /\ ~Literal(b)
        <5>1. OkWithTag
          BY <4>1, <4>5, Zenon DEF SieveNoop
        <5>2. ~Lit(l)
          BY <3>2, <4>5 DEF Lit
        <5>3. ~Sure'
          BY <2>10, <3>2, <4>5
        <5> QED
          BY <1>3, <5>1, <5>2, <5>3
      <4> QED
        BY <4>2, <4>3, <4>4, <4>5, Zenon
    <3>3. CASE l.word \notin {"AUTHENTICATE", "NOOP"}
      <4>1. ~Lit(l)
        BY <3>3 DEF Lit
      <4>2. \/ No \/ List(trouble, "failed") \/ Reply("quit", "failed")
            \/ Reply("starttls", "failed") \/ Reply("line", "line")
        <5>1. CASE l.word = "CAPABILITY"
          BY <1>4, <5>1, Zenon DEF SieveLine, SieveCapabilityCmd, l
        <5>2. CASE l.word = "LOGOUT"
          BY <1>4, <5>2, Zenon DEF SieveLine, SieveLogout, l
        <5>3. CASE l.word = "STARTTLS" /\ TlsReady
          BY <1>4, <5>3, Zenon DEF SieveLine, SieveStarttls, l
        <5>4. CASE l.word \notin {"CAPABILITY", "LOGOUT"} /\ ~(l.word = "STARTTLS" /\ TlsReady)
          BY <1>4, <3>3, <5>4, Zenon DEF SieveLine, l
        <5> QED
          BY <5>1, <5>2, <5>3, <5>4
      <4>3. Settled
        BY <1>1, <1>2, <1>3, <1>6, <4>2, WriteSettled
      <4> QED
        BY <4>1, <4>3
    <3> QED
      BY <3>1, <3>2, <3>3
  <2>8. CASE Settled /\ ~Lit(l)
    <3>1. PICK k \in {1, 2} : /\ k <= Len(wire) /\ wire' = SubSeq(wire, k + 1, Len(wire))
                              /\ wire[1].word # "data" => k = 1 /\ l = wire[1]
      <4>1. CASE wire[1].word = "data"
        BY <2>6, <4>1
      <4>2. CASE wire[1].word # "data"
        BY <2>2, <2>6, <4>2
      <4> QED
        BY <4>1, <4>2
    <3>2. Steady => k = 1 /\ Heavy(wire[1])
      BY <2>3, <2>5, <3>1
    <3>5. Busy = 0 /\ Known(wire[1])
      BY <2>1, <2>2 DEF Busy, WireInv, WordsInv, KnownHere
    <3>3. Sieve /\ Steady => wire[1].word # "data" /\ ~Lit(wire[1])
      BY <2>3, <2>8, <3>1
    <3>4. Effect(k)
      BY <1>1, <1>2, <2>8, <3>1, <3>2, <3>3, <3>5, SettledEffect
    <3> QED
      BY <3>4
  <2>9. CASE /\ Unanswered /\ pc' \in {"challenge", "noop"} /\ Lit(l)
             /\ Sure' => pc' = "challenge"
    <3>1. wire[1].word # "data" /\ l = wire[1] /\ wire' = SubSeq(wire, 1 + 1, Len(wire))
      BY <2>6, <2>9 DEF Lit
    <3>2. Heavy(wire[1])
      BY <2>9, <3>1 DEF Lit, Heavy, Split
    <3>3. Count(SubSeq(wire, 1, 1)) = 1
      BY <2>2, <3>2, WeightTaken
    <3>4. (answered' - answered) + Busy' <= Busy + Count(SubSeq(wire, 1, 1))
      <4>1. answered' = answered /\ Busy' = 1 /\ Busy = 0
        BY <2>1, <2>9 DEF Unanswered, Busy
      <4>2. (answered' - answered) + 1 <= 0 + 1
        BY <1>1, <4>1
      <4> QED
        BY <3>3, <4>1, <4>2, Zenon
    <3>6. Sure' => EffectSure(1)
      <4>1. (answered' - answered) + Busy' = Busy + Count(SubSeq(wire, 1, 1))
        <5>1. answered' - answered = 0 /\ Busy' = 1 /\ Busy = 0
          BY <1>1, <2>1, <2>9 DEF Unanswered, Busy
        <5>2. 0 + 1 = 0 + 1
          OBVIOUS
        <5> QED
          BY <3>3, <5>1, <5>2, Zenon
      <4>2. ~SyncEnd(wire[1])
        BY <1>1, <2>2 DEF WireInv, WordsInv, KnownHere, Known
      <4> QED
        BY <1>1, <2>9, <4>1, <4>2 DEF EffectSure
    <3>5. Effect(1)
      BY <1>1, <1>2, <1>6, <2>2, <2>9, <3>1, <3>4, <3>6 DEF Effect, Dead
    <3> QED
      BY <3>5
  <2> QED
    BY <2>7, <2>8, <2>9
<1>5. CASE SieveLiteral
  <2>1. /\ pc \in {"challenge", "noop"} /\ wire # <<>> /\ wire' = Tail(Tail(wire))
        /\ No \/ (OkWithTag /\ pc = "noop") \/ Decode(wire[1].args[1])
    BY <1>5, Zenon DEF SieveLiteral
  <2>2. wire \in Seq(Items) /\ todo = <<>> /\ stream = wire
    <3>1. wire \in Seq(Items) /\ todo = <<>>
      BY <1>1 DEF WireInv, StreamType, EndsInv
    <3> QED
      BY <3>1 DEF stream
  <2>3. 2 <= Len(wire) /\ wire[1].word = "data" /\ wire[2].word = "rest"
    BY <2>1, <2>2 DEF WireInv, ShapeInv
  <2>4. wire' = SubSeq(wire, 2 + 1, Len(wire))
    BY <2>1, <2>3, Lines
  <2>5. Settled
    <3>1. pc = "noop" => ~Sure'
      BY <1>6 DEF WaitInv, TameInv
    <3> QED
      BY <1>3, <2>1, <3>1
  <2>8. Sure' => EffectSure(2)
    <3> SUFFICES ASSUME Sure' PROVE EffectSure(2)
      OBVIOUS
    <3>1. wire \in Seq(Items) /\ 1 \in 1 .. Len(wire) /\ 2 \in 1 .. Len(wire)
      BY <2>2, <2>3
    <3>2. Tame(wire[2]) /\ Known(wire[2])
      BY <1>1, <2>2, <3>1 DEF WaitInv, TameInv, WireInv, WordsInv, KnownHere
    <3>3. ~Heavy(wire[1]) /\ ~Heavy(wire[2])
      BY <2>3, <3>2 DEF Tame, Heavy, Piece
    <3>4. Count(SubSeq(wire, 1, 2)) = 0
      BY <2>3, <3>3, WeightTaken
    <3>5. (answered' - answered) + Busy' = Busy + Count(SubSeq(wire, 1, 2))
      <4>1. Busy = 1
        BY <2>1 DEF Busy
      <4>2. \/ answered' - answered = 1 /\ Busy' = 0
            \/ answered' - answered = 0 /\ Busy' = 1
        BY <1>1, <2>5 DEF Settled, Answered, Unanswered, Busy
      <4>3. 1 + 0 = 1 /\ 0 + 1 = 1
        OBVIOUS
      <4> QED
        BY <3>4, <4>1, <4>2, <4>3, Zenon
    <3>6. ~SyncEnd(wire[2])
      BY <1>1, <3>2 DEF Known
    <3> QED
      BY <1>1, <2>5, <3>5, <3>6 DEF EffectSure, Settled
  <2>6. (answered' - answered) + Busy' <= Busy + Count(SubSeq(wire, 1, 2))
    <3>1. Count(SubSeq(wire, 1, 2)) \in Nat
      BY <2>2, <2>3, WeightTaken
    <3>2. Busy = 1 /\ Busy' \in {0, 1}
      BY <2>1, <2>5 DEF Busy, Settled
    <3>3. answered' - answered \in Int /\ (answered' - answered) + Busy' <= 1
      BY <1>1, <2>5 DEF Settled, Unanswered, Answered
    <3> DEFINE b == Busy
               c == Busy'
               d == answered' - answered
               e == Count(SubSeq(wire, 1, 2))
    <3>4. b = 1 /\ c \in {0, 1} /\ d \in Int /\ e \in Nat /\ d + c <= 1
      BY <3>1, <3>2, <3>3
    <3> HIDE DEF b, c, d, e
    <3>5. d + c <= b + e
      BY <3>4
    <3> QED
      BY <3>5 DEF b, c, d, e
  <2>7. Effect(2)
    BY <1>1, <1>2, <2>3, <2>4, <2>5, <2>6, <2>8 DEF Effect, Settled
  <2> QED
    BY <2>7
<1> QED
  BY <1>4, <1>5

\* main()
LEMMA MainEffect ==
  ASSUME WireInv,
         \/ ReadFails \/ Greeting \/ Start \/ Refuse \/ Serve
         \/ Decide /\ pc \in {"failed", "quit"}
  PROVE  Effect(0)
<1>1. /\ UNCHANGED <<wire, proto, io, asked, flushed, cont>>
      /\ Unanswered \/ (Answered /\ pc \in {"refused", "lookup"})
      /\ pc' \in {"failed", "start", "exited", "line", "served"}
      /\ pc \in Dead \cup {"name", "space", "challenge", "noop"} => pc' \in Dead
      /\ answered \in Nat /\ pc # "late"
      /\ trouble => trouble'
      /\ Sure' => (Answered /\ Busy = 1) \/ (Unanswered /\ Busy = 0)
  <2>0. answered \in Nat
    BY DEF WireInv, StreamType
  <2>1. CASE ReadFails
    BY <2>0, <2>1 DEF ReadFails, Quietly, setting, client, link, Dead, Reading, Sure
  <2>2. CASE Greeting
    BY <2>0, <2>2 DEF Greeting, setting, client, link, Dead, Unanswered, Sure, Busy
  <2>3. CASE Start
    BY <2>0, <2>3 DEF Start, StarttlsPost, setting, client, link, Dead, Unanswered, Sure, Busy
  <2>4. CASE Refuse
    BY <2>0, <2>4 DEF Refuse, Write, setting, Dead, Sure, Busy
  <2>5. CASE Serve
    BY <2>0, <2>5 DEF Serve, Quietly, setting, client, link, Dead, Sure, Busy
  <2>6. CASE Decide /\ pc \in {"failed", "quit"}
    BY <2>0, <2>6 DEF Decide, setting, link, Dead, Unanswered, Sure, Busy
  <2> QED
    BY <2>1, <2>2, <2>3, <2>4, <2>5, <2>6
<1>2. Busy' = 0 /\ (Unanswered \/ Busy = 1) /\ Busy \in {0, 1}
  BY <1>1 DEF Busy
<1>3. (answered' - answered) + Busy' <= Busy
  <2> DEFINE b == Busy
             c == Busy'
  <2>1. answered' = answered \/ (answered' = answered + 1 /\ b = 1)
    BY <1>1, <1>2 DEF Unanswered, Answered
  <2>2. c = 0 /\ b \in {0, 1} /\ answered \in Nat
    BY <1>1, <1>2
  <2> HIDE DEF b, c
  <2>3. (answered' - answered) + c <= b
    BY <2>1, <2>2
  <2> QED
    BY <2>3 DEF b, c
<1>5. Sure' => (answered' - answered) + Busy' = Busy
  <2> SUFFICES ASSUME Sure' PROVE (answered' - answered) + Busy' = Busy
    OBVIOUS
  <2>1. \/ answered' - answered = 1 /\ Busy = 1
        \/ answered' - answered = 0 /\ Busy = 0
    BY <1>1 DEF Answered, Unanswered
  <2>2. 1 + 0 = 1 /\ 0 + 0 = 0
    OBVIOUS
  <2> QED
    BY <1>2, <2>1, <2>2, Zenon
<1>4. UNCHANGED <<wire, proto, io, asked, flushed, cont>> /\ (Unanswered \/ Answered)
      /\ pc' \notin {"handshake", "starttls", "name", "space", "password", "challenge", "noop", "late"}
  BY <1>1
<1> QED
  BY <1>1, <1>3, <1>4, <1>5, StillEffect

-----------------------------------------------------------------------------
(* token_flush() and the handshake.                                        *)

\* What token_flush() leaves: the end of the stream, maybe behind half a line.
Junk(l) == l.word = "junk" /\ l.args = <<>>

\* It is still a stream of known lines, each with what has to follow it, and no heavier.
LEMMA FlushOutcome ==
  ASSUME WireInv, NEW f \in AfterFlush
  PROVE  /\ f.rest \in Seq(Items) /\ f.net = Len(f.rest)
         /\ f.rest \o todo \in Seq(Items)
         /\ Shape(f.rest \o todo) /\ Count(f.rest \o todo) <= Count(stream)
         /\ Len(wire) \in Nat /\ Len(stream) \in Nat
         /\ \E k \in 0 .. Len(wire) :
              /\ Len(f.rest) = Len(wire) - k
              /\ \A n \in 1 .. Len(f.rest) :
                   f.rest[n] = wire[n + k]
                     \/ (Junk(f.rest[n]) /\ f.rest[n].enc = wire[n + k].enc)
              /\ Len(f.rest \o todo) = Len(stream) - k
              /\ \A n \in 1 .. Len(f.rest \o todo) :
                   (f.rest \o todo)[n] = stream[n + k] \/ Junk((f.rest \o todo)[n])
<1>1. wire \in Seq(Items) /\ todo \in Seq(Items) /\ Len(wire) \in Nat /\ Shape(stream)
  BY DEF WireInv, StreamType, ShapeInv
<1> DEFINE R(n) == SubSeq(wire, n + 1, Len(wire))
           H(n) == [word |-> "junk", args |-> <<>>, enc |-> wire[n].enc]
<1>2. \/ \E n \in 0 .. Len(wire) : f = [rest |-> R(n), net |-> Len(R(n))]
      \/ \E n \in 1 .. Len(wire) : f = [rest |-> <<H(n)>> \o R(n), net |-> Len(R(n)) + 1]
  BY DEF AfterFlush
<1>3. ASSUME NEW k \in 0 .. Len(wire)
      PROVE  LET d == R(k)
                 r == d \o todo
             IN /\ d \in Seq(Items) /\ Len(d) = Len(wire) - k
                /\ \A n \in 1 .. Len(wire) - k : d[n] = wire[n + k]
                /\ r \in Seq(Items) /\ Len(r) = Len(stream) - k /\ Len(stream) \in Nat
                /\ \A n \in 1 .. Len(r) : r[n] = stream[n + k]
                /\ Shape(r) /\ Count(r) <= Count(stream) /\ Count(r) \in Nat
                /\ Count(stream) \in Nat
  <2> DEFINE d == R(k)
             r == d \o todo
             s == wire \o todo
  <2>1. /\ d \in Seq(Items) /\ Len(d) = Len(wire) - k
        /\ \A n \in 1 .. Len(wire) - k : d[n] = wire[n + k]
    BY <1>1, DropElements, Zenon
  <2>2. /\ r \in Seq(Items) /\ s \in Seq(Items)
        /\ r = SubSeq(s, k + 1, Len(s)) /\ k \in 0 .. Len(s)
        /\ Len(r) = Len(s) - k
        /\ \A n \in 1 .. Len(r) : r[n] = s[n + k]
        /\ Count(s) = Count(SubSeq(wire, 1, k)) + Count(r)
    BY <1>1, DropOfStream, Zenon
  <2>3. s = stream
    BY DEF stream
  <2> HIDE DEF d, r, s
  <2>4. Shape(r)
    BY <1>1, <2>2, <2>3, ShapeDrop, Zenon
  <2>5. Count(SubSeq(wire, 1, k)) \in Nat /\ Count(r) \in Nat /\ Count(s) \in Nat
    BY <1>1, <2>2, CountDrop, CountIsNat, Zenon
  <2>6. Count(r) <= Count(s)
    BY <2>2, <2>5
  <2>7. Len(s) \in Nat
    BY <2>2
  <2>8. /\ d \in Seq(Items) /\ Len(d) = Len(wire) - k
        /\ \A n \in 1 .. Len(wire) - k : d[n] = wire[n + k]
        /\ r \in Seq(Items) /\ Len(r) = Len(stream) - k /\ Len(stream) \in Nat
        /\ \A n \in 1 .. Len(r) : r[n] = stream[n + k]
        /\ Shape(r) /\ Count(r) <= Count(stream) /\ Count(r) \in Nat
        /\ Count(stream) \in Nat
    BY <2>1, <2>2, <2>3, <2>4, <2>5, <2>6, <2>7, Zenon
  <2> QED
    BY <2>8 DEF d, r
<1>4. ASSUME NEW k \in 0 .. Len(wire), f = [rest |-> R(k), net |-> Len(R(k))]
      PROVE  /\ f.rest \in Seq(Items) /\ f.net = Len(f.rest)
             /\ f.rest \o todo \in Seq(Items)
             /\ Shape(f.rest \o todo) /\ Count(f.rest \o todo) <= Count(stream)
             /\ Len(stream) \in Nat
             /\ Len(f.rest) = Len(wire) - k
             /\ \A n \in 1 .. Len(f.rest) : f.rest[n] = wire[n + k]
             /\ Len(f.rest \o todo) = Len(stream) - k
             /\ \A n \in 1 .. Len(f.rest \o todo) : (f.rest \o todo)[n] = stream[n + k]
  <2>1. f.rest = R(k) /\ f.net = Len(R(k))
    BY <1>4
  <2> HIDE DEF R
  <2> QED
    BY <1>3, <2>1, Zenon
<1>5. ASSUME NEW m \in 1 .. Len(wire), f = [rest |-> <<H(m)>> \o R(m), net |-> Len(R(m)) + 1]
      PROVE  LET k == m - 1
             IN /\ f.rest \in Seq(Items) /\ f.net = Len(f.rest)
                /\ f.rest \o todo \in Seq(Items)
                /\ Shape(f.rest \o todo) /\ Count(f.rest \o todo) <= Count(stream)
                /\ Len(stream) \in Nat
                /\ Len(f.rest) = Len(wire) - k
                /\ \A n \in 1 .. Len(f.rest) :
                     f.rest[n] = wire[n + k]
                       \/ (Junk(f.rest[n]) /\ f.rest[n].enc = wire[n + k].enc)
                /\ Len(f.rest \o todo) = Len(stream) - k
                /\ \A n \in 1 .. Len(f.rest \o todo) :
                     (f.rest \o todo)[n] = stream[n + k] \/ Junk((f.rest \o todo)[n])
  <2> DEFINE h == H(m)
             d == R(m)
             r == d \o todo
             g == <<h>>
             p == g \o d
             q == g \o r
             k == m - 1
  <2>1. h \in Items /\ Junk(h) /\ h.enc = wire[m].enc
    <3>1. wire[m] \in Items
      BY <1>1
    <3>2. wire[m].enc \in BOOLEAN
      BY <3>1 DEF Items
    <3>3. h.word = "junk" /\ h.args = <<>> /\ "junk" \in Words /\ <<>> \in Seq(Args)
      BY DEF Words
    <3>4. h.enc = wire[m].enc
      BY Zenon
    <3>5. h \in Items
      BY <3>2, <3>3 DEF Items
    <3> QED
      BY <3>3, <3>4, <3>5 DEF Junk
  <2>2. m \in 0 .. Len(wire) /\ k \in 0 .. Len(wire) /\ 1 + k = m /\ k = m - 1 /\ k \in Int
    BY <1>1
  <2>3. /\ d \in Seq(Items) /\ Len(d) = Len(wire) - m
        /\ \A n \in 1 .. Len(wire) - m : d[n] = wire[n + m]
        /\ r \in Seq(Items) /\ Len(r) = Len(stream) - m /\ Len(stream) \in Nat
        /\ \A n \in 1 .. Len(r) : r[n] = stream[n + m]
        /\ Shape(r) /\ Count(r) <= Count(stream) /\ Count(r) \in Nat
        /\ Count(stream) \in Nat
    BY <1>3, <2>2, Zenon
  <2>4. f.rest = p /\ f.net = Len(d) + 1
    BY <1>5
  <2> HIDE DEF h, R
  <2>5. g \in Seq(Items) /\ Len(g) = 1 /\ g[1] = h
    BY <2>1
  <2>6. p \o todo = q
    BY <1>1, <2>3, <2>5, ConcatRegroup, Zenon
  <2> HIDE DEF g, d
  <2>7. /\ p \in Seq(Items) /\ Len(p) = 1 + Len(d) /\ p[1] = h
        /\ \A n \in 2 .. 1 + Len(d) : p[n] = d[n - 1]
    <3>1. /\ p \in Seq(Items) /\ Len(p) = Len(g) + Len(d)
          /\ \A n \in 1 .. Len(g) : p[n] = g[n]
          /\ \A n \in Len(g) + 1 .. Len(g) + Len(d) : p[n] = d[n - Len(g)]
      BY <2>3, <2>5, ConcatElements, Zenon
    <3>2. 1 \in 1 .. 1 /\ 1 + 1 = 2
      OBVIOUS
    <3> HIDE DEF p
    <3> QED
      BY <2>5, <3>1, <3>2, Zenon
  <2> HIDE DEF r
  <2>8. /\ q \in Seq(Items) /\ Len(q) = 1 + Len(r) /\ q[1] = h
        /\ \A n \in 2 .. 1 + Len(r) : q[n] = r[n - 1]
    <3>1. /\ q \in Seq(Items) /\ Len(q) = Len(g) + Len(r)
          /\ \A n \in 1 .. Len(g) : q[n] = g[n]
          /\ \A n \in Len(g) + 1 .. Len(g) + Len(r) : q[n] = r[n - Len(g)]
      BY <2>3, <2>5, ConcatElements, Zenon
    <3>2. 1 \in 1 .. 1 /\ 1 + 1 = 2
      OBVIOUS
    <3> HIDE DEF q
    <3> QED
      BY <2>5, <3>1, <3>2, Zenon
  <2>9. Shape(q) /\ Count(q) <= Count(stream)
    <3>1. ~Split(h) /\ ~Lit(h) /\ ~Heavy(h)
      <4>1. h.word = "junk"
        BY <2>1 DEF Junk
      <4> QED
        BY <4>1 DEF Split, Lit, Heavy, Piece
    <3>2. \A n \in 1 .. Len(g) : n = 1
      BY <2>5
    <3>3. Shape(g)
      BY <2>5, <3>1, <3>2 DEF Shape, Follows
    <3>4. Count(g) = 0
      BY <2>5, <3>1, <3>2, CountNone
    <3>5. Shape(q)
      BY <2>3, <2>5, <3>3, ShapeConcat, Zenon
    <3>6. Count(q) = Count(g) + Count(r)
      BY <2>3, <2>5, CountConcat, Zenon
    <3> HIDE DEF q
    <3> QED
      BY <2>3, <3>4, <3>5, <3>6
  <2> HIDE DEF p, q
  <2>10. ASSUME NEW n \in 1 .. Len(p)
         PROVE  p[n] = wire[n + k] \/ (Junk(p[n]) /\ p[n].enc = wire[n + k].enc)
    <3>1. CASE n = 1
      <4>1. n + k = m
        BY <2>2, <3>1
      <4> QED
        BY <2>1, <2>7, <3>1, <4>1
    <3>2. CASE n # 1
      <4>1. n \in 2 .. 1 + Len(d) /\ n - 1 \in 1 .. Len(wire) - m /\ (n - 1) + m = n + k
        BY <1>1, <2>3, <2>7, <3>2
      <4>2. d[n - 1] = wire[(n - 1) + m]
        BY <2>3, <4>1, Zenon
      <4> HIDE DEF k
      <4> QED
        BY <2>7, <4>1, <4>2, Zenon
    <3> QED
      BY <3>1, <3>2
  <2>11. ASSUME NEW n \in 1 .. Len(q)
         PROVE  q[n] = stream[n + k] \/ Junk(q[n])
    <3>1. CASE n = 1
      BY <2>1, <2>8, <3>1
    <3>2. CASE n # 1
      <4>1. n \in 2 .. 1 + Len(r) /\ n - 1 \in 1 .. Len(r) /\ (n - 1) + m = n + k
        BY <1>1, <2>3, <2>8, <3>2
      <4>2. r[n - 1] = stream[(n - 1) + m]
        BY <2>3, <4>1, Zenon
      <4> HIDE DEF k
      <4> QED
        BY <2>8, <4>1, <4>2, Zenon
    <3> QED
      BY <3>1, <3>2
  <2>12. Len(p) = Len(wire) - k /\ Len(q) = Len(stream) - k /\ f.net = Len(p)
    <3> DEFINE x == Len(wire)
               y == Len(stream)
               v == Len(d)
               w == Len(r)
    <3>1. x \in Nat /\ y \in Nat /\ v = x - m /\ w = y - m
      BY <1>1, <2>3
    <3> HIDE DEF x, y, v, w
    <3>2. 1 + v = x - (m - 1) /\ 1 + w = y - (m - 1) /\ v + 1 = 1 + v
      BY <3>1
    <3> QED
      BY <2>4, <2>7, <2>8, <3>2 DEF x, y, v, w
  <2> HIDE DEF k
  <2>13. /\ p \in Seq(Items) /\ f.net = Len(p)
         /\ q \in Seq(Items)
         /\ Shape(q) /\ Count(q) <= Count(stream)
         /\ Len(stream) \in Nat
         /\ Len(p) = Len(wire) - k
         /\ \A n \in 1 .. Len(p) :
              p[n] = wire[n + k] \/ (Junk(p[n]) /\ p[n].enc = wire[n + k].enc)
         /\ Len(q) = Len(stream) - k
         /\ \A n \in 1 .. Len(q) : q[n] = stream[n + k] \/ Junk(q[n])
    BY <2>3, <2>7, <2>8, <2>9, <2>10, <2>11, <2>12
  <2> QED
    BY <2>4, <2>6, <2>13, Zenon DEF k
<1>6. CASE \E n \in 0 .. Len(wire) : f = [rest |-> R(n), net |-> Len(R(n))]
  BY <1>1, <1>4, <1>6
<1>7. CASE \E n \in 1 .. Len(wire) : f = [rest |-> <<H(n)>> \o R(n), net |-> Len(R(n)) + 1]
  <2>1. PICK m \in 1 .. Len(wire) : f = [rest |-> <<H(m)>> \o R(m), net |-> Len(R(m)) + 1]
    BY <1>7
  <2>2. m - 1 \in 0 .. Len(wire)
    BY <1>1
  <2> HIDE DEF R, H
  <2> QED
    BY <1>1, <1>5, <2>1, <2>2, Zenon
<1> QED
  BY <1>2, <1>6, <1>7

\* token_flush() keeps the invariant: what is left is shorter, no heavier and as encrypted.
LEMMA FlushKeeps == ASSUME WireInv, Decide, pc \in {"starttls", "auth"} PROVE WireInv'
<1> USE DEF WireInv
<1>1. PICK f \in AfterFlush :
        /\ wire' = f.rest /\ flushed' = (flushed \/ f.rest # wire)
        /\ \/ pc = "starttls" /\ pc' \in {"handshake", "exited"}
                /\ (pc' = "handshake" => f.net = 0)
           \/ pc = "auth" /\ pc' \in {"refused", "lookup"}
  BY DEF Decide, Flush
<1>2. UNCHANGED <<proto, io, todo, asked, answered, cont>>
  BY DEF Decide, setting, link
<1>3. PICK k \in 0 .. Len(wire) :
        /\ wire' \in Seq(Items) /\ stream' \in Seq(Items)
        /\ f.net = Len(wire')
        /\ Shape(stream') /\ Count(stream') <= Count(stream)
        /\ Len(wire) \in Nat /\ Len(stream) \in Nat
        /\ Len(wire') = Len(wire) - k
        /\ \A n \in 1 .. Len(wire') :
             wire'[n] = wire[n + k] \/ (Junk(wire'[n]) /\ wire'[n].enc = wire[n + k].enc)
        /\ Len(stream') = Len(stream) - k
        /\ \A n \in 1 .. Len(stream') : stream'[n] = stream[n + k] \/ Junk(stream'[n])
  <2>1. f.rest = wire' /\ f.rest \o todo = stream'
    BY <1>1, <1>2 DEF stream
  <2> QED
    BY <2>1, FlushOutcome, Zenon
<1>4. (Pop' <=> Pop) /\ (Imap' <=> Imap) /\ (Sieve' <=> Sieve)
  BY <1>2 DEF Pop, Imap, Sieve
<1>5. wire = <<>> => wire' = <<>>
  <2> SUFFICES ASSUME wire = <<>> PROVE wire' = <<>>
    OBVIOUS
  <2>1. Len(wire) = 0
    OBVIOUS
  <2>2. k = 0 /\ Len(wire') = 0
    BY <1>3, <2>1
  <2> QED
    BY <1>3, <2>2
<1>6. wire' = wire => stream' = stream
  BY <1>2 DEF stream
<1>7. StreamType'
  BY <1>1, <1>2, <1>3 DEF StreamType
<1>8. WordsInv'
  <2> SUFFICES ASSUME NEW n \in 1 .. Len(stream') PROVE KnownHere(n)'
    BY DEF WordsInv
  <2>1. Known(stream[n])'
    <3>1. CASE stream'[n] = stream[n + k]
      <4>1. n + k \in 1 .. Len(stream)
        BY <1>3
      <4>2. Known(stream[n + k])
        BY <4>1 DEF WordsInv, KnownHere
      <4> QED
        BY <1>4, <3>1, <4>2 DEF Known
    <3>2. CASE Junk(stream'[n])
      <4>1. stream'[n].word = "junk" /\ ~SyncEnd(stream'[n])
        BY <3>2 DEF Junk, SyncEnd
      <4>2. "junk" \in PopWords /\ "junk" \in SieveWords
        BY DEF PopWords, SieveWords
      <4> QED
        BY <4>1, <4>2 DEF Known
    <3> QED
      BY <1>3, <3>1, <3>2
  <2>2. stream'[n].word = "junk" => flushed'
    <3>1. CASE wire' = wire
      BY <1>1, <1>6, <3>1 DEF WordsInv, KnownHere
    <3>2. CASE wire' # wire
      BY <1>1, <3>2
    <3> QED
      BY <3>1, <3>2
  <2> QED
    BY <2>1, <2>2 DEF KnownHere
<1>9. EndsInv'
  <2>1. ASSUME NEW n \in 1 .. Len(wire')
        PROVE  /\ SyncEnd(wire'[n]) => n = Len(wire') /\ todo # <<>>
               /\ wire'[n].word = "data" => n < Len(wire')
    <3>1. CASE Junk(wire'[n])
      <4>1. wire'[n].word = "junk" /\ ~SyncEnd(wire'[n])
        BY <3>1 DEF Junk, SyncEnd
      <4> QED
        BY <4>1
    <3>2. CASE wire'[n] = wire[n + k]
      <4>1. n + k \in 1 .. Len(wire)
        BY <1>3
      <4>2. SyncEnd(wire[n + k]) => n + k = Len(wire) /\ todo # <<>>
        BY <4>1 DEF EndsInv
      <4>3. wire[n + k].word = "data" => n + k < Len(wire)
        BY <4>1 DEF EndsInv
      <4>4. (n + k = Len(wire) => n = Len(wire')) /\ (n + k < Len(wire) => n < Len(wire'))
        <5> DEFINE p == Len(wire)
                   q == Len(wire')
        <5>1. p \in Nat /\ q = p - k /\ k \in 0 .. p /\ n \in 1 .. q
          BY <1>3
        <5> HIDE DEF p, q
        <5>2. (n + k = p => n = q) /\ (n + k < p => n < q)
          BY <5>1
        <5> QED
          BY <5>2 DEF p, q
      <4> QED
        BY <3>2, <4>2, <4>3, <4>4, Zenon
    <3> QED
      BY <1>3, <3>1, <3>2
  <2>2. todo' # <<>> => Imap' /\ ~SyncEnd(todo'[Len(todo')]) /\ todo'[Len(todo')].word # "data"
    BY <1>2, <1>4 DEF EndsInv
  <2>3. cont' => wire' = <<>> /\ todo' # <<>>
    BY <1>2, <1>5 DEF EndsInv
  <2> QED
    BY <1>2, <2>1, <2>2, <2>3 DEF EndsInv
<1>10. ShapeInv'
  BY <1>1, <1>3 DEF ShapeInv
<1>11. SieveInv'
  <2> SUFFICES ASSUME Sieve, Steady', NEW n \in 1 .. Len(stream') PROVE LedHere(n)'
    BY <1>4 DEF SieveInv
  <2>1. wire' = wire /\ Steady
    BY <1>1 DEF Steady, AllRead
  <2>2. stream' = stream /\ pc \notin Dead \cup {"challenge", "noop"}
    BY <1>1, <1>6, <2>1 DEF Dead
  <2>3. LedHere(n)
    BY <2>1, <2>2 DEF SieveInv
  <2> QED
    BY <2>2, <2>3 DEF LedHere
<1>12. CreditInv'
  <2> SUFFICES ASSUME Imap \/ Steady' PROVE answered' + Busy' + Count(stream') <= asked'
    BY <1>4 DEF CreditInv
  <2>1. Imap \/ Steady
    BY <1>1 DEF Steady, AllRead
  <2>2. answered + Busy + Count(stream) <= asked
    BY <2>1 DEF CreditInv
  <2>3. Busy' = Busy /\ Busy \in Int
    BY <1>1 DEF Busy
  <2>4. Count(stream) \in Nat /\ Count(stream') \in Nat
    <3>1. stream \in Seq(Items)
      BY ConcatElements DEF StreamType, stream
    <3> QED
      BY <1>3, <3>1, CountIsNat, Zenon
  <2>5. answered \in Nat /\ asked \in Nat
    BY DEF StreamType
  <2> DEFINE b == Busy
             c == Count(stream)
             d == Count(stream')
  <2>6. Busy' = b /\ b \in Int /\ c \in Nat /\ d \in Nat /\ d <= c /\ answered + b + c <= asked
    BY <1>3, <2>2, <2>3, <2>4
  <2> HIDE DEF b, c, d
  <2>7. answered + b + d <= asked
    BY <2>5, <2>6
  <2>8. answered' + Busy' + d <= asked'
    BY <1>2, <2>6, <2>7
  <2> QED
    BY <2>8 DEF d
<1>13. EncInv'
  <2>1. io' = "ssl" => \A n \in 1 .. Len(wire') : wire'[n].enc
    <3> SUFFICES ASSUME io = "ssl", NEW n \in 1 .. Len(wire') PROVE wire'[n].enc
      BY <1>2
    <3>1. n + k \in 1 .. Len(wire)
      BY <1>3
    <3>2. wire[n + k].enc
      BY <3>1 DEF EncInv
    <3>3. wire'[n].enc = wire[n + k].enc
      BY <1>3
    <3> QED
      BY <3>2, <3>3
  <2>2. io' = "ssl" /\ (\E n \in 1 .. Len(todo') : ~todo'[n].enc) => ~cont' /\ wire' = <<>>
    BY <1>2, <1>5 DEF EncInv
  <2>3. pc' \in {"starttls", "handshake"} => ~cont'
    BY <1>1, <1>2 DEF EncInv
  <2>4. pc' = "handshake" => wire' = <<>>
    <3>1. pc' = "handshake" => Len(wire') = 0
      BY <1>1, <1>3
    <3> QED
      BY <1>3, <3>1
  <2> QED
    BY <2>1, <2>2, <2>3, <2>4 DEF EncInv
<1> QED
  BY <1>7, <1>8, <1>9, <1>10, <1>11, <1>12, <1>13

\* So does the handshake, for nothing is unread when it begins.
LEMMA HandshakeKeeps == ASSUME WireInv, Handshake PROVE WireInv'
<1> USE DEF WireInv
<1>1. /\ wire = <<>> /\ ~cont /\ pc = "handshake" /\ pc' \in {"start", "exited"}
      /\ UNCHANGED <<proto, wire, todo, asked, answered, cont, flushed>>
  BY DEF Handshake, EncInv, setting, client
<1>2. /\ (Pop' <=> Pop) /\ (Imap' <=> Imap) /\ (Sieve' <=> Sieve) /\ (Steady' <=> Steady)
      /\ stream' = stream
  BY <1>1 DEF Pop, Imap, Sieve, Steady, AllRead, stream
<1>3. StreamType'
  BY <1>1 DEF StreamType
<1>4. WordsInv'
  <2> SUFFICES ASSUME NEW n \in 1 .. Len(stream') PROVE KnownHere(n)'
    BY DEF WordsInv
  <2>1. KnownHere(n)
    BY <1>2 DEF WordsInv
  <2> QED
    BY <1>1, <1>2, <2>1 DEF KnownHere, Known
<1>5. EndsInv'
  BY <1>1, <1>2 DEF EndsInv
<1>6. ShapeInv'
  BY <1>1, <1>2 DEF ShapeInv
<1>7. SieveInv'
  <2> SUFFICES ASSUME Sieve, Steady, NEW n \in 1 .. Len(stream') PROVE LedHere(n)'
    BY <1>2 DEF SieveInv
  <2>1. LedHere(n)
    BY <1>1, <1>2 DEF SieveInv, Dead
  <2> QED
    BY <1>1, <1>2, <2>1 DEF LedHere
<1>8. CreditInv'
  <2>1. Busy' = Busy
    BY <1>1 DEF Busy
  <2> QED
    BY <1>1, <1>2, <2>1 DEF CreditInv
<1>9. EncInv'
  BY <1>1 DEF EncInv
<1> QED
  BY <1>3, <1>4, <1>5, <1>6, <1>7, <1>8, <1>9

-----------------------------------------------------------------------------
(* The client sends.                                                       *)

\* What the client sends ends where it has to wait, and with no data.
LEMMA SendingEnds ==
  ASSUME NEW s \in Seq(Items), s # <<>>, wire \in Seq(Items), Send(s),
         ~SyncEnd(s[Len(s)]), s[Len(s)].word # "data",
         \A n \in 1 .. Len(s) : SyncEnd(s[n]) => Imap,
         \A n \in 1 .. Len(wire) : ~SyncEnd(wire[n]) /\ (wire[n].word = "data" => n < Len(wire))
  PROVE  /\ \A n \in 1 .. Len(wire') : SyncEnd(wire'[n]) => n = Len(wire') /\ todo' # <<>>
         /\ \A n \in 1 .. Len(wire') : wire'[n].word = "data" => n < Len(wire')
         /\ todo' # <<>> => Imap /\ ~SyncEnd(todo'[Len(todo')]) /\ todo'[Len(todo')].word # "data"
<1> DEFINE t == wire
           w == Waits(s)
<1>1. /\ w \in 1 .. Len(s) /\ Len(s) \in Nat
      /\ w < Len(s) => SyncEnd(s[w])
      /\ \A m \in 1 .. w - 1 : ~SyncEnd(s[m])
  BY WaitsWhere
<1>2. /\ wire' \in Seq(Items) /\ todo' \in Seq(Items)
      /\ Len(wire') = Len(t) + w /\ Len(todo') = Len(s) - w
      /\ \A n \in 1 .. Len(t) : wire'[n] = t[n]
      /\ \A n \in Len(t) + 1 .. Len(wire') : wire'[n] = s[n - Len(t)]
      /\ \A n \in 1 .. Len(todo') : todo'[n] = s[n + w]
  BY Sending, Zenon
<1>3. Len(t) \in Nat
  OBVIOUS
<1> HIDE DEF w
<1>4. ASSUME NEW n \in 1 .. Len(wire')
      PROVE  /\ SyncEnd(wire'[n]) => n = Len(wire') /\ todo' # <<>>
             /\ wire'[n].word = "data" => n < Len(wire')
  <2>1. CASE n <= Len(t)
    <3>1. n \in 1 .. Len(t) /\ Len(t) < Len(wire')
      BY <1>1, <1>2, <1>3, <2>1
    <3>2. wire'[n] = wire[n] /\ ~SyncEnd(wire[n])
      BY <1>2, <3>1
    <3> QED
      BY <1>3, <3>1, <3>2
  <2>2. CASE n > Len(t)
    <3> DEFINE m == n - Len(t)
    <3>1. n \in Len(t) + 1 .. Len(wire') /\ m \in 1 .. w /\ m \in 1 .. Len(s)
      BY <1>1, <1>2, <1>3, <2>2
    <3>2. wire'[n] = s[m]
      BY <1>2, <3>1
    <3>3. m = w <=> n = Len(wire')
      BY <1>1, <1>2, <1>3, <3>1
    <3>4. n # Len(wire') => n < Len(wire')
      BY <1>2
    <3>6. w < Len(s) \/ w = Len(s)
      BY <1>1
    <3>7. w < Len(s) => Len(todo') > 0 /\ todo' # <<>>
      BY <1>1, <1>2
    <3> HIDE DEF m
    <3>5. m # w => m \in 1 .. w - 1
      <4>1. w \in Nat /\ m \in Nat /\ m >= 1 /\ m <= w
        BY <1>1, <3>1
      <4> QED
        BY <4>1
    <3>8. SyncEnd(s[m]) => m = w /\ w < Len(s)
      BY <1>1, <3>5, <3>6, Zenon
    <3>9. s[m].word = "data" => m # w
      BY <1>1, <3>6, Zenon DEF SyncEnd
    <3> QED
      BY <3>2, <3>3, <3>4, <3>7, <3>8, <3>9, Zenon
  <2>3. n <= Len(t) \/ n > Len(t)
    BY <1>3
  <2> QED
    BY <2>1, <2>2, <2>3, Zenon
<1>5. ASSUME todo' # <<>>
      PROVE  Imap /\ ~SyncEnd(todo'[Len(todo')]) /\ todo'[Len(todo')].word # "data"
  <2>1. Len(todo') \in 1 .. Len(todo')
    BY <1>2, <1>5
  <2>2. Len(todo') + w = Len(s) /\ w < Len(s)
    BY <1>1, <1>2, <2>1
  <2>3. todo'[Len(todo')] = s[Len(todo') + w]
    BY <1>2, <2>1
  <2>4. todo'[Len(todo')] = s[Len(s)]
    BY <2>2, <2>3, Zenon
  <2>5. Imap
    BY <1>1, <2>2
  <2> QED
    BY <2>4, <2>5
<1> QED
  BY <1>4, <1>5

\* The client goes on after a continuation request.
LEMMA ContinueKeeps == ASSUME WireInv, Continue PROVE WireInv'
<1> USE DEF WireInv
<1>1. /\ cont /\ todo # <<>> /\ wire = <<>> /\ Send(todo) /\ cont' = FALSE
      /\ UNCHANGED <<proto, pc, io, asked, flushed, answered>>
      /\ wire \in Seq(Items) /\ todo \in Seq(Items) /\ Len(wire) = 0
  BY DEF Continue, EndsInv, StreamType, setting, link, client
<1>2. /\ (Pop' <=> Pop) /\ (Imap' <=> Imap) /\ (Sieve' <=> Sieve) /\ (Steady' <=> Steady)
      /\ Busy' = Busy
  BY <1>1 DEF Pop, Imap, Sieve, Steady, AllRead, Busy
<1>3. \A n \in 1 .. Len(todo) : n \in 1 .. Len(stream) /\ stream[n] = todo[n]
  <2>1. /\ Len(wire \o todo) = Len(wire) + Len(todo)
        /\ \A n \in 1 .. Len(todo) : (wire \o todo)[Len(wire) + n] = todo[n]
    BY <1>1, ConcatElements, Zenon
  <2>2. Len(todo) \in Nat
    BY <1>1
  <2> QED
    BY <1>1, <2>1, <2>2 DEF stream
<1>4. /\ wire' \in Seq(Items) /\ todo' \in Seq(Items) /\ stream' = stream
      /\ Len(wire') = Waits(todo) /\ Len(todo') = Len(todo) - Waits(todo)
      /\ \A n \in 1 .. Len(wire') : wire'[n] = todo[n]
      /\ \A n \in 1 .. Len(todo') : todo'[n] = todo[n + Waits(todo)]
  <2> DEFINE t == wire
  <2>1. /\ wire' \in Seq(Items) /\ todo' \in Seq(Items)
        /\ wire' \o todo' = t \o todo
        /\ Len(wire') = Len(t) + Waits(todo)
        /\ Len(todo') = Len(todo) - Waits(todo)
        /\ \A n \in Len(t) + 1 .. Len(wire') : wire'[n] = todo[n - Len(t)]
        /\ \A n \in 1 .. Len(todo') : todo'[n] = todo[n + Waits(todo)]
    BY <1>1, Sending, Zenon
  <2>2. Waits(todo) \in 1 .. Len(todo)
    BY <1>1, WaitsWhere
  <2>3. \A n \in 1 .. Len(wire') : wire'[n] = todo[n]
    BY <1>1, <2>1, <2>2
  <2>4. Len(wire') = Waits(todo)
    BY <1>1, <2>1, <2>2
  <2>5. stream' = stream
    BY <2>1 DEF stream
  <2> QED
    BY <2>1, <2>3, <2>4, <2>5
<1>5. StreamType'
  BY <1>1, <1>4 DEF StreamType
<1>6. WordsInv'
  <2> SUFFICES ASSUME NEW n \in 1 .. Len(stream') PROVE KnownHere(n)'
    BY DEF WordsInv
  <2>1. KnownHere(n)
    BY <1>4 DEF WordsInv
  <2> QED
    BY <1>1, <1>2, <1>4, <2>1 DEF KnownHere, Known
<1>7. EndsInv'
  <2>1. ~SyncEnd(todo[Len(todo)]) /\ todo[Len(todo)].word # "data"
    BY <1>1 DEF EndsInv
  <2>2. \A n \in 1 .. Len(todo) : SyncEnd(todo[n]) => Imap
    BY <1>3 DEF WordsInv, KnownHere, Known
  <2>3. \A n \in 1 .. Len(wire) : ~SyncEnd(wire[n]) /\ (wire[n].word = "data" => n < Len(wire))
    BY <1>1
  <2>4. /\ \A n \in 1 .. Len(wire') : SyncEnd(wire'[n]) => n = Len(wire') /\ todo' # <<>>
        /\ \A n \in 1 .. Len(wire') : wire'[n].word = "data" => n < Len(wire')
        /\ todo' # <<>> => Imap /\ ~SyncEnd(todo'[Len(todo')]) /\ todo'[Len(todo')].word # "data"
    BY <1>1, <2>1, <2>2, <2>3, SendingEnds, Zenon
  <2> QED
    BY <1>1, <1>2, <2>4 DEF EndsInv
<1>8. ShapeInv'
  BY <1>1, <1>4 DEF ShapeInv
<1>9. SieveInv'
  <2> SUFFICES ASSUME Sieve, Steady, pc \notin Dead, NEW n \in 1 .. Len(stream') PROVE LedHere(n)'
    BY <1>1, <1>2 DEF SieveInv
  <2>1. LedHere(n)
    BY <1>4 DEF SieveInv
  <2> QED
    BY <1>1, <1>4, <2>1 DEF LedHere
<1>10. CreditInv'
  BY <1>1, <1>2, <1>4 DEF CreditInv
<1>11. EncInv'
  <2>1. io = "ssl" => \A n \in 1 .. Len(todo) : todo[n].enc
    BY <1>1 DEF EncInv
  <2>2. Waits(todo) \in 1 .. Len(todo)
    BY <1>1, WaitsWhere
  <2>3. io' = "ssl" => \A n \in 1 .. Len(wire') : wire'[n].enc
    BY <1>1, <1>4, <2>1, <2>2
  <2>4. io' = "ssl" => \A n \in 1 .. Len(todo') : todo'[n].enc
    <3> SUFFICES ASSUME io = "ssl", NEW n \in 1 .. Len(todo') PROVE todo'[n].enc
      BY <1>1
    <3>1. n + Waits(todo) \in 1 .. Len(todo)
      BY <1>4, <2>2
    <3> QED
      BY <1>4, <2>1, <3>1
  <2>5. pc \notin {"starttls", "handshake"}
    BY <1>1 DEF EncInv
  <2> QED
    BY <1>1, <2>3, <2>4, <2>5 DEF EncInv
<1> QED
  BY <1>5, <1>6, <1>7, <1>8, <1>9, <1>10, <1>11

\* The client sends a command.
LEMMA CommandKeeps == ASSUME TypeOK, WireInv, Command PROVE WireInv'
<1> USE DEF WireInv
<1>1. PICK s \in Commands :
        Send(s) /\ asked' = IF s[1].word = "badtag" THEN asked ELSE asked + 1
  BY Zenon DEF Command
<1>2. /\ todo = <<>> /\ pc # "handshake"
      /\ UNCHANGED <<proto, pc, io, cont, flushed, answered>>
  BY DEF Command, setting, link
<1>3. (Pop' <=> Pop) /\ (Imap' <=> Imap) /\ (Sieve' <=> Sieve) /\ (Steady' <=> Steady)
        /\ Busy' = Busy
  BY <1>2 DEF Pop, Imap, Sieve, Steady, AllRead, Busy
<1>4. Sent(s)
  BY CommandsSent
<1>5. /\ s \in Seq(Items) /\ s # <<>> /\ Shape(s)
      /\ \A n \in 1 .. Len(s) : s[n].word # "junk" /\ Known(s[n]) /\ (s[n].enc <=> io = "ssl")
      /\ Count(s) = IF s[1].word = "badtag" THEN 0 ELSE 1
      /\ ~SyncEnd(s[Len(s)]) /\ s[Len(s)].word # "data"
  BY <1>4, Zenon DEF Sent, IsCommand
<1>6. /\ wire \in Seq(Items) /\ Len(wire) \in Nat /\ stream = wire /\ ~cont
      /\ asked \in Nat /\ answered \in Nat /\ flushed \in BOOLEAN
  <2>1. wire \in Seq(Items) /\ asked \in Nat /\ answered \in Nat /\ flushed \in BOOLEAN
    BY DEF StreamType
  <2>2. wire \o <<>> = wire
    BY <2>1
  <2> QED
    BY <1>2, <2>1, <2>2 DEF stream, EndsInv
<1> DEFINE t == wire
<1>7. /\ wire' \in Seq(Items) /\ todo' \in Seq(Items)
      /\ wire' \o todo' = t \o s
      /\ Len(wire') = Len(t) + Waits(s)
      /\ Len(todo') = Len(s) - Waits(s)
      /\ \A n \in 1 .. Len(t) : wire'[n] = t[n]
      /\ \A n \in Len(t) + 1 .. Len(wire') : wire'[n] = s[n - Len(t)]
      /\ \A n \in 1 .. Len(todo') : todo'[n] = s[n + Waits(s)]
  BY <1>1, <1>5, <1>6, Sending, Zenon
<1>8. Waits(s) \in 1 .. Len(s) /\ Len(s) \in Nat
  BY <1>5, WaitsWhere
<1>9. /\ stream' = wire \o s /\ stream' \in Seq(Items)
      /\ Len(stream') = Len(wire) + Len(s)
      /\ \A n \in 1 .. Len(wire) : stream'[n] = wire[n]
      /\ \A n \in Len(wire) + 1 .. Len(wire) + Len(s) : stream'[n] = s[n - Len(wire)]
  <2>1. stream' = wire \o s
    BY <1>7 DEF stream
  <2>2. /\ wire \o s \in Seq(Items)
        /\ Len(wire \o s) = Len(wire) + Len(s)
        /\ \A n \in 1 .. Len(wire) : (wire \o s)[n] = wire[n]
        /\ \A n \in Len(wire) + 1 .. Len(wire) + Len(s) : (wire \o s)[n] = s[n - Len(wire)]
    BY <1>5, <1>6, ConcatElements, Zenon
  <2> QED
    BY <2>1, <2>2, Zenon
\* a line of the stream is an old one or one of the command
<1>10. ASSUME NEW n \in 1 .. Len(stream')
       PROVE  \/ n \in 1 .. Len(wire) /\ n \in 1 .. Len(stream) /\ stream'[n] = stream[n]
              \/ /\ n > Len(wire) /\ n - Len(wire) \in 1 .. Len(s)
                 /\ stream'[n] = s[n - Len(wire)]
  <2>1. n \in 1 .. Len(wire) \/ n \in Len(wire) + 1 .. Len(wire) + Len(s)
    BY <1>6, <1>8, <1>9
  <2>2. n \in Len(wire) + 1 .. Len(wire) + Len(s) =>
          n > Len(wire) /\ n - Len(wire) \in 1 .. Len(s)
    BY <1>6, <1>8
  <2> QED
    BY <1>6, <1>9, <2>1, <2>2, Zenon
<1>11. StreamType'
  BY <1>1, <1>2, <1>6, <1>7 DEF StreamType
<1>12. WordsInv'
  <2> SUFFICES ASSUME NEW n \in 1 .. Len(stream') PROVE KnownHere(n)'
    BY DEF WordsInv
  <2>1. CASE n \in 1 .. Len(stream) /\ stream'[n] = stream[n]
    <3>1. KnownHere(n)
      BY <2>1 DEF WordsInv
    <3> QED
      BY <1>2, <1>3, <2>1, <3>1 DEF KnownHere, Known
  <2>2. CASE n - Len(wire) \in 1 .. Len(s) /\ stream'[n] = s[n - Len(wire)]
    <3>1. Known(s[n - Len(wire)]) /\ s[n - Len(wire)].word # "junk"
      BY <1>5, <2>2, Zenon
    <3>2. Known(stream'[n]) /\ stream'[n].word # "junk"
      BY <2>2, <3>1, Zenon
    <3> QED
      BY <1>3, <3>2 DEF KnownHere, Known
  <2> QED
    BY <1>10, <2>1, <2>2
<1>13. EndsInv'
  <2>1. \A n \in 1 .. Len(s) : SyncEnd(s[n]) => Imap
    BY <1>5 DEF Known
  <2>2. \A n \in 1 .. Len(wire) : ~SyncEnd(wire[n]) /\ (wire[n].word = "data" => n < Len(wire))
    BY <1>2 DEF EndsInv
  <2>3. /\ \A n \in 1 .. Len(wire') : SyncEnd(wire'[n]) => n = Len(wire') /\ todo' # <<>>
        /\ \A n \in 1 .. Len(wire') : wire'[n].word = "data" => n < Len(wire')
        /\ todo' # <<>> => Imap /\ ~SyncEnd(todo'[Len(todo')]) /\ todo'[Len(todo')].word # "data"
    BY <1>1, <1>5, <1>6, <2>1, <2>2, SendingEnds, Zenon
  <2> QED
    BY <1>2, <1>3, <1>6, <2>3 DEF EndsInv
<1>14. ShapeInv'
  <2>1. Shape(stream')
    <3>1. Shape(wire)
      BY <1>6 DEF ShapeInv
    <3>2. Shape(wire \o s)
      BY <1>5, <1>6, <3>1, ShapeConcat, Zenon
    <3> QED
      BY <1>9, <3>2
  <2>2. \A n \in 1 .. Len(stream) : n \in 1 .. Len(stream') /\ stream'[n] = stream[n]
    BY <1>6, <1>8, <1>9
  <2>3. Len(stream) \in Nat /\ Len(stream) <= Len(stream') /\ Len(stream') \in Nat
    BY <1>6, <1>8, <1>9
  <2>4. pc \in {"name", "late"} =>
          2 <= Len(stream') /\ stream'[1].word = "data" /\ Piece(stream'[2])
    BY <2>2, <2>3 DEF ShapeInv
  <2>5. pc = "space" => 1 <= Len(stream') /\ Piece(stream'[1])
    BY <2>2, <2>3 DEF ShapeInv
  <2>6. pc \in {"challenge", "noop"} =>
          2 <= Len(stream') /\ stream'[1].word = "data" /\ stream'[2].word = "rest"
    BY <2>2, <2>3 DEF ShapeInv
  <2> QED
    BY <1>2, <2>1, <2>4, <2>5, <2>6 DEF ShapeInv
<1>15. SieveInv'
  <2> SUFFICES ASSUME Sieve, Steady, pc \notin Dead, NEW n \in 1 .. Len(stream') PROVE LedHere(n)'
    BY <1>2, <1>3 DEF SieveInv
  <2>1. CASE n \in 1 .. Len(wire) /\ n \in 1 .. Len(stream) /\ stream'[n] = stream[n]
    <3>1. LedHere(n)
      BY <2>1 DEF SieveInv
    <3>2. n > 1 => stream'[n - 1] = stream[n - 1]
      <4>1. n > 1 => n - 1 \in 1 .. Len(wire)
        BY <1>6, <2>1
      <4> QED
        BY <1>6, <1>9, <4>1, Zenon
    <3> QED
      BY <1>2, <2>1, <3>1, <3>2 DEF LedHere
  <2>2. CASE n > Len(wire) /\ n - Len(wire) \in 1 .. Len(s) /\ stream'[n] = s[n - Len(wire)]
    <3> DEFINE m == n - Len(wire)
    <3>1. Led(s, m)
      BY <1>4, <2>2 DEF Sent, Steady
    <3>2. m > 1 => n > 1 /\ stream'[n - 1] = s[m - 1]
      <4>1. m > 1 => n > 1 /\ n - 1 \in Len(wire) + 1 .. Len(wire) + Len(s)
                       /\ (n - 1) - Len(wire) = m - 1
        BY <1>6, <1>8, <2>2
      <4> HIDE DEF m
      <4>2. m > 1 => stream'[n - 1] = s[(n - 1) - Len(wire)]
        BY <1>9, <4>1, Zenon
      <4> QED
        BY <4>1, <4>2, Zenon
    <3>3. stream'[n] = s[m]
      BY <2>2
    <3> HIDE DEF m
    <3> QED
      BY <3>1, <3>2, <3>3 DEF LedHere, Led
  <2> QED
    BY <1>10, <2>1, <2>2
<1>16. CreditInv'
  <2> SUFFICES ASSUME Imap \/ Steady PROVE answered' + Busy' + Count(stream') <= asked'
    BY <1>3 DEF CreditInv
  <2>1. answered + Busy + Count(wire) <= asked
    BY <1>6 DEF CreditInv
  <2>2. Count(stream') = Count(wire) + Count(s)
    BY <1>5, <1>6, <1>9, CountConcat, Zenon
  <2>3. Count(wire) \in Nat /\ Busy \in Int
    <3>1. Busy \in Int
      BY BusyRange, Zenon
    <3> QED
      BY <1>6, <3>1, CountIsNat, Zenon
  <2> DEFINE c == Count(wire)
             d == Count(s)
             b == Busy
  <2>4. (d = 0 /\ asked' = asked) \/ (d = 1 /\ asked' = asked + 1)
    BY <1>1, <1>5
  <2>5. /\ c \in Nat /\ b \in Int /\ answered + b + c <= asked
        /\ Count(stream') = c + d /\ answered' = answered /\ Busy' = b
    BY <1>2, <1>3, <2>1, <2>2, <2>3
  <2> HIDE DEF b, c, d
  <2> QED
    BY <1>6, <2>4, <2>5
<1>17. EncInv'
  <2>1. ASSUME io = "ssl", NEW n \in 1 .. Len(wire') PROVE wire'[n].enc
    <3>1. CASE n <= Len(wire)
      <4>1. n \in 1 .. Len(wire)
        BY <1>6, <3>1
      <4>2. wire'[n] = wire[n]
        BY <1>7, <4>1
      <4> QED
        BY <2>1, <4>1, <4>2 DEF EncInv
    <3>2. CASE n > Len(wire)
      <4>1. n \in Len(wire) + 1 .. Len(wire') /\ n - Len(wire) \in 1 .. Len(s)
        BY <1>6, <1>7, <1>8, <3>2
      <4>2. wire'[n] = s[n - Len(wire)]
        BY <1>7, <4>1
      <4> QED
        BY <1>5, <2>1, <4>1, <4>2
    <3>3. n <= Len(wire) \/ n > Len(wire)
      BY <1>6
    <3> QED
      BY <3>1, <3>2, <3>3, Zenon
  <2>2. ASSUME io = "ssl", NEW n \in 1 .. Len(todo') PROVE todo'[n].enc
    <3>1. n + Waits(s) \in 1 .. Len(s)
      BY <1>7, <1>8
    <3>2. todo'[n] = s[n + Waits(s)]
      BY <1>7
    <3> QED
      BY <1>5, <2>2, <3>1, <3>2
  <2> QED
    BY <1>2, <1>6, <2>1, <2>2 DEF EncInv
<1> QED
  BY <1>11, <1>12, <1>13, <1>14, <1>15, <1>16, <1>17

-----------------------------------------------------------------------------
(* Nobody is made to wait.                                                 *)

\* Nobody is made to wait by a step that reads something.
LEMMA EffectWaits ==
  ASSUME WireInv, WaitInv, NEW k, Effect(k) PROVE WaitInv'
<1> USE DEF WireInv, WaitInv
<1>1. /\ k \in 0 .. Len(stream) /\ k \in 0 .. Len(wire)
      /\ stream' \in Seq(Items) /\ wire' \in Seq(Items) /\ todo' \in Seq(Items)
      /\ Len(wire') = Len(wire) - k /\ Len(stream') \in Nat /\ Len(wire) \in Nat
      /\ Len(stream') <= Len(stream) - k /\ Len(stream) \in Nat
      /\ \A n \in 1 .. Len(wire') : wire'[n] = wire[n + k]
      /\ \A n \in 1 .. Len(stream') : stream'[n] = stream[n + k]
      /\ Unanswered => Len(stream') = Len(stream) - k
      /\ \/ todo' = todo
         \/ /\ todo' = <<>> /\ ~cont /\ cont' = cont
            /\ \A n \in 1 .. Len(wire') : ~SyncEnd(wire'[n])
  BY EffectOutcome
<1>2. /\ UNCHANGED <<proto, io, asked, flushed>> /\ k \in 0 .. 2
      /\ cont' = cont \/ cont' = TRUE
      /\ todo' # todo => Answered /\ answered' = asked /\ todo # <<>> /\ todo' = <<>>
  BY DEF Effect, Unanswered, Answered
<1>3. (Imap' <=> Imap) /\ (Sieve' <=> Sieve)
  BY <1>2 DEF Imap, Sieve
<1>4. Sure' => Sure /\ Steady /\ EffectSure(k)
  BY <1>2 DEF Effect, Sure, Steady, AllRead, Common
<1>5. WireInv'
  BY EffectKeeps
<1>6. /\ wire \in Seq(Items) /\ todo \in Seq(Items) /\ Len(todo) \in Nat
      /\ stream = wire \o todo /\ stream \in Seq(Items)
      /\ Len(stream) = Len(wire) + Len(todo)
      /\ \A n \in 1 .. Len(wire) : stream[n] = wire[n]
      /\ answered \in Nat /\ asked \in Nat /\ cont \in BOOLEAN
  BY ConcatElements DEF StreamType, stream
<1>7. wire' # <<>> => /\ Len(wire') \in 1 .. Len(wire') /\ Len(wire') + k = Len(wire)
                      /\ wire'[Len(wire')] = wire[Len(wire)] /\ wire # <<>>
  <2> SUFFICES ASSUME wire' # <<>>
      PROVE  /\ Len(wire') \in 1 .. Len(wire') /\ Len(wire') + k = Len(wire)
             /\ wire'[Len(wire')] = wire[Len(wire)] /\ wire # <<>>
    OBVIOUS
  <2>1. Len(wire') \in 1 .. Len(wire')
    BY <1>1
  <2>2. Len(wire') + k = Len(wire) /\ Len(wire) > 0
    BY <1>1, <2>1
  <2>3. wire'[Len(wire')] = wire[Len(wire') + k]
    BY <1>1, <2>1
  <2>4. wire # <<>>
    BY <2>2
  <2> QED
    BY <2>1, <2>2, <2>3, <2>4, Zenon
\* the client gives up what it held back after the last line only
<1>8. Sure' => Len(stream') = Len(stream) - k \/ Len(stream') = 0
  <2> SUFFICES ASSUME Sure' PROVE Len(stream') = Len(stream) - k \/ Len(stream') = 0
    OBVIOUS
  <2>1. CASE todo' = todo
    <3>1. Len(wire' \o todo) = Len(wire') + Len(todo)
      BY <1>1, <1>6, ConcatElements, Zenon
    <3>2. Len(stream') = (Len(wire) - k) + Len(todo)
      BY <1>1, <2>1, <3>1 DEF stream
    <3> QED
      BY <1>1, <1>6, <3>2
  <2>2. CASE todo' # todo
    <3>1. todo # <<>> /\ todo' = <<>> /\ ~cont /\ \A n \in 1 .. Len(wire') : ~SyncEnd(wire'[n])
      BY <1>1, <1>2, <2>2
    <3>2. SyncEnd(wire[Len(wire)])
      BY <1>4, <3>1 DEF SyncInv
    <3>3. wire' = <<>>
      BY <1>7, <3>1, <3>2
    <3>4. stream' = <<>>
      BY <3>1, <3>3 DEF stream
    <3> QED
      BY <3>4
  <2> QED
    BY <2>1, <2>2
<1>9. TameInv'
  <2>1. ASSUME Sieve, NEW n \in 1 .. Len(stream') PROVE Tame(stream'[n])
    <3>1. n + k \in 1 .. Len(stream)
      BY <1>1
    <3>2. Tame(stream[n + k])
      BY <2>1, <3>1 DEF TameInv
    <3> QED
      BY <1>1, <3>2
  <2>2. Sure' => pc' # "noop"
    BY <1>4 DEF EffectSure
  <2> QED
    BY <1>3, <2>1, <2>2 DEF TameInv
<1>10. HeldInv'
  <2>1. CASE todo' = todo
    BY <1>7, <2>1 DEF HeldInv
  <2>2. CASE todo' = <<>>
    <3>1. Count(<<>>) = 0
      <4>1. <<>> \in Seq(Items) /\ \A n \in 1 .. Len(<<>>) : ~Heavy(<<>>[n])
        OBVIOUS
      <4> QED
        BY <4>1, CountNone
    <3>2. Count(todo') = 0
      BY <2>2, <3>1
    <3>3. 0 <= 1
      OBVIOUS
    <3> QED
      BY <3>2, <3>3, Zenon DEF HeldInv
  <2> QED
    BY <1>1, <2>1, <2>2
<1>11. BackInv'
  <2> SUFFICES ASSUME Imap, Sure'
      PROVE  /\ \A n \in 1 .. Len(stream') : BackHere(n)'
             /\ pc' = "password" => stream' # <<>> /\ stream'[1].word = "data"
    BY <1>3 DEF BackInv
  <2>1. \A n \in 1 .. Len(stream) : BackHere(n)
    BY <1>4 DEF BackInv
  <2>2. /\ pc = "name" => k = 1 /\ pc' = "space"
        /\ pc = "space" => k = 1
        /\ k = 1 /\ Split(wire[1]) =>
             pc' = IF wire[1].args[1].content = "empty" THEN "space" ELSE "name"
        /\ k = 2 => wire[1].word = "data"
    BY <1>4 DEF EffectSure
  <2>3. \A m \in 1 .. k : m \in 1 .. Len(wire) /\ wire[m] = stream[m] /\ m \in 1 .. Len(stream)
    BY <1>1, <1>6
  <2>4. k = 2 => ~Split(stream[1]) /\ ~Split(stream[2])
    <3> SUFFICES ASSUME k = 2 PROVE ~Split(stream[1]) /\ ~Split(stream[2])
      OBVIOUS
    <3>1. stream[1].word = "data" /\ 1 \in 1 .. Len(stream)
      BY <2>2, <2>3
    <3>2. stream[2].word = "rest"
      BY <2>1, <3>1 DEF BackHere
    <3> QED
      BY <3>1, <3>2 DEF Split
  <2>5. ASSUME NEW n \in 1 .. Len(stream') PROVE BackHere(n)'
    <3>1. /\ n + k \in 1 .. Len(stream) /\ Len(stream') = Len(stream) - k
          /\ stream'[n] = stream[n + k]
      BY <1>1, <1>8
    <3>2. BackHere(n + k)
      BY <2>1, <3>1
    <3>3. ASSUME n + k < Len(stream)
          PROVE  n < Len(stream') /\ stream'[n + 1] = stream[(n + k) + 1]
      <4>1. /\ n + 1 \in 1 .. Len(stream') /\ (n + 1) + k = (n + k) + 1
            /\ n < Len(stream')
        BY <1>1, <3>1, <3>3
      <4>2. stream'[n + 1] = stream[(n + 1) + k]
        BY <1>1, <4>1, Zenon
      <4> QED
        BY <4>1, <4>2, Zenon
    <3>4. stream'[n].word = "data" => n < Len(stream') /\ stream'[n + 1].word = "rest"
      BY <3>1, <3>2, <3>3, Zenon DEF BackHere
    <3>5. Body1(stream'[n]) => n < Len(stream') /\ stream'[n + 1].word = "data"
      BY <3>1, <3>2, <3>3, Zenon DEF BackHere
    <3>6. ASSUME Piece(stream'[n])
          PROVE  \/ n = 1 /\ pc' = "space"
                 \/ n = 2 /\ pc' = "name"
                 \/ n > 1 /\ Split(stream'[n - 1]) /\ stream'[n - 1].args[1].content = "empty"
                 \/ n > 2 /\ Split(stream'[n - 2]) /\ stream'[n - 2].args[1].content # "empty"
      <4>1. \/ n + k = 1 /\ pc = "space"
            \/ n + k = 2 /\ pc = "name"
            \/ /\ n + k > 1 /\ Split(stream[(n + k) - 1])
               /\ stream[(n + k) - 1].args[1].content = "empty"
            \/ /\ n + k > 2 /\ Split(stream[(n + k) - 2])
               /\ stream[(n + k) - 2].args[1].content # "empty"
        BY <3>1, <3>2, <3>6 DEF BackHere
      <4>2. CASE n + k = 1 /\ pc = "space"
        BY <1>2, <2>2, <4>2
      <4>3. CASE n + k = 2 /\ pc = "name"
        BY <1>2, <2>2, <4>3
      <4>4. CASE /\ n + k > 1 /\ Split(stream[(n + k) - 1])
                 /\ stream[(n + k) - 1].args[1].content = "empty"
        <5>1. CASE n > 1
          <6>1. n - 1 \in 1 .. Len(stream') /\ (n - 1) + k = (n + k) - 1
            BY <1>1, <1>2, <5>1
          <6>2. stream'[n - 1] = stream[(n + k) - 1]
            BY <1>1, <6>1, Zenon
          <6> QED
            BY <4>4, <5>1, <6>2
        <5>2. CASE n = 1
          <6>1. (n + k) - 1 = k /\ k > 0 /\ Split(stream[k]) /\ stream[k].args[1].content = "empty"
            BY <1>2, <4>4, <5>2
          <6>2. k = 1
            BY <1>2, <2>4, <6>1
          <6> QED
            BY <2>2, <2>3, <5>2, <6>1, <6>2
        <5> QED
          BY <5>1, <5>2
      <4>5. CASE /\ n + k > 2 /\ Split(stream[(n + k) - 2])
                 /\ stream[(n + k) - 2].args[1].content # "empty"
        <5>1. CASE n > 2
          <6>1. n - 2 \in 1 .. Len(stream') /\ (n - 2) + k = (n + k) - 2
            BY <1>1, <1>2, <5>1
          <6>2. stream'[n - 2] = stream[(n + k) - 2]
            BY <1>1, <6>1, Zenon
          <6> QED
            BY <4>5, <5>1, <6>2
        <5>2. CASE n = 2
          <6>1. (n + k) - 2 = k /\ k > 0 /\ Split(stream[k]) /\ stream[k].args[1].content # "empty"
            BY <1>2, <4>5, <5>2
          <6>2. k = 1
            BY <1>2, <2>4, <6>1
          <6> QED
            BY <2>2, <2>3, <5>2, <6>1, <6>2
        <5>3. CASE n = 1
          <6>1. k = 2 /\ (n + k) - 2 = 1
            BY <1>2, <4>5, <5>3
          <6> QED
            BY <2>4, <4>5, <6>1
        <5> QED
          BY <5>1, <5>2, <5>3
      <4> QED
        BY <4>1, <4>2, <4>3, <4>4, <4>5
    <3> QED
      BY <3>4, <3>5, <3>6, Zenon DEF BackHere
  <2>6. ASSUME pc' = "password" PROVE stream' # <<>> /\ stream'[1].word = "data"
    <3>1. Unanswered /\ k = 1 /\ Body1(wire[1])
      BY <2>6 DEF Effect
    <3>2. Body1(stream[1]) /\ BackHere(1)
      BY <2>1, <2>3, <3>1
    <3>3. 1 < Len(stream) /\ stream[2].word = "data"
      BY <3>2 DEF BackHere
    <3>4. 1 \in 1 .. Len(stream') /\ stream'[1] = stream[2]
      BY <1>1, <3>1, <3>3
    <3> QED
      BY <3>3, <3>4
  <2> QED
    BY <2>5, <2>6
<1>12. ExactInv'
  <2> SUFFICES ASSUME Sure' PROVE answered' + Busy' + Count(stream') = asked
    BY <1>2 DEF ExactInv
  <2>1. CASE todo' = todo
    <3> DEFINE a == SubSeq(wire, 1, k)
               x == Count(stream)
               y == Count(stream')
               z == Count(a)
               b == Busy
               c == Busy'
    <3>1. x = z + y
      <4>1. Count(wire \o todo) = Count(a) + Count(SubSeq(wire, k + 1, Len(wire)) \o todo)
        <5> DEFINE d == SubSeq(wire, k + 1, Len(wire))
                   u == wire \o todo
                   r == d \o todo
        <5>0. wire \in Seq(Items) /\ todo \in Seq(Items) /\ k \in 0 .. Len(wire)
          BY <1>1, <1>6
        <5>1. /\ r \in Seq(Items) /\ u \in Seq(Items)
              /\ r = SubSeq(u, k + 1, Len(u)) /\ k \in 0 .. Len(u)
              /\ Len(r) = Len(u) - k
              /\ \A n \in 1 .. Len(r) : r[n] = u[n + k]
              /\ Count(u) = Count(SubSeq(wire, 1, k)) + Count(r)
          BY <5>0, DropOfStream, Zenon
        <5> QED
          BY <5>1, Zenon
      <4>2. stream' = SubSeq(wire, k + 1, Len(wire)) \o todo
        BY <2>1 DEF Effect, stream
      <4> QED
        BY <1>6, <4>1, <4>2, Zenon
    <3>2. y \in Nat /\ z \in Nat /\ x \in Nat
      <4>1. a \in Seq(Items)
        BY <1>1, <1>6, TakeElements, Zenon
      <4> QED
        BY <1>1, <1>6, <4>1, CountIsNat, Zenon
    <3>3. b \in Int /\ c \in Int
      BY DEF Busy
    <3>4. answered + b + x = asked /\ (answered' - answered) + c = b + z
      BY <1>4 DEF ExactInv, EffectSure
    <3>5. answered' \in Nat /\ answered \in Nat /\ asked \in Nat
      BY <1>5, <1>6 DEF StreamType
    <3> HIDE DEF x, y, z, b, c
    <3> DEFINE e == answered'
               g == answered
               j == asked
    <3>6. e \in Nat /\ g \in Nat /\ j \in Nat /\ g + b + x = j /\ (e - g) + c = b + z
      BY <3>4, <3>5
    <3> HIDE DEF e, g, j
    <3>7. e + c = g + b + z
      BY <3>2, <3>3, <3>6
    <3>8. e + c + y = j
      BY <3>1, <3>2, <3>3, <3>6, <3>7
    <3> QED
      BY <3>8, Zenon DEF c, y, e, j
  <2>2. CASE todo' # todo
    <3> DEFINE y == Count(stream')
               c == Busy'
    <3>1. answered' = asked /\ todo # <<>>
      BY <1>2, <2>2
    <3>2. Imap
      BY <3>1 DEF EndsInv
    <3>3. answered' + c + y <= asked
      BY <1>2, <1>3, <1>5, <3>2 DEF CreditInv
    <3>4. y \in Nat /\ c \in Nat
      <4>1. pc' # "late"
        BY <2>2 DEF Effect
      <4> QED
        BY <1>1, <4>1, CountIsNat DEF Busy
    <3>5. asked \in Nat
      BY <1>6
    <3> HIDE DEF y, c
    <3>6. asked + c + y <= asked
      BY <3>1, <3>3, Zenon
    <3>7. asked + c + y = asked
      BY <3>4, <3>5, <3>6
    <3> QED
      BY <3>1, <3>7 DEF c, y
  <2> QED
    BY <2>1, <2>2
<1>13. SyncInv'
  <2> SUFFICES ASSUME Sure', todo' # <<>>, ~cont'
      PROVE wire' # <<>> /\ SyncEnd(wire'[Len(wire')])
    BY DEF SyncInv
  <2>1. todo' = todo /\ todo # <<>> /\ ~cont
    BY <1>1, <1>2
  <2>2. wire # <<>> /\ SyncEnd(wire[Len(wire)])
    BY <1>4, <2>1 DEF SyncInv
  <2>3. CASE wire' # <<>>
    BY <1>7, <2>2, <2>3
  <2>4. CASE wire' = <<>>
    <3>1. Len(wire) > 0
      BY <1>1, <2>2
    <3>2. k = Len(wire) /\ k > 0
      <4>1. Len(wire') = 0
        BY <2>4
      <4>2. Len(wire) - k = 0
        BY <1>1, <4>1
      <4> QED
        BY <1>1, <3>1, <4>2
    <3>3. Answered /\ Busy' = 0 /\ Heavy(wire[k])
      BY <1>4, <2>2, <3>2 DEF EffectSure
    <3>4. Count(todo) = 0
      BY <2>2, <3>2, <3>3 DEF HeldInv
    <3>5. stream' = todo
      BY <1>6, <2>1, <2>4 DEF stream
    <3>6. answered' = asked
      <4>1. answered' + Busy' + Count(stream') = asked'
        BY <1>12 DEF ExactInv
      <4>2. answered' + 0 + 0 = asked
        BY <1>2, <3>3, <3>4, <3>5, <4>1, Zenon
      <4>3. answered' \in Nat
        BY <1>5 DEF StreamType
      <4> QED
        BY <4>2, <4>3
    <3>7. todo' = <<>>
      BY <1>2, <2>1, <3>3, <3>6 DEF Answered
    <3> QED
      BY <3>7
  <2> QED
    BY <2>3, <2>4
<1> QED
  BY <1>9, <1>10, <1>11, <1>12, <1>13

\* The waiting of the client when nothing is read and pc is of no concern to it.
LEMMA QuietWaits ==
  ASSUME WireInv, WaitInv, UNCHANGED <<proto, wire, todo, cont, asked, answered>>,
         Busy' = Busy, pc \notin {"name", "space"},
         pc' \notin {"name", "space", "password", "noop"}, Sure' => Sure
  PROVE  WaitInv'
<1> USE DEF WaitInv
<1>1. (Imap' <=> Imap) /\ (Sieve' <=> Sieve) /\ stream' = stream
  BY DEF Imap, Sieve, stream
<1>2. TameInv'
  BY <1>1 DEF TameInv
<1>3. HeldInv'
  BY DEF HeldInv
<1>4. BackInv'
  <2> SUFFICES ASSUME Imap, Sure', NEW n \in 1 .. Len(stream) PROVE BackHere(n)'
    BY <1>1 DEF BackInv
  <2>1. BackHere(n)
    BY DEF BackInv
  <2> QED
    BY <1>1, <2>1, Zenon DEF BackHere
<1>5. SyncInv'
  BY DEF SyncInv
<1>6. ExactInv'
  BY <1>1 DEF ExactInv
<1> QED
  BY <1>2, <1>3, <1>4, <1>5, <1>6

\* The handshake makes nobody wait.
LEMMA HandshakeWaits == ASSUME WireInv, WaitInv, Handshake PROVE WaitInv'
<1>1. /\ pc = "handshake" /\ pc' \in {"start", "exited"}
      /\ UNCHANGED <<proto, wire, todo, asked, answered, cont, flushed, trouble>>
  BY DEF Handshake, setting, client
<1>2. Busy' = Busy /\ (Sure' => Sure)
  BY <1>1 DEF Busy, Sure, Dead, Common
<1> QED
  BY <1>1, <1>2, QuietWaits

\* token_flush() does not make anybody wait: it is called between a reply and a
\* handshake, or for a login that is replied to.
LEMMA FlushWaits == ASSUME WireInv, WaitInv, Decide, pc \in {"starttls", "auth"} PROVE WaitInv'
<1> USE DEF WireInv, WaitInv
<1>1. PICK f \in AfterFlush :
        /\ wire' = f.rest /\ flushed' = (flushed \/ f.rest # wire)
        /\ \/ pc = "starttls" /\ pc' \in {"handshake", "exited"}
           \/ pc = "auth" /\ pc' \in {"refused", "lookup"}
  BY DEF Decide, Flush
<1>2. UNCHANGED <<proto, io, todo, asked, answered, cont, trouble>>
  BY DEF Decide, setting, link
<1>3. Busy' = Busy /\ pc \notin {"name", "space"}
        /\ pc' \notin {"name", "space", "password", "noop"}
  BY <1>1 DEF Busy
<1>4. CASE wire' = wire
  <2>1. Sure' => Sure
    BY <1>1, <1>2 DEF Sure, Dead, Common
  <2> QED
    BY <1>2, <1>3, <1>4, <2>1, QuietWaits
<1>5. CASE wire' # wire
  <2>1. ~Sure'
    BY <1>1, <1>5 DEF Sure
  <2>2. PICK k \in 0 .. Len(wire) :
          /\ wire' \in Seq(Items) /\ Len(wire) \in Nat /\ Len(stream) \in Nat
          /\ Len(wire') = Len(wire) - k
          /\ \A n \in 1 .. Len(wire') : wire'[n] = wire[n + k] \/ Junk(wire'[n])
          /\ Len(stream') = Len(stream) - k
          /\ \A n \in 1 .. Len(stream') : stream'[n] = stream[n + k] \/ Junk(stream'[n])
    <3>1. f.rest = wire' /\ f.rest \o todo = stream'
      BY <1>1, <1>2 DEF stream
    <3> QED
      BY <3>1, FlushOutcome, Zenon
  <2>3. TameInv'
    <3> SUFFICES ASSUME Sieve, NEW n \in 1 .. Len(stream') PROVE Tame(stream'[n])
      BY <1>2, <2>1 DEF TameInv, Sieve
    <3>1. CASE stream'[n] = stream[n + k]
      <4>1. n + k \in 1 .. Len(stream)
        BY <2>2
      <4> QED
        BY <3>1, <4>1 DEF TameInv
    <3>2. CASE Junk(stream'[n])
      <4>1. stream'[n].word = "junk"
        BY <3>2 DEF Junk
      <4> QED
        BY <4>1 DEF Tame, Piece
    <3> QED
      BY <2>2, <3>1, <3>2
  <2>4. HeldInv'
    <3>1. ASSUME wire' # <<>>, SyncEnd(wire'[Len(wire')]), Heavy(wire'[Len(wire')])
          PROVE  Count(todo') = 0
      <4>1. Len(wire') \in 1 .. Len(wire') /\ Len(wire') + k = Len(wire) /\ Len(wire) > 0
        BY <2>2, <3>1
      <4>2. ~Junk(wire'[Len(wire')])
        BY <3>1 DEF Junk, SyncEnd
      <4>3. wire'[Len(wire')] = wire[Len(wire') + k]
        BY <2>2, <4>1, <4>2
      <4>4. wire'[Len(wire')] = wire[Len(wire)] /\ wire # <<>>
        BY <4>1, <4>3
      <4> QED
        BY <1>2, <3>1, <4>4 DEF HeldInv
    <3> QED
      BY <1>2, <3>1 DEF HeldInv
  <2> QED
    BY <2>1, <2>3, <2>4 DEF BackInv, SyncInv, ExactInv
<1> QED
  BY <1>4, <1>5

\* What the client sends ends where it waits, and what it holds back has no weight
\* unless what it sent has none.
LEMMA SendingHolds ==
  ASSUME NEW s \in Seq(Items), s # <<>>, wire \in Seq(Items), Send(s), Count(s) <= 1
  PROVE  /\ Count(todo') <= 1
         /\ wire' # <<>> /\ Heavy(wire'[Len(wire')]) => Count(todo') = 0
         /\ todo' # <<>> => wire' # <<>> /\ SyncEnd(wire'[Len(wire')])
<1> DEFINE t == wire
           w == Waits(s)
           a == SubSeq(s, 1, w)
           b == SubSeq(s, w + 1, Len(s))
<1>1. /\ w \in 1 .. Len(s) /\ w \in 0 .. Len(s) /\ Len(s) \in Nat
      /\ w < Len(s) => SyncEnd(s[w])
  BY WaitsWhere
<1>2. /\ wire' \in Seq(Items) /\ todo' \in Seq(Items)
      /\ Len(wire') = Len(t) + w /\ Len(todo') = Len(s) - w
      /\ \A n \in Len(t) + 1 .. Len(wire') : wire'[n] = s[n - Len(t)]
  BY Sending, Zenon
<1>3. todo' = b
  BY Zenon DEF Send
<1>4. Len(t) \in Nat
  OBVIOUS
<1> HIDE DEF w
<1>5. Count(s) = Count(a) + Count(b) /\ Count(a) \in Nat /\ Count(b) \in Nat
  BY <1>1, CountDrop, Zenon
<1>6. a \in Seq(Items) /\ Len(a) = w /\ \A n \in 1 .. w : a[n] = s[n]
  BY <1>1, TakeElements, Zenon
<1>7. wire'[Len(wire')] = s[w] /\ wire' # <<>> /\ w \in 1 .. w
  <2>1. Len(wire') \in Len(t) + 1 .. Len(wire') /\ Len(wire') - Len(t) = w /\ w \in 1 .. w
    BY <1>1, <1>2, <1>4
  <2>2. wire'[Len(wire')] = s[Len(wire') - Len(t)]
    BY <1>2, <2>1, Zenon
  <2>3. Len(wire') > 0
    BY <1>1, <1>2, <1>4
  <2>4. wire' # <<>>
    BY <2>3
  <2> QED
    BY <2>1, <2>2, <2>4, Zenon
<1>8. Heavy(s[w]) => Count(a) # 0
  BY <1>6, <1>7, CountNone
<1> DEFINE x == Count(a)
           y == Count(b)
           z == Count(s)
<1>9. z = x + y /\ x \in Nat /\ y \in Nat /\ z <= 1 /\ (Heavy(s[w]) => x # 0)
  BY <1>5, <1>8
<1> HIDE DEF x, y, z
<1>10. y <= 1 /\ (Heavy(s[w]) => y = 0)
  BY <1>9
<1>11. Count(todo') <= 1 /\ (Heavy(s[w]) => Count(todo') = 0)
  BY <1>3, <1>10, Zenon DEF y
<1>12. todo' # <<>> => w < Len(s)
  BY <1>1, <1>2
<1> QED
  BY <1>1, <1>7, <1>11, <1>12, Zenon

\* Nor does the client that goes on, it waits for the next continuation request or for the reply.
LEMMA ContinueWaits == ASSUME WireInv, WaitInv, Continue PROVE WaitInv'
<1>1. /\ cont /\ todo # <<>> /\ wire = <<>> /\ Send(todo)
      /\ UNCHANGED <<proto, pc, asked, flushed, answered, trouble>>
      /\ wire \in Seq(Items) /\ todo \in Seq(Items)
  BY DEF Continue, WireInv, EndsInv, StreamType, setting, link, client
<1>2. (Imap' <=> Imap) /\ (Sieve' <=> Sieve) /\ Busy' = Busy /\ (Sure' => Sure)
  BY <1>1 DEF Imap, Sieve, Busy, Sure, Common
<1>3. stream' = stream
  <2> DEFINE t == wire
  <2>1. wire' \o todo' = t \o todo
    BY <1>1, Sending, Zenon
  <2> QED
    BY <2>1 DEF stream
<1>4. TameInv'
  BY <1>1, <1>2, <1>3 DEF WaitInv, TameInv
<1>5. Count(todo) <= 1
  BY DEF WaitInv, HeldInv
<1>6. /\ Count(todo') <= 1
      /\ wire' # <<>> /\ Heavy(wire'[Len(wire')]) => Count(todo') = 0
      /\ todo' # <<>> => wire' # <<>> /\ SyncEnd(wire'[Len(wire')])
  BY <1>1, <1>5, SendingHolds, Zenon
<1>7. HeldInv' /\ SyncInv'
  BY <1>6 DEF HeldInv, SyncInv
<1>8. BackInv'
  <2> SUFFICES ASSUME Imap, Sure
      PROVE  /\ \A n \in 1 .. Len(stream) : BackHere(n)'
             /\ pc = "password" => stream # <<>> /\ stream[1].word = "data"
    BY <1>1, <1>2, <1>3, Zenon DEF BackInv
  <2>1. ASSUME NEW n \in 1 .. Len(stream) PROVE BackHere(n)'
    <3>1. BackHere(n)
      BY DEF WaitInv, BackInv
    <3> QED
      BY <1>1, <1>3, <3>1, Zenon DEF BackHere
  <2> QED
    BY <2>1 DEF WaitInv, BackInv
<1>9. ExactInv'
  BY <1>1, <1>2, <1>3 DEF WaitInv, ExactInv
<1> QED
  BY <1>4, <1>7, <1>8, <1>9 DEF WaitInv

\* Nor does a command: its weight is the reply that it asks for.
LEMMA CommandWaits == ASSUME TypeOK, WireInv, WaitInv, Command PROVE WaitInv'
<1> USE DEF WireInv, WaitInv
<1>1. PICK s \in Commands :
        Send(s) /\ asked' = IF s[1].word = "badtag" THEN asked ELSE asked + 1
  BY Zenon DEF Command
<1>2. /\ todo = <<>> /\ UNCHANGED <<proto, pc, io, cont, flushed, answered, trouble>>
  BY DEF Command, setting, link
<1>3. (Imap' <=> Imap) /\ (Sieve' <=> Sieve) /\ Busy' = Busy /\ (Sure' => Sure)
  BY <1>2 DEF Imap, Sieve, Busy, Sure, Common
<1>4. Sent(s)
  BY CommandsSent
<1>5. /\ s \in Seq(Items) /\ s # <<>> /\ \A n \in 1 .. Len(s) : Behind(s, n)
      /\ Count(s) = IF s[1].word = "badtag" THEN 0 ELSE 1
      /\ Sieve => \A n \in 1 .. Len(s) : Tame(s[n])
  BY <1>4, Zenon DEF Sent, IsCommand
<1>6. /\ wire \in Seq(Items) /\ Len(wire) \in Nat /\ stream = wire
      /\ asked \in Nat /\ answered \in Nat
  <2>1. wire \in Seq(Items) /\ asked \in Nat /\ answered \in Nat
    BY DEF StreamType
  <2>2. wire \o <<>> = wire
    BY <2>1
  <2> QED
    BY <1>2, <2>1, <2>2 DEF stream
<1> DEFINE t == wire
<1>7. wire' \o todo' = t \o s
  BY <1>1, <1>5, <1>6, Sending, Zenon
<1>8. Len(s) \in Nat /\ Len(s) > 0
  BY <1>5
<1>9. /\ stream' = wire \o s /\ stream' \in Seq(Items)
      /\ Len(stream') = Len(wire) + Len(s)
      /\ \A n \in 1 .. Len(wire) : stream'[n] = wire[n]
      /\ \A n \in Len(wire) + 1 .. Len(wire) + Len(s) : stream'[n] = s[n - Len(wire)]
  <2>1. stream' = wire \o s
    BY <1>7 DEF stream
  <2>2. /\ wire \o s \in Seq(Items)
        /\ Len(wire \o s) = Len(wire) + Len(s)
        /\ \A n \in 1 .. Len(wire) : (wire \o s)[n] = wire[n]
        /\ \A n \in Len(wire) + 1 .. Len(wire) + Len(s) : (wire \o s)[n] = s[n - Len(wire)]
    BY <1>5, <1>6, ConcatElements, Zenon
  <2> QED
    BY <2>1, <2>2, Zenon
<1>10. ASSUME NEW n \in 1 .. Len(stream')
       PROVE  \/ n \in 1 .. Len(wire) /\ stream'[n] = wire[n]
              \/ /\ n \in Len(wire) + 1 .. Len(wire) + Len(s)
                 /\ n - Len(wire) \in 1 .. Len(s) /\ stream'[n] = s[n - Len(wire)]
  <2>1. n \in 1 .. Len(wire) \/ n \in Len(wire) + 1 .. Len(wire) + Len(s)
    BY <1>6, <1>8, <1>9
  <2>2. n \in Len(wire) + 1 .. Len(wire) + Len(s) => n - Len(wire) \in 1 .. Len(s)
    BY <1>6, <1>8
  <2> QED
    BY <1>6, <1>9, <2>1, <2>2, Zenon
<1>11. TameInv'
  <2>1. ASSUME Sieve, NEW n \in 1 .. Len(stream') PROVE Tame(stream'[n])
    <3>1. CASE n \in 1 .. Len(wire) /\ stream'[n] = wire[n]
      BY <1>6, <2>1, <3>1 DEF TameInv
    <3>2. CASE n - Len(wire) \in 1 .. Len(s) /\ stream'[n] = s[n - Len(wire)]
      BY <1>5, <2>1, <3>2, Zenon
    <3> QED
      BY <1>10, <3>1, <3>2
  <2> QED
    BY <1>2, <1>3, <2>1 DEF TameInv
<1>12. HeldInv' /\ SyncInv'
  <2>1. Count(s) <= 1
    BY <1>5
  <2>2. /\ Count(todo') <= 1
        /\ wire' # <<>> /\ Heavy(wire'[Len(wire')]) => Count(todo') = 0
        /\ todo' # <<>> => wire' # <<>> /\ SyncEnd(wire'[Len(wire')])
    BY <1>1, <1>5, <1>6, <2>1, SendingHolds, Zenon
  <2> QED
    BY <2>2 DEF HeldInv, SyncInv
<1>13. BackInv'
  <2> SUFFICES ASSUME Imap, Sure
      PROVE  /\ \A n \in 1 .. Len(stream') : BackHere(n)'
             /\ pc = "password" => stream' # <<>> /\ stream'[1].word = "data"
    BY <1>2, <1>3, Zenon DEF BackInv
  <2>1. ASSUME NEW n \in 1 .. Len(wire) PROVE BackHere(n)'
    <3>1. BackHere(n) /\ stream'[n] = stream[n]
      BY <1>6, <1>9 DEF BackInv
    <3>2. n > 1 => stream'[n - 1] = stream[n - 1]
      <4>1. n > 1 => n - 1 \in 1 .. Len(wire)
        BY <1>6
      <4> QED
        BY <1>6, <1>9, <4>1, Zenon
    <3>3. n > 2 => stream'[n - 2] = stream[n - 2]
      <4>1. n > 2 => n - 2 \in 1 .. Len(wire)
        BY <1>6
      <4> QED
        BY <1>6, <1>9, <4>1, Zenon
    <3>4. n < Len(stream) => n < Len(stream') /\ stream'[n + 1] = stream[n + 1]
      <4>1. n < Len(stream) => n < Len(stream') /\ n + 1 \in 1 .. Len(wire)
        BY <1>6, <1>8, <1>9
      <4> QED
        BY <1>6, <1>9, <4>1, Zenon
    <3> QED
      BY <1>2, <3>1, <3>2, <3>3, <3>4, Zenon DEF BackHere
  <2>2. ASSUME NEW n \in Len(wire) + 1 .. Len(wire) + Len(s), n - Len(wire) \in 1 .. Len(s)
        PROVE  BackHere(n)'
    <3> DEFINE m == n - Len(wire)
    <3>1. Behind(s, m) /\ stream'[n] = s[m]
      BY <1>5, <1>9, <2>2
    <3>2. m > 1 => n > 1 /\ stream'[n - 1] = s[m - 1]
      <4>1. m > 1 => n > 1 /\ n - 1 \in Len(wire) + 1 .. Len(wire) + Len(s)
                       /\ (n - 1) - Len(wire) = m - 1
        BY <1>6, <1>8, <2>2
      <4> HIDE DEF m
      <4>2. m > 1 => stream'[n - 1] = s[(n - 1) - Len(wire)]
        BY <1>9, <4>1, Zenon
      <4> QED
        BY <4>1, <4>2, Zenon
    <3>3. m > 2 => n > 2 /\ stream'[n - 2] = s[m - 2]
      <4>1. m > 2 => n > 2 /\ n - 2 \in Len(wire) + 1 .. Len(wire) + Len(s)
                       /\ (n - 2) - Len(wire) = m - 2
        BY <1>6, <1>8, <2>2
      <4> HIDE DEF m
      <4>2. m > 2 => stream'[n - 2] = s[(n - 2) - Len(wire)]
        BY <1>9, <4>1, Zenon
      <4> QED
        BY <4>1, <4>2, Zenon
    <3>4. m < Len(s) => n < Len(stream') /\ stream'[n + 1] = s[m + 1]
      <4>1. m < Len(s) => n < Len(stream') /\ n + 1 \in Len(wire) + 1 .. Len(wire) + Len(s)
                            /\ (n + 1) - Len(wire) = m + 1
        BY <1>6, <1>8, <1>9, <2>2
      <4> HIDE DEF m
      <4>2. m < Len(s) => stream'[n + 1] = s[(n + 1) - Len(wire)]
        BY <1>9, <4>1, Zenon
      <4> QED
        BY <4>1, <4>2, Zenon
    <3> HIDE DEF m
    <3> QED
      BY <3>1, <3>2, <3>3, <3>4, Zenon DEF BackHere, Behind
  <2>3. pc = "password" => stream' # <<>> /\ stream'[1].word = "data"
    <3> SUFFICES ASSUME pc = "password" PROVE stream' # <<>> /\ stream'[1].word = "data"
      OBVIOUS
    <3>1. stream # <<>> /\ stream[1].word = "data"
      BY DEF BackInv
    <3>2. 1 \in 1 .. Len(wire)
      BY <1>6, <3>1
    <3>3. stream'[1] = stream[1] /\ Len(stream') > 0
      BY <1>6, <1>8, <1>9, <3>2
    <3>4. stream' # <<>>
      BY <3>3
    <3> QED
      BY <3>1, <3>3, <3>4, Zenon
  <2> QED
    BY <1>10, <2>1, <2>2, <2>3
<1>14. ExactInv'
  <2> SUFFICES ASSUME Sure PROVE answered' + Busy' + Count(stream') = asked'
    BY <1>3 DEF ExactInv
  <2>1. answered + Busy + Count(wire) = asked
    BY <1>6 DEF ExactInv
  <2>2. Count(stream') = Count(wire) + Count(s)
    BY <1>5, <1>6, <1>9, CountConcat, Zenon
  <2>3. Count(wire) \in Nat /\ Busy \in Int
    <3>1. Busy \in Int
      BY BusyRange, Zenon
    <3> QED
      BY <1>6, <3>1, CountIsNat, Zenon
  <2> DEFINE c == Count(wire)
             d == Count(s)
             b == Busy
  <2>4. (d = 0 /\ asked' = asked) \/ (d = 1 /\ asked' = asked + 1)
    BY <1>1, <1>5
  <2>5. /\ c \in Nat /\ b \in Int /\ answered + b + c = asked
        /\ Count(stream') = c + d /\ answered' = answered /\ Busy' = b
    BY <1>2, <1>3, <2>1, <2>2, <2>3
  <2> HIDE DEF b, c, d
  <2> QED
    BY <1>6, <2>4, <2>5
<1> QED
  BY <1>11, <1>12, <1>13, <1>14

-----------------------------------------------------------------------------
(* The two together.                                                       *)

\* What is on its way, initially.
LEMMA WireInit == Init => WireInv
<1> SUFFICES ASSUME Init PROVE WireInv
  OBVIOUS
<1>1. /\ wire = <<>> /\ todo = <<>> /\ cont = FALSE /\ asked = 0 /\ answered = 0
      /\ flushed = FALSE /\ pc = "greeting"
  BY DEF Init
<1>2. stream = <<>> /\ <<>> \in Seq(Items) /\ Len(<<>>) = 0
  BY <1>1 DEF stream
<1>3. Count(stream) = 0
  <2>1. \A n \in 1 .. Len(<<>>) : ~Heavy(<<>>[n])
    BY <1>2
  <2> QED
    BY <1>2, <2>1, CountNone
<1>4. Busy = 0
  BY <1>1 DEF Busy
<1>5. CreditInv
  BY <1>1, <1>3, <1>4 DEF CreditInv
<1>6. Shape(stream)
  BY <1>2 DEF Shape
<1>7. Len(stream) = 0 /\ Len(wire) = 0
  BY <1>1, <1>2
<1>8. StreamType /\ EndsInv /\ EncInv
  <2>1. StreamType
    BY <1>1, <1>2 DEF StreamType
  <2>2. EndsInv
    BY <1>1, <1>7 DEF EndsInv
  <2>3. EncInv
    <3>1. \A n \in 1 .. Len(wire) : wire[n].enc
      BY <1>7
    <3> QED
      BY <1>1, <3>1, Zenon DEF EncInv
  <2> QED
    BY <2>1, <2>2, <2>3
<1>9. WordsInv /\ SieveInv
  BY <1>7 DEF WordsInv, SieveInv
<1>10. ShapeInv
  BY <1>1, <1>6 DEF ShapeInv
<1> QED
  BY <1>5, <1>8, <1>9, <1>10 DEF WireInv

\* Every step keeps what is on its way in order ...
LEMMA WireStep == IInv /\ WireInv /\ WaitInv /\ [Next]_vars => WireInv'
<1> SUFFICES ASSUME IInv, WireInv, WaitInv, [Next]_vars PROVE WireInv'
  OBVIOUS
<1>1. CASE Command
  BY <1>1, CommandKeeps DEF IInv
<1>2. CASE Continue
  BY <1>2, ContinueKeeps
<1>3. CASE ReadFails \/ Greeting \/ Start \/ Refuse \/ Serve
  BY <1>3, MainEffect, EffectKeeps
<1>4. CASE Decide
  <2>1. pc \in {"failed", "quit", "starttls", "auth"}
    BY <1>4 DEF Decide
  <2>2. CASE pc \in {"failed", "quit"}
    BY <1>4, <2>2, MainEffect, EffectKeeps
  <2>3. CASE pc \in {"starttls", "auth"}
    BY <1>4, <2>3, FlushKeeps
  <2> QED
    BY <2>1, <2>2, <2>3
<1>5. CASE Handshake
  BY <1>5, HandshakeKeeps
<1>6. CASE PopLine
  BY <1>6, PopEffect, EffectKeeps
<1>7. CASE ImapReads
  BY <1>7, ImapEffect, EffectKeeps
<1>8. CASE SieveLine \/ SieveLiteral
  BY <1>8, SieveEffect, EffectKeeps
<1>9. CASE Ended \/ UNCHANGED vars
  <2>1. UNCHANGED vars
    BY <1>9 DEF Ended
  <2>2. /\ UNCHANGED <<proto, pc, io, wire, todo, cont, asked, answered, flushed>>
        /\ stream' = stream
    BY <2>1 DEF vars, stream
  <2>3. WordsInv' /\ SieveInv'
    BY <2>2 DEF WireInv, WordsInv, SieveInv, KnownHere, LedHere, Known, Pop, Imap, Sieve,
                Steady, AllRead
  <2> QED
    BY <2>2, <2>3 DEF WireInv, StreamType, EndsInv, ShapeInv, CreditInv, EncInv, Imap, Steady,
                AllRead, Busy
<1> QED
  BY <1>1, <1>2, <1>3, <1>4, <1>5, <1>6, <1>7, <1>8, <1>9 DEF Next, ImapReads

\* Nobody waits, initially.
LEMMA WaitInit == Init => WaitInv
<1> SUFFICES ASSUME Init PROVE WaitInv
  OBVIOUS
<1>1. /\ wire = <<>> /\ todo = <<>> /\ asked = 0 /\ answered = 0 /\ pc = "greeting"
  BY DEF Init
<1>2. stream = <<>> /\ <<>> \in Seq(Items) /\ Len(stream) = 0
  BY <1>1 DEF stream
<1>3. Count(<<>>) = 0
  <2>1. \A n \in 1 .. Len(<<>>) : ~Heavy(<<>>[n])
    BY <1>2
  <2> QED
    BY <1>2, <2>1, CountNone
<1>4. Busy = 0
  BY <1>1 DEF Busy
<1>5. TameInv /\ BackInv
  BY <1>1, <1>2 DEF TameInv, BackInv
<1>6. HeldInv
  <2>1. Count(todo) = 0
    BY <1>1, <1>3
  <2>2. Count(todo) <= 1
    BY <2>1
  <2> QED
    BY <2>1, <2>2 DEF HeldInv
<1>7. SyncInv
  BY <1>1 DEF SyncInv
<1>8. ExactInv
  BY <1>1, <1>2, <1>3, <1>4 DEF ExactInv
<1> QED
  BY <1>5, <1>6, <1>7, <1>8 DEF WaitInv

\* ... and makes nobody wait in vain.
LEMMA WaitStep == IInv /\ WireInv /\ WaitInv /\ [Next]_vars => WaitInv'
<1> SUFFICES ASSUME IInv, WireInv, WaitInv, [Next]_vars PROVE WaitInv'
  OBVIOUS
<1>1. CASE Command
  BY <1>1, CommandWaits DEF IInv
<1>2. CASE Continue
  BY <1>2, ContinueWaits
<1>3. CASE ReadFails \/ Greeting \/ Start \/ Refuse \/ Serve
  BY <1>3, MainEffect, EffectWaits
<1>4. CASE Decide
  <2>1. pc \in {"failed", "quit", "starttls", "auth"}
    BY <1>4 DEF Decide
  <2>2. CASE pc \in {"failed", "quit"}
    BY <1>4, <2>2, MainEffect, EffectWaits
  <2>3. CASE pc \in {"starttls", "auth"}
    BY <1>4, <2>3, FlushWaits
  <2> QED
    BY <2>1, <2>2, <2>3
<1>5. CASE Handshake
  BY <1>5, HandshakeWaits
<1>6. CASE PopLine
  BY <1>6, PopEffect, EffectWaits
<1>7. CASE ImapReads
  BY <1>7, ImapEffect, EffectWaits
<1>8. CASE SieveLine \/ SieveLiteral
  BY <1>8, SieveEffect, EffectWaits
<1>9. CASE Ended \/ UNCHANGED vars
  <2>1. UNCHANGED vars
    BY <1>9 DEF Ended
  <2>2. /\ UNCHANGED <<proto, pc, wire, todo, cont, asked, answered, flushed, trouble>>
        /\ stream' = stream
    BY <2>1 DEF vars, stream
  <2>3. (Imap' <=> Imap) /\ (Sieve' <=> Sieve) /\ (Sure' <=> Sure) /\ Busy' = Busy
    BY <2>2 DEF Imap, Sieve, Sure, Busy, Common
  <2>4. BackInv'
    <3>1. ASSUME Imap, Sure, NEW n \in 1 .. Len(stream) PROVE BackHere(n)'
      <4>1. BackHere(n)
        BY <3>1 DEF WaitInv, BackInv
      <4> QED
        BY <2>2, <4>1, Zenon DEF BackHere
    <3> QED
      BY <2>2, <2>3, <3>1 DEF WaitInv, BackInv
  <2>5. TameInv' /\ HeldInv' /\ SyncInv' /\ ExactInv'
    BY <2>2, <2>3 DEF WaitInv, TameInv, HeldInv, SyncInv, ExactInv
  <2> QED
    BY <2>4, <2>5 DEF WaitInv
<1> QED
  BY <1>1, <1>2, <1>3, <1>4, <1>5, <1>6, <1>7, <1>8, <1>9 DEF Next, ImapReads

-----------------------------------------------------------------------------
\* The invariant holds in every reachable state.
THEOREM Invariance == Spec => []IInv
  BY InitInv, StepInv, PTL DEF Spec

\* Every variable that the invariant constrains keeps its type.
THEOREM TypeCorrect == Spec => []TypeOK
<1>1. IInv => TypeOK
  BY DEF IInv
<1> QED
  BY <1>1, Invariance, PTL

\* The capabilities that a client was told are those that in_get_auth goes by:
\* capability functions and handlers read the same tls_state, and the handshake
\* makes the client forget them.
THEOREM CapabilitiesTrue == Spec => []HonestCapability
<1>1. IInv => HonestCapability
  <2> SUFFICES ASSUME IInv, pc = "line", listed # {"unknown"}, ~failed
      PROVE /\ "STARTTLS" \in listed <=> TlsReady
            /\ "LOGINDISABLED" \in listed => LoginRefused
            /\ Imap /\ LoginRefused /\ ~(disabled /\ tls) => "LOGINDISABLED" \in listed
    BY DEF HonestCapability
  <2>0. (Imap => ~Pop) /\ (Sieve => ~Pop /\ ~Imap)
    BY DEF Pop, Imap, Sieve
  <2>1. listed = Capability(tls)
    BY DEF IInv, ListedInv
  <2>2. TlsReady <=> TlsListen /\ ~tls
    BY DEF IInv, TypeOK, LinkInv, TlsReady, TlsListen
  <2>3. CASE Imap
    <3>1. listed = ImapCapability(tls)
      BY <2>0, <2>1, <2>3, Zenon DEF Capability
    <3> QED
      BY <2>2, <3>1, <2>3 DEF ImapCapability, Starttls, LoginRefused
  <2>4. CASE Pop
    <3>1. listed = Starttls(tls)
      BY <2>0, <2>1, <2>4, Zenon DEF Capability, PopCapability
    <3> QED
      BY <2>2, <3>1, <2>4 DEF Starttls, Pop, Imap
  <2>5. CASE Sieve
    <3>1. listed = Starttls(tls)
      BY <2>0, <2>1, <2>5, Zenon DEF Capability, SieveCapability
    <3> QED
      BY <2>2, <3>1, <2>5 DEF Starttls, Sieve, Imap
  <2> QED
    BY <2>3, <2>4, <2>5 DEF IInv, TypeOK, AllProtos, Pop, Imap, Sieve
<1> QED
  BY <1>1, Invariance, PTL

\* in_get_auth returns 0 with a name and a password only.
THEOREM SeededSuccess == Spec => []SuccessIsSeeded
<1>1. IInv => SuccessIsSeeded
  BY DEF IInv, SeedInv, SuccessIsSeeded
<1> QED
  BY <1>1, Invariance, PTL

\* What is on its way is in order, and nobody waits in vain, in every reachable state.
THEOREM WireInvariance == Spec => [](WireInv /\ WaitInv)
  BY InitInv, StepInv, WireInit, WireStep, WaitInit, WaitStep, PTL DEF Spec

\* While perdition reads, a client that has nothing more on its way has all its replies,
\* or its continuation request: none of the three in_get_auth loops forgets to answer
\* a command that was read, or to ask for a synchronising literal.  Of MANAGESIEVE's
\* commands that perdition does answer.
THEOREM ClientServed == ASSUME Shapes \subseteq {"common"} PROVE Spec => []NobodyWaits
<1>1. IInv /\ WireInv /\ WaitInv => NobodyWaits
  <2> SUFFICES ASSUME IInv, WireInv, WaitInv, pc \in Reading, wire = <<>>, ~trouble, ~flushed
      PROVE  answered >= asked \/ (cont /\ todo # <<>>)
    BY DEF NobodyWaits
  <2>1. Sure
    BY DEF Sure, Common, Reading, Dead
  <2>2. asked \in Nat /\ answered \in Nat /\ todo \in Seq(Items)
    BY DEF WireInv, StreamType
  <2>3. CASE todo # <<>>
    BY <2>1, <2>3 DEF WaitInv, SyncInv
  <2>4. CASE todo = <<>>
    <3>1. stream = <<>> /\ <<>> \in Seq(Items) /\ Len(stream) = 0
      BY <2>4 DEF stream
    <3>2. Count(stream) = 0
      <4>1. \A n \in 1 .. Len(<<>>) : ~Heavy(<<>>[n])
        BY <3>1
      <4> QED
        BY <3>1, <4>1, CountNone
    <3>3. pc # "noop"
      BY <2>1 DEF WaitInv, TameInv
    <3>4. pc # "challenge"
      BY <3>1 DEF WireInv, ShapeInv
    <3>5. pc # "password"
      <4>1. pc = "password" => Imap
        BY DEF IInv, PlaceInv
      <4> QED
        BY <2>1, <3>1, <4>1 DEF WaitInv, BackInv
    <3>6. Busy = 0
      BY <3>3, <3>4, <3>5 DEF Busy, Reading
    <3>7. answered + 0 + 0 = asked
      BY <2>1, <3>2, <3>6 DEF WaitInv, ExactInv
    <3> QED
      BY <2>2, <3>7
  <2> QED
    BY <2>3, <2>4
<1> QED
  BY <1>1, Invariance, WireInvariance, PTL

\* token_flush() comes between in_get_auth and the handshake, and plain text that comes
\* in place of a handshake makes it fail: what is read after it came through it.
THEOREM PlaintextDropped == Spec => []PlaintextNotObeyed
<1>1. WireInv => PlaintextNotObeyed
  BY DEF WireInv, StreamType, EncInv, PlaintextNotObeyed
<1> QED
  BY <1>1, WireInvariance, PTL

\* A command that has its reply before all of it was read still has a piece to read.
LEMMA NothingAhead ==
  ASSUME WireInv, answered + Busy + Count(stream) <= asked
  PROVE  answered <= asked
<1>1. stream \in Seq(Items) /\ answered \in Nat /\ asked \in Nat
  BY ConcatElements DEF WireInv, StreamType, stream
<1> DEFINE c == Count(stream)
           b == Busy
<1>2. c \in Nat /\ Len(stream) \in Nat
  <2>1. c \in Nat
    BY <1>1, CountIsNat, Zenon
  <2>2. Len(stream) \in Nat
    BY <1>1
  <2> QED
    BY <2>1, <2>2
<1>3. b \in Int /\ b >= -1 /\ answered + b + c <= asked
  BY BusyRange, Zenon
<1>4. b = -1 => c # 0
  <2> SUFFICES ASSUME pc = "late" PROVE c # 0
    BY DEF Busy
  <2>1. 2 \in 1 .. Len(stream) /\ Heavy(stream[2])
    BY <1>2 DEF WireInv, ShapeInv, Heavy
  <2> QED
    BY <1>1, <2>1, CountNone
<1> HIDE DEF b, c
<1> QED
  BY <1>1, <1>2, <1>3, <1>4

\* No command gets two final replies unless the half of it was dropped: a command that
\* is read in several parts, as lines and as data, is answered after one of them.  Not
\* so if MANAGESIEVE's literals may be left unread.
THEOREM RepliesPaired == ASSUME "unread_literal" \notin Shapes PROVE Spec => []OneReply
<1>1. WireInv => OneReply
  <2> SUFFICES ASSUME WireInv, ~flushed PROVE answered <= asked
    BY DEF OneReply
  <2>1. answered + Busy + Count(stream) <= asked
    BY DEF WireInv, CreditInv, Steady, AllRead
  <2> QED
    BY <2>1, NothingAhead
<1> QED
  BY <1>1, WireInvariance, PTL

\* IMAP4 never has more tagged replies than tagged commands: what is left of a dropped
\* command has no tag, and the line after a refused literal is answered untagged.
THEOREM ImapRepliesPaired == Spec => [](Imap => answered <= asked)
<1>1. WireInv => (Imap => answered <= asked)
  <2> SUFFICES ASSUME WireInv, Imap PROVE answered <= asked
    OBVIOUS
  <2>1. answered + Busy + Count(stream) <= asked
    BY DEF WireInv, CreditInv
  <2> QED
    BY <2>1, NothingAhead
<1> QED
  BY <1>1, WireInvariance, PTL
=============================================================================
