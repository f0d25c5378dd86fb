------------------------------- MODULE Session -------------------------------
(***************************************************************************)
(* One perdition child process: the authentication loop of main() in       *)
(* perdition.c, from the accepted connection to the hand-over to io_pipe   *)
(* or the exit.                                                            *)
(*                                                                         *)
(* The protocol methods (in_get_auth, in_authenticate, out_setup,          *)
(* out_authenticate) are represented by what main() may observe of them:   *)
(* their return status, the credentials they produce, and what they leave  *)
(* in the ONE static token buffer of token.c, which the client's and the   *)
(* real server's connection share.                                         *)
(*                                                                         *)
(* Pointers are numbers: Null, the element of opt.outgoing_server          *)
(* (ArrayObj), opt.outgoing_port (OptPort), and the user_server_port_t     *)
(* that the lookup of login number n allocated (n itself).                 *)
(***************************************************************************)
EXTENDS Integers, FiniteSets

CONSTANTS
  Options,      \* the configurations (records of opt.*) a process may run with
  MaxLogins,    \* bound: login attempts in one session
  MaxPipelined  \* bound: commands or lines one io_read() may deliver

SslModes == {"SSL_LISTEN", "SSL_OUTGOING", "TLS_LISTEN", "TLS_OUTGOING",
             "TLS_LISTEN_FORCE", "TLS_OUTGOING_FORCE"}

\* OPT_SSL_MODE: each *_FORCE keyword sets the plain TLS flag with it.  The
\* SSL/TLS combinations it calls invalid are only logged when they come from
\* the configuration file, so they are not excluded here.
ValidSslMode(m) ==
  /\ "TLS_LISTEN_FORCE" \in m => "TLS_LISTEN" \in m
  /\ "TLS_OUTGOING_FORCE" \in m => "TLS_OUTGOING" \in m

ValidOptions ==
  [ ssl_mode        : {m \in SUBSET SslModes : ValidSslMode(m)},
    login_disabled  : BOOLEAN,
    authenticate_in : BOOLEAN,  \* authenticate locally with PAM first
    map             : BOOLEAN,  \* a map library, or client_server_specification
    outgoing_server : BOOLEAN ] \* default servers are configured

ASSUME OptionsAssumption == Options \subseteq ValidOptions
ASSUME BoundsAssumption == MaxLogins \in Nat /\ MaxPipelined \in Nat

VARIABLES
  opt,          \* the configuration, fixed for the life of the process
  pc,           \* where in main() the process is
  tls_state,    \* flags TLS_LISTEN / TLS_OUTGOING
  client_io,    \* io type of the client's connection: "fd" or "ssl"
  server_io,    \* "null", "fd" or "ssl"
  tokens,       \* token_read_buffer: who sent what is left in it, and how
  login,        \* number of the current or latest login attempt
  auth,         \* the credentials in main()'s struct auth
  usp, servername, port,
  round_robin,  \* round_robin_server, 0 or 1
  heap,         \* user_server_port_t objects that are allocated
  root,         \* geteuid() = 0
  heard,        \* history: what the latest protocol method took as its input
  sent          \* history: credentials given to real servers

vars == <<opt, pc, tls_state, client_io, server_io, tokens, login, auth, usp,
          servername, port, round_robin, heap, root, heard, sent>>

\* the variables about the choice of the real server
choice == <<usp, servername, port, round_robin, heap>>

-----------------------------------------------------------------------------
(* Pointers, credentials and the token buffer.                             *)

Null     == 0
ArrayObj == -1
OptPort  == -2

Source == [from : {"client", "server"}, tls : BOOLEAN]

FromClient == [from |-> "client", tls |-> client_io = "ssl"]
FromServer == [from |-> "server", tls |-> server_io = "ssl"]

\* auth_zero()
NoAuth == [login |-> 0, by |-> [from |-> "client", tls |-> FALSE]]

Auths == [login : Nat, by : Source]

Buffer == [src : Source, left : Nat]

Flushed == [src |-> [from |-> "client", tls |-> FALSE], left |-> 0]

NoTokenFlush(buf) == buf                    \* mutant: the flush forgotten

\* token_flush()
TokenFlush(buf) == Flushed

OneTaken(buf) ==
  IF buf.left <= 1 THEN Flushed ELSE [buf EXCEPT !.left = @ - 1]

\* what a reader may leave behind in the buffer after filling it from src
Leftover(src) ==
  {Flushed} \cup {[src |-> src, left |-> n] : n \in 1..MaxPipelined}

\* a call that reads src with buf in the buffer takes first what is in there,
\* whoever sent it, and src itself once the buffer is exhausted
Taken(buf, src) ==
  [want |-> src, got |-> IF buf.left = 0 THEN {src} ELSE {buf.src, src}]

\* in_get_auth takes one command from the buffer
TakenByClient == [want |-> FromClient, got |-> {tokens.src}]

Takings == [want : Source, got : SUBSET Source]

-----------------------------------------------------------------------------
(* Leaving, and trying again.                                              *)

\* perdition_exit_cleanly(): the process is gone, its descriptors with it
Exit ==
  /\ pc' = "exited"
  /\ UNCHANGED <<opt, tls_state, client_io, server_io, tokens, login, auth,
                 choice, root, heard, sent>>

CleanUpKeepsConnection ==  \* mutant: the connection is not closed
  /\ auth' = NoAuth
  /\ heap' = IF round_robin = 1 THEN heap ELSE heap \ {usp}
  /\ round_robin' = 0 /\ servername' = Null /\ usp' = Null
  /\ tls_state' = {} /\ UNCHANGED server_io

CleanUpDestroysDefault ==  \* mutant: a default server's entry is freed, too
  /\ auth' = NoAuth
  /\ heap' = heap \ {usp}
  /\ round_robin' = 0 /\ servername' = Null /\ usp' = Null
  /\ server_io' = "null" /\ tls_state' = {}

CleanUpKeepsTlsState ==  \* mutant: tls_state survives the server's connection
  /\ auth' = NoAuth
  /\ heap' = IF round_robin = 1 THEN heap ELSE heap \ {usp}
  /\ round_robin' = 0 /\ servername' = Null /\ usp' = Null
  /\ server_io' = "null" /\ UNCHANGED tls_state

\* PERDITION_CLEAN_UP_MAIN, before the loop's continue.  port is not touched,
\* and neither is the token buffer.
CleanUpMain ==
  /\ auth' = NoAuth
  /\ heap' = IF round_robin = 1 THEN heap ELSE heap \ {usp}
  /\ round_robin' = 0
  /\ servername' = Null
  /\ server_io' = "null"
  /\ usp' = Null
  /\ tls_state' = {}

\* LOGIN_FAILED_PROTOCOL and the clean up: the client is told and may retry
LoginFailed ==
  /\ pc = "failed"
  /\ \/ /\ CleanUpMain
        /\ pc' = "get_auth"
        /\ UNCHANGED <<opt, client_io, tokens, login, port, root, heard, sent>>
     \/ Exit  \* the reply could not be written

QuitThenFailOver ==  \* mutant: a refused login is tried on the next server
  /\ pc = "quit"
  /\ tokens' = Flushed
  /\ heard' = Taken(tokens, FromServer)
  /\ pc' = "select"
  /\ UNCHANGED <<opt, tls_state, client_io, server_io, login, auth, choice,
                 root, sent>>

\* quit(): ask the real server to close, and read an answer nobody looks at
Quit ==
  /\ pc = "quit"
  /\ tokens' \in {tokens} \cup Leftover(FromServer)
  /\ heard' = Taken(tokens, FromServer)
  /\ pc' = "failed"
  /\ UNCHANGED <<opt, tls_state, client_io, server_io, login, auth, choice,
                 root, sent>>

-----------------------------------------------------------------------------
(* The client's side.                                                      *)

\* SSL_LISTEN: the handshake comes before anything is said
SslListen ==
  /\ pc = "connected"
  /\ \/ /\ client_io' = IF "SSL_LISTEN" \in opt.ssl_mode THEN "ssl" ELSE client_io
        /\ pc' = "greeting"
        /\ UNCHANGED <<opt, tls_state, server_io, tokens, login, auth, choice,
                       root, heard, sent>>
     \/ "SSL_LISTEN" \in opt.ssl_mode /\ Exit

Greeting ==
  /\ pc = "greeting"
  /\ \/ /\ pc' = "get_auth"
        /\ UNCHANGED <<opt, tls_state, client_io, server_io, tokens, login,
                       auth, choice, root, heard, sent>>
     \/ Exit

\* token_fill_buffer(): only an exhausted buffer is filled from the client
FillFromClient ==
  /\ pc = "get_auth"
  /\ tokens.left = 0
  /\ tokens' \in Leftover(FromClient) \ {Flushed}
  /\ UNCHANGED <<opt, pc, tls_state, client_io, server_io, login, auth, choice,
                 root, heard, sent>>

\* in_get_auth obeys one more command and goes round its own loop: CAPA,
\* NOOP, USER, an unknown or malformed command
OtherCommand ==
  /\ pc = "get_auth"
  /\ tokens.left > 0
  /\ tokens' = OneTaken(tokens)
  /\ heard' = TakenByClient
  /\ UNCHANGED <<opt, pc, tls_state, client_io, server_io, login, auth, choice,
                 root, sent>>

\* in_get_auth returns 0 with credentials; main() flushes the buffer
LoginCommand ==
  /\ pc = "get_auth"
  /\ tokens.left > 0
  /\ login < MaxLogins
  /\ login' = login + 1
  /\ auth' = [login |-> login + 1, by |-> tokens.src]
  /\ heard' = TakenByClient
  /\ tokens' = TokenFlush(OneTaken(tokens))
  /\ pc' = "gate"
  /\ UNCHANGED <<opt, tls_state, client_io, server_io, choice, root, sent>>

\* in_get_auth returns 2: STARTTLS or STLS, which every protocol refuses when
\* it is not configured or the connection is an ssl one already
StartTlsCommand ==
  /\ pc = "get_auth"
  /\ tokens.left > 0
  /\ "TLS_LISTEN" \in opt.ssl_mode
  /\ client_io # "ssl"
  /\ heard' = TakenByClient
  /\ tokens' = TokenFlush(OneTaken(tokens))
  /\ pc' = "starttls"
  /\ UNCHANGED <<opt, tls_state, client_io, server_io, login, auth, choice,
                 root, sent>>

\* in_get_auth returns 1 (QUIT, LOGOUT), or fails: end of file, time out
ClientGone ==
  /\ pc = "get_auth"
  /\ Exit

TlsListen ==
  /\ pc = "starttls"
  /\ \/ /\ client_io' = "ssl"
        /\ tls_state' = tls_state \cup {"TLS_LISTEN"}
        /\ pc' = "get_auth"
        /\ UNCHANGED <<opt, server_io, tokens, login, auth, choice, root, heard,
                       sent>>
     \/ Exit

ConfiguredNotNegotiated ==  \* mutant: the option is tested, not the state
  \/ opt.login_disabled
  \/ /\ "TLS_LISTEN_FORCE" \in opt.ssl_mode
     /\ "TLS_LISTEN" \notin opt.ssl_mode

LoginIsDisabled ==
  \/ opt.login_disabled
  \/ /\ {"TLS_LISTEN", "TLS_LISTEN_FORCE"} \subseteq opt.ssl_mode
     /\ "TLS_LISTEN" \notin tls_state

Gate ==
  /\ pc = "gate"
  /\ pc' = IF LoginIsDisabled THEN "failed" ELSE "getserver"
  /\ UNCHANGED <<opt, tls_state, client_io, server_io, tokens, login, auth,
                 choice, root, heard, sent>>

-----------------------------------------------------------------------------
(* The choice of the real server.                                          *)

\* the lookup: it may find nothing, and what it finds may lack the server or
\* the port.  The string functions on the way may run out of memory (Exit).
GetServer ==
  /\ pc = "getserver"
  /\ \/ \E found, hasServer, hasPort \in BOOLEAN :
          /\ found => opt.map
          /\ usp' = IF found THEN login ELSE Null
          /\ heap' = IF found THEN heap \cup {login} ELSE heap
          /\ servername' = IF ~found THEN servername
                           ELSE IF hasServer THEN login ELSE Null
          /\ port' = IF ~found THEN port
                     ELSE IF hasPort THEN login ELSE Null
          /\ pc' = "select"
          /\ UNCHANGED <<opt, tls_state, client_io, server_io, tokens, login,
                         auth, round_robin, root, heard, sent>>
     \/ Exit

UseDefaultServer == (servername = Null \/ round_robin = 1) /\ opt.outgoing_server

\* if(!port || !*port) port = opt.outgoing_port: reading a freed string gives
\* either answer
DefaultPort(p) ==
  IF p = Null THEN {OptPort}
  ELSE IF p \in heap \cup {OptPort} THEN {p}
  ELSE {p, OptPort}

AfterSelectLoops(name) ==  \* mutant: the lookup is repeated silently
  IF name = Null THEN "getserver"
  ELSE IF opt.authenticate_in THEN "local_auth" ELSE "connect"

AfterSelect(name) ==
  IF name = Null THEN "failed"
  ELSE IF opt.authenticate_in THEN "local_auth" ELSE "connect"

SelectServer ==
  /\ pc = "select"
  /\ \/ /\ UseDefaultServer
        /\ round_robin' = 1
        /\ usp' = ArrayObj
        /\ servername' = ArrayObj
        /\ port' \in {ArrayObj, OptPort}
     \/ /\ ~UseDefaultServer
        /\ port' \in DefaultPort(port)
        /\ UNCHANGED <<round_robin, usp, servername>>
  /\ pc' = AfterSelect(servername')
  /\ UNCHANGED <<opt, tls_state, client_io, server_io, tokens, login, auth,
                 heap, root, heard, sent>>

-----------------------------------------------------------------------------
(* Local authentication and the real server's side.                        *)

StayRoot(r) == r  \* mutant: no setuid()

\* PERDITION_SET_UID_AND_GID
BecomeUser(r) == FALSE

\* in_authenticate tells the client itself when it refuses
LocalAuth ==
  /\ pc = "local_auth"
  /\ \/ /\ root' = BecomeUser(root)
        /\ pc' = "connect"
        /\ UNCHANGED <<opt, tls_state, client_io, server_io, tokens, login,
                       auth, choice, heard, sent>>
     \/ /\ CleanUpMain
        /\ pc' = "get_auth"
        /\ UNCHANGED <<opt, client_io, tokens, login, port, root, heard, sent>>
     \/ Exit

Connect ==
  /\ pc = "connect"
  /\ \/ /\ server_io' = IF "SSL_OUTGOING" \in opt.ssl_mode THEN "ssl" ELSE "fd"
        /\ pc' = "setup"
        /\ UNCHANGED <<opt, tls_state, client_io, tokens, login, auth, choice,
                       root, heard, sent>>
     \/ /\ pc' = "failed"
        /\ UNCHANGED <<opt, tls_state, client_io, server_io, tokens, login,
                       auth, choice, root, heard, sent>>
     \/ Exit  \* the handshake, or the certificate's check, failed

AfterSetupUnforced(ok, starttls) ==  \* mutant: no check of the force flag
  IF ~ok THEN "quit"
  ELSE IF "TLS_OUTGOING" \in opt.ssl_mode /\ starttls THEN "tls_outgoing"
  ELSE "authenticate"

\* out_setup's status: 0, or flags with or without PROTOCOL_S_STARTTLS
AfterSetup(ok, starttls) ==
  IF ~ok THEN "quit"
  ELSE IF "TLS_OUTGOING" \in opt.ssl_mode /\ starttls THEN "tls_outgoing"
  ELSE IF {"TLS_OUTGOING", "TLS_OUTGOING_FORCE"} \subseteq opt.ssl_mode THEN "quit"
  ELSE "authenticate"

OutSetup ==
  /\ pc = "setup"
  /\ \/ /\ \E ok, starttls \in BOOLEAN : pc' = AfterSetup(ok, starttls)
        /\ tokens' \in Leftover(FromServer)
        /\ heard' = Taken(tokens, FromServer)
        /\ UNCHANGED <<opt, tls_state, client_io, server_io, login, auth,
                       choice, root, sent>>
     \/ Exit

TlsOutgoing ==
  /\ pc = "tls_outgoing"
  /\ \/ /\ server_io' = "ssl"
        /\ tls_state' = tls_state \cup {"TLS_OUTGOING"}
        /\ pc' = "authenticate"
        /\ UNCHANGED <<opt, client_io, tokens, login, auth, choice, root,
                       heard, sent>>
     \/ Exit

\* credentials on their way to a real server
Dispatch == [auth |-> auth, server |-> servername, io |-> server_io]
Dispatches == [auth : Auths, server : Int, io : {"fd", "ssl"}]

OutAuthenticateFallsThrough ==  \* mutant: status 2 and 3 taken for success
  /\ pc = "authenticate"
  /\ \/ pc' \in {"ok", "quit"} /\ sent' = sent \cup {Dispatch}
     \/ pc' = "ok" /\ sent' = sent
  /\ tokens' \in Leftover(FromServer)
  /\ heard' = Taken(TokenFlush(tokens), FromServer)
  /\ UNCHANGED <<opt, tls_state, client_io, server_io, login, auth, choice,
                 root>>

\* out_authenticate: 1 accepted, 0 refused, < 0 an error; 2 (LOGINDISABLED) and 3 (no SASL
\* mechanism) are returned before any credentials are written
OutAuthenticate ==
  /\ pc = "authenticate"
  /\ \/ /\ \/ pc' \in {"ok", "quit", "exited"} /\ sent' = sent \cup {Dispatch}
           \/ pc' = "failed" /\ sent' = sent
        /\ tokens' \in Leftover(FromServer)
        /\ heard' = Taken(TokenFlush(tokens), FromServer)
        /\ UNCHANGED <<opt, tls_state, client_io, server_io, login, auth,
                       choice, root>>
     \/ Exit

\* the client is told, and the session logged
LoggedIn ==
  /\ pc = "ok"
  /\ \/ /\ pc' = "pipe"
        /\ UNCHANGED <<opt, tls_state, client_io, server_io, tokens, login,
                       auth, choice, root, heard, sent>>
     \/ Exit

\* io_pipe() returns when either side closes, fails or times out
Pipe ==
  /\ pc = "pipe"
  /\ Exit

-----------------------------------------------------------------------------
(* The specification.                                                      *)

Init ==
  /\ opt \in Options
  /\ pc = "connected"
  /\ tls_state = {}
  /\ client_io = "fd"
  /\ server_io = "null"
  /\ tokens = Flushed
  /\ login = 0
  /\ auth = NoAuth
  /\ usp = Null /\ servername = Null /\ port = Null
  /\ round_robin = 0
  /\ heap = IF opt.outgoing_server THEN {ArrayObj} ELSE {}
  /\ root \in {FALSE, opt.authenticate_in}  \* or given up before accept()
  /\ heard = [want |-> FromClient, got |-> {}]
  /\ sent = {}

\* a fatal signal's handler is perdition_exit_cleanly
Signal ==
  /\ pc # "exited"
  /\ Exit

Terminated == pc = "exited" /\ UNCHANGED vars

Step ==
  \/ SslListen \/ Greeting
  \/ FillFromClient \/ OtherCommand \/ LoginCommand \/ StartTlsCommand
  \/ ClientGone \/ TlsListen \/ Gate
  \/ GetServer \/ SelectServer
  \/ LocalAuth \/ Connect \/ OutSetup \/ TlsOutgoing \/ OutAuthenticate
  \/ LoggedIn \/ Pipe
  \/ Quit \/ LoginFailed

Next == Step \/ Signal \/ Terminated

Spec == Init /\ [][Next]_vars

\* What a login attempt waits for.  The code guarantees the first; the others are
\* assumptions about the configuration, the peers, the map and PAM.

\* The kernel schedules the process where it waits for nobody.
Scheduled == WF_vars(Gate \/ SelectServer)

\* authenticate_timeout is not 0 ("infinite", perdition.8:112), the timeout of
\* connect() is finite, and a real server neither stops to read what is written
\* to it nor keeps its dialogue going for ever: the timeout is that of one read,
\* and writes have none (io.c:258-286).
ServerAnswers ==
  WF_vars(Connect \/ OutSetup \/ TlsOutgoing \/ OutAuthenticate \/ Quit)

\* The client reads what is written to it, or its connection fails (no timeout
\* of the process would end the write).
ClientReads == WF_vars(LoggedIn \/ LoginFailed)

\* dbserver_get() of the map returns.  The daemon's client library need not: a
\* daemon that takes requests without answering is asked for ever
\* (unix_socket.c:139).
MapReturns == WF_vars(GetServer)

\* So does PAM, for authenticate_in.
PamReturns == WF_vars(LocalAuth)

FairSpec ==
  Spec /\ Scheduled /\ ServerAnswers /\ ClientReads /\ MapReturns /\ PamReturns
-----------------------------------------------------------------------------
(* Session implements ProxyContract.                                       *)

Phase ==
  CASE pc \in {"connected", "greeting", "get_auth", "starttls"} -> "idle"
    [] pc = "pipe" -> "proxied"
    [] pc = "exited" -> "closed"
    [] OTHER -> "trying"

Relayed == {[attempt |-> d.auth.login, protected |-> d.io = "ssl"] : d \in sent}

Contract == INSTANCE ProxyContract WITH
  policy  <- [listen_force   |-> "TLS_LISTEN_FORCE" \in opt.ssl_mode,
              outgoing_force |-> "TLS_OUTGOING_FORCE" \in opt.ssl_mode],
  phase   <- Phase,
  secure  <- client_io = "ssl",
  attempt <- login,
  relayed <- Relayed

\* main()'s loop, with its retries, flushes and clean ups, is a session as
\* ProxyContract promises it.
ImplementsContract == Contract!ContractSpec

-----------------------------------------------------------------------------
(* Properties.                                                             *)

Pcs == {"connected", "greeting", "get_auth", "starttls", "gate", "getserver",
        "select", "local_auth", "connect", "setup", "tls_outgoing",
        "authenticate", "ok", "pipe", "quit", "failed", "exited"}

\* Types of the loop's variables, with what the code maintains about them.
TypeOK ==
  /\ opt \in ValidOptions
  /\ pc \in Pcs
  /\ tls_state \subseteq {"TLS_LISTEN", "TLS_OUTGOING"}
  /\ client_io \in {"fd", "ssl"}
  /\ server_io \in {"null", "fd", "ssl"}
  /\ tokens \in Buffer
  /\ login \in Nat
  /\ auth \in Auths
  /\ usp \in Int /\ servername \in Int /\ port \in Int
  /\ round_robin \in {0, 1}
  /\ heap \subseteq Int
  /\ root \in BOOLEAN
  /\ heard \in Takings
  /\ sent \subseteq Dispatches

\* the steps of a login attempt that has passed the gate
Admitted == {"getserver", "select", "local_auth", "connect", "setup",
             "tls_outgoing", "authenticate", "ok", "pipe"}

\* the steps at which a connection to the real server is in use
Talking == {"setup", "tls_outgoing", "authenticate", "ok", "pipe", "quit"}

\* tls_listen_force (perdition.8: "Do not accept plain text authentication"):
\* an attempt gets past the gate of main() only with credentials that the
\* client itself sent under TLS, whatever came before it on the connection and
\* however often logins were tried, and no others ever reach a real server.
NoPlaintextLogin ==
  "TLS_LISTEN_FORCE" \in opt.ssl_mode =>
    /\ pc \in Admitted => auth.by = [from |-> "client", tls |-> TRUE]
    /\ \A d \in sent : d.auth.by = [from |-> "client", tls |-> TRUE]

\* tls_outgoing_force (perdition.8: "Do not send authentication information if
\* TLS cannot be negotiated"), and ssl_outgoing: out_authenticate writes the
\* credentials to a protected connection only, whatever out_setup returned.
NoPlaintextRelay ==
  opt.ssl_mode \cap {"SSL_OUTGOING", "TLS_OUTGOING_FORCE"} # {} =>
    \A d \in sent : d.io = "ssl"

\* The token_flush() calls of main(): what a peer sent before a handshake is
\* never taken as something it said after it, on either side.
NothingFromBeforeTheHandshake ==
  \A s \in heard.got : s.from = heard.want.from => s.tls = heard.want.tls

\* The credentials of a login go to the server that this login's lookup found,
\* or to a default server, and to one server only; the name of that server is
\* never read from memory that PERDITION_CLEAN_UP_MAIN has freed.
OneServerPerLogin ==
  /\ pc \in {"connect"} \cup Talking => servername \in {login, ArrayObj} \cap heap
  /\ \A d \in sent : d.server \in {d.auth.login, ArrayObj}
  /\ \A d, e \in sent : d.auth.login = e.auth.login => d = e

\* Every path that allows a retry has cleaned up: main() never asks for
\* another login with the previous one's credentials, server or connection.
CleanSlate ==
  pc \in {"get_auth", "starttls"} =>
    /\ auth = NoAuth
    /\ usp = Null /\ servername = Null /\ round_robin = 0
    /\ server_io = "null"

\* The process is never connected to a real server, and pipes no data, with
\* the privileges it started with (perdition.c:911 "now is the time to Become
\* someone else").
Unprivileged == pc \in {"connect"} \cup Talking => ~root

\* tls_state, from which the log line and the capabilities are made, never
\* claims a protection that the connection does not have.
TlsStateNeverOverstates ==
  /\ "TLS_LISTEN" \in tls_state => client_io = "ssl"
  /\ "TLS_OUTGOING" \in tls_state => server_io = "ssl"

\* A step never gives credentials to a second server, nor sends any, without a
\* new login command: sent grows by the current attempt's credentials only.
SentByThisLogin ==
  [][\A d \in sent' \ sent : d.auth = auth /\ auth.login = login
                             /\ \A e \in sent : e.auth.login < login]_vars

\* Every login attempt is answered: the client may try again, is proxied, or the
\* connection is closed: main() itself never stops in the middle of an attempt or
\* goes round in one.  It is so where FairSpec's assumptions hold; with an
\* authenticate_timeout of 0, a peer that stops to read or a map that does not
\* return, an attempt may wait for ever.
AttemptAnswered == pc = "gate" ~> pc \in {"get_auth", "pipe", "exited"}

\* imap4_in.c:457 calls tls_state "the current state of encryption for the
\* session": a client that has done STARTTLS is known to have done so.
TlsStateIsCurrent ==
  pc = "get_auth" /\ "SSL_LISTEN" \notin opt.ssl_mode =>
    ("TLS_LISTEN" \in tls_state <=> client_io = "ssl")

\* token.c:245 token_read "read a token in from fd", "io: io_t to read from":
\* a method that reads one peer is not given what the other peer sent.
HeardFromPeer == \A s \in heard.got : s.from = heard.want.from
=============================================================================
