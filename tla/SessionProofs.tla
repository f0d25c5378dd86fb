--------------------------- MODULE SessionProofs ---------------------------
(***************************************************************************)
(* The authentication loop of main() is safe for every set of              *)
(* configurations, any number of login attempts and any amount of          *)
(* pipelined input.                                                        *)
(***************************************************************************)
EXTENDS Session, TLAPS

-----------------------------------------------------------------------------
(* The inductive invariant, in parts.                                      *)

Attempting == {"gate", "getserver", "select", "local_auth", "connect", "setup",
               "tls_outgoing", "authenticate", "ok", "pipe", "quit", "failed"}

BeforeRelay == {"gate", "getserver", "select", "local_auth", "connect", "setup",
                "tls_outgoing", "authenticate"}

\* The two lines that the token buffer must respect: what the client left in it
\* has the protection of the client's connection, and is all there is once
\* STARTTLS is done; the server's methods start from an empty buffer, and quit()
\* from what this server left.
BufferInv ==
  /\ pc \in {"connected", "greeting", "starttls", "gate", "getserver", "select",
             "local_auth", "connect", "setup"} => tokens.left = 0
  /\ pc = "get_auth" /\ tokens.left > 0 /\ tokens.src.from = "client" =>
       tokens.src = FromClient
  /\ pc = "get_auth" /\ tokens.left > 0 /\ "TLS_LISTEN" \in tls_state =>
       tokens.src.from = "client"
  /\ pc = "quit" /\ tokens.left > 0 => tokens.src = FromServer
  /\ pc = "failed" /\ tokens.left > 0 => tokens.src.from = "server"

\* What tls_state and the gate say about the credentials.
LoginInv ==
  /\ "TLS_LISTEN" \in tls_state => client_io = "ssl"
  /\ pc = "gate" /\ "TLS_LISTEN" \in tls_state =>
       auth.by = [from |-> "client", tls |-> TRUE]
  /\ "TLS_LISTEN_FORCE" \in opt.ssl_mode =>
       /\ pc \in Admitted => /\ "TLS_LISTEN" \in tls_state
                             /\ auth.by = [from |-> "client", tls |-> TRUE]
       /\ \A d \in sent : d.auth.by = [from |-> "client", tls |-> TRUE]

\* What the connection to the real server is like while it is used.
ServerInv ==
  /\ "TLS_OUTGOING" \in tls_state => server_io = "ssl"
  /\ pc \in Talking => server_io # "null"
  /\ pc \in {"connected", "greeting", "get_auth", "starttls", "gate",
             "getserver", "select", "local_auth", "connect"} => server_io = "null"
  /\ pc \in Talking /\ "SSL_OUTGOING" \in opt.ssl_mode => server_io = "ssl"
  /\ pc = "authenticate" /\ "TLS_OUTGOING_FORCE" \in opt.ssl_mode =>
       server_io = "ssl"
  /\ opt.ssl_mode \cap {"SSL_OUTGOING", "TLS_OUTGOING_FORCE"} # {} =>
       \A d \in sent : d.io = "ssl"

\* Who owns what, and which server an attempt uses.
ChoiceInv ==
  /\ opt.outgoing_server => ArrayObj \in heap
  /\ \A o \in heap : o = ArrayObj \/ o \in 1..login
  /\ round_robin = 1 => usp = ArrayObj
  /\ round_robin = 0 => usp \in {Null, login}
  /\ servername \in {Null, login, ArrayObj}
  /\ servername # Null => servername = usp /\ servername \in heap
  /\ pc \in {"connected", "greeting", "get_auth", "starttls", "gate",
             "getserver"} => usp = Null /\ servername = Null /\ round_robin = 0
  /\ pc \in {"local_auth", "connect"} \cup Talking => servername # Null

\* Which attempt the credentials belong to.
AttemptInv ==
  /\ pc \in {"connected", "greeting", "get_auth", "starttls"} => auth = NoAuth
  /\ pc \in Attempting => auth.login = login /\ login > 0
  /\ \A d \in sent : d.auth.login <= login /\ d.server \in {d.auth.login, ArrayObj}
  /\ pc \in BeforeRelay => \A d \in sent : d.auth.login < login
  /\ \A d, e \in sent : d.auth.login = e.auth.login => d = e
  /\ pc \in {"ok", "pipe"} => \E d \in sent : d.auth.login = login

RootInv ==
  /\ root => opt.authenticate_in
  /\ pc \in {"connect"} \cup Talking => ~root

IInv ==
  /\ TypeOK
  /\ BufferInv
  /\ LoginInv
  /\ ServerInv
  /\ ChoiceInv
  /\ AttemptInv
  /\ RootInv
  /\ NothingFromBeforeTheHandshake

-----------------------------------------------------------------------------
(* Types of the values the actions assign.                                 *)

\* What the two connections give as a source of input.
LEMMA SourceTypes == FromClient \in Source /\ FromServer \in Source
BY DEF FromClient, FromServer, Source

\* The token buffer stays a buffer through flushes, reads and refills.
LEMMA BufferTypes ==
  /\ Flushed \in Buffer
  /\ \A src \in Source : Leftover(src) \subseteq Buffer
  /\ \A buf \in Buffer : OneTaken(buf) \in Buffer
<1>1. Flushed \in Buffer
  BY DEF Flushed, Buffer, Source
<1>2. ASSUME NEW src \in Source, NEW n \in 1..MaxPipelined
      PROVE  [src |-> src, left |-> n] \in Buffer
  BY BoundsAssumption DEF Buffer
<1>3. \A src \in Source : Leftover(src) \subseteq Buffer
  BY <1>1, <1>2 DEF Leftover
<1>4. ASSUME NEW buf \in Buffer PROVE OneTaken(buf) \in Buffer
  BY <1>1 DEF OneTaken, Buffer
<1> QED BY <1>1, <1>3, <1>4

\* What a protocol method takes as its input.
LEMMA TakingTypes ==
  /\ \A buf \in Buffer, src \in Source : Taken(buf, src) \in Takings
  /\ tokens \in Buffer => TakenByClient \in Takings
BY SourceTypes DEF Taken, TakenByClient, Takings, Buffer

\* auth_zero() leaves credentials of no login.
LEMMA NoAuthType == NoAuth \in Auths
BY DEF NoAuth, Auths, Source

\* A clean up assigns values of the right types.
LEMMA CleanUpTypes ==
  ASSUME TypeOK, CleanUpMain
  PROVE  /\ auth' \in Auths
         /\ heap' \subseteq Int
         /\ usp' \in Int /\ servername' \in Int
         /\ round_robin' \in {0, 1}
         /\ server_io' \in {"null", "fd", "ssl"}
         /\ tls_state' \subseteq {"TLS_LISTEN", "TLS_OUTGOING"}
<1>1. heap' \subseteq heap
  BY DEF CleanUpMain
<1> QED
  BY <1>1, NoAuthType DEF CleanUpMain, TypeOK, Null

\* A clean up leaves no pointer behind, and frees no default server.
LEMMA CleanUpChoice ==
  ASSUME IInv, CleanUpMain, UNCHANGED <<opt, login>>
  PROVE  /\ opt'.outgoing_server => ArrayObj \in heap'
         /\ \A o \in heap' : o = ArrayObj \/ o \in 1..login'
         /\ round_robin' = 0 /\ usp' = Null /\ servername' = Null
<1>1. heap' \subseteq heap
  BY DEF CleanUpMain
<1>2. ArrayObj \in heap => ArrayObj \in heap'
  BY DEF CleanUpMain, IInv, TypeOK, ChoiceInv, ArrayObj, Null
<1> QED
  BY <1>1, <1>2 DEF CleanUpMain, IInv, ChoiceInv

-----------------------------------------------------------------------------
(* Each part of the invariant is preserved.                                *)

\* IInv's types: one case per action of Next.
LEMMA TypeStep == IInv /\ [Next]_vars => TypeOK'
<1> SUFFICES ASSUME IInv, [Next]_vars PROVE TypeOK'
  OBVIOUS
<1>0. TypeOK
  BY DEF IInv
<1> USE <1>0, SourceTypes, BufferTypes, TakingTypes, NoAuthType, CleanUpTypes
    DEF TypeOK, Pcs, Dispatches, Null, ArrayObj, OptPort, choice
<1>1. CASE SslListen
  BY <1>1 DEF SslListen, Exit
<1>2. CASE Greeting
  BY <1>2 DEF Greeting, Exit
<1>3. CASE FillFromClient
  BY <1>3 DEF FillFromClient
<1>4. CASE OtherCommand
  BY <1>4 DEF OtherCommand
<1>5. CASE LoginCommand
  BY <1>5 DEF LoginCommand, TokenFlush, Auths, Buffer
<1>6. CASE StartTlsCommand
  BY <1>6 DEF StartTlsCommand, TokenFlush
<1>7. CASE ClientGone
  BY <1>7 DEF ClientGone, Exit
<1>8. CASE TlsListen
  BY <1>8 DEF TlsListen, Exit
<1>9. CASE Gate
  BY <1>9 DEF Gate
<1>10. CASE GetServer
  <2>1. CASE Exit
    BY <2>1 DEF Exit
  <2>2. CASE ~Exit
    <3>1. usp' \in {login, Null} /\ heap' \in {heap, heap \cup {login}}
      BY <1>10, <2>2 DEF GetServer
    <3>2. /\ servername' \in {servername, login, Null}
          /\ port' \in {port, login, Null}
      BY <1>10, <2>2 DEF GetServer
    <3>3. pc' = "select" /\ UNCHANGED <<opt, tls_state, client_io, server_io,
                   tokens, login, auth, round_robin, root, heard, sent>>
      BY <1>10, <2>2 DEF GetServer
    <3> QED
      BY <3>1, <3>2, <3>3
  <2> QED
    BY <2>1, <2>2
<1>11. CASE SelectServer
  BY <1>11 DEF SelectServer, UseDefaultServer, DefaultPort, AfterSelect
<1>12. CASE LocalAuth
  <2>1. CASE Exit
    BY <2>1 DEF Exit
  <2>2. CASE CleanUpMain
    BY <1>12, <2>2 DEF LocalAuth, Exit, BecomeUser
  <2>3. CASE ~Exit /\ ~CleanUpMain
    BY <1>12, <2>3 DEF LocalAuth, BecomeUser
  <2> QED
    BY <2>1, <2>2, <2>3
<1>13. CASE Connect
  BY <1>13 DEF Connect, Exit
<1>14. CASE OutSetup
  BY <1>14 DEF OutSetup, Exit, AfterSetup
<1>15. CASE TlsOutgoing
  BY <1>15 DEF TlsOutgoing, Exit
<1>16. CASE OutAuthenticate
  <2>1. CASE Exit
    BY <2>1 DEF Exit
  <2>2. CASE ~Exit
    <3>1. Dispatch \in Dispatches
      BY <1>16 DEF OutAuthenticate, Dispatch, IInv, ServerInv, Talking
    <3>2. sent' \subseteq Dispatches
      BY <1>16, <2>2, <3>1 DEF OutAuthenticate
    <3>3. heard' \in Takings /\ tokens' \in Buffer
      BY <1>16, <2>2 DEF OutAuthenticate, TokenFlush
    <3> QED
      BY <1>16, <2>2, <3>2, <3>3 DEF OutAuthenticate
  <2> QED
    BY <2>1, <2>2
<1>17. CASE LoggedIn
  BY <1>17 DEF LoggedIn, Exit
<1>18. CASE Pipe
  BY <1>18 DEF Pipe, Exit
<1>19. CASE Quit
  BY <1>19 DEF Quit
<1>20. CASE LoginFailed
  <2>1. CASE Exit
    BY <2>1 DEF Exit
  <2>2. CASE ~Exit
    BY <1>20, <2>2 DEF LoginFailed
  <2> QED
    BY <2>1, <2>2
<1>21. CASE Signal
  BY <1>21 DEF Signal, Exit
<1>22. CASE UNCHANGED vars
  BY <1>22 DEF vars
<1> QED
  BY <1>1, <1>2, <1>3, <1>4, <1>5, <1>6, <1>7, <1>8, <1>9, <1>10, <1>11,
     <1>12, <1>13, <1>14, <1>15, <1>16, <1>17, <1>18, <1>19, <1>20, <1>21, <1>22
  DEF Next, Step, Terminated

\* The token buffer: only FillFromClient, the server's methods and the flushes
\* touch it, and a handshake on either side comes after a flush.
LEMMA BufferStep == IInv /\ [Next]_vars => BufferInv'
<1> SUFFICES ASSUME IInv, [Next]_vars PROVE BufferInv'
  OBVIOUS
<1> USE DEF IInv, BufferInv, FromClient, FromServer, TypeOK, Buffer, Source, choice
<1>1. CASE SslListen
  BY <1>1 DEF SslListen, Exit
<1>2. CASE Greeting
  BY <1>2 DEF Greeting, Exit
<1>3. CASE FillFromClient
  BY <1>3 DEF FillFromClient, Leftover, Flushed
<1>4. CASE OtherCommand
  BY <1>4 DEF OtherCommand, OneTaken, Flushed
<1>5. CASE LoginCommand
  BY <1>5 DEF LoginCommand, TokenFlush, Flushed
<1>6. CASE StartTlsCommand
  BY <1>6 DEF StartTlsCommand, TokenFlush, Flushed
<1>7. CASE ClientGone
  BY <1>7 DEF ClientGone, Exit
<1>8. CASE TlsListen
  BY <1>8 DEF TlsListen, Exit
<1>9. CASE Gate
  BY <1>9 DEF Gate
<1>10. CASE GetServer
  BY <1>10 DEF GetServer, Exit
<1>11. CASE SelectServer
  BY <1>11 DEF SelectServer, AfterSelect
<1>12. CASE LocalAuth
  BY <1>12 DEF LocalAuth, Exit, CleanUpMain
<1>13. CASE Connect
  BY <1>13 DEF Connect, Exit
<1>14. CASE OutSetup
  BY <1>14 DEF OutSetup, Exit, AfterSetup, Leftover, Flushed
<1>15. CASE TlsOutgoing
  BY <1>15 DEF TlsOutgoing, Exit
<1>16. CASE OutAuthenticate
  BY <1>16 DEF OutAuthenticate, Exit, Leftover, TokenFlush, Flushed
<1>17. CASE LoggedIn
  BY <1>17 DEF LoggedIn, Exit
<1>18. CASE Pipe
  BY <1>18 DEF Pipe, Exit
<1>19. CASE Quit
  BY <1>19 DEF Quit, Leftover, Flushed
<1>20. CASE LoginFailed
  BY <1>20 DEF LoginFailed, Exit, CleanUpMain
<1>21. CASE Signal
  BY <1>21 DEF Signal, Exit
<1>22. CASE UNCHANGED vars
  BY <1>22 DEF vars
<1> QED
  BY <1>1, <1>2, <1>3, <1>4, <1>5, <1>6, <1>7, <1>8, <1>9, <1>10, <1>11,
     <1>12, <1>13, <1>14, <1>15, <1>16, <1>17, <1>18, <1>19, <1>20, <1>21, <1>22
  DEF Next, Step, Terminated

\* The gate: past it under tls_listen_force only with TLS_LISTEN in tls_state,
\* and then everything in the buffer was sent under TLS.
LEMMA LoginStep == IInv /\ [Next]_vars => LoginInv'
<1> SUFFICES ASSUME IInv, [Next]_vars PROVE LoginInv'
  OBVIOUS
<1> USE DEF IInv, LoginInv, BufferInv, FromClient, TypeOK, Admitted, ValidOptions,
           ValidSslMode, choice
<1>1. CASE SslListen
  BY <1>1 DEF SslListen, Exit
<1>2. CASE Greeting
  BY <1>2 DEF Greeting, Exit
<1>3. CASE FillFromClient
  BY <1>3 DEF FillFromClient
<1>4. CASE OtherCommand
  BY <1>4 DEF OtherCommand
<1>5. CASE LoginCommand
  <2>1. "TLS_LISTEN" \in tls_state => tokens.src = FromClient /\ client_io = "ssl"
    BY <1>5 DEF LoginCommand
  <2>2. "TLS_LISTEN" \in tls_state => tokens.src = [from |-> "client", tls |-> TRUE]
    BY <2>1
  <2>3. auth'.by = tokens.src
    BY <1>5 DEF LoginCommand
  <2> QED
    BY <1>5, <2>2, <2>3 DEF LoginCommand
<1>6. CASE StartTlsCommand
  BY <1>6 DEF StartTlsCommand
<1>7. CASE ClientGone
  BY <1>7 DEF ClientGone, Exit
<1>8. CASE TlsListen
  BY <1>8 DEF TlsListen, Exit
<1>9. CASE Gate
  BY <1>9 DEF Gate, LoginIsDisabled
<1>10. CASE GetServer
  BY <1>10 DEF GetServer, Exit
<1>11. CASE SelectServer
  BY <1>11 DEF SelectServer, AfterSelect
<1>12. CASE LocalAuth
  BY <1>12 DEF LocalAuth, Exit, CleanUpMain
<1>13. CASE Connect
  BY <1>13 DEF Connect, Exit
<1>14. CASE OutSetup
  BY <1>14 DEF OutSetup, Exit, AfterSetup
<1>15. CASE TlsOutgoing
  BY <1>15 DEF TlsOutgoing, Exit
<1>16. CASE OutAuthenticate
  BY <1>16 DEF OutAuthenticate, Exit, Dispatch
<1>17. CASE LoggedIn
  BY <1>17 DEF LoggedIn, Exit
<1>18. CASE Pipe
  BY <1>18 DEF Pipe, Exit
<1>19. CASE Quit
  BY <1>19 DEF Quit
<1>20. CASE LoginFailed
  BY <1>20 DEF LoginFailed, Exit, CleanUpMain
<1>21. CASE Signal
  BY <1>21 DEF Signal, Exit
<1>22. CASE UNCHANGED vars
  BY <1>22 DEF vars
<1> QED
  BY <1>1, <1>2, <1>3, <1>4, <1>5, <1>6, <1>7, <1>8, <1>9, <1>10, <1>11,
     <1>12, <1>13, <1>14, <1>15, <1>16, <1>17, <1>18, <1>19, <1>20, <1>21, <1>22
  DEF Next, Step, Terminated

\* The connection to the real server.
LEMMA ServerStep == IInv /\ [Next]_vars => ServerInv'
<1> SUFFICES ASSUME IInv, [Next]_vars PROVE ServerInv'
  OBVIOUS
<1> USE DEF IInv, ServerInv, Talking, TypeOK, ValidOptions, ValidSslMode, choice
<1>1. CASE SslListen
  BY <1>1 DEF SslListen, Exit
<1>2. CASE Greeting
  BY <1>2 DEF Greeting, Exit
<1>3. CASE FillFromClient
  BY <1>3 DEF FillFromClient
<1>4. CASE OtherCommand
  BY <1>4 DEF OtherCommand
<1>5. CASE LoginCommand
  BY <1>5 DEF LoginCommand
<1>6. CASE StartTlsCommand
  BY <1>6 DEF StartTlsCommand
<1>7. CASE ClientGone
  BY <1>7 DEF ClientGone, Exit
<1>8. CASE TlsListen
  BY <1>8 DEF TlsListen, Exit
<1>9. CASE Gate
  BY <1>9 DEF Gate
<1>10. CASE GetServer
  BY <1>10 DEF GetServer, Exit
<1>11. CASE SelectServer
  BY <1>11 DEF SelectServer, AfterSelect
<1>12. CASE LocalAuth
  BY <1>12 DEF LocalAuth, Exit, CleanUpMain
<1>13. CASE Connect
  BY <1>13 DEF Connect, Exit
<1>14. CASE OutSetup
  BY <1>14 DEF OutSetup, Exit, AfterSetup
<1>15. CASE TlsOutgoing
  BY <1>15 DEF TlsOutgoing, Exit
<1>16. CASE OutAuthenticate
  BY <1>16 DEF OutAuthenticate, Exit, Dispatch
<1>17. CASE LoggedIn
  BY <1>17 DEF LoggedIn, Exit
<1>18. CASE Pipe
  BY <1>18 DEF Pipe, Exit
<1>19. CASE Quit
  BY <1>19 DEF Quit
<1>20. CASE LoginFailed
  BY <1>20 DEF LoginFailed, Exit, CleanUpMain
<1>21. CASE Signal
  BY <1>21 DEF Signal, Exit
<1>22. CASE UNCHANGED vars
  BY <1>22 DEF vars
<1> QED
  BY <1>1, <1>2, <1>3, <1>4, <1>5, <1>6, <1>7, <1>8, <1>9, <1>10, <1>11,
     <1>12, <1>13, <1>14, <1>15, <1>16, <1>17, <1>18, <1>19, <1>20, <1>21, <1>22
  DEF Next, Step, Terminated

\* The pointers to the lookup's result and to the default servers.
LEMMA ChoiceStep == IInv /\ [Next]_vars => ChoiceInv'
<1> SUFFICES ASSUME IInv, [Next]_vars PROVE ChoiceInv'
  OBVIOUS
<1> USE DEF IInv, ChoiceInv, Talking, Null, ArrayObj, TypeOK, choice
<1>1. CASE SslListen
  BY <1>1 DEF SslListen, Exit
<1>2. CASE Greeting
  BY <1>2 DEF Greeting, Exit
<1>3. CASE FillFromClient
  BY <1>3 DEF FillFromClient
<1>4. CASE OtherCommand
  BY <1>4 DEF OtherCommand
<1>5. CASE LoginCommand
  BY <1>5 DEF LoginCommand
<1>6. CASE StartTlsCommand
  BY <1>6 DEF StartTlsCommand
<1>7. CASE ClientGone
  BY <1>7 DEF ClientGone, Exit
<1>8. CASE TlsListen
  BY <1>8 DEF TlsListen, Exit
<1>9. CASE Gate
  BY <1>9 DEF Gate
<1>10. CASE GetServer
  <2>1. CASE Exit
    BY <2>1 DEF Exit
  <2>0. login > 0 /\ login \in Nat
    BY <1>10 DEF GetServer, AttemptInv, Attempting
  <2>2. CASE ~Exit /\ usp' = Null
    <3>1. UNCHANGED <<opt, login, heap, servername, round_robin>> /\ pc' = "select"
      BY <1>10, <2>0, <2>2 DEF GetServer
    <3> QED
      BY <1>10, <2>2, <3>1 DEF GetServer
  <2>3. CASE ~Exit /\ usp' # Null
    <3>1. usp' = login /\ heap' = heap \cup {login} /\ servername' \in {login, Null}
      BY <1>10, <2>3 DEF GetServer
    <3> QED
      BY <1>10, <2>0, <2>3, <3>1 DEF GetServer
  <2> QED
    BY <2>1, <2>2, <2>3
<1>11. CASE SelectServer
  BY <1>11 DEF SelectServer, UseDefaultServer, AfterSelect
<1>12. CASE LocalAuth
  <2>1. CASE Exit
    BY <2>1 DEF Exit
  <2>2. CASE CleanUpMain /\ ~Exit /\ pc' = "get_auth"
    BY <1>12, <2>2, CleanUpChoice DEF LocalAuth
  <2>3. CASE ~Exit /\ pc' = "connect"
    BY <1>12, <2>3 DEF LocalAuth
  <2> QED
    BY <1>12, <2>1, <2>2, <2>3 DEF LocalAuth
<1>13. CASE Connect
  BY <1>13 DEF Connect, Exit
<1>14. CASE OutSetup
  BY <1>14 DEF OutSetup, Exit, AfterSetup
<1>15. CASE TlsOutgoing
  BY <1>15 DEF TlsOutgoing, Exit
<1>16. CASE OutAuthenticate
  BY <1>16 DEF OutAuthenticate, Exit
<1>17. CASE LoggedIn
  BY <1>17 DEF LoggedIn, Exit
<1>18. CASE Pipe
  BY <1>18 DEF Pipe, Exit
<1>19. CASE Quit
  BY <1>19 DEF Quit
<1>20. CASE LoginFailed
  <2>1. CASE Exit
    BY <2>1 DEF Exit
  <2>2. CASE ~Exit
    BY <1>20, <2>2, CleanUpChoice DEF LoginFailed
  <2> QED
    BY <2>1, <2>2
<1>21. CASE Signal
  BY <1>21 DEF Signal, Exit
<1>22. CASE UNCHANGED vars
  BY <1>22 DEF vars
<1> QED
  BY <1>1, <1>2, <1>3, <1>4, <1>5, <1>6, <1>7, <1>8, <1>9, <1>10, <1>11,
     <1>12, <1>13, <1>14, <1>15, <1>16, <1>17, <1>18, <1>19, <1>20, <1>21, <1>22
  DEF Next, Step, Terminated

\* The numbering of attempts.
LEMMA AttemptStep == IInv /\ [Next]_vars => AttemptInv'
<1> SUFFICES ASSUME IInv, [Next]_vars PROVE AttemptInv'
  OBVIOUS
<1> USE DEF IInv, AttemptInv, Attempting, BeforeRelay, ChoiceInv, Talking, TypeOK, Auths,
           Dispatches, NoAuth, choice
<1>1. CASE SslListen
  BY <1>1 DEF SslListen, Exit
<1>2. CASE Greeting
  BY <1>2 DEF Greeting, Exit
<1>3. CASE FillFromClient
  BY <1>3 DEF FillFromClient
<1>4. CASE OtherCommand
  BY <1>4 DEF OtherCommand
<1>5. CASE LoginCommand
  BY <1>5 DEF LoginCommand
<1>6. CASE StartTlsCommand
  BY <1>6 DEF StartTlsCommand
<1>7. CASE ClientGone
  BY <1>7 DEF ClientGone, Exit
<1>8. CASE TlsListen
  BY <1>8 DEF TlsListen, Exit
<1>9. CASE Gate
  BY <1>9 DEF Gate
<1>10. CASE GetServer
  BY <1>10 DEF GetServer, Exit
<1>11. CASE SelectServer
  BY <1>11 DEF SelectServer, AfterSelect
<1>12. CASE LocalAuth
  BY <1>12 DEF LocalAuth, Exit, CleanUpMain
<1>13. CASE Connect
  BY <1>13 DEF Connect, Exit
<1>14. CASE OutSetup
  BY <1>14 DEF OutSetup, Exit, AfterSetup
<1>15. CASE TlsOutgoing
  BY <1>15 DEF TlsOutgoing, Exit
<1>16. CASE OutAuthenticate
  <2>1. CASE Exit
    BY <2>1 DEF Exit
  <2>2. CASE ~Exit /\ pc' = "failed"
    BY <1>16, <2>2 DEF OutAuthenticate
  <2>3. CASE ~Exit /\ pc' # "failed"
    <3>1. Dispatch.auth.login = login /\ Dispatch.server \in {login, ArrayObj}
      BY <1>16 DEF OutAuthenticate, Dispatch
    <3>2. \A d \in sent : d.auth.login < login
      BY <1>16 DEF OutAuthenticate
    <3>. sent' = sent \cup {Dispatch}
      BY <1>16, <2>3 DEF OutAuthenticate
    <3>3. \A d \in sent' : d.auth.login <= login /\ d.server \in {d.auth.login, ArrayObj}
      BY <2>3, <3>1
    <3>4. \A d, e \in sent' : d.auth.login = e.auth.login => d = e
      BY <2>3, <3>1, <3>2
    <3>5. \E d \in sent' : d.auth.login = login
      BY <2>3, <3>1
    <3> QED
      BY <1>16, <2>3, <3>3, <3>4, <3>5 DEF OutAuthenticate
  <2> QED
    BY <1>16, <2>1, <2>2, <2>3 DEF OutAuthenticate
<1>17. CASE LoggedIn
  BY <1>17 DEF LoggedIn, Exit
<1>18. CASE Pipe
  BY <1>18 DEF Pipe, Exit
<1>19. CASE Quit
  BY <1>19 DEF Quit
<1>20. CASE LoginFailed
  BY <1>20 DEF LoginFailed, Exit, CleanUpMain
<1>21. CASE Signal
  BY <1>21 DEF Signal, Exit
<1>22. CASE UNCHANGED vars
  BY <1>22 DEF vars
<1> QED
  BY <1>1, <1>2, <1>3, <1>4, <1>5, <1>6, <1>7, <1>8, <1>9, <1>10, <1>11,
     <1>12, <1>13, <1>14, <1>15, <1>16, <1>17, <1>18, <1>19, <1>20, <1>21, <1>22
  DEF Next, Step, Terminated

\* Privileges.
LEMMA RootStep == IInv /\ [Next]_vars => RootInv'
<1> SUFFICES ASSUME IInv, [Next]_vars PROVE RootInv'
  OBVIOUS
<1> USE DEF IInv, RootInv, Talking, TypeOK, choice
<1>1. CASE SslListen
  BY <1>1 DEF SslListen, Exit
<1>2. CASE Greeting
  BY <1>2 DEF Greeting, Exit
<1>3. CASE FillFromClient
  BY <1>3 DEF FillFromClient
<1>4. CASE OtherCommand
  BY <1>4 DEF OtherCommand
<1>5. CASE LoginCommand
  BY <1>5 DEF LoginCommand
<1>6. CASE StartTlsCommand
  BY <1>6 DEF StartTlsCommand
<1>7. CASE ClientGone
  BY <1>7 DEF ClientGone, Exit
<1>8. CASE TlsListen
  BY <1>8 DEF TlsListen, Exit
<1>9. CASE Gate
  BY <1>9 DEF Gate
<1>10. CASE GetServer
  BY <1>10 DEF GetServer, Exit
<1>11. CASE SelectServer
  BY <1>11 DEF SelectServer, AfterSelect
<1>12. CASE LocalAuth
  BY <1>12 DEF LocalAuth, Exit, CleanUpMain, BecomeUser
<1>13. CASE Connect
  BY <1>13 DEF Connect, Exit
<1>14. CASE OutSetup
  BY <1>14 DEF OutSetup, Exit, AfterSetup
<1>15. CASE TlsOutgoing
  BY <1>15 DEF TlsOutgoing, Exit
<1>16. CASE OutAuthenticate
  BY <1>16 DEF OutAuthenticate, Exit
<1>17. CASE LoggedIn
  BY <1>17 DEF LoggedIn, Exit
<1>18. CASE Pipe
  BY <1>18 DEF Pipe, Exit
<1>19. CASE Quit
  BY <1>19 DEF Quit
<1>20. CASE LoginFailed
  BY <1>20 DEF LoginFailed, Exit, CleanUpMain
<1>21. CASE Signal
  BY <1>21 DEF Signal, Exit
<1>22. CASE UNCHANGED vars
  BY <1>22 DEF vars
<1> QED
  BY <1>1, <1>2, <1>3, <1>4, <1>5, <1>6, <1>7, <1>8, <1>9, <1>10, <1>11,
     <1>12, <1>13, <1>14, <1>15, <1>16, <1>17, <1>18, <1>19, <1>20, <1>21, <1>22
  DEF Next, Step, Terminated

\* What the protocol methods take as input.
LEMMA HeardStep == IInv /\ [Next]_vars => NothingFromBeforeTheHandshake'
<1> SUFFICES ASSUME IInv, [Next]_vars PROVE NothingFromBeforeTheHandshake'
  OBVIOUS
<1> USE DEF IInv, NothingFromBeforeTheHandshake, BufferInv, FromClient, FromServer,
           TypeOK, Buffer, Source, Takings, choice
<1>1. CASE SslListen
  BY <1>1 DEF SslListen, Exit
<1>2. CASE Greeting
  BY <1>2 DEF Greeting, Exit
<1>3. CASE FillFromClient
  BY <1>3 DEF FillFromClient, Leftover, Flushed
<1>4. CASE OtherCommand
  BY <1>4 DEF OtherCommand, TakenByClient, Flushed
<1>5. CASE LoginCommand
  BY <1>5 DEF LoginCommand, TakenByClient, TokenFlush, Flushed
<1>6. CASE StartTlsCommand
  BY <1>6 DEF StartTlsCommand, TakenByClient, TokenFlush, Flushed
<1>7. CASE ClientGone
  BY <1>7 DEF ClientGone, Exit
<1>8. CASE TlsListen
  BY <1>8 DEF TlsListen, Exit
<1>9. CASE Gate
  BY <1>9 DEF Gate
<1>10. CASE GetServer
  BY <1>10 DEF GetServer, Exit
<1>11. CASE SelectServer
  BY <1>11 DEF SelectServer
<1>12. CASE LocalAuth
  BY <1>12 DEF LocalAuth, Exit, CleanUpMain
<1>13. CASE Connect
  BY <1>13 DEF Connect, Exit
<1>14. CASE OutSetup
  BY <1>14 DEF OutSetup, Exit, Leftover, Taken, Flushed
<1>15. CASE TlsOutgoing
  BY <1>15 DEF TlsOutgoing, Exit
<1>16. CASE OutAuthenticate
  BY <1>16 DEF OutAuthenticate, Exit, Leftover, Taken, TokenFlush, Flushed
<1>17. CASE LoggedIn
  BY <1>17 DEF LoggedIn, Exit
<1>18. CASE Pipe
  BY <1>18 DEF Pipe, Exit
<1>19. CASE Quit
  BY <1>19 DEF Quit, Leftover, Taken, Flushed
<1>20. CASE LoginFailed
  BY <1>20 DEF LoginFailed, Exit, CleanUpMain
<1>21. CASE Signal
  BY <1>21 DEF Signal, Exit
<1>22. CASE UNCHANGED vars
  BY <1>22 DEF vars
<1> QED
  BY <1>1, <1>2, <1>3, <1>4, <1>5, <1>6, <1>7, <1>8, <1>9, <1>10, <1>11,
     <1>12, <1>13, <1>14, <1>15, <1>16, <1>17, <1>18, <1>19, <1>20, <1>21, <1>22
  DEF Next, Step, Terminated

\* A process that has just accepted a connection satisfies the invariant.
LEMMA InitIInv == Init => IInv
<1> SUFFICES ASSUME Init PROVE IInv
  OBVIOUS
<1>1. TypeOK
  <2>1. opt \in ValidOptions
    BY OptionsAssumption DEF Init
  <2>2. opt.authenticate_in \in BOOLEAN
    BY <2>1 DEF ValidOptions
  <2>3. heard \in Takings
    BY SourceTypes DEF Init, Takings
  <2>4. root \in BOOLEAN
    BY <2>2 DEF Init
  <2>5. heap \subseteq Int
    BY DEF Init, ArrayObj
  <2> QED
    BY <2>1, <2>3, <2>4, <2>5, BufferTypes, NoAuthType
    DEF Init, TypeOK, Pcs, Null
<1>2. BufferInv /\ LoginInv /\ ServerInv
  BY DEF Init, BufferInv, LoginInv, ServerInv, Flushed, Admitted, Talking
<1>3. ChoiceInv /\ AttemptInv
  BY DEF Init, ChoiceInv, AttemptInv, Talking, Attempting, BeforeRelay, ArrayObj,
         Null
<1>4. RootInv /\ NothingFromBeforeTheHandshake
  BY DEF Init, RootInv, NothingFromBeforeTheHandshake, Talking
<1> QED
  BY <1>1, <1>2, <1>3, <1>4 DEF IInv

\* The inductive invariant of the authentication loop.
THEOREM Invariance == Spec => []IInv
<1>1. IInv /\ [Next]_vars => IInv'
  BY TypeStep, BufferStep, LoginStep, ServerStep, ChoiceStep, AttemptStep,
     RootStep, HeardStep DEF IInv
<1> QED
  BY InitIInv, <1>1, PTL DEF Spec

-----------------------------------------------------------------------------
(* The properties.                                                         *)

\* The variables of the loop keep their types, for any options and bounds.
THEOREM TypeCorrect == Spec => []TypeOK
<1>1. IInv => TypeOK
  BY DEF IInv
<1> QED
  BY Invariance, <1>1, PTL

\* tls_listen_force: credentials that a client sent in plain text never get past
\* the gate, however many attempts are made and whatever was pipelined.
THEOREM PlaintextLoginRefused == Spec => []NoPlaintextLogin
<1>1. IInv => NoPlaintextLogin
  BY DEF IInv, LoginInv, NoPlaintextLogin
<1> QED
  BY Invariance, <1>1, PTL

\* tls_outgoing_force and ssl_outgoing: out_authenticate writes credentials to
\* protected connections only.
THEOREM PlaintextRelayRefused == Spec => []NoPlaintextRelay
<1>1. IInv => NoPlaintextRelay
  BY DEF IInv, ServerInv, NoPlaintextRelay
<1> QED
  BY Invariance, <1>1, PTL

\* The two token_flush() calls suffice: no peer's plain text is taken for what it
\* said after a handshake.
THEOREM HandshakesSeparate == Spec => []NothingFromBeforeTheHandshake
<1>1. IInv => NothingFromBeforeTheHandshake
  BY DEF IInv
<1> QED
  BY Invariance, <1>1, PTL

\* Each login's credentials go to one server, the one looked up for it or a
\* default one, and its name is never read after it was freed.
THEOREM OneServer == Spec => []OneServerPerLogin
<1>1. IInv => OneServerPerLogin
  BY DEF IInv, OneServerPerLogin, ChoiceInv, AttemptInv, Talking
<1> QED
  BY Invariance, <1>1, PTL

\* Every attempt starts without credentials, server and connection of the one
\* before: PERDITION_CLEAN_UP_MAIN and its copies on the six ways to retry.
THEOREM RetriesAreClean == Spec => []CleanSlate
<1>1. IInv => CleanSlate
  BY DEF IInv, CleanSlate, ServerInv, ChoiceInv, AttemptInv
<1> QED
  BY Invariance, <1>1, PTL

\* Connections to real servers are made after setuid(), with authenticate_in too.
THEOREM PrivilegesDropped == Spec => []Unprivileged
<1>1. IInv => Unprivileged
  BY DEF IInv, Unprivileged, RootInv
<1> QED
  BY Invariance, <1>1, PTL

\* tls_state never claims a protection that a connection does not have.
THEOREM TlsStateIsSafe == Spec => []TlsStateNeverOverstates
<1>1. IInv => TlsStateNeverOverstates
  BY DEF IInv, TlsStateNeverOverstates, ServerInv, LoginInv
<1> QED
  BY Invariance, <1>1, PTL

\* sent grows only by the credentials of the attempt under way, once.
THEOREM OncePerLogin == Spec => SentByThisLogin
<1>1. IInv /\ [Next]_vars =>
        [\A d \in sent' \ sent : d.auth = auth /\ auth.login = login
                                /\ \A e \in sent : e.auth.login < login]_vars
  <2> SUFFICES ASSUME IInv, Next, NEW d \in sent' \ sent
               PROVE  /\ d.auth = auth /\ auth.login = login
                      /\ \A e \in sent : e.auth.login < login
    BY DEF vars
  <2>1. OutAuthenticate /\ d = Dispatch
    BY DEF Next, Step, Terminated, SslListen, Greeting, FillFromClient,
           OtherCommand, LoginCommand, StartTlsCommand, ClientGone, TlsListen,
           Gate, GetServer, SelectServer, LocalAuth, Connect, OutSetup,
           TlsOutgoing, OutAuthenticate, LoggedIn, Pipe, Quit, LoginFailed,
           Signal, Exit, vars
  <2>2. pc = "authenticate"
    BY <2>1 DEF OutAuthenticate
  <2> QED
    BY <2>1, <2>2 DEF Dispatch, IInv, AttemptInv, Attempting, BeforeRelay
<1> QED
  BY Invariance, <1>1, PTL DEF Spec, SentByThisLogin

-----------------------------------------------------------------------------
(* Session implements ProxyContract.                                       *)

\* The authentication loop is a session as ProxyContract promises it: the
\* mapping is Phase for the control state and Relayed for what was sent.
THEOREM Refinement == Spec => ImplementsContract
<1>1. Init => Contract!ContractInit
  <2> SUFFICES ASSUME Init PROVE Contract!ContractInit
    OBVIOUS
  <2>1. Phase = "idle" /\ Relayed = {} /\ (client_io = "ssl") = FALSE
    BY DEF Init, Phase, Relayed
  <2> QED
    BY <2>1 DEF Init, Contract!ContractInit, Contract!Policies
<1>2. IInv /\ [Next]_vars => [Contract!ContractNext]_(Contract!cvars)
  <2> SUFFICES ASSUME IInv, [Next]_vars
               PROVE  Contract!ContractNext \/ UNCHANGED Contract!cvars
    OBVIOUS
  <2> USE DEF Contract!ContractNext, Contract!cvars, Phase, Relayed
  <2>1. CASE Exit
    BY <2>1 DEF Exit, Contract!Close
  <2>2. CASE SslListen /\ ~Exit
    BY <2>2 DEF SslListen, Contract!Protect
  <2>3. CASE TlsListen /\ ~Exit
    BY <2>3 DEF TlsListen, Contract!Protect
  <2>4. CASE LoginCommand
    BY <2>4 DEF LoginCommand, Contract!Attempt
  <2>5. CASE (LoginFailed \/ LocalAuth) /\ ~Exit
    BY <2>5 DEF LoginFailed, LocalAuth, Contract!Refuse
  <2>6. CASE LoggedIn /\ ~Exit
    <3>1. \E d \in sent : d.auth.login = login
      BY <2>6 DEF LoggedIn, IInv, AttemptInv
    <3>2. \E r \in Relayed : r.attempt = login
      <4>1. PICK d \in sent : d.auth.login = login
        BY <3>1
      <4>2. [attempt |-> d.auth.login, protected |-> d.io = "ssl"] \in Relayed
        OBVIOUS
      <4> QED
        BY <4>1, <4>2
    <3> QED
      BY <2>6, <3>2 DEF LoggedIn, Contract!Accept
  <2>7. CASE OutAuthenticate /\ ~Exit
    <3>1. CASE sent' = sent /\ pc' = "failed"
      BY <2>7, <3>1 DEF OutAuthenticate
    <3>2. CASE sent' = sent \cup {Dispatch} /\ pc' \in {"ok", "quit", "exited"}
      <4>1. \A d \in sent : d.auth.login # login
        BY <2>7 DEF OutAuthenticate, IInv, TypeOK, Dispatches, Auths, AttemptInv,
                    BeforeRelay
      <4>2. Dispatch.auth.login = login /\ Dispatch.io = server_io
        BY <2>7 DEF OutAuthenticate, Dispatch, IInv, AttemptInv, Attempting
      <4>3. "TLS_LISTEN_FORCE" \in opt.ssl_mode => client_io = "ssl"
        BY <2>7 DEF OutAuthenticate, IInv, LoginInv, Admitted
      <4>4. "TLS_OUTGOING_FORCE" \in opt.ssl_mode => server_io = "ssl"
        BY <2>7 DEF OutAuthenticate, IInv, ServerInv
      <4>5. Relayed' = Relayed \cup
                         {[attempt |-> login, protected |-> server_io = "ssl"]}
        BY <3>2, <4>2
      <4>6. \A r \in Relayed : r.attempt # login
        BY <4>1
      <4>7. Phase = "trying" /\ Phase' \in {"trying", "closed"}
        BY <2>7, <3>2 DEF OutAuthenticate
      <4>8. UNCHANGED <<opt, client_io, login>>
        BY <2>7 DEF OutAuthenticate, Exit
      <4> HIDE DEF Relayed, Phase
      <4>9. Contract!Relay(server_io = "ssl")
        BY <4>3, <4>4, <4>5, <4>6, <4>7, <4>8 DEF Contract!Relay
      <4> QED
        BY <4>9
    <3> QED
      BY <2>7, <3>1, <3>2 DEF OutAuthenticate
  <2>8. CASE \/ Greeting /\ ~Exit
             \/ FillFromClient \/ OtherCommand \/ StartTlsCommand \/ Gate \/ Quit
    BY <2>8 DEF Greeting, FillFromClient, OtherCommand, StartTlsCommand, Gate, Quit
  <2>9. CASE (GetServer \/ Connect \/ OutSetup \/ TlsOutgoing) /\ ~Exit
    BY <2>9 DEF GetServer, Connect, OutSetup, TlsOutgoing, AfterSetup
  <2>10. CASE SelectServer
    BY <2>10 DEF SelectServer, AfterSelect
  <2>11. CASE UNCHANGED vars
    BY <2>11 DEF vars
  <2> QED
    BY <2>1, <2>2, <2>3, <2>4, <2>5, <2>6, <2>7, <2>8, <2>9, <2>10, <2>11
    DEF Next, Step, Terminated, ClientGone, Pipe, Signal
<1> QED
  BY <1>1, <1>2, Invariance, PTL DEF Spec, ImplementsContract, Contract!ContractSpec
=============================================================================
