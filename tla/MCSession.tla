------------------------------ MODULE MCSession ------------------------------
(***************************************************************************)
(* Session for TLC: one initial state per configuration.                   *)
(***************************************************************************)
EXTENDS Session

\* Every ssl_mode that the keywords of OPT_SSL_MODE can add up to, with each
\* combination of the other options.
AllOptions == ValidOptions

\* The default configuration with a map: no encryption, no default server.
PlainMapOptions ==
  {[ssl_mode |-> {}, login_disabled |-> FALSE, authenticate_in |-> FALSE,
    map |-> TRUE, outgoing_server |-> FALSE]}

\* tls_listen_force with a map.
ForceListenOptions ==
  {[ssl_mode |-> {"TLS_LISTEN", "TLS_LISTEN_FORCE"}, login_disabled |-> FALSE,
    authenticate_in |-> FALSE, map |-> TRUE, outgoing_server |-> FALSE]}
=============================================================================
