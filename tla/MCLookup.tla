------------------------------ MODULE MCLookup ------------------------------
(***************************************************************************)
(* Lookup for TLC.                                                         *)
(***************************************************************************)
EXTENDS Lookup, TLC

At == <<"@">>

LowerCase == "ALICE" :> "alice"

TwoHosts == <<"db1", "db2">>

Plain == [strip_domain |-> {}, add_domain |-> {}, lower_case |-> {},
          client_server_specification |-> FALSE, explicit_domain |-> None,
          host |-> None, resolves |-> FALSE, add_domain_strip_depth |-> 0, query_key |-> None,
          env |-> [x \in {"\\i", "\\I", "\\p", "\\P"} |-> <<x>>]]

\* the whole name; the short name and then the domain (perdition.8:463-469);
\* a server that the client names; a format with an unknown escape; a domain to
\* add whose look-up fails
SomeConfigs ==
  {[Plain EXCEPT !.lower_case = States],
   [Plain EXCEPT !.query_key = <<<<"\\u">>, <<"\\D", "\\d">>>>],
   [Plain EXCEPT !.client_server_specification = TRUE,
                 !.query_key = <<<<"\\u">>, <<"\\?">>>>],
   [Plain EXCEPT !.add_domain = States, !.host = <<"mx", "example">>]}

SomeUsers == {<<"ALICE">>, <<"alice", "@", "x">>}

ARow(user, server, port) == [user |-> user, server |-> server, port |-> port]

\* no row; a row for the user; a row for the domain; columns that are NULL
SomeTables ==
  {[k \in {} |-> None],
   (<<"alice">> :> ARow(None, <<"h1">>, <<"143">>)) @@
     (<<"@", "x">> :> ARow(None, <<"h2">>, None)),
   (<<"alice">> :> ARow(<<"bob", "@", "h3">>, None, None)) @@
     (<<"@", "x">> :> ARow(None, <<"[", ":", ":", "1", "]">>, <<"143">>))}
=============================================================================
