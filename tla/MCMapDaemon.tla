----------------------------- MODULE MCMapDaemon -----------------------------
(***************************************************************************)
(* MapDaemon for TLC.                                                      *)
(***************************************************************************)
EXTENDS MapDaemon

CONSTANTS c1, d1, d2

\* what some process sends to a child: a response and a request for a key that
\* is no child's (of a packet without the magic number nobody could tell that it
\* is not the former: neither is sent on or answered)
StrangePackets ==
  {[kind |-> kind, key |-> [who |-> None, n |-> 0]] : kind \in {"rsp", "req"}}
=============================================================================
