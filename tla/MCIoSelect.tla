----------------------------- MODULE MCIoSelect ------------------------------
(***************************************************************************)
(* IoSelect for TLC.                                                       *)
(***************************************************************************)
EXTENDS IoSelect

\* no timeout, shorter than, equal to, and several times connect_relog
SomeTimeouts == {Infinite, 1, 3, 4, 7}
=============================================================================
