---------------------------- MODULE MCRealServer -----------------------------
(***************************************************************************)
(* RealServer for TLC.                                                     *)
(***************************************************************************)
EXTENDS RealServer
=============================================================================
