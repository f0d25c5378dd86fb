---------------------------- MODULE MCClientSide -----------------------------
(***************************************************************************)
(* ClientSide for TLC.                                                     *)
(***************************************************************************)
EXTENDS ClientSide

CommonShapes == {"common"}
OddShapes    == {"common", "noop_tag"}
=============================================================================
