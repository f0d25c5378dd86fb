------------------------------ MODULE MCPidFile ------------------------------
(***************************************************************************)
(* PidFile for TLC.  The processes are model values; they are not declared *)
(* symmetric, because a liveness property is among the properties.         *)
(***************************************************************************)
EXTENDS PidFile
=============================================================================
