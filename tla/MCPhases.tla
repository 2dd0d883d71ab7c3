------------------------------ MODULE MCPhases ------------------------------
(***************************************************************************)
(* The phases of MAXIMIZE, with the bounds that the configurations give.   *)
(***************************************************************************)
EXTENDS Phases
=============================================================================
