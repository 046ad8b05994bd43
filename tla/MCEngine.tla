------------------------------ MODULE MCEngine ------------------------------
(***************************************************************************)
(* Model-checking instances of Engine.                                     *)
(***************************************************************************)
EXTENDS Engine, TLC

CONSTANTS p1

OneProc == {p1}
=============================================================================
