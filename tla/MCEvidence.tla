----------------------------- MODULE MCEvidence -----------------------------
(***************************************************************************)
(* Model-checking instances of Evidence.                                   *)
(***************************************************************************)
EXTENDS Evidence, TLC

CONSTANTS p1, f1, i1, i2

OneProc == {p1}
OneFault == {f1}
SyncTickEnd == {"sync", "tick", "end"}
EndOnly == {"end"}
TwoInodes == {i1, i2}
=============================================================================
