----------------------------- MODULE MCRegistry -----------------------------
(***************************************************************************)
(* Model-checking instances of Registry: which ids are used for what.      *)
(***************************************************************************)
EXTENDS Registry, TLC

CONSTANTS p1, s1, s2, s3, s4

OneProc == {p1}

FourSeeds == {s1, s2, s3, s4}

\* A local session, one that may be started with a --set, a provisioned one, a take-home.
OneOfEach == s1 :> {"local"} @@ s2 :> {"local"} @@ s3 :> {"aws"} @@ s4 :> {"offline"}
Pinned == {s2}
=============================================================================
