----------------------------- MODULE MCSession -----------------------------
(***************************************************************************)
(* Model-checking instances of Session.                                    *)
(***************************************************************************)
EXTENDS Session, TLC

CONSTANTS p1, e1, e2

OneProc == {p1}

TwoEnvs == {e1, e2}

FirstEnv == {e1}
=============================================================================
