------------------------------ MODULE MCHints ------------------------------
(***************************************************************************)
(* Model-checking instances of Hints.                                      *)
(***************************************************************************)
EXTENDS Hints, TLC

CONSTANTS w1, w2, w3

ThreeWriters == {w1, w2, w3}
=============================================================================
