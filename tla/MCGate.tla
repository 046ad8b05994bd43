------------------------------- MODULE MCGate -------------------------------
(* Two faults, whose scripts may have two defects. *)
EXTENDS Gate

=============================================================================
