------------------------------ MODULE Delivery ------------------------------
(***************************************************************************)
(* What the evidence of a session promises of its recording, with no       *)
(* archives, passes or failures: what has been recorded is bundled and     *)
(* delivered as of some moment, and at no later moment as of an earlier    *)
(* one.  A start that records a segment again replaces it.                 *)
(***************************************************************************)
EXTENDS Naturals

CONSTANT Segments

VARIABLES
    recorded,   \* the start that recorded each segment last, 0 for none
    bundled,    \* the same of the bundle that is kept
    delivered   \* and of what has left the machine

vars == <<recorded, bundled, delivered>>

Recordings == [Segments -> Nat]
Nothing == [k \in Segments |-> 0]
UpTo(old, new) == \A k \in Segments : old[k] <= new[k]

Init == recorded = Nothing /\ bundled = Nothing /\ delivered = Nothing

Record(k) ==
    /\ recorded' \in Recordings /\ recorded[k] < recorded'[k]
    /\ recorded' = [recorded EXCEPT ![k] = recorded'[k]]
    /\ UNCHANGED <<bundled, delivered>>

\* The bundle is replaced, whole, by one that has at least what it had.
Bundle ==
    /\ bundled' \in Recordings
    /\ UpTo(bundled, bundled') /\ UpTo(bundled', recorded)
    /\ UNCHANGED <<recorded, delivered>>

\* What leaves is a bundle that is kept.
Deliver ==
    /\ delivered' = bundled
    /\ UNCHANGED <<recorded, bundled>>

Next == (\E k \in Segments : Record(k)) \/ Bundle \/ Deliver

Spec == Init /\ [][Next]_vars
=============================================================================
