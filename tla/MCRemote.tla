------------------------------ MODULE MCRemote ------------------------------
(***************************************************************************)
(* Model-checking instances of Remote and Listing.                         *)
(***************************************************************************)
EXTENDS Listing

CONSTANTS m1, m2

TwoMachines == {m1, m2}

Overdue == [seed |-> "a drop", mode |-> "offline", ended |-> FALSE, stage |-> "sent", due |-> 1]
Finished == [seed |-> "a debugging", mode |-> "local", ended |-> TRUE, local |-> "torn down"]
NoName == [seed |-> "", state |-> "running", launched |-> 2, ttl |-> 0]
Elsewhere == [seed |-> "a host", state |-> "running", launched |-> 0, ttl |-> 1]

MCBeside == { [sessions |-> <<Overdue, Finished>>, instances |-> <<NoName, Elsewhere>>] }
=============================================================================
