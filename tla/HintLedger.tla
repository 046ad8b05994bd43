----------------------------- MODULE HintLedger -----------------------------
(***************************************************************************)
(* What a hint ledger promises to concurrent writers, with no lock and no  *)
(* files: each writer's hint is added at most once, atomically, at the end *)
(* and the writer is then told the truth about it.                         *)
(***************************************************************************)
EXTENDS Sequences, Naturals

CONSTANT Writers

VARIABLES
    ledger,   \* the hints logged, oldest first
    status    \* what each writer knows of its hint

vars == <<ledger, status>>

Logged(w) == \E i \in DOMAIN ledger : ledger[i] = w

Init ==
    /\ ledger = <<>>
    /\ status = [w \in Writers |-> "idle"]

Become(w, s) == status' = [status EXCEPT ![w] = s]

Ask(w) ==
    /\ status[w] = "idle"
    /\ Become(w, "pending")
    /\ UNCHANGED ledger

Log(w) ==
    /\ status[w] = "pending"
    /\ ~Logged(w)
    /\ ledger' = Append(ledger, w)
    /\ UNCHANGED status

Confirm(w) ==
    /\ status[w] = "pending"
    /\ Logged(w)
    /\ Become(w, "ok")
    /\ UNCHANGED ledger

Refuse(w) ==
    /\ status[w] = "pending"
    /\ ~Logged(w)
    /\ Become(w, "failed")
    /\ UNCHANGED ledger

\* A writer that is killed never learns whether its hint was logged.
Die(w) ==
    /\ status[w] = "pending"
    /\ Become(w, "dead")
    /\ UNCHANGED ledger

Next == \E w \in Writers : Ask(w) \/ Log(w) \/ Confirm(w) \/ Refuse(w) \/ Die(w)

Spec == Init /\ [][Next]_vars
=============================================================================
