------------------------------- MODULE Hints -------------------------------
(***************************************************************************)
(* The hint ledger of a session workdir: internal/grading/score.go.        *)
(*                                                                         *)
(* Every `interviews hint` is a process of its own that appends one hint   *)
(* to hints.json by reading it, adding to it and writing it back.  The     *)
(* processes exclude one another with hints.json.lock, a file created with *)
(* O_EXCL and removed on return, and write through a temporary file that   *)
(* is renamed into place.                                                  *)
(*                                                                         *)
(* A writer is one process, and stands for the one hint it logs.           *)
(***************************************************************************)
EXTENDS Naturals, Sequences

CONSTANTS
    Writers,     \* the hint processes
    MaxCrashes   \* bound on the processes killed before they return

ASSUME CrashBound == MaxCrashes \in Nat

VARIABLES
    lock,      \* does hints.json.lock exist
    ledger,    \* the content of hints.json, oldest hint first
    pc,        \* where each process is
    read,      \* what a process loaded from the ledger
    tmp,       \* the temporary file a process is about to rename
    result,    \* what a process reports when it returns
    crashes    \* processes killed so far

vars == <<lock, ledger, pc, read, tmp, result, crashes>>

Holding == {"load", "write", "rename", "unlock"}
Label == {"idle", "locking", "done", "dead"} \union Holding

TypeOK ==
    /\ lock \in BOOLEAN
    /\ ledger \in Seq(Writers)
    /\ pc \in [Writers -> Label]
    /\ read \in [Writers -> Seq(Writers)]
    /\ tmp \in [Writers -> Seq(Writers)]
    /\ result \in [Writers -> {"none", "ok", "failed"}]
    /\ crashes \in 0..MaxCrashes

Init ==
    /\ lock = FALSE
    /\ ledger = <<>>
    /\ pc = [w \in Writers |-> "idle"]
    /\ read = [w \in Writers |-> <<>>]
    /\ tmp = [w \in Writers |-> <<>>]
    /\ result = [w \in Writers |-> "none"]
    /\ crashes = 0

Goto(w, label) == pc' = [pc EXCEPT ![w] = label]
Report(w, r) == result' = [result EXCEPT ![w] = r]

-----------------------------------------------------------------------------
(* lockHints *)

Begin(w) ==
    /\ pc[w] = "idle"
    /\ Goto(w, "locking")
    /\ UNCHANGED <<lock, ledger, read, tmp, result, crashes>>

\* Plausible bug: the lockfile is opened without O_EXCL.
AcquireShared(w) ==
    /\ pc[w] = "locking"
    /\ lock' = TRUE
    /\ Goto(w, "load")
    /\ UNCHANGED <<ledger, read, tmp, result, crashes>>

\* OpenFile(O_CREATE|O_EXCL) succeeds: the file did not exist.
Acquire(w) ==
    /\ pc[w] = "locking"
    /\ ~lock
    /\ lock' = TRUE
    /\ Goto(w, "load")
    /\ UNCHANGED <<ledger, read, tmp, result, crashes>>

\* Plausible bug: the deadline is never consulted, and only an open that fails
\* for another reason ends the wait.
GiveUpOnlyOnError(w) ==
    /\ pc[w] = "locking"
    /\ ~lock
    /\ Goto(w, "done")
    /\ Report(w, "failed")
    /\ UNCHANGED <<lock, ledger, read, tmp, crashes>>

\* The file exists and hintLockWait has passed, or OpenFile failed for another
\* reason.  A poll that finds the file and sleeps again changes nothing.
GiveUp(w) ==
    /\ pc[w] = "locking"
    /\ Goto(w, "done")
    /\ Report(w, "failed")
    /\ UNCHANGED <<lock, ledger, read, tmp, crashes>>

\* The deferred unlock, which removes whatever file has the name.
Unlock(w) ==
    /\ pc[w] = "unlock"
    /\ lock' = FALSE
    /\ Goto(w, "done")
    /\ UNCHANGED <<ledger, read, tmp, result, crashes>>

-----------------------------------------------------------------------------
(* AppendHint, with the lock held *)

\* Plausible bug: a ledger that does not exist yet is read as null.
LoadNull(w) ==
    /\ pc[w] = "load"
    /\ read' = [read EXCEPT ![w] = IF ledger = <<>> THEN "null" ELSE ledger]
    /\ Goto(w, "write")
    /\ UNCHANGED <<lock, ledger, tmp, result, crashes>>

Load(w) ==
    /\ pc[w] = "load"
    /\ read' = [read EXCEPT ![w] = ledger]
    /\ Goto(w, "write")
    /\ UNCHANGED <<lock, ledger, tmp, result, crashes>>

\* WriteAtomic up to the rename: the temporary file holds the whole ledger.
WriteTemp(w) ==
    /\ pc[w] = "write"
    /\ tmp' = [tmp EXCEPT ![w] = Append(read[w], w)]
    /\ Goto(w, "rename")
    /\ UNCHANGED <<lock, ledger, read, result, crashes>>

\* Plausible bug: the hint is written over the ledger instead of after it.
RenameOverwriting(w) ==
    /\ pc[w] = "rename"
    /\ ledger' = <<w>>
    /\ Report(w, "ok")
    /\ Goto(w, "unlock")
    /\ UNCHANGED <<lock, read, tmp, crashes>>

Rename(w) ==
    /\ pc[w] = "rename"
    /\ ledger' = tmp[w]
    /\ Report(w, "ok")
    /\ Goto(w, "unlock")
    /\ UNCHANGED <<lock, read, tmp, crashes>>

\* Reading, writing or renaming fails: the error is returned, the temporary
\* file removed, the ledger as it was, and the lock released on the way out.
Fail(w) ==
    /\ pc[w] \in {"load", "write", "rename"}
    /\ Report(w, "failed")
    /\ Goto(w, "unlock")
    /\ UNCHANGED <<lock, ledger, read, tmp, crashes>>

-----------------------------------------------------------------------------
(* The machine and the operator *)

Running(w) == pc[w] \notin {"idle", "done", "dead"}

\* The process is killed.  Its deferred unlock does not run.
Crash(w) ==
    /\ Running(w)
    /\ crashes < MaxCrashes
    /\ crashes' = crashes + 1
    /\ Goto(w, "dead")
    /\ UNCHANGED <<lock, ledger, read, tmp, result>>

\* What the timeout's message asks for: the lockfile is deleted by hand while
\* no interviews command is running.
OperatorDeletesLock ==
    /\ lock
    /\ \A w \in Writers : ~Running(w)
    /\ lock' = FALSE
    /\ UNCHANGED <<ledger, pc, read, tmp, result, crashes>>

Step(w) ==
    \/ Acquire(w) \/ GiveUp(w) \/ Load(w) \/ WriteTemp(w)
    \/ Rename(w) \/ Fail(w) \/ Unlock(w)

Next ==
    \/ \E w \in Writers : Begin(w) \/ Step(w) \/ Crash(w)
    \/ OperatorDeletesLock

Spec == Init /\ [][Next]_vars

\* A process that runs keeps running: it is scheduled, and its deadline comes.
\* Nothing says a hint is ever given, a process killed or a lock deleted.
FairSpec == Spec /\ \A w \in Writers : WF_vars(Step(w))

-----------------------------------------------------------------------------
(* Safety *)

\* No two processes are between taking the lockfile and removing it, also
\* after crashes have left it behind and the operator has cleaned up.
MutualExclusion ==
    \A v, w \in Writers : pc[v] \in Holding /\ pc[w] \in Holding => v = w

\* score.go: "two logged at once must not cost one of them".  A hint reported
\* logged is in the ledger, once, and one reported failed is not: the
\* interviewer who retries a failed hint does not log it twice.
ResultsAreTrue ==
    \A w \in Writers :
        /\ result[w] = "ok" => \E i \in DOMAIN ledger : ledger[i] = w
        /\ result[w] = "failed" => \A i \in DOMAIN ledger : ledger[i] # w

(* Action property *)

\* Hints are evidence: the ledger changes only by one hint added at its end.
AppendOnly == [][\E w \in Writers : ledger' = Append(ledger, w)]_ledger

(* Liveness *)

\* A hint command always returns or is killed, however many other processes
\* hold or have abandoned the lock: the wait for it is bounded.
EveryHintReturns ==
    \A w \in Writers : pc[w] = "locking" ~> pc[w] \in {"done", "dead"}

-----------------------------------------------------------------------------
(* What the ledger promises *)

status == [w \in Writers |->
    CASE pc[w] = "idle" -> "idle"
      [] pc[w] = "dead" -> "dead"
      [] pc[w] = "done" -> result[w]
      [] OTHER          -> "pending"]

Abstract == INSTANCE HintLedger WITH Writers <- Writers, ledger <- ledger, status <- status

\* The lock and the read-modify-write implement an atomic append.
ImplementsHintLedger == Abstract!Spec
=============================================================================
