---------------------------- MODULE HintsProofs ----------------------------
(***************************************************************************)
(* For any set of hint processes and any number of crashes: the lockfile   *)
(* excludes, no acknowledged hint is lost, and the ledger is an atomic     *)
(* append-only log.                                                        *)
(***************************************************************************)
EXTENDS Hints, TLAPS

\* Whatever interleaves, fails or is killed, a process holds nothing but hints that were
\* given: a ledger that is missing is an empty one to whoever loads it.
THEOREM HintTypeCorrect == Spec => []TypeOK
<1>1. Init => TypeOK
  <2>1. <<>> \in Seq(Writers)
    OBVIOUS
  <2>2. 0 \in 0..MaxCrashes
    BY CrashBound
  <2>3. [w \in Writers |-> <<>>] \in [Writers -> Seq(Writers)]
    BY <2>1
  <2>4. [w \in Writers |-> "idle"] \in [Writers -> Label]
    BY DEF Label
  <2>5. [w \in Writers |-> "none"] \in [Writers -> {"none", "ok", "failed"}]
    OBVIOUS
  <2> QED
    BY <2>1, <2>2, <2>3, <2>4, <2>5 DEF Init, TypeOK
<1>2. TypeOK /\ [Next]_vars => TypeOK'
  <2> SUFFICES ASSUME TypeOK, [Next]_vars PROVE TypeOK'
    OBVIOUS
  <2> USE CrashBound DEF TypeOK, Label, Holding, Goto, Report
  <2>1. ASSUME NEW w \in Writers, Begin(w) PROVE TypeOK'
    BY <2>1 DEF Begin
  <2>2. ASSUME NEW w \in Writers, Acquire(w) PROVE TypeOK'
    BY <2>2 DEF Acquire
  <2>3. ASSUME NEW w \in Writers, GiveUp(w) PROVE TypeOK'
    BY <2>3 DEF GiveUp
  <2>4. ASSUME NEW w \in Writers, Load(w) PROVE TypeOK'
    BY <2>4 DEF Load
  <2>5. ASSUME NEW w \in Writers, WriteTemp(w) PROVE TypeOK'
    BY <2>5 DEF WriteTemp
  <2>6. ASSUME NEW w \in Writers, Rename(w) PROVE TypeOK'
    BY <2>6 DEF Rename
  <2>7. ASSUME NEW w \in Writers, Fail(w) PROVE TypeOK'
    BY <2>7 DEF Fail
  <2>8. ASSUME NEW w \in Writers, Unlock(w) PROVE TypeOK'
    BY <2>8 DEF Unlock
  <2>9. ASSUME NEW w \in Writers, Crash(w) PROVE TypeOK'
    BY <2>9 DEF Crash, Running
  <2>10. CASE OperatorDeletesLock
    BY <2>10 DEF OperatorDeletesLock
  <2>11. CASE UNCHANGED vars
    BY <2>11 DEF vars
  <2> QED
    BY <2>1, <2>2, <2>3, <2>4, <2>5, <2>6, <2>7, <2>8, <2>9, <2>10, <2>11
       DEF Next, Step
<1> QED
  BY <1>1, <1>2, PTL DEF Spec

-----------------------------------------------------------------------------
(* A holder's lockfile exists: only the holder's own Unlock removes it, for *)
(* the operator removes it only when nobody runs.                           *)

Locked == (\E w \in Writers : pc[w] \in Holding) => lock

LockInv == MutualExclusion /\ Locked

LEMMA LockInvStep == TypeOK /\ LockInv /\ [Next]_vars => LockInv'
<1> SUFFICES ASSUME TypeOK, LockInv, [Next]_vars PROVE LockInv'
  OBVIOUS
<1> USE DEF TypeOK, LockInv, MutualExclusion, Locked, Holding, Goto
<1>1. ASSUME NEW w \in Writers, Begin(w) PROVE LockInv'
  BY <1>1 DEF Begin
<1>2. ASSUME NEW w \in Writers, Acquire(w) PROVE LockInv'
  BY <1>2 DEF Acquire
<1>3. ASSUME NEW w \in Writers, GiveUp(w) PROVE LockInv'
  BY <1>3 DEF GiveUp
<1>4. ASSUME NEW w \in Writers, Load(w) PROVE LockInv'
  BY <1>4 DEF Load
<1>5. ASSUME NEW w \in Writers, WriteTemp(w) PROVE LockInv'
  BY <1>5 DEF WriteTemp
<1>6. ASSUME NEW w \in Writers, Rename(w) PROVE LockInv'
  BY <1>6 DEF Rename
<1>7. ASSUME NEW w \in Writers, Fail(w) PROVE LockInv'
  BY <1>7 DEF Fail
<1>8. ASSUME NEW w \in Writers, Unlock(w) PROVE LockInv'
  BY <1>8 DEF Unlock
<1>9. ASSUME NEW w \in Writers, Crash(w) PROVE LockInv'
  BY <1>9 DEF Crash
<1>10. CASE OperatorDeletesLock
  BY <1>10 DEF OperatorDeletesLock, Running
<1>11. CASE UNCHANGED vars
  BY <1>11 DEF vars
<1> QED
  BY <1>1, <1>2, <1>3, <1>4, <1>5, <1>6, <1>7, <1>8, <1>9, <1>10, <1>11
     DEF Next, Step

LEMMA LockInvariant == Spec => []LockInv
<1>1. Init => LockInv
  BY DEF Init, LockInv, MutualExclusion, Locked, Holding
<1> QED
  BY <1>1, LockInvStep, HintTypeCorrect, PTL DEF Spec

\* The lockfile excludes: whatever the number of processes, and whichever of
\* them are killed while holding it, lockHints admits one at a time.
THEOREM HintMutualExclusion == Spec => []MutualExclusion
<1>1. LockInv => MutualExclusion
  BY DEF LockInv
<1> QED
  BY <1>1, LockInvariant, PTL
-----------------------------------------------------------------------------
(* What a holder read stays true while it holds the lock, so that what it   *)
(* renames into place is the ledger and its own hint.                       *)

Precommit == {"idle", "locking", "load", "write", "rename"}

ReadIsCurrent ==
    \A w \in Writers :
        /\ pc[w] \in {"write", "rename"} => read[w] = ledger
        /\ pc[w] = "rename" => tmp[w] = Append(ledger, w)

LoggedIn(w) == \E i \in DOMAIN ledger : ledger[i] = w

\* A process that has not renamed has no result and no hint in the ledger.
NotYetLogged ==
    \A w \in Writers :
        /\ pc[w] \in Precommit => result[w] = "none" /\ ~LoggedIn(w)
        /\ pc[w] \in {"unlock", "done"} => result[w] # "none"

LedgerInv == ReadIsCurrent /\ NotYetLogged /\ ResultsAreTrue

\* What appending one hint does to who is logged.
LEMMA AppendLogs ==
    ASSUME NEW w \in Writers, ledger \in Seq(Writers),
           ledger' = Append(ledger, w), NEW v \in Writers
    PROVE  LoggedIn(v)' <=> (LoggedIn(v) \/ v = w)
<1>1. DOMAIN ledger = 1..Len(ledger) /\ DOMAIN ledger' = 1..(Len(ledger) + 1)
  OBVIOUS
<1>2. /\ ledger'[Len(ledger) + 1] = w
      /\ \A i \in 1..Len(ledger) : ledger'[i] = ledger[i]
  OBVIOUS
<1>3. Len(ledger) \in Nat
  OBVIOUS
<1> QED
  BY <1>1, <1>2, <1>3 DEF LoggedIn

LEMMA LedgerInvStep ==
    TypeOK /\ LockInv /\ LedgerInv /\ [Next]_vars => LedgerInv'
<1> SUFFICES ASSUME TypeOK, LockInv, LedgerInv, [Next]_vars PROVE LedgerInv'
  OBVIOUS
<1> USE DEF TypeOK, LedgerInv, ReadIsCurrent, NotYetLogged, ResultsAreTrue,
            LoggedIn, Precommit, Goto, Report
<1>1. ASSUME NEW w \in Writers, Begin(w) PROVE LedgerInv'
  BY <1>1 DEF Begin
<1>2. ASSUME NEW w \in Writers, Acquire(w) PROVE LedgerInv'
  BY <1>2 DEF Acquire
<1>3. ASSUME NEW w \in Writers, GiveUp(w) PROVE LedgerInv'
  BY <1>3 DEF GiveUp
<1>4. ASSUME NEW w \in Writers, Load(w) PROVE LedgerInv'
  BY <1>4 DEF Load
<1>5. ASSUME NEW w \in Writers, WriteTemp(w) PROVE LedgerInv'
  BY <1>5 DEF WriteTemp
<1>6. ASSUME NEW w \in Writers, Rename(w) PROVE LedgerInv'
  <2>1. ledger' = Append(ledger, w)
    BY <1>6 DEF Rename
  <2>2. \A v \in Writers : LoggedIn(v)' <=> (LoggedIn(v) \/ v = w)
    BY <2>1, AppendLogs
  <2>3. \A v \in Writers : v # w => pc[v] \notin {"write", "rename"}
    BY <1>6 DEF Rename, LockInv, MutualExclusion, Holding
  <2>4. pc' = [pc EXCEPT ![w] = "unlock"] /\ result' = [result EXCEPT ![w] = "ok"]
    BY <1>6 DEF Rename
  <2>5. ReadIsCurrent'
    BY <2>3, <2>4
  <2>6. NotYetLogged'
    BY <2>2, <2>4
  <2>7. ResultsAreTrue'
    BY <2>2, <2>4
  <2> QED
    BY <2>5, <2>6, <2>7
<1>7. ASSUME NEW w \in Writers, Fail(w) PROVE LedgerInv'
  BY <1>7 DEF Fail
<1>8. ASSUME NEW w \in Writers, Unlock(w) PROVE LedgerInv'
  BY <1>8 DEF Unlock
<1>9. ASSUME NEW w \in Writers, Crash(w) PROVE LedgerInv'
  BY <1>9 DEF Crash, Running
<1>10. CASE OperatorDeletesLock
  BY <1>10 DEF OperatorDeletesLock
<1>11. CASE UNCHANGED vars
  BY <1>11 DEF vars
<1> QED
  BY <1>1, <1>2, <1>3, <1>4, <1>5, <1>6, <1>7, <1>8, <1>9, <1>10, <1>11
     DEF Next, Step

LEMMA LedgerInvariant == Spec => []LedgerInv
<1>1. Init => LedgerInv
  BY DEF Init, LedgerInv, ReadIsCurrent, NotYetLogged, ResultsAreTrue,
         LoggedIn, Precommit
<1> QED
  BY <1>1, LedgerInvStep, LockInvariant, HintTypeCorrect, PTL DEF Spec

\* A hint reported logged is in the ledger and one reported failed is not.
THEOREM HintResultsAreTrue == Spec => []ResultsAreTrue
<1>1. LedgerInv => ResultsAreTrue
  BY DEF LedgerInv
<1> QED
  BY <1>1, LedgerInvariant, PTL

\* Only a rename changes the ledger, and it adds the renaming process's hint.
LEMMA LedgerGrows ==
    LedgerInv /\ [Next]_vars =>
        [\E w \in Writers : ledger' = Append(ledger, w)]_ledger
<1> SUFFICES ASSUME LedgerInv, [Next]_vars, ledger' # ledger
             PROVE  \E w \in Writers : ledger' = Append(ledger, w)
  OBVIOUS
<1>1. PICK w \in Writers : Rename(w)
  BY DEF Next, Step, vars, Begin, Acquire, GiveUp, Load, WriteTemp, Fail,
         Unlock, Crash, OperatorDeletesLock
<1> QED
  BY <1>1 DEF Rename, LedgerInv, ReadIsCurrent

\* No hint command ever removes or reorders a hint that was logged.
THEOREM HintsAppendOnly == Spec => AppendOnly
  BY LedgerGrows, LedgerInvariant, PTL DEF Spec, AppendOnly
-----------------------------------------------------------------------------
(* The refinement: Begin is Ask, Rename is Log, returning is Confirm or     *)
(* Refuse by what the ledger holds, a kill is Die and the rest stutters.    *)

LEMMA StatusChanges ==
    ASSUME TypeOK, NEW w \in Writers, NEW s, status'[w] = s,
           \A v \in Writers \ {w} : pc'[v] = pc[v] /\ result'[v] = result[v]
    PROVE  status' = [status EXCEPT ![w] = s]
<1>1. \A v \in Writers \ {w} : status'[v] = status[v]
  BY DEF status
<1>2. status = [v \in Writers |-> status[v]]
  BY DEF status
<1>3. status' = [v \in Writers |-> status'[v]]
  BY DEF status
<1>4. \A v \in Writers : status'[v] = IF v = w THEN s ELSE status[v]
  BY <1>1
<1> QED
  BY <1>2, <1>3, <1>4

LEMMA RefinementStep ==
    TypeOK /\ LedgerInv /\ [Next]_vars => [Abstract!Next]_(Abstract!vars)
<1> SUFFICES ASSUME TypeOK, LedgerInv, [Next]_vars
             PROVE  Abstract!Next \/ UNCHANGED Abstract!vars
  OBVIOUS
<1> USE DEF TypeOK, Goto, Report, Label, Holding
<1>0. ASSUME NEW w \in Writers, status'[w] = status[w], ledger' = ledger,
             \A v \in Writers \ {w} : pc'[v] = pc[v] /\ result'[v] = result[v]
      PROVE  UNCHANGED Abstract!vars
  <2>1. \A v \in Writers : status'[v] = status[v]
    BY <1>0 DEF status
  <2>2. status' = status
    BY <2>1 DEF status
  <2> QED
    BY <1>0, <2>2 DEF Abstract!vars
<1>1. ASSUME NEW w \in Writers, Begin(w) PROVE Abstract!Ask(w)
  <2>1. status[w] = "idle" /\ status'[w] = "pending"
    BY <1>1 DEF Begin, status
  <2>2. status' = [status EXCEPT ![w] = "pending"]
    BY <1>1, <2>1, StatusChanges DEF Begin
  <2> QED
    BY <1>1, <2>1, <2>2 DEF Begin, Abstract!Ask, Abstract!Become
<1>2. ASSUME NEW w \in Writers, Acquire(w) \/ Load(w) \/ WriteTemp(w) \/ Fail(w)
      PROVE  UNCHANGED Abstract!vars
  <2>1. status'[w] = status[w]
    BY <1>2 DEF Acquire, Load, WriteTemp, Fail, status
  <2> QED
    BY <1>0, <1>2, <2>1 DEF Acquire, Load, WriteTemp, Fail
<1>3. ASSUME NEW w \in Writers, GiveUp(w) PROVE Abstract!Refuse(w)
  <2>1. status[w] = "pending" /\ status'[w] = "failed"
    BY <1>3 DEF GiveUp, status
  <2>2. status' = [status EXCEPT ![w] = "failed"]
    BY <1>3, <2>1, StatusChanges DEF GiveUp
  <2>3. ~LoggedIn(w)
    BY <1>3 DEF GiveUp, LedgerInv, NotYetLogged, Precommit
  <2> QED
    BY <1>3, <2>1, <2>2, <2>3
       DEF GiveUp, Abstract!Refuse, Abstract!Become, Abstract!Logged, LoggedIn
<1>4. ASSUME NEW w \in Writers, Rename(w) PROVE Abstract!Log(w)
  <2>1. status[w] = "pending" /\ status'[w] = status[w]
    BY <1>4 DEF Rename, status
  <2>2. status' = status
    <3>1. \A v \in Writers : status'[v] = status[v]
      BY <1>4, <2>1 DEF Rename, status
    <3> QED
      BY <3>1 DEF status
  <2>3. ~LoggedIn(w)
    BY <1>4 DEF Rename, LedgerInv, NotYetLogged, Precommit
  <2>4. ledger' = Append(ledger, w)
    BY <1>4 DEF Rename, LedgerInv, ReadIsCurrent
  <2> QED
    BY <2>1, <2>2, <2>3, <2>4 DEF Abstract!Log, Abstract!Logged, LoggedIn
<1>5. ASSUME NEW w \in Writers, Unlock(w)
      PROVE  Abstract!Confirm(w) \/ Abstract!Refuse(w)
  <2>1. status[w] = "pending" /\ status'[w] = result[w]
    BY <1>5 DEF Unlock, status
  <2>2. status' = [status EXCEPT ![w] = result[w]]
    BY <1>5, <2>1, StatusChanges DEF Unlock
  <2>3. result[w] \in {"ok", "failed"}
    BY <1>5 DEF Unlock, LedgerInv, NotYetLogged
  <2>4. /\ result[w] = "ok" => LoggedIn(w)
        /\ result[w] = "failed" => ~LoggedIn(w)
    BY DEF LedgerInv, ResultsAreTrue, LoggedIn
  <2> QED
    BY <1>5, <2>1, <2>2, <2>3, <2>4
       DEF Unlock, Abstract!Confirm, Abstract!Refuse, Abstract!Become,
           Abstract!Logged, LoggedIn
<1>6. ASSUME NEW w \in Writers, Crash(w) PROVE Abstract!Die(w)
  <2>1. status[w] = "pending" /\ status'[w] = "dead"
    BY <1>6 DEF Crash, Running, status
  <2>2. status' = [status EXCEPT ![w] = "dead"]
    BY <1>6, <2>1, StatusChanges DEF Crash
  <2> QED
    BY <1>6, <2>1, <2>2 DEF Crash, Abstract!Die, Abstract!Become
<1>7. CASE OperatorDeletesLock \/ UNCHANGED vars
  <2>1. UNCHANGED <<ledger, pc, result>>
    BY <1>7 DEF OperatorDeletesLock, vars
  <2>2. status' = status
    BY <2>1 DEF status
  <2> QED
    BY <2>1, <2>2 DEF Abstract!vars
<1> QED
  BY <1>1, <1>2, <1>3, <1>4, <1>5, <1>6, <1>7 DEF Next, Step, Abstract!Next

\* The lockfile and the read-modify-write it guards implement an atomic append.
THEOREM HintsImplementLedger == Spec => ImplementsHintLedger
<1>1. Init => Abstract!Init
  BY DEF Init, Abstract!Init, status
<1> QED
  BY <1>1, RefinementStep, LedgerInvariant, HintTypeCorrect, PTL
     DEF Spec, ImplementsHintLedger, Abstract!Spec
=============================================================================
