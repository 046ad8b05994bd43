---------------------------- MODULE EngineProofs ----------------------------
(***************************************************************************)
(* For a pack of any size and any number of aborted commands: the types    *)
(* hold whatever runs at once; and with one command at a time, the record  *)
(* covers the environment, never shrinks, stays torn down, and a break     *)
(* that runs to its end is whole.                                          *)
(***************************************************************************)
EXTENDS Engine, TLAPS

\* The variables keep their types, whatever commands run at once.
THEOREM EngineTypeCorrect == Spec => []TypeOK
<1> USE PackNotEmpty, AbortBound DEF Fault
<1>1. Init => TypeOK
  <2>1. NoState \in States
    BY DEF NoState, States
  <2>2. [p \in Procs |-> NoState] \in [Procs -> States]
    BY <2>1
  <2>3. [p \in Procs |-> "idle"] \in [Procs -> Label]
    BY DEF Label
  <2>4. [p \in Procs |-> {}] \in [Procs -> SUBSET Fault]
    OBVIOUS
  <2>5. 0 \in 0..MaxAborts
    OBVIOUS
  <2> QED
    BY <2>1, <2>2, <2>3, <2>4, <2>5 DEF Init, TypeOK
<1>2. TypeOK /\ [Next]_vars => TypeOK'
  <2> SUFFICES ASSUME TypeOK, [Next]_vars PROVE TypeOK'
    OBVIOUS
  <2> USE DEF TypeOK, Label, States, LiveState, TornDown, SaveState, Saved,
              Goto, Keep, Left, Live, NoState
  <2>1. ASSUME NEW p \in Procs, Up(p) PROVE TypeOK'
    <3>1. CASE UpBegin(p)
      BY <3>1 DEF UpBegin
    <3>2. CASE UpProvision(p)
      BY <3>2 DEF UpProvision, Provision
    <3>3. CASE UpProvisionFails(p)
      BY <3>3 DEF UpProvisionFails, Provision, substrate
    <3>4. CASE UpVerify(p)
      BY <3>4 DEF UpVerify
    <3>5. CASE UpRead(p)
      BY <3>5 DEF UpRead
    <3>6. CASE UpSave(p)
      BY <3>6 DEF UpSave
    <3> QED
      BY <2>1, <3>1, <3>2, <3>3, <3>4, <3>5, <3>6 DEF Up
  <2>2. ASSUME NEW p \in Procs, Break(p) PROVE TypeOK'
    <3>1. CASE BreakBegin(p)
      BY <3>1 DEF BreakBegin
    <3>2. CASE BreakInject(p)
      BY <3>2 DEF BreakInject
    <3>3. CASE BreakInjectFails(p)
      BY <3>3 DEF BreakInjectFails
    <3>4. CASE BreakRecord(p)
      BY <3>4 DEF BreakRecord
    <3>5. CASE BreakGiveUp(p)
      BY <3>5 DEF BreakGiveUp
    <3> QED
      BY <2>2, <3>1, <3>2, <3>3, <3>4, <3>5 DEF Break
  <2>3. ASSUME NEW p \in Procs, Fix(p) PROVE TypeOK'
    <3>1. CASE FixBegin(p)
      <4>1. PICK ids \in {state.injected} \union {{f} : f \in Fault} : Left(p, ids)
        BY <3>1 DEF FixBegin
      <4>2. ids \subseteq Fault
        BY <4>1
      <4> QED
        BY <3>1, <4>1, <4>2 DEF FixBegin
    <3>2. CASE FixOne(p)
      BY <3>2 DEF FixOne
    <3>3. CASE FixFails(p)
      BY <3>3 DEF FixFails
    <3> QED
      BY <2>3, <3>1, <3>2, <3>3 DEF Fix
  <2>4. ASSUME NEW p \in Procs, Down(p) PROVE TypeOK'
    <3>1. CASE DownBegin(p)
      <4>1. PICK purge \in BOOLEAN : Goto(p, IF purge THEN "purge" ELSE "clean")
        BY <3>1 DEF DownBegin
      <4>2. pc' \in [Procs -> Label]
        BY <4>1
      <4>3. /\ up' = FALSE /\ present' = {} /\ landed' = {}
            /\ UNCHANGED <<state, files, snap, todo, aborts>>
        BY <3>1 DEF DownBegin
      <4> QED
        BY <4>2, <4>3
    <3>2. CASE DownPurge(p) \/ DownRemoveDir(p)
      <4>1. NoState \in States
        OBVIOUS
      <4>2. pc' \in [Procs -> Label]
        BY <3>2 DEF DownPurge, DownRemoveDir
      <4>3. /\ files' = {} /\ state' = NoState
            /\ UNCHANGED <<up, present, landed, snap, todo, aborts>>
        BY <3>2 DEF DownPurge, DownRemoveDir
      <4> QED
        BY <4>1, <4>2, <4>3
    <3>3. CASE DownClean(p)
      BY <3>3 DEF DownClean
    <3>4. CASE DownStamp(p)
      BY <3>4 DEF DownStamp
    <3>5. CASE DownTidy(p)
      BY <3>5 DEF DownTidy
    <3> QED
      BY <2>4, <3>1, <3>2, <3>3, <3>4, <3>5 DEF Down
  <2>5. ASSUME NEW p \in Procs, Abort(p) PROVE TypeOK'
    BY <2>5 DEF Abort
  <2>6. CASE CandidateFixes
    BY <2>6 DEF CandidateFixes
  <2>7. CASE SessionWritesEvidence
    BY <2>7 DEF SessionWritesEvidence
  <2>8. CASE UNCHANGED vars
    BY <2>8 DEF vars
  <2> QED
    BY <2>1, <2>2, <2>3, <2>4, <2>5, <2>6, <2>7, <2>8 DEF Next
<1> QED
  BY <1>1, <1>2, PTL DEF Spec
-----------------------------------------------------------------------------
(* One command at a time.  The invariant says what a command in progress    *)
(* may rely on: nobody changes the state behind its back.                   *)

\* An environment without a live state holds no fault, and a state a workdir.
Frame ==
    /\ ~Live(state) => present = {}
    /\ state.kind # "none" => "dir" \in files

UpInProgress(p) ==
    /\ pc[p] \in {"provision", "verify", "read", "save"} => "dir" \in files
    /\ pc[p] = "save" => snap[p] = state

\* Break handles the faults in order, and has recorded those it has handled.
BreakInProgress(p) ==
    pc[p] \in {"inject", "record", "giveup"} =>
        /\ Live(state) /\ Live(snap[p])
        /\ state.injected \subseteq snap[p].injected
        /\ \A f \in Fault : f \notin todo[p] => f \in state.injected
        /\ \A f \in todo[p], g \in Fault : f < g => g \in todo[p]
        /\ pc[p] = "record" =>
             /\ \A f \in snap[p].injected \ state.injected : First(p, f)
             /\ \A f \in Fault : First(p, f) => f \in snap[p].injected
        /\ pc[p] # "record" => snap[p] = state

DownInProgress(p) ==
    /\ pc[p] \in {"purge", "clean", "stamp", "tidy", "rmdir"} => present = {}
    /\ pc[p] = "stamp" => snap[p] = state

\* The recorded faults are the first ones of the pack.
RecordedInOrder ==
    \A f \in Recorded : \A g \in Fault : g < f => g \in Recorded

SerialInv ==
    /\ Frame
    /\ \A p \in Procs : UpInProgress(p) /\ BreakInProgress(p) /\ DownInProgress(p)
    /\ RecordedInOrder
    /\ OnlyNextFaultUnrecorded

\* A step that leaves the state alone and adds no fault disturbs only what
\* the acting command itself relies on.
LEMMA QuietStep ==
    ASSUME SerialInv, state' = state, present' \subseteq present,
           "dir" \in files => "dir" \in files',
           \A p \in Procs : (UpInProgress(p) /\ BreakInProgress(p) /\ DownInProgress(p))'
    PROVE  SerialInv'
BY DEF SerialInv, Frame, RecordedInOrder, OnlyNextFaultUnrecorded, Recorded, Live

LEMMA SerialInvStep ==
    ASSUME OneAtATime, TypeOK, SerialInv, [Next]_vars
    PROVE  SerialInv'
<1> USE PackNotEmpty DEF OneAtATime, TypeOK, Goto, Keep, Left, Live
<1> DEFINE Own(p) == UpInProgress(p) /\ BreakInProgress(p) /\ DownInProgress(p)
<1>0. \A p \in Procs : Own(p)
  BY DEF SerialInv
<1>1. ASSUME NEW p \in Procs, Up(p) PROVE SerialInv'
  <2>0. Own(p)
    BY <1>0
  <2>1. CASE UpBegin(p)
    <3>1. Own(p)'
      BY <2>0, <2>1 DEF UpBegin, UpInProgress, BreakInProgress, DownInProgress, First
    <3> QED
      BY <2>1, <3>1, QuietStep DEF UpBegin
  <2>2. CASE UpProvision(p)
    <3>1. Own(p)'
      BY <2>0, <2>2 DEF UpProvision, UpInProgress, BreakInProgress, DownInProgress, First
    <3> QED
      BY <2>2, <3>1, QuietStep DEF UpProvision, Provision
  <2>3. CASE UpProvisionFails(p)
    <3>1. Own(p)'
      BY <2>0, <2>3 DEF UpProvisionFails, UpInProgress, BreakInProgress, DownInProgress, First
    <3> QED
      BY <2>3, <3>1, QuietStep DEF UpProvisionFails, Provision, substrate
  <2>4. CASE UpVerify(p)
    <3>1. Own(p)'
      BY <2>0, <2>4 DEF UpVerify, UpInProgress, BreakInProgress, DownInProgress, First
    <3> QED
      BY <2>4, <3>1, QuietStep DEF UpVerify
  <2>5. CASE UpRead(p)
    <3>1. Own(p)'
      BY <2>0, <2>5 DEF UpRead, UpInProgress, BreakInProgress, DownInProgress, First
    <3> QED
      BY <2>5, <3>1, QuietStep DEF UpRead
  <2>6. CASE UpSave(p)
    <3>1. "dir" \in files /\ snap[p] = state
      BY <2>0, <2>6 DEF UpSave, UpInProgress
    <3>2. state' = LiveState(Recorded)
      BY <2>6, <3>1 DEF UpSave, SaveState, Recorded, LiveState
    <3>3. Recorded' = Recorded /\ Live(state')
      BY <3>2 DEF Recorded, LiveState
    <3>4. Own(p)'
      BY <2>6 DEF UpSave, UpInProgress, BreakInProgress, DownInProgress
    <3>5. Frame'
      BY <2>6, <3>1, <3>3 DEF UpSave, Frame
    <3>6. RecordedInOrder' /\ OnlyNextFaultUnrecorded'
      BY <2>6, <3>3 DEF UpSave, SerialInv, RecordedInOrder, OnlyNextFaultUnrecorded
    <3> QED
      BY <3>4, <3>5, <3>6 DEF SerialInv
  <2> QED
    BY <1>1, <2>1, <2>2, <2>3, <2>4, <2>5, <2>6 DEF Up
<1>2. ASSUME NEW p \in Procs, Break(p) PROVE SerialInv'
  <2>0. Own(p)
    BY <1>0
  <2>1. CASE BreakBegin(p)
    <3>1. Own(p)'
      BY <2>1 DEF BreakBegin, UpInProgress, BreakInProgress, DownInProgress
    <3> QED
      BY <2>1, <3>1, QuietStep DEF BreakBegin
  <2>2. CASE BreakInject(p)
    <3>1. PICK f \in Fault : /\ First(p, f)
                            /\ present' = present \union {f}
                            /\ Keep(p, LiveState(snap[p].injected \union {f}))
      BY <2>2 DEF BreakInject
    <3>2. /\ Live(state) /\ snap[p] = state
          /\ \A g \in Fault : g \notin todo[p] => g \in state.injected
          /\ \A g \in todo[p], h \in Fault : g < h => h \in todo[p]
      BY <2>0, <2>2 DEF BreakInject, BreakInProgress
    <3>3. /\ state' = state /\ todo' = todo /\ files' = files
          /\ pc' = [pc EXCEPT ![p] = "record"]
      BY <2>2 DEF BreakInject
    <3>4. snap'[p].injected = state.injected \union {f} /\ Live(snap'[p])
      BY <3>1, <3>2 DEF LiveState
    <3>5. BreakInProgress(p)'
      <4>1. \A g \in Fault : First(p, g)' <=> g = f
        BY <3>1, <3>3 DEF First, Fault
      <4>2. snap'[p].injected \ state'.injected \subseteq {f} /\ f \in snap'[p].injected
        BY <3>3, <3>4
      <4>3. /\ \A g \in Fault : g \notin todo'[p] => g \in state'.injected
            /\ \A g \in todo'[p], h \in Fault : g < h => h \in todo'[p]
            /\ Live(state')
        BY <3>2, <3>3
      <4> QED
        BY <3>3, <3>4, <4>1, <4>2, <4>3 DEF BreakInProgress
    <3>6. Own(p)'
      BY <3>3, <3>5 DEF UpInProgress, DownInProgress
    <3>7. Frame'
      BY <3>2, <3>3 DEF SerialInv, Frame
    <3>8. Recorded' = Recorded
      BY <3>3 DEF Recorded
    <3>9. \A g \in Fault : g < f => g \in Recorded
      BY <3>1, <3>2 DEF First, Recorded, Fault
    <3>10. OnlyNextFaultUnrecorded' /\ RecordedInOrder'
      BY <3>1, <3>8, <3>9 DEF SerialInv, OnlyNextFaultUnrecorded, RecordedInOrder
    <3> QED
      BY <3>6, <3>7, <3>10 DEF SerialInv
  <2>3. CASE BreakInjectFails(p)
    <3>1. PICK f \in Fault : /\ First(p, f)
                            /\ present' \subseteq present \union {f}
      BY <2>3 DEF BreakInjectFails
    <3>2. /\ Live(state) /\ snap[p] = state
          /\ \A g \in Fault : g \notin todo[p] => g \in state.injected
          /\ \A g \in todo[p], h \in Fault : g < h => h \in todo[p]
      BY <2>0, <2>3 DEF BreakInjectFails, BreakInProgress
    <3>3. /\ state' = state /\ todo' = todo /\ files' = files /\ snap' = snap
          /\ pc' = [pc EXCEPT ![p] = "giveup"]
      BY <2>3 DEF BreakInjectFails
    <3>4. Own(p)'
      BY <3>2, <3>3 DEF UpInProgress, BreakInProgress, DownInProgress
    <3>5. Frame'
      BY <3>2, <3>3 DEF SerialInv, Frame
    <3>6. Recorded' = Recorded
      BY <3>3 DEF Recorded
    <3>7. \A g \in Fault : g < f => g \in Recorded
      BY <3>1, <3>2 DEF First, Recorded, Fault
    <3>8. OnlyNextFaultUnrecorded' /\ RecordedInOrder'
      BY <3>1, <3>6, <3>7 DEF SerialInv, OnlyNextFaultUnrecorded, RecordedInOrder
    <3> QED
      BY <3>4, <3>5, <3>8 DEF SerialInv
  <2>4. CASE BreakRecord(p)
    <3>1. PICK f \in Fault : /\ First(p, f)
                            /\ Left(p, todo[p] \ {f})
                            /\ Goto(p, IF Saved /\ todo[p] # {f} THEN "inject" ELSE "idle")
      BY <2>4 DEF BreakRecord
    <3>2. /\ Live(state) /\ Live(snap[p])
          /\ state.injected \subseteq snap[p].injected
          /\ \A g \in Fault : g \notin todo[p] => g \in state.injected
          /\ \A g \in todo[p], h \in Fault : g < h => h \in todo[p]
          /\ \A g \in snap[p].injected \ state.injected : First(p, g)
          /\ f \in snap[p].injected
      BY <2>0, <2>4, <3>1 DEF BreakRecord, BreakInProgress
    <3>3. "dir" \in files
      BY <3>2 DEF SerialInv, Frame
    <3>4. state' = snap[p] /\ snap' = snap /\ present' = present /\ files' = files
      BY <2>4, <3>3 DEF BreakRecord, SaveState
    <3>5. Recorded' = Recorded \union {f}
      <4>1. \A g \in Fault : First(p, g) => g = f
        BY <3>1 DEF First, Fault
      <4>2. snap[p].injected \subseteq Fault
        BY DEF States
      <4> QED
        BY <3>2, <3>4, <4>1, <4>2 DEF Recorded
    <3>6. \A g \in Fault : g < f => g \in Recorded
      BY <3>1, <3>2 DEF First, Recorded, Fault
    <3>7. BreakInProgress(p)'
      <4>1. todo'[p] = todo[p] \ {f} /\ pc'[p] \in {"inject", "idle"}
        BY <3>1
      <4>2. \A g \in Fault : g \notin todo'[p] => g \in state'.injected
        BY <3>2, <3>4, <4>1
      <4>3. \A g \in todo'[p], h \in Fault : g < h => h \in todo'[p]
        BY <3>1, <3>2, <4>1 DEF First, Fault
      <4> QED
        BY <3>2, <3>4, <4>1, <4>2, <4>3 DEF BreakInProgress
    <3>8. UpInProgress(p)' /\ DownInProgress(p)'
      BY <3>1 DEF UpInProgress, DownInProgress
    <3>9. Frame'
      BY <3>2, <3>3, <3>4 DEF Frame
    <3>10. OnlyNextFaultUnrecorded' /\ RecordedInOrder'
      BY <3>4, <3>5, <3>6 DEF SerialInv, OnlyNextFaultUnrecorded, RecordedInOrder
    <3> QED
      BY <3>7, <3>8, <3>9, <3>10 DEF SerialInv
  <2>5. CASE BreakGiveUp(p)
    <3>1. state' = state
      BY <2>0, <2>5 DEF BreakGiveUp, BreakInProgress, SaveState
    <3>2. Own(p)'
      BY <2>5 DEF BreakGiveUp, UpInProgress, BreakInProgress, DownInProgress
    <3> QED
      BY <2>5, <3>1, <3>2, QuietStep DEF BreakGiveUp
  <2> QED
    BY <1>2, <2>1, <2>2, <2>3, <2>4, <2>5 DEF Break
<1>3. ASSUME NEW p \in Procs, Fix(p) PROVE SerialInv'
  <2>1. /\ state' = state /\ files' = files /\ snap' = snap /\ present' \subseteq present
        /\ pc[p] \in {"idle", "fix"} /\ pc'[p] \in {"idle", "fix"}
    BY <1>3 DEF Fix, FixBegin, FixOne, FixFails
  <2>2. Own(p)'
    BY <2>1 DEF UpInProgress, BreakInProgress, DownInProgress
  <2> QED
    BY <2>1, <2>2, QuietStep
<1>4. ASSUME NEW p \in Procs, Down(p) PROVE SerialInv'
  <2>0. Own(p)
    BY <1>0
  <2>1. CASE DownBegin(p)
    <3>1. /\ present' = {} /\ UNCHANGED <<state, files, snap, todo>>
          /\ pc'[p] \in {"purge", "clean"}
      BY <2>1 DEF DownBegin
    <3>2. Own(p)'
      BY <3>1 DEF UpInProgress, BreakInProgress, DownInProgress
    <3> QED
      BY <3>1, <3>2, QuietStep
  <2>2. CASE DownPurge(p) \/ DownRemoveDir(p)
    <3>1. /\ present' = {} /\ state' = NoState /\ pc'[p] = "idle"
      BY <2>0, <2>2 DEF DownPurge, DownRemoveDir, DownInProgress
    <3>2. Own(p)'
      BY <3>1 DEF UpInProgress, BreakInProgress, DownInProgress
    <3>3. Recorded' = {} /\ Frame'
      BY <3>1 DEF Recorded, NoState, Frame
    <3> QED
      BY <3>1, <3>2, <3>3 DEF SerialInv, RecordedInOrder, OnlyNextFaultUnrecorded
  <2>3. CASE DownClean(p)
    <3>1. Own(p)'
      BY <2>0, <2>3 DEF DownClean, UpInProgress, BreakInProgress, DownInProgress
    <3> QED
      BY <2>3, <3>1, QuietStep DEF DownClean
  <2>4. CASE DownStamp(p)
    <3>1. present' = {} /\ snap[p] = state /\ files' = files /\ pc'[p] \in {"tidy", "idle"}
      BY <2>0, <2>4 DEF DownStamp, DownInProgress
    <3>2. Own(p)'
      BY <3>1 DEF UpInProgress, BreakInProgress, DownInProgress
    <3>3. state' \in {state, TornDown(state)}
      BY <2>4, <3>1 DEF DownStamp, SaveState
    <3>4. Frame'
      BY <2>4, <3>1, <3>3 DEF SerialInv, Frame, TornDown, DownStamp, SaveState, States
    <3>5. Recorded' \in {Recorded, {}}
      BY <3>3 DEF Recorded, TornDown, States
    <3> QED
      BY <3>1, <3>2, <3>4, <3>5 DEF SerialInv, RecordedInOrder, OnlyNextFaultUnrecorded
  <2>5. CASE DownTidy(p)
    <3>1. Own(p)'
      BY <2>0, <2>5 DEF DownTidy, UpInProgress, BreakInProgress, DownInProgress
    <3> QED
      BY <2>5, <3>1, QuietStep DEF DownTidy
  <2> QED
    BY <1>4, <2>1, <2>2, <2>3, <2>4, <2>5 DEF Down
<1>5. ASSUME NEW p \in Procs, Abort(p) PROVE SerialInv'
  <2>1. Own(p)'
    BY <1>5 DEF Abort, UpInProgress, BreakInProgress, DownInProgress
  <2> QED
    BY <1>5, <2>1, QuietStep DEF Abort
<1>6. CASE CandidateFixes
  <2>1. ASSUME NEW p \in Procs PROVE Own(p)'
    BY <1>0, <1>6 DEF CandidateFixes, UpInProgress, BreakInProgress, DownInProgress, First
  <2> QED
    BY <1>6, <2>1, QuietStep DEF CandidateFixes
<1>7. CASE SessionWritesEvidence
  <2>1. ASSUME NEW p \in Procs PROVE Own(p)'
    BY <1>0, <1>7 DEF SessionWritesEvidence, UpInProgress, BreakInProgress, DownInProgress, First
  <2> QED
    BY <1>7, <2>1, QuietStep DEF SessionWritesEvidence
<1>8. CASE UNCHANGED vars
  BY <1>8 DEF vars, SerialInv, Frame, UpInProgress, BreakInProgress, DownInProgress,
             First, RecordedInOrder, OnlyNextFaultUnrecorded, Recorded
<1> QED
  BY <1>1, <1>2, <1>3, <1>4, <1>5, <1>6, <1>7, <1>8 DEF Next

LEMMA SerialInvariant == ASSUME OneAtATime PROVE Spec => []SerialInv
<1>1. Init => SerialInv
  BY DEF Init, SerialInv, Frame, UpInProgress, BreakInProgress, DownInProgress,
         First, RecordedInOrder, OnlyNextFaultUnrecorded, Recorded, Live, NoState
<1>2. TypeOK /\ SerialInv /\ [Next]_vars => SerialInv'
  BY OneAtATime, SerialInvStep
<1> QED
  BY <1>1, <1>2, EngineTypeCorrect, PTL DEF Spec

\* Run one at a time, the commands never leave more than the next fault of
\* the pack in the environment unrecorded, for a pack of any size and any
\* number of killed commands and failing scripts.
THEOREM RecordCoversEnvironment ==
    ASSUME OneAtATime PROVE Spec => []OnlyNextFaultUnrecorded
<1>1. SerialInv => OnlyNextFaultUnrecorded
  BY DEF SerialInv
<1> QED
  BY <1>1, SerialInvariant, PTL
-----------------------------------------------------------------------------
(* What a step does to the state, when no other command is at work.         *)

LEMMA StateChanges ==
    ASSUME OneAtATime, TypeOK, SerialInv, [Next]_vars
    PROVE  \/ state' = state
           \/ \E p \in Procs : pc[p] = "save" /\ state' = LiveState(Recorded)
           \/ Live(state) /\ Live(state') /\ state.injected \subseteq state'.injected
           \/ state'.kind # "live"
<1> USE DEF SerialInv, SaveState, Live
<1>1. ASSUME NEW p \in Procs, UpSave(p)
      PROVE  pc[p] = "save" /\ state' = LiveState(Recorded)
  BY <1>1 DEF UpSave, UpInProgress, Recorded
<1>2. ASSUME NEW p \in Procs, BreakRecord(p)
      PROVE  Live(state) /\ Live(state') /\ state.injected \subseteq state'.injected
  BY <1>2 DEF BreakRecord, BreakInProgress
<1>3. ASSUME NEW p \in Procs, BreakGiveUp(p) PROVE state' = state
  BY <1>3 DEF BreakGiveUp, BreakInProgress
<1>4. ASSUME NEW p \in Procs, DownPurge(p) \/ DownRemoveDir(p) PROVE state'.kind # "live"
  BY <1>4 DEF DownPurge, DownRemoveDir, NoState
<1>5. ASSUME NEW p \in Procs, DownStamp(p) PROVE state' = state \/ state'.kind # "live"
  <2>1. state' = state \/ state' = TornDown(state)
    BY <1>5 DEF DownStamp, DownInProgress
  <2> QED
    BY <2>1 DEF TornDown, TypeOK, States
<1> QED
  BY <1>1, <1>2, <1>3, <1>4, <1>5
     DEF Next, Up, Break, Fix, Down, UpBegin, UpProvision, UpProvisionFails,
         UpVerify, UpRead, BreakBegin, BreakInject, BreakInjectFails, FixBegin,
         FixOne, FixFails, DownBegin, DownClean, DownTidy, Abort,
         CandidateFixes, SessionWritesEvidence, vars

\* Run one at a time, no command drops a fault from the record of a live
\* environment, whatever fails in between.
THEOREM RecordedStaysRecorded == ASSUME OneAtATime PROVE Spec => RecordOnlyGrows
<1>1. TypeOK /\ SerialInv /\ [Next]_vars =>
          [Live(state) /\ Live(state') => state.injected \subseteq state'.injected]_vars
  BY OneAtATime, StateChanges DEF Live, LiveState, Recorded
<1> QED
  BY <1>1, SerialInvariant, EngineTypeCorrect, PTL DEF Spec, RecordOnlyGrows

\* "Stamping it keeps every later command able to say the environment is gone".
THEOREM TornDownStaysTornDown == ASSUME OneAtATime PROVE Spec => TeardownSticks
<1>1. TypeOK /\ SerialInv /\ [Next]_vars =>
          [state.kind = "torn" /\ Live(state') => \E p \in Procs : pc[p] = "save"]_vars
  BY OneAtATime, StateChanges DEF Live
<1> QED
  BY <1>1, SerialInvariant, EngineTypeCorrect, PTL DEF Spec, TeardownSticks
-----------------------------------------------------------------------------
(* A Break that runs to its end.  What it has handled so far it has not only *)
(* recorded: it ran the inject of each into the environment that is there.   *)

LandedInv ==
    \A p \in Procs : pc[p] \in {"inject", "record", "giveup"} =>
        /\ \A f \in Fault : f \notin todo[p] => f \in landed
        /\ pc[p] = "record" => \A f \in Fault : First(p, f) => f \in landed

LEMMA LandedStep ==
    ASSUME OneAtATime, TypeOK, LandedInv, [Next]_vars
    PROVE  LandedInv'
<1> USE DEF OneAtATime, TypeOK, Goto, Left
<1>1. ASSUME NEW p \in Procs, pc'[p] \notin {"inject", "record", "giveup"} PROVE LandedInv'
  BY <1>1 DEF LandedInv
<1>2. ASSUME NEW p \in Procs, Up(p) \/ Fix(p) \/ Down(p) \/ Abort(p) PROVE LandedInv'
  <2>1. pc'[p] \notin {"inject", "record", "giveup"}
    BY <1>2 DEF Up, Fix, Down, Abort, UpBegin, UpProvision, UpProvisionFails, UpVerify, UpRead,
       UpSave, FixBegin, FixOne, FixFails, DownBegin, DownPurge, DownClean, DownStamp, DownTidy,
       DownRemoveDir
  <2> QED
    BY <1>1, <2>1
<1>3. ASSUME NEW p \in Procs, BreakBegin(p) PROVE LandedInv'
  <2>1. pc'[p] = "inject" /\ todo'[p] = Fault
    BY <1>3 DEF BreakBegin
  <2> QED
    BY <2>1 DEF LandedInv
<1>4. ASSUME NEW p \in Procs, BreakInject(p) PROVE LandedInv'
  <2>1. PICK f \in Fault : First(p, f) /\ landed' = landed \union {f}
    BY <1>4 DEF BreakInject
  <2>2. pc[p] = "inject" /\ pc'[p] = "record" /\ todo' = todo
    BY <1>4 DEF BreakInject
  <2>3. \A g \in Fault : First(p, g)' => g = f
    BY <2>1, <2>2 DEF First, Fault
  <2>4. \A g \in Fault : g \notin todo'[p] => g \in landed'
    BY <2>1, <2>2 DEF LandedInv
  <2> QED
    BY <2>1, <2>3, <2>4 DEF LandedInv
<1>5. ASSUME NEW p \in Procs, BreakInjectFails(p) \/ BreakGiveUp(p) PROVE LandedInv'
  <2>1. /\ pc[p] \in {"inject", "giveup"} /\ pc'[p] \in {"giveup", "idle"}
        /\ todo' = todo /\ landed' = landed
    BY <1>5 DEF BreakInjectFails, BreakGiveUp
  <2> QED
    BY <2>1 DEF LandedInv
<1>6. ASSUME NEW p \in Procs, BreakRecord(p) PROVE LandedInv'
  <2>1. PICK f \in Fault : First(p, f) /\ todo'[p] = todo[p] \ {f}
    BY <1>6 DEF BreakRecord
  <2>2. pc[p] = "record" /\ pc'[p] \in {"inject", "idle"} /\ landed' = landed
    BY <1>6 DEF BreakRecord
  <2>3. \A g \in Fault : g \notin todo'[p] => g \in landed'
    BY <2>1, <2>2 DEF LandedInv
  <2> QED
    BY <2>2, <2>3 DEF LandedInv
<1>7. CASE CandidateFixes \/ SessionWritesEvidence \/ UNCHANGED vars
  BY <1>7 DEF CandidateFixes, SessionWritesEvidence, vars, LandedInv, First
<1> QED
  BY <1>2, <1>3, <1>4, <1>5, <1>6, <1>7 DEF Next, Break

LEMMA LandedInvariant == ASSUME OneAtATime PROVE Spec => []LandedInv
<1>1. Init => LandedInv
  BY DEF Init, LandedInv
<1>2. TypeOK /\ LandedInv /\ [Next]_vars => LandedInv'
  BY OneAtATime, LandedStep
<1> QED
  BY <1>1, <1>2, EngineTypeCorrect, PTL DEF Spec

\* The step that ends a Break is the record of its last fault.
LEMMA LastRecord ==
    ASSUME OneAtATime, TypeOK, SerialInv, LandedInv, Next,
           NEW p \in Procs, pc[p] = "record", pc'[p] = "idle", todo'[p] = {}, aborts' = aborts
    PROVE  Recorded' = Fault /\ Fault \subseteq landed'
<1> USE DEF OneAtATime, TypeOK, Goto, Left, Live
<1>1. BreakRecord(p)
  <2>1. ~Abort(p)
    BY AbortBound DEF Abort
  <2> QED
    BY <2>1 DEF Next, Up, Break, Fix, Down, UpBegin, UpProvision, UpProvisionFails, UpVerify,
       UpRead, UpSave, BreakBegin, BreakInject, BreakInjectFails, BreakGiveUp, FixBegin, FixOne,
       FixFails, DownBegin, DownPurge, DownClean, DownStamp, DownTidy, DownRemoveDir,
       CandidateFixes, SessionWritesEvidence
<1>2. PICK f \in Fault : First(p, f) /\ todo'[p] = todo[p] \ {f} /\ landed' = landed
  BY <1>1 DEF BreakRecord
<1>3. todo[p] = {f}
  BY <1>2 DEF First
<1>4. Fault \subseteq landed'
  BY <1>2, <1>3 DEF LandedInv
<1>5. /\ Live(state) /\ Live(snap[p]) /\ state.injected \subseteq snap[p].injected
      /\ \A g \in Fault : g \notin todo[p] => g \in state.injected
      /\ f \in snap[p].injected
  BY <1>2 DEF SerialInv, BreakInProgress
<1>6. state' = snap[p]
  BY <1>1, <1>5 DEF SerialInv, Frame, BreakRecord, SaveState
<1>7. snap[p].injected = Fault
  BY <1>3, <1>5 DEF States
<1> QED
  BY <1>4, <1>5, <1>6, <1>7 DEF Recorded

\* Run one at a time, a Break that runs to its end has the whole pack recorded, and injected
\* into the environment that is there, whatever earlier commands left undone.
THEOREM BreakIsWhole == ASSUME OneAtATime PROVE Spec => BreakInjectsWholePack
<1> DEFINE Whole ==
      \A p \in Procs :
        pc[p] = "record" /\ pc'[p] = "idle" /\ todo'[p] = {} /\ aborts' = aborts
        => Recorded' = Fault /\ Fault \subseteq landed'
<1>1. TypeOK /\ SerialInv /\ LandedInv /\ [Next]_vars => [Whole]_vars
  <2> SUFFICES ASSUME TypeOK, SerialInv, LandedInv, Next PROVE Whole
    OBVIOUS
  <2> QED
    BY OneAtATime, LastRecord
<1>2. BreakInjectsWholePack <=> [][Whole]_vars
  BY DEF BreakInjectsWholePack
<1> HIDE DEF Whole
<1> QED
  BY <1>1, <1>2, SerialInvariant, LandedInvariant, EngineTypeCorrect, PTL DEF Spec
=============================================================================
