--------------------------- MODULE RegistryProofs ---------------------------
(***************************************************************************)
(* For any ids, terminals and kills: what exists has a record of its kind; *)
(* from one terminal, a record is ended over nothing that its own files    *)
(* name, and a drop does not hide an open one from unqualified commands.   *)
(***************************************************************************)
EXTENDS Registry, TLAPS

LEMMA EndedRecord ==
    ASSUME NEW r \in Records PROVE [r EXCEPT !.ended = TRUE] \in Records
<1>1. \A b \in BOOLEAN : [r EXCEPT !.ended = b] \in Records
  BY DEF Records
<1> QED
  BY <1>1

LEMMA StagedRecord ==
    ASSUME NEW r \in Records, NEW stage \in Stages
    PROVE  Staged(r, stage) \in Records
<1>1. \A b \in BOOLEAN : [r EXCEPT !.stage = stage, !.ended = b] \in Records
  BY DEF Records
<1>2. (r.ended \/ stage = "reviewed") \in BOOLEAN
  OBVIOUS
<1> QED
  BY <1>1, <1>2 DEF Staged

\* What a command resolves is an environment of the kind it is about.
LEMMA ResolvedKind ==
    ASSUME saved \in [Seeds -> Variants \union {"none"}],
           NEW s \in Seeds, NEW m \in Live, NEW pinned \in BOOLEAN
    PROVE  /\ Resolved(s, m, pinned) \in Variants \union {"host"}
           /\ Resolved(s, m, pinned) # "none"
           /\ KindOf(Resolved(s, m, pinned)) = m
BY DEF Resolved, KindOf, Variants, Live

\* A build or a teardown, as far as it comes, is of the command's own environment.
LEMMA BuildTypes ==
    ASSUME TypeOK, NEW p \in Procs, pc[p] = "build",
           \/ resource' = Added(p, mem[p].env) /\ saved' = Noted(p)
           \/ CutShort(p)
    PROVE  /\ resource' \in [Seeds -> SUBSET (Variants \union Hosts)]
           /\ saved' \in [Seeds -> Variants \union {"none"}]
<1>1. mem[p].env \in Variants \union {"host"} /\ mem[p].seed \in Seeds
  BY DEF TypeOK, Starting, Memory
<1>2. \A e \in Variants \union Hosts : Added(p, e) \in [Seeds -> SUBSET (Variants \union Hosts)]
  BY DEF TypeOK, Added
<1>3. Noted(p) \in [Seeds -> Variants \union {"none"}]
  BY <1>1 DEF TypeOK, Noted
<1>4. mem[p].env \in Variants \union Hosts /\ "lost host" \in Variants \union Hosts
  BY <1>1 DEF Hosts
<1>5. /\ Added(p, mem[p].env) \in [Seeds -> SUBSET (Variants \union Hosts)]
      /\ Added(p, "lost host") \in [Seeds -> SUBSET (Variants \union Hosts)]
  BY <1>2, <1>4
<1>6. /\ resource \in [Seeds -> SUBSET (Variants \union Hosts)]
      /\ saved \in [Seeds -> Variants \union {"none"}]
  BY DEF TypeOK
<1> QED
  BY <1>3, <1>5, <1>6, Zenon DEF CutShort

LEMMA DownTypes ==
    ASSUME TypeOK, NEW p \in Procs, pc[p] = "down",
           \/ resource' = Destroyed(p) /\ saved' \in {saved, Purged(p)}
           \/ DownCutShort(p)
    PROVE  /\ resource' \in [Seeds -> SUBSET (Variants \union Hosts)]
           /\ saved' \in [Seeds -> Variants \union {"none"}]
<1>1. Destroyed(p) \in [Seeds -> SUBSET (Variants \union Hosts)]
  BY DEF TypeOK, Destroyed
<1>2. Purged(p) \in [Seeds -> Variants \union {"none"}]
  BY DEF TypeOK, Purged
<1> QED
  BY <1>1, <1>2 DEF TypeOK, DownCutShort

\* Every field of the registry, and what each command holds, has its type: the
\* records on disk are always whole, whatever is killed.
THEOREM RegistryTypeCorrect == Spec => []TypeOK
<1>1. Init => TypeOK
  <2> SUFFICES ASSUME Init PROVE TypeOK
    OBVIOUS
  <2>1. NoRec \in Records
    BY DEF NoRec, Records
  <2>2. rec \in [Seeds -> Records]
    BY <2>1 DEF Init
  <2>3. mem \in [Procs -> Memory]
    BY <2>1 DEF Init, Nothing, Memory
  <2>4. /\ resource \in [Seeds -> SUBSET (Variants \union Hosts)] /\ pc \in [Procs -> Label]
        /\ saved \in [Seeds -> Variants \union {"none"}]
    BY DEF Init, Label
  <2>5. \A p \in Procs : pc[p] = "idle"
    BY DEF Init
  <2>6. crashes \in 0..MaxCrashes /\ marker \in Seeds \union {NoSeed}
    BY CrashAssumption DEF Init
  <2> QED
    BY <2>2, <2>3, <2>4, <2>5, <2>6 DEF TypeOK, Starting
<1>2. TypeOK /\ [Next]_vars => TypeOK'
  <2> SUFFICES ASSUME TypeOK, [Next]_vars PROVE TypeOK'
    OBVIOUS
  <2> USE CrashAssumption, UsesAssumption DEF Label, Starting, Ending, Delivering, Goto
  <2>0. /\ NoRec \in Records
        /\ \A m \in Modes : Fresh(m) \in Records /\ Fresh(m).mode = m
    BY DEF NoRec, Records, Fresh, Stages, Modes
  <2>1. Nothing \in Memory
    BY <2>0 DEF Nothing, Memory
  <2>2. ASSUME NEW p \in Procs, NEW s \in Seeds, NEW m \in Live, NEW pinned \in BOOLEAN,
               StartRecord(p, s, m, pinned)
        PROVE TypeOK'
    <3> DEFINE e == Resolved(s, m, pinned)
               h == [seed |-> s, record |-> Fresh(m), env |-> e]
    <3>1. Fresh(m) \in Records /\ Fresh(m).mode = m
      BY <2>0 DEF Modes
    <3>2. e \in Variants \union {"host"} /\ e # "none" /\ KindOf(e) = m
      BY ResolvedKind DEF TypeOK
    <3>3. /\ mem' = [mem EXCEPT ![p] = h] /\ pc' = [pc EXCEPT ![p] = "mark"]
          /\ rec' = [rec EXCEPT ![s] = Fresh(m)]
          /\ UNCHANGED <<marker, resource, saved, crashes>>
      BY <2>2 DEF StartRecord, Hold, Save
    <3> HIDE DEF e
    <3>4. h \in Memory /\ h.seed \in Seeds /\ h.record.mode = m /\ h.env = e
      BY <3>1, <3>2 DEF Memory
    <3> HIDE DEF h
    <3> QED
      BY <3>1, <3>2, <3>3, <3>4 DEF TypeOK
  <2>3. ASSUME NEW p \in Procs, StartMark(p) PROVE TypeOK'
    BY <2>3 DEF TypeOK, StartMark
  <2>4. ASSUME NEW p \in Procs, StartBuild(p) PROVE TypeOK'
    <3>1. /\ resource' \in [Seeds -> SUBSET (Variants \union Hosts)]
          /\ saved' \in [Seeds -> Variants \union {"none"}]
      BY <2>4, BuildTypes DEF StartBuild
    <3> QED
      BY <2>4, <3>1 DEF TypeOK, StartBuild
  <2>5. ASSUME NEW p \in Procs, StartBuildFails(p) PROVE TypeOK'
    <3>1. /\ resource' \in [Seeds -> SUBSET (Variants \union Hosts)]
          /\ saved' \in [Seeds -> Variants \union {"none"}]
      BY <2>5, BuildTypes DEF StartBuildFails
    <3> QED
      BY <2>1, <2>5, <3>1 DEF TypeOK, StartBuildFails, Return
  <2>6. ASSUME NEW p \in Procs, StartPublish(p) PROVE TypeOK'
    <3>1. mem[p].record \in Records
      BY DEF TypeOK, Memory
    <3> QED
      BY <2>1, <2>6, <3>1 DEF TypeOK, StartPublish, Return, Save
  <2>7. ASSUME NEW p \in Procs, NEW s \in Seeds, EndLoad(p, s) PROVE TypeOK'
    <3> DEFINE e == Resolved(s, rec[s].mode, FALSE)
               h == [seed |-> s, record |-> rec[s], env |-> e]
    <3>1. rec[s] \in Records /\ rec[s].mode \in Live
      BY <2>7 DEF TypeOK, EndLoad
    <3>2. e \in Variants \union {"host"} /\ e # "none" /\ KindOf(e) = rec[s].mode
      BY <3>1, ResolvedKind DEF TypeOK
    <3>3. /\ mem' = [mem EXCEPT ![p] = h] /\ pc' = [pc EXCEPT ![p] = "down"]
          /\ UNCHANGED <<rec, marker, resource, saved, crashes>>
      BY <2>7 DEF EndLoad, Hold
    <3> HIDE DEF e
    <3>4. h \in Memory /\ h.seed \in Seeds /\ h.record = rec[s] /\ h.env = e
      BY <3>1, <3>2 DEF Memory
    <3> HIDE DEF h
    <3> QED
      BY <3>1, <3>2, <3>3, <3>4 DEF TypeOK
  <2>8. ASSUME NEW p \in Procs, EndDown(p) PROVE TypeOK'
    <3>1. /\ resource' \in [Seeds -> SUBSET (Variants \union Hosts)]
          /\ saved' \in [Seeds -> Variants \union {"none"}]
      BY <2>8, DownTypes DEF EndDown
    <3> QED
      BY <2>8, <3>1 DEF TypeOK, EndDown
  <2>9. ASSUME NEW p \in Procs, EndDownFails(p) PROVE TypeOK'
    <3>1. /\ resource' \in [Seeds -> SUBSET (Variants \union Hosts)]
          /\ saved' \in [Seeds -> Variants \union {"none"}]
      BY <2>9, DownTypes DEF EndDownFails
    <3> QED
      BY <2>1, <2>9, <3>1 DEF TypeOK, EndDownFails, Return
  <2>10. ASSUME NEW p \in Procs, EndRecord(p) PROVE TypeOK'
    <3>1. [mem[p].record EXCEPT !.ended = TRUE] \in Records
      BY EndedRecord DEF TypeOK, Memory
    <3> QED
      BY <2>10, <3>1 DEF TypeOK, EndRecord, Save
  <2>11. ASSUME NEW p \in Procs, EndReadMarker(p) PROVE TypeOK'
    <3>1. CASE marker = mem[p].seed
      BY <2>11, <3>1 DEF TypeOK, EndReadMarker
    <3>2. CASE marker # mem[p].seed
      BY <2>1, <2>11, <3>2 DEF TypeOK, EndReadMarker, Return
    <3> QED
      BY <3>1, <3>2
  <2>12. ASSUME NEW p \in Procs, EndUnmark(p) PROVE TypeOK'
    BY <2>1, <2>12 DEF TypeOK, EndUnmark, Return
  <2>13. ASSUME NEW p \in Procs, NEW s \in Seeds, DeliverRecord(p, s)
         PROVE TypeOK'
    <3>1. [seed |-> s, record |-> Fresh("offline"), env |-> "none"] \in Memory
      BY <2>0 DEF Modes, Memory
    <3> QED
      BY <2>0, <2>13, <3>1 DEF TypeOK, DeliverRecord, Hold, Save, Modes
  <2>14. ASSUME NEW p \in Procs, DeliverLookup(p) PROVE TypeOK'
    <3>1. CASE Busy(p)
      BY <2>1, <2>14, <3>1 DEF TypeOK, DeliverLookup, Return
    <3>2. CASE ~Busy(p)
      BY <2>14, <3>2 DEF TypeOK, DeliverLookup
    <3> QED
      BY <3>1, <3>2
  <2>15. ASSUME NEW p \in Procs, DeliverMark(p) PROVE TypeOK'
    BY <2>1, <2>15 DEF TypeOK, DeliverMark, Return
  <2>16. ASSUME NEW p \in Procs, NEW s \in Seeds,
                NEW stage \in Stages \ {"created"}, StageLoad(p, s, stage)
         PROVE TypeOK'
    <3>1. Staged(rec[s], stage) \in Records
      BY StagedRecord DEF TypeOK
    <3>2. [seed |-> s, record |-> Staged(rec[s], stage), env |-> "none"] \in Memory
      BY <3>1 DEF Memory
    <3> QED
      BY <2>16, <3>2 DEF TypeOK, StageLoad, Hold
  <2>17. ASSUME NEW p \in Procs, StageSave(p) PROVE TypeOK'
    <3>1. mem[p].record \in Records
      BY DEF TypeOK, Memory
    <3> QED
      BY <2>1, <2>17, <3>1 DEF TypeOK, StageSave, Return, Save
  <2>18. ASSUME NEW p \in Procs, Crash(p) PROVE TypeOK'
    <3>1. crashes' \in 0..MaxCrashes
      <4>1. crashes \in 0..MaxCrashes
        BY DEF TypeOK
      <4>2. crashes < MaxCrashes /\ crashes' = crashes + 1
        BY <2>18 DEF Crash
      <4> QED
        BY <4>1, <4>2, SMT
    <3>2. /\ pc' = [pc EXCEPT ![p] = "idle"] /\ mem' = [mem EXCEPT ![p] = Nothing]
          /\ UNCHANGED <<rec, marker>>
      BY <2>18 DEF Crash, Return
    <3>3. /\ resource' \in [Seeds -> SUBSET (Variants \union Hosts)]
          /\ saved' \in [Seeds -> Variants \union {"none"}]
      <4>1. CASE UNCHANGED <<resource, saved>>
        BY <4>1 DEF TypeOK
      <4>2. CASE pc[p] = "build" /\ CutShort(p)
        BY <4>2, BuildTypes
      <4>3. CASE pc[p] = "down" /\ DownCutShort(p)
        BY <4>3, DownTypes
      <4> QED
        BY <2>18, <4>1, <4>2, <4>3 DEF Crash
    <3> QED
      BY <2>1, <3>1, <3>2, <3>3 DEF TypeOK
  <2>19. ASSUME NEW s \in Seeds, NEW e \in Variants \union Hosts, Vanish(s, e) PROVE TypeOK'
    BY <2>19 DEF TypeOK, Vanish
  <2>20. CASE UNCHANGED vars
    BY <2>20 DEF TypeOK, vars
  <2> QED
    BY <2>2, <2>3, <2>4, <2>5, <2>6, <2>7, <2>8, <2>9, <2>10, <2>11, <2>12,
       <2>13, <2>14, <2>15, <2>16, <2>17, <2>18, <2>19, <2>20
       DEF Next, Command, Start, End, Deliver, Stage
<1> QED
  BY <1>1, <1>2, PTL DEF Spec

-----------------------------------------------------------------------------
(* Each id kept to one mode, every record and every command in progress has *)
(* that mode, so a build adds what its record names already.                *)

OneModePerId == \A s \in Seeds : \A m, n \in UsesOf[s] : m = n

ModesAgree ==
    /\ \A s \in Seeds : Recorded(s) => rec[s].mode \in UsesOf[s]
    /\ \A p \in Procs : pc[p] # "idle" =>
          /\ Recorded(mem[p].seed)
          /\ mem[p].record.mode \in UsesOf[mem[p].seed]

NamedInv == ModesAgree /\ EveryResourceIsNamed

LEMMA FreshMode ==
    ASSUME NEW m \in Modes
    PROVE  Fresh(m).mode = m /\ ~Fresh(m).ended /\ m # "none"
BY DEF Fresh, Modes, Live

LEMMA StagedMode ==
    ASSUME NEW r \in Records, NEW stage \in Stages
    PROVE  Staged(r, stage).mode = r.mode
BY DEF Staged, Records

LEMMA EndedMode ==
    ASSUME NEW r \in Records
    PROVE  [r EXCEPT !.ended = TRUE].mode = r.mode
BY DEF Records

LEMMA NamedStep ==
    ASSUME OneModePerId, TypeOK, NamedInv, [Next]_vars
    PROVE  NamedInv'
<1> USE DEF NamedInv, EveryResourceIsNamed, ModesAgree, Recorded, Goto
<1>1. ASSUME NEW p \in Procs, NEW s \in Seeds, NEW m \in Live, NEW pinned \in BOOLEAN,
             StartRecord(p, s, m, pinned)
      PROVE  NamedInv'
  <2>1. Fresh(m).mode = m /\ m # "none" /\ m \in UsesOf[s]
    BY <1>1, FreshMode DEF StartRecord, Modes
  <2>2. \A t \in Seeds : rec'[t].mode = rec[t].mode \/ (t = s /\ rec'[t].mode = m)
    BY <1>1, <2>1 DEF TypeOK, StartRecord, Save
  <2>3. /\ pc' = [pc EXCEPT ![p] = "mark"] /\ UNCHANGED resource
        /\ mem' = [mem EXCEPT ![p] = [seed |-> s, record |-> Fresh(m),
                                      env |-> Resolved(s, m, pinned)]]
        /\ rec'[s].mode = m
    BY <1>1, <2>1 DEF StartRecord, Hold, Save, TypeOK
  <2>4. \A t \in Seeds : Recorded(t)' => rec'[t].mode \in UsesOf[t]
    BY <2>1, <2>2
  <2>5. \A t \in Seeds : Recorded(t) => Recorded(t)'
    BY <2>1, <2>2
  <2>6. ASSUME NEW q \in Procs, pc'[q] # "idle"
        PROVE  /\ rec'[mem'[q].seed].mode # "none"
               /\ mem'[q].record.mode \in UsesOf[mem'[q].seed]
    <3>1. CASE q = p
      <4>1. mem'[q].seed = s /\ mem'[q].record = Fresh(m)
        BY <3>1, <2>3 DEF TypeOK
      <4> QED
        BY <4>1, <2>1, <2>3
    <3>2. CASE q # p
      <4>1. mem'[q] = mem[q] /\ pc'[q] = pc[q] /\ mem[q].seed \in Seeds
        BY <3>2, <2>3, <2>6 DEF TypeOK
      <4> QED
        BY <4>1, <2>5, <2>6
    <3> QED
      BY <3>1, <3>2
  <2>7. ASSUME NEW t \in Seeds, NEW e \in resource'[t]
        PROVE  rec'[t].mode = KindOf(e)
    <3>1. rec[t].mode = KindOf(e)
      BY <2>3, <2>7 DEF TypeOK
    <3>2. KindOf(e) \in UsesOf[t]
      BY <3>1 DEF KindOf
    <3> QED
      BY <2>1, <2>2, <3>1, <3>2 DEF OneModePerId
  <2> QED
    BY <2>4, <2>6, <2>7
<1>2. ASSUME NEW p \in Procs, StartMark(p) PROVE NamedInv'
  BY <1>2 DEF TypeOK, StartMark
<1>3. ASSUME NEW p \in Procs, pc[p] = "build", UNCHANGED rec,
             (resource' = Added(p, mem[p].env) /\ saved' = Noted(p)) \/ CutShort(p)
      PROVE  EveryResourceIsNamed'
  <2>1. mem[p].seed \in Seeds /\ KindOf(mem[p].env) = mem[p].record.mode
    BY <1>3 DEF TypeOK, Starting
  <2>2. rec[mem[p].seed].mode = mem[p].record.mode
    BY <1>3, <2>1 DEF OneModePerId
  <2>3. \A e : KindOf(e) = KindOf(mem[p].env) /\ resource' = Added(p, e) => EveryResourceIsNamed'
    BY <1>3, <2>1, <2>2 DEF TypeOK, Added
  <2>4. KindOf("lost host") = KindOf("host")
    BY DEF KindOf, Variants
  <2> QED
    BY <1>3, <2>3, <2>4 DEF CutShort
<1>4. ASSUME NEW p \in Procs, StartBuild(p) PROVE NamedInv'
  BY <1>3, <1>4 DEF TypeOK, StartBuild
<1>5. ASSUME NEW p \in Procs, StartBuildFails(p) PROVE NamedInv'
  BY <1>3, <1>5 DEF TypeOK, StartBuildFails, Return
<1>6. ASSUME NEW p \in Procs, pc[p] # "idle", NEW r,
             rec' = [rec EXCEPT ![mem[p].seed] = r], r.mode = mem[p].record.mode
      PROVE  \A s \in Seeds : Recorded(s) => rec'[s].mode = rec[s].mode
  BY <1>6 DEF TypeOK, OneModePerId
<1>7. ASSUME NEW p \in Procs, StartPublish(p) PROVE NamedInv'
  <2>1. \A s \in Seeds : rec'[s].mode = rec[s].mode
    BY <1>6, <1>7 DEF TypeOK, StartPublish, Save
  <2> QED
    BY <1>7, <2>1 DEF TypeOK, StartPublish, Return, Nothing
<1>8. ASSUME NEW p \in Procs, NEW s \in Seeds, EndLoad(p, s) PROVE NamedInv'
  <2>1. Recorded(s)
    BY <1>8 DEF EndLoad, Live
  <2> QED
    BY <1>8, <2>1 DEF TypeOK, EndLoad, Hold
<1>9. ASSUME NEW p \in Procs, resource' = Destroyed(p) \/ DownCutShort(p), UNCHANGED rec
      PROVE  EveryResourceIsNamed'
  BY <1>9 DEF TypeOK, Destroyed, DownCutShort
<1>10. ASSUME NEW p \in Procs, EndDown(p) PROVE NamedInv'
  BY <1>9, <1>10 DEF TypeOK, EndDown
<1>11. ASSUME NEW p \in Procs, EndDownFails(p) PROVE NamedInv'
  BY <1>9, <1>11 DEF TypeOK, EndDownFails, Return
<1>12. ASSUME NEW p \in Procs, EndRecord(p) PROVE NamedInv'
  <2>1. [mem[p].record EXCEPT !.ended = TRUE].mode = mem[p].record.mode
    BY EndedMode DEF TypeOK
  <2>2. \A s \in Seeds : rec'[s].mode = rec[s].mode
    BY <1>6, <1>12, <2>1 DEF TypeOK, EndRecord, Save
  <2> QED
    BY <1>12, <2>2 DEF TypeOK, EndRecord
<1>13. ASSUME NEW p \in Procs, EndReadMarker(p) PROVE NamedInv'
  BY <1>13 DEF TypeOK, EndReadMarker, Return
<1>14. ASSUME NEW p \in Procs, EndUnmark(p) PROVE NamedInv'
  BY <1>14 DEF TypeOK, EndUnmark, Return
<1>15. ASSUME NEW p \in Procs, NEW s \in Seeds, DeliverRecord(p, s)
       PROVE  NamedInv'
  <2>1. Fresh("offline").mode = "offline" /\ "offline" \in UsesOf[s]
    BY <1>15, FreshMode DEF DeliverRecord, Modes
  <2>2. \A t \in Seeds : rec'[t].mode = rec[t].mode \/ (t = s /\ rec'[t].mode = "offline")
    BY <1>15, <2>1 DEF TypeOK, DeliverRecord, Save
  <2>3. /\ pc' = [pc EXCEPT ![p] = "lookup"] /\ UNCHANGED resource
        /\ mem' = [mem EXCEPT ![p] = [seed |-> s, record |-> Fresh("offline"), env |-> "none"]]
        /\ rec'[s].mode = "offline"
    BY <1>15, <2>1 DEF DeliverRecord, Hold, Save, TypeOK
  <2>4. \A t \in Seeds : Recorded(t)' => rec'[t].mode \in UsesOf[t]
    BY <2>1, <2>2
  <2>5. \A t \in Seeds : Recorded(t) => Recorded(t)'
    BY <2>1, <2>2
  <2>6. ASSUME NEW q \in Procs, pc'[q] # "idle"
        PROVE  /\ rec'[mem'[q].seed].mode # "none"
               /\ mem'[q].record.mode \in UsesOf[mem'[q].seed]
    <3>1. CASE q = p
      <4>1. mem'[q].seed = s /\ mem'[q].record = Fresh("offline")
        BY <3>1, <2>3 DEF TypeOK
      <4> QED
        BY <4>1, <2>1, <2>3
    <3>2. CASE q # p
      <4>1. mem'[q] = mem[q] /\ pc'[q] = pc[q] /\ mem[q].seed \in Seeds
        BY <3>2, <2>3, <2>6 DEF TypeOK
      <4> QED
        BY <4>1, <2>5, <2>6
    <3> QED
      BY <3>1, <3>2
  <2>7. ASSUME NEW t \in Seeds, NEW e \in resource'[t]
        PROVE  rec'[t].mode = KindOf(e)
    <3>1. rec[t].mode = KindOf(e)
      BY <2>3, <2>7 DEF TypeOK
    <3>2. KindOf(e) \in UsesOf[t]
      BY <3>1 DEF KindOf
    <3> QED
      BY <2>1, <2>2, <3>1, <3>2 DEF OneModePerId
  <2> QED
    BY <2>4, <2>6, <2>7
<1>16. ASSUME NEW p \in Procs, DeliverLookup(p) PROVE NamedInv'
  BY <1>16 DEF TypeOK, DeliverLookup, Return
<1>17. ASSUME NEW p \in Procs, DeliverMark(p) PROVE NamedInv'
  BY <1>17 DEF TypeOK, DeliverMark, Return
<1>18. ASSUME NEW p \in Procs, NEW s \in Seeds,
              NEW stage \in Stages \ {"created"}, StageLoad(p, s, stage)
       PROVE  NamedInv'
  <2>1. Staged(rec[s], stage).mode = rec[s].mode /\ Recorded(s)
    BY <1>18, StagedMode DEF TypeOK, StageLoad
  <2> QED
    BY <1>18, <2>1 DEF TypeOK, StageLoad, Hold
<1>19. ASSUME NEW p \in Procs, StageSave(p) PROVE NamedInv'
  <2>1. \A s \in Seeds : rec'[s].mode = rec[s].mode
    BY <1>6, <1>19 DEF TypeOK, StageSave, Save
  <2> QED
    BY <1>19, <2>1 DEF TypeOK, StageSave, Return
<1>20. ASSUME NEW p \in Procs, Crash(p) PROVE NamedInv'
  <2>1. UNCHANGED rec /\ pc' = [pc EXCEPT ![p] = "idle"] /\ mem' = [mem EXCEPT ![p] = Nothing]
    BY <1>20 DEF Crash, Return
  <2>2. EveryResourceIsNamed'
    BY <1>3, <1>9, <1>20, <2>1 DEF Crash
  <2> QED
    BY <2>1, <2>2 DEF TypeOK
<1>21. ASSUME NEW s \in Seeds, NEW e \in Variants \union Hosts, Vanish(s, e) PROVE NamedInv'
  BY <1>21 DEF TypeOK, Vanish
<1>22. CASE UNCHANGED vars
  BY <1>22 DEF TypeOK, vars
<1> QED
  BY <1>1, <1>2, <1>4, <1>5, <1>7, <1>8, <1>10, <1>11, <1>12, <1>13, <1>14,
     <1>15, <1>16, <1>17, <1>18, <1>19, <1>20, <1>21, <1>22
     DEF Next, Command, Start, End, Deliver, Stage

\* From any number of terminals, killed at any point: what exists is named by a
\* record of its kind, if no id is started in two modes.
THEOREM ResourcesAreNamed ==
    ASSUME OneModePerId
    PROVE  Spec => []EveryResourceIsNamed
<1>1. Init => NamedInv
  BY DEF Init, NamedInv, ModesAgree, EveryResourceIsNamed, Recorded, NoRec
<1>2. TypeOK /\ NamedInv /\ [Next]_vars => NamedInv'
  BY NamedStep
<1>3. NamedInv => EveryResourceIsNamed
  BY DEF NamedInv
<1> QED
  BY RegistryTypeCorrect, <1>1, <1>2, <1>3, PTL DEF Spec

-----------------------------------------------------------------------------
(* From one terminal, nothing comes up under an ended record: a build runs  *)
(* under the open record its own start wrote, and an end is recorded once   *)
(* what its files name is gone.  An id that is never pinned has one name.   *)

OneTerminal == \A p, q \in Procs : p = q

\* What may be there when a record of the id is ended.
OnlyUnnamed(s) ==
    /\ saved[s] \notin resource[s] /\ "host" \notin resource[s]
    /\ s \notin PinnedSeeds => resource[s] \subseteq {"lost host"}

NeverPinned ==
    \A s \in Seeds : s \notin PinnedSeeds =>
        /\ saved[s] # "pinned" /\ "pinned" \notin resource[s]
        /\ \A p \in Procs : mem[p].seed = s => mem[p].env # "pinned"

InProgress ==
    \A p \in Procs :
        /\ pc[p] \in Starting => ~rec[mem[p].seed].ended /\ ~mem[p].record.ended
        /\ pc[p] = "down" => mem[p].env = Resolved(mem[p].seed, mem[p].record.mode, FALSE)
        /\ pc[p] = "record" => OnlyUnnamed(mem[p].seed)
        /\ pc[p] = "stage" => mem[p].record.mode = "offline"

OpenInv == EndedOverNothingNamed /\ NeverPinned /\ InProgress

\* What is recorded of an id with no environment left is of no matter.
LEMMA NothingLeft ==
    ASSUME TypeOK, NEW s \in Seeds, resource[s] = {} PROVE OnlyUnnamed(s)
BY DEF OnlyUnnamed

\* The teardown leaves what its files do not name.
LEMMA DownLeaves ==
    ASSUME TypeOK, NamedInv, NeverPinned, InProgress, OneModePerId, NEW p \in Procs,
           pc[p] = "down", resource' = Destroyed(p), saved' \in {saved, Purged(p)},
           NEW s, s = mem[p].seed
    PROVE  OnlyUnnamed(s)'
<1> DEFINE e == mem[p].env
<1>1. /\ s \in Seeds /\ e \in Variants \union {"host"}
      /\ KindOf(e) = mem[p].record.mode /\ e = Resolved(s, mem[p].record.mode, FALSE)
  BY DEF TypeOK, Memory, InProgress
<1>2. \A x \in resource[s] : KindOf(x) = KindOf(e)
  <2>1. Recorded(s) /\ rec[s].mode \in UsesOf[s] /\ mem[p].record.mode \in UsesOf[s]
    BY <1>1 DEF NamedInv, ModesAgree
  <2>2. rec[s].mode = mem[p].record.mode
    BY <1>1, <2>1 DEF OneModePerId
  <2> QED
    BY <1>1, <2>2 DEF NamedInv, EveryResourceIsNamed
<1>3. /\ resource'[s] = resource[s] \ {e} /\ resource[s] \subseteq Variants \union Hosts
      /\ saved'[s] \in {saved[s], "none"} /\ saved[s] \in Variants \union {"none"}
  BY <1>1 DEF TypeOK, Destroyed, Purged
<1>4. s \notin PinnedSeeds => saved[s] # "pinned" /\ "pinned" \notin resource[s]
  BY <1>1 DEF NeverPinned
<1> HIDE DEF e
<1>5. CASE e = "host"
  <2>1. \A x \in resource[s] : x \notin Variants
    BY <1>2, <1>5 DEF KindOf, Variants
  <2> QED
    BY <1>3, <1>5, <2>1 DEF OnlyUnnamed, Hosts, Variants
<1>6. CASE e \in Variants
  <2>1. \A x \in resource[s] : x \in Variants
    BY <1>2, <1>6 DEF KindOf
  <2>2. e = IF saved[s] # "none" THEN saved[s] ELSE "seeded"
    <3>1. mem[p].record.mode = "local"
      BY <1>1, <1>6 DEF KindOf
    <3> QED
      BY <1>1, <3>1 DEF Resolved
  <2> QED
    BY <1>3, <1>4, <1>6, <2>1, <2>2 DEF OnlyUnnamed, Variants
<1> QED
  BY <1>1, <1>5, <1>6 DEF e

\* Whether it succeeds or is cut short, a teardown takes nothing but what it is about.
LEMMA DownTakes ==
    ASSUME TypeOK, NamedInv, NeverPinned, InProgress, OneModePerId, NEW p \in Procs,
           EndedOverNothingNamed, pc[p] = "down", UNCHANGED rec, mem'[p] \in {mem[p], Nothing},
           \A q \in Procs : q = p,
           (resource' = Destroyed(p) /\ saved' \in {saved, Purged(p)}) \/ DownCutShort(p)
    PROVE  EndedOverNothingNamed' /\ NeverPinned'
<1>0. \A q \in Procs : mem'[q] = mem[q] \/ mem'[q].env = "none"
  BY DEF Nothing
<1>1. CASE UNCHANGED <<resource, saved>>
  <2>1. EndedOverNothingNamed'
    BY <1>1 DEF EndedOverNothingNamed
  <2>2. NeverPinned'
    BY <1>0, <1>1 DEF NeverPinned
  <2> QED
    BY <2>1, <2>2
<1>2. CASE resource' = Destroyed(p) /\ saved' \in {saved, Purged(p)}
  <2>1. mem[p].seed \in Seeds
    BY DEF TypeOK
  <2>2. \A s : s = mem[p].seed => OnlyUnnamed(s)'
    BY <1>2, DownLeaves
  <2>3. \A s \in Seeds : s # mem[p].seed => resource'[s] = resource[s] /\ saved'[s] = saved[s]
    BY <1>2, <2>1 DEF TypeOK, Destroyed, Purged
  <2>4. \A s \in Seeds : resource'[s] \subseteq resource[s] /\ saved'[s] \in {saved[s], "none"}
    BY <1>2 DEF TypeOK, Destroyed, Purged
  <2>5. EndedOverNothingNamed'
    BY <2>2, <2>3 DEF EndedOverNothingNamed, OnlyUnnamed
  <2>6. NeverPinned'
    BY <1>0, <2>4 DEF NeverPinned
  <2> QED
    BY <2>5, <2>6
<1> QED
  BY <1>1, <1>2 DEF DownCutShort

LEMMA OpenStep ==
    ASSUME OneModePerId, OneTerminal, TypeOK, NamedInv, OpenInv, [Next]_vars
    PROVE  OpenInv'
<1> USE DEF OpenInv, Goto
<1>0. \A p, q \in Procs : p = q
  BY DEF OneTerminal
<1>1. ASSUME NEW p \in Procs, NEW s \in Seeds, NEW m \in Live, NEW pinned \in BOOLEAN,
             StartRecord(p, s, m, pinned)
      PROVE  OpenInv'
  <2> DEFINE e == Resolved(s, m, pinned)
             h == [seed |-> s, record |-> Fresh(m), env |-> e]
  <2>1. ~Fresh(m).ended
    BY DEF Fresh
  <2>2. /\ mem' = [mem EXCEPT ![p] = h] /\ pc' = [pc EXCEPT ![p] = "mark"]
        /\ rec' = [rec EXCEPT ![s] = Fresh(m)] /\ UNCHANGED <<resource, saved>>
        /\ pinned => s \in PinnedSeeds
    BY <1>1 DEF StartRecord, Hold, Save
  <2>3. s \notin PinnedSeeds => e # "pinned"
    BY <2>2 DEF NeverPinned, Resolved
  <2> HIDE DEF e
  <2>4. h.seed = s /\ h.env = e /\ h.record = Fresh(m)
    OBVIOUS
  <2> HIDE DEF h
  <2>5. mem'[p] = h /\ pc'[p] = "mark" /\ rec'[s] = Fresh(m)
    BY <2>2 DEF TypeOK
  <2>6. InProgress'
    BY <1>0, <2>1, <2>4, <2>5 DEF InProgress
  <2>7. EndedOverNothingNamed'
    BY <2>1, <2>2 DEF TypeOK, EndedOverNothingNamed
  <2>8. NeverPinned'
    BY <1>0, <2>2, <2>3, <2>4, <2>5 DEF NeverPinned
  <2> QED
    BY <2>6, <2>7, <2>8
<1>2. ASSUME NEW p \in Procs, StartMark(p) PROVE OpenInv'
  <2>1. UNCHANGED <<rec, resource, saved, mem>> /\ pc[p] = "mark" /\ pc'[p] = "build"
    BY <1>2 DEF TypeOK, StartMark
  <2>2. InProgress'
    BY <1>0, <2>1 DEF InProgress, Starting
  <2> QED
    BY <2>1, <2>2 DEF EndedOverNothingNamed, NeverPinned
<1>3. ASSUME NEW p \in Procs, pc[p] = "build", UNCHANGED rec, mem'[p] \in {mem[p], Nothing},
             (resource' = Added(p, mem[p].env) /\ saved' = Noted(p)) \/ CutShort(p)
      PROVE  EndedOverNothingNamed' /\ NeverPinned'
  <2>1. mem[p].seed \in Seeds /\ ~rec[mem[p].seed].ended
    BY <1>3 DEF TypeOK, InProgress, Starting
  <2>2. mem[p].seed \notin PinnedSeeds => mem[p].env # "pinned"
    BY <2>1 DEF NeverPinned
  <2>3. \A q \in Procs : mem'[q] = mem[q] \/ mem'[q].env = "none"
    BY <1>0, <1>3 DEF Nothing
  <2>4. \A s \in Seeds : s # mem[p].seed => resource'[s] = resource[s] /\ saved'[s] = saved[s]
    BY <1>3 DEF TypeOK, CutShort, Added, Noted
  <2>5. saved' \in {saved, Noted(p)} /\ resource' \in {resource, Added(p, mem[p].env), Added(p, "lost host")}
    BY <1>3 DEF CutShort
  <2>6. saved'[mem[p].seed] \in {saved[mem[p].seed], mem[p].env}
    BY <2>1, <2>5 DEF TypeOK, Noted
  <2>7. resource'[mem[p].seed] \subseteq resource[mem[p].seed] \union {mem[p].env, "lost host"}
    <3>1. \A e : Added(p, e)[mem[p].seed] = resource[mem[p].seed] \union {e}
      BY <2>1 DEF TypeOK, Added
    <3> QED
      BY <2>5, <3>1
  <2>8. EndedOverNothingNamed'
    BY <1>3, <2>1, <2>4 DEF EndedOverNothingNamed
  <2>9. ASSUME NEW s \in Seeds, s \notin PinnedSeeds
        PROVE  saved'[s] # "pinned" /\ "pinned" \notin resource'[s]
    <3>1. saved[s] # "pinned" /\ "pinned" \notin resource[s]
      BY <2>9 DEF NeverPinned
    <3>2. CASE s = mem[p].seed
      BY <2>2, <2>6, <2>7, <2>9, <3>1, <3>2
    <3> QED
      BY <2>4, <3>1, <3>2
  <2>10. NeverPinned'
    BY <2>3, <2>9 DEF NeverPinned
  <2> QED
    BY <2>8, <2>10
<1>4. ASSUME NEW p \in Procs, StartBuild(p) PROVE OpenInv'
  <2>1. EndedOverNothingNamed' /\ NeverPinned'
    BY <1>3, <1>4 DEF StartBuild
  <2>2. UNCHANGED <<rec, mem>> /\ pc[p] = "build" /\ pc'[p] = "publish"
    BY <1>4 DEF TypeOK, StartBuild
  <2>3. InProgress'
    BY <1>0, <2>2 DEF InProgress, Starting
  <2> QED
    BY <2>1, <2>3
<1>5. ASSUME NEW p \in Procs, Return(p) PROVE InProgress'
  <2>1. pc'[p] = "idle"
    BY <1>5 DEF TypeOK, Return
  <2> QED
    BY <1>0, <2>1 DEF InProgress, Starting
<1>6. ASSUME NEW p \in Procs, Return(p), UNCHANGED <<resource, saved>> PROVE NeverPinned'
  <2>1. \A q \in Procs : mem'[q] = mem[q] \/ mem'[q].env = "none"
    BY <1>6 DEF TypeOK, Return, Nothing
  <2> QED
    BY <1>6, <2>1 DEF NeverPinned
<1>7. ASSUME NEW p \in Procs, StartBuildFails(p) PROVE OpenInv'
  <2>1. mem'[p] = Nothing
    BY <1>7 DEF TypeOK, StartBuildFails, Return
  <2>2. EndedOverNothingNamed' /\ NeverPinned'
    BY <1>3, <1>7, <2>1 DEF StartBuildFails
  <2> QED
    BY <1>5, <1>7, <2>2 DEF StartBuildFails
<1>8. ASSUME NEW p \in Procs, StartPublish(p) PROVE OpenInv'
  <2>1. ~mem[p].record.ended /\ mem[p].seed \in Seeds
    BY <1>8 DEF TypeOK, StartPublish, InProgress, Starting
  <2>2. EndedOverNothingNamed'
    BY <1>8, <2>1 DEF TypeOK, StartPublish, Save, EndedOverNothingNamed
  <2> QED
    BY <1>5, <1>6, <1>8, <2>2 DEF StartPublish
<1>9. ASSUME NEW p \in Procs, NEW s \in Seeds, EndLoad(p, s) PROVE OpenInv'
  <2> DEFINE e == Resolved(s, rec[s].mode, FALSE)
             h == [seed |-> s, record |-> rec[s], env |-> e]
  <2>1. /\ mem' = [mem EXCEPT ![p] = h] /\ pc' = [pc EXCEPT ![p] = "down"]
        /\ UNCHANGED <<rec, resource, saved>>
    BY <1>9 DEF EndLoad, Hold
  <2>2. s \notin PinnedSeeds => e # "pinned"
    BY DEF NeverPinned, Resolved
  <2>3. \A m : Resolved(s, m, FALSE)' = Resolved(s, m, FALSE)
    BY <2>1 DEF Resolved
  <2>4. h.seed = s /\ h.env = e /\ h.env = Resolved(s, h.record.mode, FALSE)
    OBVIOUS
  <2> HIDE DEF e
  <2> HIDE DEF h
  <2>5. mem'[p] = h /\ pc'[p] = "down"
    BY <2>1 DEF TypeOK
  <2>6. InProgress'
    BY <1>0, <2>3, <2>4, <2>5 DEF InProgress, Starting
  <2>7. NeverPinned'
    BY <1>0, <2>1, <2>2, <2>4, <2>5 DEF NeverPinned
  <2> QED
    BY <2>1, <2>6, <2>7 DEF EndedOverNothingNamed
<1>10. ASSUME NEW p \in Procs, EndDown(p) PROVE OpenInv'
  <2>1. EndedOverNothingNamed' /\ NeverPinned'
    BY <1>0, <1>10, DownTakes DEF EndDown
  <2>2. /\ pc[p] = "down" /\ resource' = Destroyed(p) /\ saved' \in {saved, Purged(p)}
        /\ UNCHANGED mem /\ pc'[p] = "record"
    BY <1>10 DEF TypeOK, EndDown
  <2>3. \A s : s = mem[p].seed => OnlyUnnamed(s)'
    BY <2>2, DownLeaves
  <2>4. InProgress'
    BY <1>0, <2>2, <2>3 DEF InProgress, Starting
  <2> QED
    BY <2>1, <2>4
<1>11. ASSUME NEW p \in Procs, EndDownFails(p) PROVE OpenInv'
  <2>1. mem'[p] = Nothing
    BY <1>11 DEF TypeOK, EndDownFails, Return
  <2>2. EndedOverNothingNamed' /\ NeverPinned'
    BY <1>0, <1>11, <2>1, DownTakes DEF EndDownFails
  <2> QED
    BY <1>5, <1>11, <2>2 DEF EndDownFails
<1>12. ASSUME NEW p \in Procs, EndRecord(p) PROVE OpenInv'
  <2>1. OnlyUnnamed(mem[p].seed)
    BY <1>12 DEF EndRecord, InProgress
  <2>2. /\ UNCHANGED <<resource, saved, mem>> /\ pc'[p] = "clear"
        /\ \A s \in Seeds : s # mem[p].seed => rec'[s] = rec[s]
    BY <1>12 DEF TypeOK, EndRecord, Save
  <2>3. EndedOverNothingNamed'
    BY <2>1, <2>2 DEF EndedOverNothingNamed, OnlyUnnamed
  <2>4. InProgress'
    BY <1>0, <2>2 DEF InProgress, Starting
  <2> QED
    BY <2>2, <2>3, <2>4 DEF NeverPinned
<1>13. ASSUME NEW p \in Procs, EndReadMarker(p) PROVE OpenInv'
  <2>1. CASE marker = mem[p].seed
    <3>1. UNCHANGED <<rec, resource, saved, mem>> /\ pc'[p] = "unmark"
      BY <1>13, <2>1 DEF TypeOK, EndReadMarker
    <3>2. InProgress'
      BY <1>0, <3>1 DEF InProgress, Starting
    <3> QED
      BY <3>1, <3>2 DEF EndedOverNothingNamed, NeverPinned
  <2>2. CASE marker # mem[p].seed
    <3>1. Return(p) /\ UNCHANGED <<rec, resource, saved>>
      BY <1>13, <2>2 DEF EndReadMarker
    <3> QED
      BY <1>5, <1>6, <3>1 DEF EndedOverNothingNamed
  <2> QED
    BY <2>1, <2>2
<1>14. ASSUME NEW p \in Procs, Return(p), UNCHANGED <<rec, resource, saved>> PROVE OpenInv'
  BY <1>5, <1>6, <1>14 DEF EndedOverNothingNamed
<1>15. ASSUME NEW p \in Procs, NEW s \in Seeds, DeliverRecord(p, s) PROVE OpenInv'
  <2> DEFINE h == [seed |-> s, record |-> Fresh("offline"), env |-> "none"]
  <2>1. ~Fresh("offline").ended
    BY DEF Fresh
  <2>2. /\ mem' = [mem EXCEPT ![p] = h] /\ pc' = [pc EXCEPT ![p] = "lookup"]
        /\ rec' = [rec EXCEPT ![s] = Fresh("offline")] /\ UNCHANGED <<resource, saved>>
    BY <1>15 DEF DeliverRecord, Hold, Save
  <2>3. h.env = "none"
    OBVIOUS
  <2> HIDE DEF h
  <2>4. mem'[p] = h /\ pc'[p] = "lookup"
    BY <2>2 DEF TypeOK
  <2>5. InProgress'
    BY <1>0, <2>4 DEF InProgress, Starting
  <2>6. EndedOverNothingNamed'
    BY <2>1, <2>2 DEF TypeOK, EndedOverNothingNamed
  <2>7. NeverPinned'
    BY <1>0, <2>2, <2>3, <2>4 DEF NeverPinned
  <2> QED
    BY <2>5, <2>6, <2>7
<1>16. ASSUME NEW p \in Procs, DeliverLookup(p) PROVE OpenInv'
  <2>1. CASE Busy(p)
    BY <1>14, <1>16, <2>1 DEF DeliverLookup
  <2>2. CASE ~Busy(p)
    <3>1. UNCHANGED <<rec, resource, saved, mem>> /\ pc'[p] = "mark drop"
      BY <1>16, <2>2 DEF TypeOK, DeliverLookup
    <3>2. InProgress'
      BY <1>0, <3>1 DEF InProgress, Starting
    <3> QED
      BY <3>1, <3>2 DEF EndedOverNothingNamed, NeverPinned
  <2> QED
    BY <2>1, <2>2
<1>17. ASSUME NEW p \in Procs, EndUnmark(p) \/ DeliverMark(p) PROVE OpenInv'
  BY <1>14, <1>17 DEF EndUnmark, DeliverMark
<1>18. ASSUME NEW p \in Procs, NEW s \in Seeds, NEW stage \in Stages \ {"created"},
              StageLoad(p, s, stage)
       PROVE  OpenInv'
  <2> DEFINE h == [seed |-> s, record |-> Staged(rec[s], stage), env |-> "none"]
  <2>1. Staged(rec[s], stage).mode = "offline"
    BY <1>18, StagedMode DEF TypeOK, StageLoad
  <2>2. /\ mem' = [mem EXCEPT ![p] = h] /\ pc' = [pc EXCEPT ![p] = "stage"]
        /\ UNCHANGED <<rec, resource, saved>>
    BY <1>18 DEF StageLoad, Hold
  <2>3. h.env = "none" /\ h.record.mode = "offline"
    BY <2>1
  <2> HIDE DEF h
  <2>4. mem'[p] = h /\ pc'[p] = "stage"
    BY <2>2 DEF TypeOK
  <2>5. InProgress'
    BY <1>0, <2>3, <2>4 DEF InProgress, Starting
  <2>6. NeverPinned'
    BY <1>0, <2>2, <2>3, <2>4 DEF NeverPinned
  <2> QED
    BY <2>2, <2>5, <2>6 DEF EndedOverNothingNamed
<1>19. ASSUME NEW p \in Procs, StageSave(p) PROVE OpenInv'
  <2>1. pc[p] = "stage" /\ mem[p].seed \in Seeds /\ mem[p].record.mode = "offline"
    BY <1>19 DEF TypeOK, StageSave, InProgress
  <2>2. rec[mem[p].seed].mode = "offline"
    BY <2>1 DEF NamedInv, ModesAgree, OneModePerId, Recorded
  <2>3. resource[mem[p].seed] = {}
    BY <2>1, <2>2 DEF NamedInv, EveryResourceIsNamed, KindOf
  <2>4. OnlyUnnamed(mem[p].seed)
    BY <2>1, <2>3, NothingLeft
  <2>5. /\ UNCHANGED <<resource, saved>>
        /\ \A s \in Seeds : s # mem[p].seed => rec'[s] = rec[s]
    BY <1>19 DEF TypeOK, StageSave, Save
  <2>6. EndedOverNothingNamed'
    BY <2>4, <2>5 DEF EndedOverNothingNamed, OnlyUnnamed
  <2> QED
    BY <1>5, <1>6, <1>19, <2>6 DEF StageSave
<1>20. ASSUME NEW p \in Procs, Crash(p) PROVE OpenInv'
  <2>1. Return(p) /\ UNCHANGED rec /\ mem'[p] = Nothing
    BY <1>20 DEF TypeOK, Crash, Return
  <2>2. CASE pc[p] = "build" /\ CutShort(p)
    BY <1>3, <1>5, <2>1, <2>2
  <2>3. CASE pc[p] = "down" /\ DownCutShort(p)
    BY <1>0, <1>5, <2>1, <2>3, DownTakes
  <2>4. CASE UNCHANGED <<resource, saved>>
    BY <1>14, <2>1, <2>4
  <2> QED
    BY <1>20, <2>2, <2>3, <2>4 DEF Crash
<1>21. ASSUME NEW s \in Seeds, NEW e \in Variants \union Hosts, Vanish(s, e) PROVE OpenInv'
  <2>1. /\ UNCHANGED <<rec, saved, pc, mem>>
        /\ \A t \in Seeds : resource'[t] \subseteq resource[t]
    BY <1>21 DEF TypeOK, Vanish
  <2>2. EndedOverNothingNamed'
    BY <2>1 DEF EndedOverNothingNamed
  <2>3. NeverPinned'
    BY <2>1 DEF NeverPinned
  <2>4. \A p \in Procs : pc[p] = "record" => OnlyUnnamed(mem[p].seed)'
    BY <2>1 DEF TypeOK, InProgress, OnlyUnnamed
  <2>5. InProgress'
    BY <2>1, <2>4 DEF InProgress, Resolved
  <2> QED
    BY <2>2, <2>3, <2>5
<1>22. CASE UNCHANGED vars
  BY <1>22 DEF vars, EndedOverNothingNamed, NeverPinned, InProgress, OnlyUnnamed, Resolved
<1> QED
  BY <1>1, <1>2, <1>4, <1>7, <1>8, <1>9, <1>10, <1>11, <1>12, <1>13, <1>15, <1>16, <1>17,
     <1>18, <1>19, <1>20, <1>21, <1>22
     DEF Next, Command, Start, End, Deliver, Stage

\* From one terminal, killed or failing at any point: a record is ended only over what the
\* id's own files do not name, and of an id never pinned over nothing but a host terraform
\* did not save.  What makes it true is that the end that resolved a name, the teardown
\* of that name and the record that says so come in this order, and that a start opens
\* the record before it builds.
THEOREM EndsOverNothingNamed ==
    ASSUME OneModePerId, OneTerminal
    PROVE  Spec => []EndedOverNothingNamed
<1>1. Init => NamedInv
  BY DEF Init, NamedInv, ModesAgree, EveryResourceIsNamed, Recorded, NoRec
<1>2. TypeOK /\ NamedInv /\ [Next]_vars => NamedInv'
  BY NamedStep
<1>3. Init => OpenInv
  <2> SUFFICES ASSUME Init PROVE OpenInv
    OBVIOUS
  <2>1. \A s \in Seeds : ~rec[s].ended /\ resource[s] = {} /\ saved[s] = "none"
    BY DEF Init, NoRec
  <2>2. \A p \in Procs : pc[p] = "idle" /\ mem[p].env = "none"
    BY DEF Init, Nothing
  <2> QED
    BY <2>1, <2>2 DEF OpenInv, EndedOverNothingNamed, NeverPinned, InProgress, Starting
<1>4. TypeOK /\ NamedInv /\ OpenInv /\ [Next]_vars => OpenInv'
  BY OneTerminal, OpenStep
<1>5. OpenInv => EndedOverNothingNamed
  BY DEF OpenInv
<1> QED
  BY RegistryTypeCorrect, <1>1, <1>2, <1>3, <1>4, <1>5, PTL DEF Spec

-----------------------------------------------------------------------------
(* From one terminal, a drop that is about to be marked leaves an open     *)
(* session marked: the lookup it acts on is still true.                    *)

DropInv ==
    \A p \in Procs : pc[p] = "mark drop" =>
        (marker # NoSeed /\ Open(marker) => marker = mem[p].seed)

LEMMA DropStep ==
    ASSUME OneTerminal, TypeOK, DropInv, [Next]_vars
    PROVE  DropInv'
<1>0. \A p, q \in Procs : p = q
  BY DEF OneTerminal
<1>1. ASSUME NEW p \in Procs, DeliverLookup(p) PROVE DropInv'
  <2>1. CASE Busy(p)
    <3>1. pc'[p] = "idle"
      BY <1>1, <2>1 DEF TypeOK, DeliverLookup, Return, Goto
    <3> QED
      BY <1>0, <3>1 DEF DropInv
  <2>2. CASE ~Busy(p)
    <3>1. UNCHANGED <<rec, marker, mem>>
      BY <1>1, <2>2 DEF DeliverLookup
    <3>2. ASSUME marker # NoSeed, Open(marker) PROVE marker = mem[p].seed
      <4>1. Current = {marker}
        BY <3>2 DEF Current, Open
      <4> QED
        BY <2>2, <3>2, <4>1 DEF Busy
    <3> QED
      BY <1>0, <3>1, <3>2 DEF DropInv, Open, Recorded
  <2> QED
    BY <2>1, <2>2
<1>2. ASSUME NEW p \in Procs, pc'[p] # "mark drop" PROVE DropInv'
  BY <1>0, <1>2 DEF DropInv
<1>3. ASSUME NEW p \in Procs, Start(p) PROVE DropInv'
  <2>1. pc'[p] # "mark drop"
    BY <1>3 DEF TypeOK, Start, StartRecord, StartMark, StartBuild, StartBuildFails,
       StartPublish, Return, Goto
  <2> QED
    BY <1>2, <2>1
<1>4. ASSUME NEW p \in Procs, End(p) PROVE DropInv'
  <2>1. pc'[p] # "mark drop"
    BY <1>4 DEF TypeOK, End, EndLoad, EndDown, EndDownFails, EndRecord, EndReadMarker,
       EndUnmark, Return, Goto
  <2> QED
    BY <1>2, <2>1
<1>5. ASSUME NEW p \in Procs, Stage(p) \/ Crash(p) PROVE DropInv'
  <2>1. pc'[p] # "mark drop"
    BY <1>5 DEF TypeOK, Stage, StageLoad, StageSave, Crash, Return, Goto
  <2> QED
    BY <1>2, <2>1
<1>6. ASSUME NEW p \in Procs, Deliver(p) PROVE DropInv'
  <2>1. DeliverLookup(p) \/ pc'[p] # "mark drop"
    BY <1>6 DEF TypeOK, Deliver, DeliverRecord, DeliverMark, Return, Goto
  <2> QED
    BY <1>1, <1>2, <2>1
<1>7. ASSUME UNCHANGED <<rec, marker, pc, mem>> PROVE DropInv'
  BY <1>7 DEF DropInv, Open, Recorded
<1> QED
  BY <1>3, <1>4, <1>5, <1>6, <1>7 DEF Next, Command, Vanish, vars

\* From one terminal, preparing a drop never takes unqualified commands away from an open
\* session: what SetCurrentIfIdle (interview.go) looked up still holds when it marks.
THEOREM DropsDoNotRetarget ==
    ASSUME OneTerminal PROVE Spec => OnlyStartRetargets
<1> DEFINE Retargets ==
       marker # NoSeed /\ marker' \notin {marker, NoSeed} /\ Open(marker)
<1>1. Init => DropInv
  BY DEF Init, DropInv
<1>2. TypeOK /\ DropInv /\ [Next]_vars => DropInv'
  BY OneTerminal, DropStep
<1>3. ASSUME TypeOK, DropInv, [Next]_vars, Retargets PROVE \E p \in Procs : pc[p] = "mark"
  <2>1. ASSUME NEW p \in Procs, Command(p) \/ Crash(p) PROVE StartMark(p) \/ DeliverMark(p)
    BY <1>3, <2>1 DEF Command, Start, End, Deliver, Stage, StartRecord, StartBuild,
       StartBuildFails, StartPublish, EndLoad, EndDown, EndDownFails, EndRecord,
       EndReadMarker, EndUnmark, DeliverRecord, DeliverLookup, StageLoad, StageSave, Crash
  <2>2. \A p \in Procs : ~DeliverMark(p)
    BY <1>3 DEF DropInv, DeliverMark
  <2>3. ~(\E s \in Seeds, e \in Variants \union Hosts : Vanish(s, e)) /\ ~UNCHANGED vars
    BY <1>3 DEF Vanish, vars
  <2> QED
    BY <1>3, <2>1, <2>2, <2>3 DEF Next, StartMark
<1>4. TypeOK /\ DropInv /\ [Next]_vars => [Retargets => \E p \in Procs : pc[p] = "mark"]_vars
  BY <1>3
<1>5. OnlyStartRetargets <=> [][Retargets => \E p \in Procs : pc[p] = "mark"]_vars
  BY DEF OnlyStartRetargets
<1> HIDE DEF Retargets
<1> QED
  BY RegistryTypeCorrect, <1>1, <1>2, <1>4, <1>5, PTL DEF Spec
=============================================================================
