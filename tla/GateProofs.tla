----------------------------- MODULE GateProofs -----------------------------
(***************************************************************************)
(* For packs of any size, any scripts and any number of runs and failures: *)
(* what the gate lets through is proved, and the ledger is right about it. *)
(***************************************************************************)
EXTENDS Gate, FiniteSetTheorems, WellFoundedInduction, TLAPS

Single == {"broken?", "fix", "fixed?"}
Whole == {"detects", "fix all", "recovers"}
Attempt == {"agent", "status", "judge"}
Labels == {"idle", "up", "healthy", "inject", "break", "down", "append"} \union
          Single \union Whole \union Attempt
Judgements == {"holds", "too-easy", "inconclusive"}

Worlds == [up : BOOLEAN, live : BOOLEAN, present : SUBSET Pack, healing : SUBSET Pack,
           injected : SUBSET Pack]
RunRecords == [pc : Labels, task : Tasks, todo : SUBSET Pack, won : BOOLEAN,
               disturbed : BOOLEAN, found : BOOLEAN, failed : BOOLEAN, left : SUBSET Pack,
               down : BOOLEAN, verdict : Judgements \union {"none"}, seen : 0..NFaults]
Entries == [verdict : Judgements \union {"none"}, left : SUBSET Pack, down : BOOLEAN,
            failed : BOOLEAN, disturbed : BOOLEAN]

Types ==
    /\ scripts \in AllScripts
    /\ world \in [Tasks -> Worlds]
    /\ run \in RunRecords
    /\ ledger \subseteq Entries
    /\ green \subseteq {"own", "found"}

\* What a run may rely on of its environment, and which task is in which stage.
Stages ==
    /\ \A t \in Tasks : /\ world[t].healing \subseteq world[t].present
                        /\ world[t].present # {} => world[t].up
                        /\ world[t].injected # {} => world[t].live
    /\ run.pc \notin {"idle", "up", "down", "append"} => here.up
    /\ run.pc \notin {"idle", "up", "healthy", "down", "append"} => here.live
    /\ run.pc \in Single \union Whole \union {"inject"} => run.task = "prove"
    /\ run.pc \in Attempt => run.task = "redteam"
    /\ run.pc \notin {"idle", "down", "append"} =>
        run.verdict = "none" /\ ~run.failed /\ ~run.won
    /\ run.pc = "append" => run.verdict # "none"
    /\ \A e \in ledger : e.verdict # "none"
    /\ run.won => run.task = "prove"

\* Nothing gets into the environment of `prove` but by an inject, or begins to heal but by
\* a fix.
EffectsHaveCauses ==
    /\ \A f \in world["prove"].present : scripts.inject[f] # "nothing"
    /\ \A f \in world["prove"].healing : scripts.fix[f] \in {"works", "alone"}

\* What a fault's three scripts are worth that went through the gate.
Detected(f, found) ==
    /\ scripts.inject[f] # "fails" /\ scripts.check[f] \in Truthful
    /\ scripts.check[f] = "honest" \/ ~found => scripts.inject[f] = "works"
    /\ scripts.inject[f] = "works" => scripts.fix[f] \in {"works", "alone"}

PackBreaks == scripts.verify = "honest" /\ ~(Pack \subseteq scripts.survived)

AloneSurvived ==
    NFaults = 1 \/ \A f \in Pack : scripts.fix[f] = "alone" /\ scripts.inject[f] = "works"
                                   => f \in scripts.survived

ProvedOn(found) == (\A f \in Pack : Detected(f, found)) /\ PackBreaks /\ AloneSurvived

Current == Min(run.todo)

\* What is so of a fault that was injected and not yet fixed.
Breaks(f) == scripts.inject[f] = "works" => f \in here.present \ here.healing

\* What has been seen by each stage: before anything is judged, of each fault on its own, of
\* the fault at hand, and of the whole pack.
SeenUp ==
    /\ run.pc \in Single \union {"inject", "break", "detects"} =>
        scripts.verify \in {"passes", "honest"}
    /\ run.pc \in {"healthy", "inject"} /\ ~run.found => here.present = {}

SeenDetected ==
    /\ run.pc \in Single \union {"inject"} => \A f \in Pack \ run.todo : Detected(f, run.found)
    /\ run.pc \in Whole \union {"break"} => \A f \in Pack : Detected(f, run.found)

SeenCurrent ==
    /\ run.pc \in Single =>
        /\ scripts.inject[Current] # "fails"
        /\ ~run.found => here.present \subseteq {Current}
    /\ run.pc \in {"broken?", "fix"} => Breaks(Current)
    /\ run.pc \in {"fix", "fixed?"} =>
        /\ scripts.check[Current] \in {"fails"} \union Truthful
        /\ scripts.check[Current] = "honest" \/ (~run.found /\ scripts.check[Current] = "any")
            => scripts.inject[Current] = "works"
    /\ run.pc = "fixed?" /\ scripts.inject[Current] = "works" =>
        Current \in here.present \/ scripts.fix[Current] \in {"works", "alone"}

SeenPack ==
    /\ run.pc = "break" => \A f \in Pack \ run.todo : Breaks(f)
    /\ run.pc \in {"detects", "fix all"} => \A f \in Pack : Breaks(f)
    /\ run.pc \in {"fix all", "recovers"} => PackBreaks
    /\ run.pc = "recovers" =>
        NFaults = 1 \/ \A f \in Pack : scripts.fix[f] = "alone" => Breaks(f)
    /\ run.won => ProvedOn(run.found)

Seen == SeenUp /\ SeenDetected /\ SeenCurrent /\ SeenPack

\* It is seen by a run of `prove` whose checks were undisturbed.
SeenSoFar == run.task = "prove" /\ ~run.disturbed => Seen

\* The state records the whole pack once it is broken.
PackRecorded ==
    /\ run.pc = "break" => Pack \ run.todo \subseteq here.injected
    /\ run.pc \in Whole \union Attempt => here.injected = Pack
    /\ run.pc \in Single => run.todo # {}

\* Whatever the gate has passed in the past.
GreenInv == \A w \in green : ProvedOn(w = "found")

Honest == scripts.verify = "honest" /\ \A f \in Pack : scripts.check[f] \in Truthful
MostFixed(left) == 10 * Cardinality(Pack \ left) >= 6 * NFaults
EntryIsTrue(e) ==
    /\ Honest => /\ e.verdict = "too-easy" => ~e.down \/ MostFixed(e.left)
                 /\ e.verdict = "holds" => e.down \/ e.disturbed
    /\ e.failed => e.verdict = "inconclusive"

Judged ==
    /\ run.pc = "judge" /\ Honest => run.seen <= Cardinality(Pack \ run.left)
    /\ EntryIsTrue(run)
    /\ \A e \in ledger : EntryIsTrue(e)

GateInv == Types /\ Stages /\ EffectsHaveCauses /\ SeenSoFar /\ PackRecorded /\ GreenInv /\ Judged
-----------------------------------------------------------------------------
\* The first of what is still to be done is part of it.
LEMMA MinIsOneOf == \A S \in SUBSET Pack : S # {} => Min(S) \in S
<1> SUFFICES ASSUME NEW S \in SUBSET Pack, S # {} PROVE Min(S) \in S
  OBVIOUS
<1>1. S \in SUBSET Nat
  BY GateAssumption DEF Pack
<1>2. PICK x \in S : \A y \in S : ~(<<y, x>> \in OpToRel(<, Nat))
  BY <1>1, NatLessThanWellFounded, WFMin
<1>3. \A y \in S : ~(y < x)
  BY <1>1, <1>2, Zenon DEF OpToRel
<1>4. \A y \in S : x <= y
  BY <1>1, <1>3
<1> QED
  BY <1>4 DEF Min

\* An inject has its effect or not, and changes nothing that is recorded.
LEMMA InjectedIs ==
    ASSUME Types, NEW f \in Pack, NEW w \in Injected(f)
    PROVE  /\ w \in Worlds /\ w.up = here.up /\ w.live = here.live /\ w.injected = here.injected
           /\ \/ w = here /\ scripts.inject[f] # "works"
              \/ /\ scripts.inject[f] # "nothing"
                 /\ w.present = here.present \union {f} /\ w.healing = here.healing \ {f}
<1>1. here \in Worlds
  BY DEF Types, here, RunRecords
<1>2. scripts.inject[f] \in Effects
  BY DEF Types, AllScripts
<1>3. CASE w = here /\ scripts.inject[f] # "works"
  BY <1>1, <1>3
<1>4. CASE w # here \/ scripts.inject[f] = "works"
  <2>1. w = [here EXCEPT !.present = here.present \union {f}, !.healing = here.healing \ {f}]
        /\ scripts.inject[f] # "nothing"
    BY <1>4 DEF Injected
  <2> QED
    BY <1>1, <2>1 DEF Worlds
<1> QED
  BY <1>3, <1>4

\* What a verify or a check that can tell says.
LEMMA SaysIs ==
    ASSUME NEW probe, NEW honestly \in BOOLEAN
    PROVE  /\ Says(probe, honestly) = "fixed" =>
                probe = "passes" \/ (probe = "any" /\ here.present = {}) \/ (probe = "honest" /\ ~honestly)
                \/ probe \notin Checks
BY DEF Says, Checks, Verifies

\* Where the environment of the running task is replaced, that of the other stays.
LEMMA Replaced ==
    ASSUME Types, NEW w \in Worlds, Becomes(w)
    PROVE  /\ world' \in [Tasks -> Worlds] /\ world'[run.task] = w
           /\ \A t \in Tasks : t # run.task => world'[t] = world[t]
BY DEF Types, Becomes, RunRecords

\* Counted over a part of the pack.
LEMMA PackIsFinite ==
    /\ \A S \in SUBSET Pack : IsFiniteSet(S) /\ Cardinality(S) \in 0..NFaults
    /\ \A S \in SUBSET Pack : \A T \in SUBSET S : Cardinality(T) <= Cardinality(S)
    /\ Cardinality(Pack) = NFaults
<1>1. IsFiniteSet(Pack) /\ Cardinality(Pack) = NFaults
  <2>1. NFaults \in Int /\ 1 \in Int /\ NFaults >= 1
    BY GateAssumption
  <2>2. IsFiniteSet(1..NFaults) /\ Cardinality(1..NFaults) = IF 1 > NFaults THEN 0 ELSE NFaults - 1 + 1
    BY <2>1, FS_Interval
  <2> QED
    BY <2>1, <2>2 DEF Pack
<1>2. ASSUME NEW S \in SUBSET Pack PROVE IsFiniteSet(S) /\ Cardinality(S) \in 0..NFaults
  <2>1. IsFiniteSet(S) /\ Cardinality(S) <= NFaults
    BY <1>1, FS_Subset
  <2>2. Cardinality(S) \in Nat
    BY <2>1, FS_CardinalityType
  <2> QED
    BY <2>1, <2>2, GateAssumption
<1>3. ASSUME NEW S \in SUBSET Pack, NEW T \in SUBSET S PROVE Cardinality(T) <= Cardinality(S)
  BY <1>2, FS_Subset
<1> QED
  BY <1>1, <1>2, <1>3

LEMMA FixedNowIsTyped == Types => FixedNow \in 0..NFaults
<1> SUFFICES ASSUME Types PROVE FixedNow \in 0..NFaults
  OBVIOUS
<1>1. here.injected \in SUBSET Pack
  BY DEF Types, here, RunRecords, Worlds
<1> QED
  BY <1>1, PackIsFinite DEF FixedNow

\* The types.
LEMMA TypesStep == Types /\ [Next]_vars => Types'
<1> SUFFICES ASSUME Types, [Next]_vars PROVE Types'
  OBVIOUS
<1> USE DEF Elsewhere, Failure
<1>0. /\ here \in Worlds /\ run \in RunRecords /\ NoWorld \in Worlds
      /\ scripts \in AllScripts /\ world \in [Tasks -> Worlds]
      /\ ledger \subseteq Entries /\ green \subseteq {"own", "found"}
  BY DEF Types, here, RunRecords, Worlds, NoWorld
<1>i. 0 \in 0..NFaults
  BY GateAssumption
<1>w. ASSUME NEW w \in Worlds, Becomes(w) PROVE world' \in [Tasks -> Worlds]
  BY <1>w, Replaced
<1>r. /\ \A label \in Labels : [run EXCEPT !.pc = label] \in RunRecords
      /\ \A label \in Labels, todo \in SUBSET Pack :
            [run EXCEPT !.pc = label, !.todo = todo] \in RunRecords
      /\ Idle \in RunRecords
  BY <1>0, <1>i DEF RunRecords, Labels, Idle, Tasks
<1>1. ASSUME NEW task \in Tasks, Begin(task) PROVE Types'
  <2>1. run' \in RunRecords
    BY <1>1, <1>i DEF Begin, Idle, RunRecords, Labels
  <2> QED
    BY <1>1, <1>0, <2>1 DEF Begin, Types
<1>2. ASSUME NEW t \in Tasks, Heals(t) PROVE Types'
  <2>1. world' \in [Tasks -> Worlds]
    BY <1>0, <1>2 DEF Heals, Worlds
  <2> QED
    BY <1>2, <1>0, <2>1 DEF Heals, Types
<1>3. CASE UpProvision
  <2>1. PICK kept \in SUBSET here.present :
            Becomes([here EXCEPT !.up = TRUE, !.present = kept, !.healing = @ \intersect kept])
    BY <1>3 DEF UpProvision
  <2>2. [here EXCEPT !.up = TRUE, !.present = kept, !.healing = @ \intersect kept] \in Worlds
    BY <1>0 DEF Worlds
  <2>3. run' \in RunRecords
    BY <1>0, <1>3 DEF UpProvision, RunRecords, Worlds, Labels
  <2> QED
    BY <1>0, <1>3, <1>w, <2>1, <2>2, <2>3 DEF UpProvision, Types
<1>4. CASE UpHealthy
  <2>1. [here EXCEPT !.live = TRUE, !.injected = IF here.live THEN @ ELSE {}] \in Worlds
    BY <1>0 DEF Worlds
  <2>2. run' \in RunRecords
    BY <1>0, <1>4, <1>r DEF UpHealthy, Labels
  <2> QED
    BY <1>0, <1>4, <1>w, <2>1, <2>2 DEF UpHealthy, Types
<1>5. ASSUME UNCHANGED <<scripts, world, ledger, green>>, run' \in RunRecords PROVE Types'
  BY <1>0, <1>5 DEF Types
<1>6. CASE WaitRunsOut \/ ProveNotBroken \/ ProveStillBroken
  BY <1>5, <1>6, <1>r DEF WaitRunsOut, ProveNotBroken, ProveStillBroken, GiveUp, Goto, Labels
<1>7. CASE BreakOne
  <2> DEFINE f == Min(run.todo)
  <2>1. f \in Pack
    BY <1>0, <1>7, MinIsOneOf DEF BreakOne, RunRecords
  <2>2. PICK w \in Injected(f) :
            Becomes(IF scripts.inject[f] # "fails" THEN [w EXCEPT !.injected = @ \union {f}] ELSE w)
    BY <1>7 DEF BreakOne
  <2>3. w \in Worlds /\ [w EXCEPT !.injected = @ \union {f}] \in Worlds
    BY <2>1, <2>2, InjectedIs DEF Worlds
  <2>4. world' \in [Tasks -> Worlds]
    BY <2>2, <2>3, <1>w
  <2>5. run' \in RunRecords
    <3>1. run' = [run EXCEPT !.todo = @ \ {f}, !.pc = IF scripts.inject[f] # "fails" THEN @ ELSE "down"]
      BY <1>7 DEF BreakOne
    <3> QED
      BY <1>0, <3>1 DEF RunRecords, Labels
  <2> QED
    BY <1>0, <1>7, <2>4, <2>5 DEF BreakOne, Types
<1>8. CASE BreakDone \/ ProveBroken \/ ProveWholePack \/ ProveDetects \/ AgentEnds
  <2>1. UNCHANGED <<scripts, world, ledger, green>>
    BY <1>8 DEF BreakDone, ProveBroken, ProveWholePack, ProveDetects, AgentEnds
  <2>2. CASE ProveWholePack
    BY <1>5, <1>r, <2>1, <2>2 DEF ProveWholePack, Labels
  <2>3. CASE BreakDone
    BY <1>5, <1>r, <2>1, <2>3 DEF BreakDone, Goto, Labels, Whole, Attempt
  <2>4. CASE ProveBroken \/ ProveDetects \/ AgentEnds
    BY <1>5, <1>r, <2>1, <2>4 DEF ProveBroken, ProveDetects, AgentEnds, Goto, Labels, Single,
       Whole, Attempt
  <2> QED
    BY <1>8, <2>2, <2>3, <2>4
<1>9. CASE ProveInject
  <2> DEFINE f == Min(run.todo)
  <2>1. f \in Pack
    BY <1>0, <1>9, MinIsOneOf DEF ProveInject, RunRecords
  <2>2. PICK w \in Injected(f) : Becomes(w)
    BY <1>9 DEF ProveInject
  <2>3. world' \in [Tasks -> Worlds]
    BY <2>1, <2>2, <1>w, InjectedIs
  <2>4. run' \in RunRecords
    BY <1>9, <1>r DEF ProveInject, Goto, Labels, Single
  <2> QED
    BY <1>0, <1>9, <2>3, <2>4 DEF ProveInject, Types
<1>10. \A faults, alone : Fixed(faults, alone) \in Worlds
  BY <1>0 DEF Fixed, Worlds
<1>11. CASE ProveFix
  <2>1. run' \in RunRecords
    BY <1>11, <1>r DEF ProveFix, Goto, Labels, Single
  <2> QED
    BY <1>0, <1>10, <1>11, <1>w, <2>1 DEF ProveFix, Types
<1>12. CASE ProveFixed
  <2>1. run' \in RunRecords
    BY <1>0, <1>12 DEF ProveFixed, RunRecords, Labels
  <2> QED
    BY <1>5, <1>12, <2>1 DEF ProveFixed
<1>13. CASE ProveFixAll
  <2>1. run' \in RunRecords
    BY <1>13, <1>r DEF ProveFixAll, Goto, Labels, Whole
  <2> QED
    BY <1>0, <1>10, <1>13, <1>w, <2>1 DEF ProveFixAll, Types
<1>14. CASE ProveRecovers
  <2>1. Verify \in BOOLEAN
    BY DEF Verify
  <2>2. run' \in RunRecords
    BY <1>0, <1>14, <2>1 DEF ProveRecovers, RunRecords, Labels
  <2> QED
    BY <1>5, <1>14, <2>2 DEF ProveRecovers
<1>15. CASE Agent
  <2>1. PICK p \in SUBSET Pack : Becomes([here EXCEPT !.present = p, !.healing = @ \intersect p])
    BY <1>15 DEF Agent
  <2>2. [here EXCEPT !.present = p, !.healing = @ \intersect p] \in Worlds
    BY <1>0 DEF Worlds
  <2> QED
    BY <1>0, <1>15, <1>w, <2>1, <2>2 DEF Agent, Types
<1>16. CASE AgentFails
  <2>1. run' \in RunRecords
    BY <1>0, <1>16 DEF AgentFails, RunRecords, Labels, Judgements
  <2> QED
    BY <1>5, <1>16, <2>1 DEF AgentFails
<1>17. CASE Status
  <2>1. run' \in RunRecords
    BY <1>0, <1>17, FixedNowIsTyped DEF Status, RunRecords, Labels, Attempt, Worlds
  <2> QED
    BY <1>5, <1>17, <2>1 DEF Status
<1>j. \A total, fixed, verified : Judgement(total, fixed, verified) \in Judgements
  BY DEF Judgement, Judgements
<1>a. AppDown \in BOOLEAN
  BY DEF AppDown
<1>18. CASE Scored
  <2>1. run' \in RunRecords
    BY <1>0, <1>18, <1>j, <1>a DEF Scored, RunRecords, Labels
  <2> QED
    BY <1>5, <1>18, <2>1 DEF Scored
<1>n. Next1 \in Labels /\ Passed \subseteq {"own", "found"}
  BY DEF Next1, Labels, Passed
<1>19. CASE Down
  BY <1>0, <1>19, <1>n, <1>r, <1>w DEF Down, Goto, Types
<1>20. CASE Append
  <2>1. [verdict |-> run.verdict, left |-> run.left, down |-> run.down,
         failed |-> run.failed, disturbed |-> run.disturbed] \in Entries
    BY <1>0 DEF RunRecords, Entries
  <2>2. run' \in RunRecords
    BY <1>20, <1>r DEF Append, Goto, Labels
  <2> QED
    BY <1>0, <1>20, <2>1, <2>2 DEF Append, Types
<1>21. CASE Disturbed
  <2> DEFINE d == [run EXCEPT !.disturbed = TRUE]
  <2>1. \/ run' = [d EXCEPT !.pc = "fix"] \/ run' = [d EXCEPT !.pc = "fix all"]
        \/ \E n \in 0..FixedNow :
               run' = [d EXCEPT !.pc = "judge", !.left = here.present, !.seen = n]
        \/ run' = [d EXCEPT !.pc = "down", !.down = AppDown,
                      !.verdict = Judgement(Cardinality(here.injected), run.seen, FALSE)]
    BY <1>21 DEF Disturbed
  <2>2. d \in RunRecords
    BY <1>0 DEF RunRecords
  <2>3. 0..FixedNow \subseteq 0..NFaults
    BY FixedNowIsTyped, GateAssumption
  <2>4. here.present \in SUBSET Pack
    BY <1>0 DEF Worlds
  <2> HIDE DEF d
  <2>5. run' \in RunRecords
    <3>1. \A label \in Labels : [d EXCEPT !.pc = label] \in RunRecords
      BY <2>2 DEF RunRecords
    <3>2. ASSUME NEW n \in 0..FixedNow
          PROVE  [d EXCEPT !.pc = "judge", !.left = here.present, !.seen = n] \in RunRecords
      BY <2>2, <2>3, <2>4 DEF RunRecords, Labels, Attempt
    <3>3. [d EXCEPT !.pc = "down", !.down = AppDown,
                    !.verdict = Judgement(Cardinality(here.injected), run.seen, FALSE)]
          \in RunRecords
      BY <2>2, <1>j, <1>a DEF RunRecords, Labels
    <3> QED
      BY <2>1, <3>1, <3>2, <3>3 DEF Labels, Single, Whole
  <2> QED
    BY <1>5, <1>21, <2>5 DEF Disturbed
<1>22. CASE Fails \/ NotAppended \/ Killed
  BY <1>5, <1>22, <1>r DEF Fails, NotAppended, Killed, Goto, Labels
<1>23. CASE LeftBehind
  <2>1. PICK gone \in {NoWorld, here} :
            Becomes([gone EXCEPT !.live = here.live, !.injected = here.injected])
    BY <1>23 DEF LeftBehind
  <2>2. [gone EXCEPT !.live = here.live, !.injected = here.injected] \in Worlds
    BY <1>0 DEF Worlds
  <2> QED
    BY <1>0, <1>23, <1>n, <1>r, <1>w, <2>1, <2>2 DEF LeftBehind, Goto, Types
<1>24. CASE UNCHANGED vars
  BY <1>0, <1>24 DEF vars, Types
<1> QED
  BY <1>1, <1>2, <1>3, <1>4, <1>6, <1>7, <1>8, <1>9, <1>11, <1>12, <1>13, <1>14, <1>15, <1>16,
     <1>17, <1>18, <1>19, <1>20, <1>21, <1>22, <1>23, <1>24 DEF Next, Goes

\* What is there in each stage of a run.
LEMMA StagesStep == Types /\ Stages /\ [Next]_vars => Stages'
<1> SUFFICES ASSUME Types, Stages, [Next]_vars PROVE Stages'
  OBVIOUS
<1> USE DEF Elsewhere, Failure, At
<1>0. /\ here \in Worlds /\ run \in RunRecords /\ NoWorld \in Worlds
      /\ world \in [Tasks -> Worlds] /\ "prove" \in Tasks /\ "redteam" \in Tasks
  BY DEF Types, here, RunRecords, Worlds, NoWorld, Tasks
<1>s. /\ \A t \in Tasks : /\ world[t].healing \subseteq world[t].present
                          /\ world[t].present # {} => world[t].up
                          /\ world[t].injected # {} => world[t].live
      /\ run.pc \notin {"idle", "up", "down", "append"} => here.up
      /\ run.pc \notin {"idle", "up", "healthy", "down", "append"} => here.live
      /\ run.pc \in Single \union Whole \union {"inject"} => run.task = "prove"
      /\ run.pc \in Attempt => run.task = "redteam"
      /\ run.pc \notin {"idle", "down", "append"} => run.verdict = "none" /\ ~run.failed /\ ~run.won
      /\ run.pc = "append" => run.verdict # "none"
      /\ \A e \in ledger : e.verdict # "none"
      /\ run.won => run.task = "prove"
  BY DEF Stages
<1> USE DEF Labels, Single, Whole, Attempt
\* A step that goes on in the same environment.
<1>g. ASSUME UNCHANGED <<world, ledger>>, run'.task = run.task,
             run'.pc \in Labels, run'.pc \notin {"idle", "up", "append"},
             run'.pc # "down" => /\ run.pc \notin {"idle", "up", "down", "append"}
                                 /\ run'.pc # "healthy" => run.pc # "healthy"
                                 /\ run'.verdict = "none" /\ ~run'.failed /\ ~run'.won,
             run'.pc \in Single \union Whole \union {"inject"} => run.task = "prove",
             run'.pc \in Attempt => run.task = "redteam",
             run'.won => run.task = "prove"
      PROVE  Stages'
  BY <1>s, <1>g DEF Stages, here
\* A step that changes the environment, and what its state records not for the worse.
<1>h. ASSUME NEW w \in Worlds, Becomes(w), UNCHANGED ledger, run'.task = run.task,
             w.healing \subseteq w.present, w.up, w.injected # {} => w.live,
             run'.pc \in Labels, run'.pc \notin {"idle", "up", "append"},
             run'.pc \notin {"down", "healthy"} => w.live,
             run'.pc # "down" => run'.verdict = "none" /\ ~run'.failed /\ ~run'.won,
             run'.pc \in Single \union Whole \union {"inject"} => run.task = "prove",
             run'.pc \in Attempt => run.task = "redteam",
             run'.won => run.task = "prove"
      PROVE  Stages'
  <2>1. /\ world'[run.task] = w /\ \A t \in Tasks : t # run.task => world'[t] = world[t]
    BY <1>h, Replaced
  <2> QED
    BY <1>s, <1>h, <2>1 DEF Stages, here
<1>1. ASSUME NEW task \in Tasks, Begin(task) PROVE Stages'
  BY <1>s, <1>1 DEF Begin, Stages, Idle
<1>2. ASSUME NEW t \in Tasks, Heals(t) PROVE Stages'
  <2>1. /\ UNCHANGED <<run, ledger>> /\ \A u \in Tasks :
            /\ world'[u].up = world[u].up /\ world'[u].live = world[u].live
            /\ world'[u].injected = world[u].injected
            /\ world'[u].present \subseteq world[u].present
            /\ world'[u].healing \subseteq world'[u].present
    <3>1. PICK f \in world[t].healing :
            world' = [world EXCEPT ![t].present = @ \ {f}, ![t].healing = @ \ {f}]
      BY <1>2 DEF Heals
    <3>2. world'[t] = [world[t] EXCEPT !.present = @ \ {f}, !.healing = @ \ {f}]
          /\ \A u \in Tasks : u # t => world'[u] = world[u]
      BY <1>0, <3>1
    <3>3. world[t] \in Worlds
      BY <1>0
    <3>4. /\ world'[t].up = world[t].up /\ world'[t].live = world[t].live
          /\ world'[t].injected = world[t].injected
          /\ world'[t].present = world[t].present \ {f}
          /\ world'[t].healing = world[t].healing \ {f}
      BY <3>2, <3>3 DEF Worlds
    <3> QED
      BY <1>2, <1>s, <3>2, <3>4 DEF Heals
  <2>2. here'.up = here.up /\ here'.live = here.live
    BY <1>0, <2>1 DEF here, RunRecords
  <2> QED
    BY <1>s, <2>1, <2>2 DEF Stages
<1>3. CASE UpProvision
  <2>1. PICK kept \in SUBSET here.present :
            Becomes([here EXCEPT !.up = TRUE, !.present = kept, !.healing = @ \intersect kept])
    BY <1>3 DEF UpProvision
  <2> DEFINE w == [here EXCEPT !.up = TRUE, !.present = kept, !.healing = @ \intersect kept]
  <2>2. /\ w \in Worlds /\ w.up /\ w.healing \subseteq w.present /\ w.injected = here.injected
        /\ w.live = here.live
    BY <1>0 DEF Worlds
  <2>3. here.injected # {} => here.live
    BY <1>0, <1>s DEF here, RunRecords
  <2>4. /\ run'.pc = "healthy" /\ run'.task = run.task /\ run'.verdict = run.verdict
        /\ run'.failed = run.failed /\ run'.won = run.won /\ run.pc = "up" /\ UNCHANGED ledger
    BY <1>0, <1>3 DEF UpProvision, RunRecords
  <2> HIDE DEF w
  <2> QED
    BY <1>h, <1>s, <2>1, <2>2, <2>3, <2>4 DEF w
<1>4. CASE UpHealthy
  <2> DEFINE w == [here EXCEPT !.live = TRUE, !.injected = IF here.live THEN @ ELSE {}]
  <2>1. w \in Worlds /\ w.up = here.up /\ w.healing = here.healing /\ w.present = here.present /\ w.live
    BY <1>0 DEF Worlds
  <2>2. here.healing \subseteq here.present /\ here.up
    BY <1>0, <1>s, <1>4 DEF here, RunRecords, UpHealthy
  <2>3. /\ run'.task = run.task /\ run'.verdict = run.verdict /\ UNCHANGED ledger
        /\ run'.failed = run.failed /\ run'.won = run.won /\ run.pc = "healthy"
        /\ run'.pc = IF run.task = "prove" THEN "inject" ELSE "break"
    BY <1>0, <1>4 DEF UpHealthy, RunRecords
  <2>4. Becomes(w)
    BY <1>4 DEF UpHealthy
  <2> HIDE DEF w
  <2> QED
    BY <1>h, <1>s, <2>1, <2>2, <2>3, <2>4
<1>5. CASE WaitRunsOut \/ ProveNotBroken \/ ProveStillBroken
  <2>1. /\ run'.task = run.task /\ run'.pc = "down" /\ run'.won = run.won
        /\ run.pc \notin {"idle", "down", "append"} /\ UNCHANGED <<world, ledger>>
    BY <1>0, <1>5 DEF WaitRunsOut, ProveNotBroken, ProveStillBroken, GiveUp, Goto, RunRecords
  <2> QED
    BY <1>g, <1>s, <2>1
<1>6. CASE BreakOne
  <2> DEFINE f == Min(run.todo)
  <2>1. f \in Pack
    BY <1>0, <1>6, MinIsOneOf DEF BreakOne, RunRecords
  <2>2. PICK w \in Injected(f) :
            Becomes(IF scripts.inject[f] # "fails" THEN [w EXCEPT !.injected = @ \union {f}] ELSE w)
    BY <1>6 DEF BreakOne
  <2> DEFINE v == IF scripts.inject[f] # "fails" THEN [w EXCEPT !.injected = @ \union {f}] ELSE w
  <2>3. /\ w \in Worlds /\ w.up = here.up /\ w.live = here.live /\ w.injected = here.injected
        /\ here.healing \subseteq here.present => w.healing \subseteq w.present
    BY <2>1, <2>2, InjectedIs
  <2>4. v \in Worlds /\ v.up = w.up /\ v.live = w.live /\ v.healing = w.healing /\ v.present = w.present
    BY <2>1, <2>3 DEF Worlds
  <2>5. here.healing \subseteq here.present /\ here.up /\ here.live
    BY <1>0, <1>s, <1>6 DEF here, RunRecords, BreakOne
  <2>6. /\ run'.task = run.task /\ run'.verdict = run.verdict /\ UNCHANGED ledger
        /\ run'.failed = run.failed /\ run'.won = run.won /\ run.pc = "break"
        /\ run'.pc \in {"break", "down"}
    BY <1>0, <1>6 DEF BreakOne, RunRecords
  <2>7. Becomes(v)
    BY <2>2
  <2> HIDE DEF v
  <2> QED
    BY <1>h, <1>s, <2>3, <2>4, <2>5, <2>6, <2>7
<1>7. CASE BreakDone \/ ProveBroken \/ ProveFixed \/ ProveWholePack \/ ProveDetects \/ AgentEnds
           \/ Status
  <2>1. /\ run'.task = run.task /\ run'.won = run.won /\ run'.verdict = run.verdict
        /\ run'.failed = run.failed /\ UNCHANGED <<world, ledger>>
        /\ run.pc \notin {"idle", "up", "healthy", "down", "append"}
    BY <1>0, <1>7 DEF BreakDone, ProveBroken, ProveFixed, ProveWholePack, ProveDetects, AgentEnds,
       Status, Goto, RunRecords
  <2>2. /\ run'.pc \in Labels \ {"idle", "up", "healthy", "append"}
        /\ run'.pc \in Single \union Whole \union {"inject"} => run.task = "prove"
        /\ run'.pc \in Attempt => run.task = "redteam"
    <3>1. run \in RunRecords /\ run.task \in {"prove", "redteam"}
      BY <1>0 DEF RunRecords, Tasks
    <3>2. CASE BreakDone
      BY <3>1, <3>2 DEF BreakDone, Goto, RunRecords
    <3>3. CASE ProveBroken \/ ProveFixed \/ ProveWholePack \/ ProveDetects
      <4>1. run.task = "prove"
        BY <1>s, <3>3 DEF ProveBroken, ProveFixed, ProveWholePack, ProveDetects
      <4>2. run'.pc \in {"fix", "inject", "break", "down", "fix all"}
        BY <3>1, <3>3 DEF ProveBroken, ProveFixed, ProveWholePack, ProveDetects, Goto, RunRecords
      <4> QED
        BY <4>1, <4>2
    <3>4. CASE AgentEnds \/ Status
      <4>1. run.task = "redteam"
        BY <1>s, <3>4 DEF AgentEnds, Status
      <4>2. run'.pc \in {"status", "judge"}
        BY <3>1, <3>4 DEF AgentEnds, Status, Goto, RunRecords
      <4> QED
        BY <4>1, <4>2
    <3> QED
      BY <1>7, <3>2, <3>3, <3>4
  <2> QED
    BY <1>g, <1>s, <2>1, <2>2
<1>8. CASE ProveInject
  <2> DEFINE f == Min(run.todo)
  <2>1. f \in Pack
    BY <1>0, <1>8, MinIsOneOf DEF ProveInject, RunRecords
  <2>2. PICK w \in Injected(f) : Becomes(w)
    BY <1>8 DEF ProveInject
  <2>3. /\ w \in Worlds /\ w.up = here.up /\ w.live = here.live /\ w.injected = here.injected
        /\ here.healing \subseteq here.present => w.healing \subseteq w.present
    BY <2>1, <2>2, InjectedIs
  <2>5. here.healing \subseteq here.present /\ here.up /\ here.live
    BY <1>0, <1>s, <1>8 DEF here, RunRecords, ProveInject
  <2>6. /\ run'.task = run.task /\ run'.verdict = run.verdict /\ UNCHANGED ledger
        /\ run'.failed = run.failed /\ run'.won = run.won /\ run.pc = "inject"
        /\ run'.pc \in {"broken?", "down"}
    BY <1>0, <1>8 DEF ProveInject, Goto, RunRecords
  <2> QED
    BY <1>h, <1>s, <2>2, <2>3, <2>5, <2>6
<1>9. CASE ProveFix \/ ProveFixAll
  <2>1. PICK faults, alone : Becomes(Fixed(faults, alone))
    BY <1>9 DEF ProveFix, ProveFixAll
  <2>2. /\ Fixed(faults, alone) \in Worlds
        /\ Fixed(faults, alone).up = here.up /\ Fixed(faults, alone).live = here.live
        /\ Fixed(faults, alone).present = here.present
        /\ here.healing \subseteq here.present => Fixed(faults, alone).healing \subseteq here.present
    BY <1>0 DEF Fixed, Worlds
  <2>3. here.healing \subseteq here.present /\ here.up /\ here.live
    BY <1>0, <1>s, <1>9 DEF here, RunRecords, ProveFix, ProveFixAll
  <2>4. /\ run'.task = run.task /\ run'.verdict = run.verdict /\ UNCHANGED ledger
        /\ run'.failed = run.failed /\ run'.won = run.won /\ run.pc \in {"fix", "fix all"}
        /\ run'.pc \in {"fixed?", "recovers", "down"}
    BY <1>0, <1>9 DEF ProveFix, ProveFixAll, Goto, RunRecords
  <2> QED
    BY <1>h, <1>s, <2>1, <2>2, <2>3, <2>4
<1>10. CASE ProveRecovers \/ AgentFails \/ Scored
  <2>1. /\ run'.task = run.task /\ run'.pc = "down" /\ UNCHANGED <<world, ledger>>
        /\ run'.won => run.won \/ run.pc = "recovers"
        /\ run.pc \notin {"idle", "down", "append"}
    BY <1>0, <1>10 DEF ProveRecovers, AgentFails, Scored, RunRecords
  <2> QED
    BY <1>g, <1>s, <2>1
<1>11. CASE Agent
  <2>1. PICK p \in SUBSET Pack : Becomes([here EXCEPT !.present = p, !.healing = @ \intersect p])
    BY <1>11 DEF Agent
  <2> DEFINE w == [here EXCEPT !.present = p, !.healing = @ \intersect p]
  <2>2. /\ w \in Worlds /\ w.up = here.up /\ w.live = here.live /\ w.healing \subseteq w.present
    BY <1>0 DEF Worlds
  <2>3. here.up /\ here.live
    BY <1>s, <1>11 DEF Agent
  <2>4. UNCHANGED <<run, ledger>> /\ run.pc = "agent"
    BY <1>11 DEF Agent
  <2> HIDE DEF w
  <2> QED
    BY <1>h, <1>s, <2>1, <2>2, <2>3, <2>4 DEF w
\* The environment goes, or stays with its state.
<1>d. ASSUME NEW w \in Worlds, Becomes(w), w.healing \subseteq w.present, w.present # {} => w.up,
             w.injected # {} => w.live, UNCHANGED ledger, Goto(Next1)
      PROVE  Stages'
  <2>1. /\ world'[run.task] = w /\ \A t \in Tasks : t # run.task => world'[t] = world[t]
    BY <1>d, Replaced
  <2>2. /\ run'.pc \in {"idle", "append"}
        /\ run'.pc = "append" => run'.verdict # "none"
        /\ run'.won = run.won /\ run'.task = run.task
    BY <1>0, <1>d DEF Goto, Next1, RunRecords
  <2> QED
    BY <1>s, <1>d, <2>1, <2>2 DEF Stages
<1>12. CASE Down
  BY <1>0, <1>12, <1>d DEF Down, NoWorld
<1>13. CASE Append
  <2>1. /\ UNCHANGED world /\ run'.pc = "idle" /\ run'.won = run.won /\ run'.task = run.task
        /\ \A e \in ledger' : e \in ledger \/ e.verdict = run.verdict
    <3>1. UNCHANGED world /\ run' = [run EXCEPT !.pc = "idle"]
      BY <1>13 DEF Append, Goto
    <3>2. \A e \in ledger' : e \in ledger \/ e.verdict = run.verdict
      BY <1>13 DEF Append
    <3> QED
      BY <1>0, <3>1, <3>2 DEF RunRecords
  <2>2. run.pc = "append"
    BY <1>13 DEF Append
  <2> QED
    BY <1>s, <2>1, <2>2 DEF Stages
<1>14. CASE Disturbed
  <2>1. /\ run'.task = run.task /\ UNCHANGED <<world, ledger>> /\ run'.won = run.won
        /\ <<run.pc, run'.pc>> \in {<<"broken?", "fix">>, <<"detects", "fix all">>,
                                   <<"status", "judge">>, <<"judge", "down">>}
        /\ run'.pc # "down" => run'.verdict = run.verdict
        /\ run'.failed = run.failed
    <3> DEFINE d == [run EXCEPT !.disturbed = TRUE]
    <3>0. d \in RunRecords /\ d.task = run.task /\ d.won = run.won /\ d.verdict = run.verdict
          /\ d.failed = run.failed
      BY <1>0 DEF RunRecords
    <3>1. /\ UNCHANGED <<world, ledger>>
          /\ \/ run.pc = "broken?" /\ run' = [d EXCEPT !.pc = "fix"]
             \/ run.pc = "detects" /\ run' = [d EXCEPT !.pc = "fix all"]
             \/ run.pc = "status" /\ \E n \in 0..FixedNow :
                   run' = [d EXCEPT !.pc = "judge", !.left = here.present, !.seen = n]
             \/ run.pc = "judge" /\
                   run' = [d EXCEPT !.pc = "down", !.down = AppDown,
                      !.verdict = Judgement(Cardinality(here.injected), run.seen, FALSE)]
      BY <1>14 DEF Disturbed
    <3> HIDE DEF d
    <3> QED
      BY <3>0, <3>1 DEF RunRecords
  <2> QED
    BY <1>g, <1>s, <2>1
<1>15. CASE Fails
  <2>1. /\ run'.task = run.task /\ run'.pc = "down" /\ UNCHANGED <<world, ledger>>
        /\ run'.won = run.won
    BY <1>0, <1>15 DEF Fails, Goto, RunRecords
  <2> QED
    BY <1>g, <1>s, <2>1
<1>16. CASE NotAppended \/ Killed
  <2>1. /\ UNCHANGED <<world, ledger>> /\ run'.pc = "idle"
        /\ run'.won => run.won /\ run'.task = run.task
    <3>1. CASE NotAppended
      BY <1>0, <3>1 DEF NotAppended, Goto, RunRecords
    <3>2. CASE Killed
      BY <3>2 DEF Killed, Idle
    <3> QED
      BY <1>16, <3>1, <3>2
  <2> QED
    BY <1>s, <2>1 DEF Stages
<1>17. CASE LeftBehind
  <2>1. PICK gone \in {NoWorld, here} :
            Becomes([gone EXCEPT !.live = here.live, !.injected = here.injected])
    BY <1>17 DEF LeftBehind
  <2> DEFINE w == [gone EXCEPT !.live = here.live, !.injected = here.injected]
  <2>2. /\ w \in Worlds /\ w.healing = gone.healing /\ w.present = gone.present /\ w.up = gone.up
        /\ w.injected = here.injected /\ w.live = here.live
    BY <1>0 DEF Worlds
  <2>3. /\ here.healing \subseteq here.present
        /\ here.present # {} => here.up
        /\ here.injected # {} => here.live
    BY <1>0, <1>s DEF here, RunRecords
  <2>4. /\ gone.healing \subseteq gone.present
        /\ gone.present # {} => gone.up
    BY <2>3 DEF NoWorld
  <2> HIDE DEF w
  <2> QED
    BY <1>17, <1>d, <2>1, <2>2, <2>3, <2>4 DEF LeftBehind, w
<1>18. CASE UNCHANGED vars
  BY <1>s, <1>18 DEF vars, Stages, here
<1> QED
  BY <1>1, <1>2, <1>3, <1>4, <1>5, <1>6, <1>7, <1>8, <1>9, <1>10, <1>11, <1>12, <1>13, <1>14,
     <1>15, <1>16, <1>17, <1>18 DEF Next, Goes

\* A fault is in the environment of `prove` from an inject and heals from a fix.
LEMMA EffectsStep ==
    Types /\ Stages /\ EffectsHaveCauses /\ [Next]_vars => EffectsHaveCauses'
<1> SUFFICES ASSUME Types, Stages, EffectsHaveCauses, [Next]_vars PROVE EffectsHaveCauses'
  OBVIOUS
<1> USE DEF Elsewhere, Failure, At, EffectsHaveCauses
<1>0. /\ here \in Worlds /\ run \in RunRecords /\ NoWorld \in Worlds /\ "prove" \in Tasks
      /\ world \in [Tasks -> Worlds]
  BY DEF Types, here, RunRecords, Worlds, NoWorld, Tasks
<1>g. ASSUME UNCHANGED <<world, scripts>> PROVE EffectsHaveCauses'
  BY <1>g
<1>h. ASSUME NEW w \in Worlds, Becomes(w), UNCHANGED scripts,
             run.task = "prove" =>
                /\ \A f \in w.present : f \in here.present \/ scripts.inject[f] # "nothing"
                /\ \A f \in w.healing : f \in here.healing \/ scripts.fix[f] \in {"works", "alone"}
      PROVE  EffectsHaveCauses'
  <2>1. /\ world'[run.task] = w
        /\ \A t \in Tasks : t # run.task => world'[t] = world[t]
    BY <1>h, Replaced
  <2> QED
    BY <1>0, <1>h, <2>1 DEF here
<1>1. ASSUME NEW t \in Tasks, Heals(t) PROVE EffectsHaveCauses'
  <2>1. PICK f \in world[t].healing :
            world' = [world EXCEPT ![t].present = @ \ {f}, ![t].healing = @ \ {f}]
    BY <1>1 DEF Heals
  <2>2. world'[t] = [world[t] EXCEPT !.present = @ \ {f}, !.healing = @ \ {f}]
        /\ \A u \in Tasks : u # t => world'[u] = world[u]
    BY <1>0, <2>1
  <2>3. /\ world'[t].present = world[t].present \ {f}
        /\ world'[t].healing = world[t].healing \ {f}
    BY <1>0, <2>2 DEF Worlds
  <2> QED
    BY <1>0, <1>1, <2>2, <2>3 DEF Heals
<1>2. CASE UpProvision
  <2>1. PICK kept \in SUBSET here.present :
            Becomes([here EXCEPT !.up = TRUE, !.present = kept, !.healing = @ \intersect kept])
    BY <1>2 DEF UpProvision
  <2> DEFINE w == [here EXCEPT !.up = TRUE, !.present = kept, !.healing = @ \intersect kept]
  <2>2. w \in Worlds /\ w.present \subseteq here.present /\ w.healing \subseteq here.healing
    BY <1>0 DEF Worlds
  <2> HIDE DEF w
  <2> QED
    BY <1>2, <1>h, <2>1, <2>2 DEF UpProvision, w
<1>3. CASE UpHealthy
  <2> DEFINE w == [here EXCEPT !.live = TRUE, !.injected = IF here.live THEN @ ELSE {}]
  <2>1. w \in Worlds /\ w.healing = here.healing /\ w.present = here.present
    BY <1>0 DEF Worlds
  <2>2. Becomes(w)
    BY <1>3 DEF UpHealthy
  <2> HIDE DEF w
  <2> QED
    BY <1>3, <1>h, <2>1, <2>2 DEF UpHealthy
<1>4. CASE BreakOne
  <2> DEFINE f == Min(run.todo)
  <2>1. f \in Pack
    BY <1>0, <1>4, MinIsOneOf DEF BreakOne, RunRecords
  <2>2. PICK w \in Injected(f) :
            Becomes(IF scripts.inject[f] # "fails" THEN [w EXCEPT !.injected = @ \union {f}] ELSE w)
    BY <1>4 DEF BreakOne
  <2> DEFINE v == IF scripts.inject[f] # "fails" THEN [w EXCEPT !.injected = @ \union {f}] ELSE w
  <2>3. /\ w \in Worlds
        /\ w.present = here.present \/ (scripts.inject[f] # "nothing" /\ w.present = here.present \union {f})
        /\ w.healing \subseteq here.healing
    BY <2>1, <2>2, InjectedIs
  <2>4. v \in Worlds /\ v.healing = w.healing /\ v.present = w.present
    BY <2>1, <2>3 DEF Worlds
  <2>5. Becomes(v) /\ UNCHANGED scripts
    BY <1>4, <2>2 DEF BreakOne
  <2> HIDE DEF v, f
  <2> QED
    BY <1>h, <2>3, <2>4, <2>5
<1>5. CASE ProveInject
  <2> DEFINE f == Min(run.todo)
  <2>1. f \in Pack
    BY <1>0, <1>5, MinIsOneOf DEF ProveInject, RunRecords
  <2>2. PICK w \in Injected(f) : Becomes(w)
    BY <1>5 DEF ProveInject
  <2>3. /\ w \in Worlds
        /\ w.present = here.present \/ (scripts.inject[f] # "nothing" /\ w.present = here.present \union {f})
        /\ w.healing \subseteq here.healing
    BY <2>1, <2>2, InjectedIs
  <2>4. UNCHANGED scripts
    BY <1>5 DEF ProveInject
  <2> HIDE DEF f
  <2> QED
    BY <1>h, <2>2, <2>3, <2>4
<1>6. CASE ProveFix \/ ProveFixAll
  <2>1. PICK faults, alone : Becomes(Fixed(faults, alone))
    BY <1>6 DEF ProveFix, ProveFixAll
  <2>2. /\ Fixed(faults, alone) \in Worlds
        /\ Fixed(faults, alone).present = here.present
        /\ \A f \in Fixed(faults, alone).healing :
              f \in here.healing \/ scripts.fix[f] \in {"works", "alone"}
    BY <1>0 DEF Fixed, Worlds
  <2>3. UNCHANGED scripts
    BY <1>6 DEF ProveFix, ProveFixAll
  <2> QED
    BY <1>h, <2>1, <2>2, <2>3
<1>7. CASE Agent
  <2>1. PICK p \in SUBSET Pack : Becomes([here EXCEPT !.present = p, !.healing = @ \intersect p])
    BY <1>7 DEF Agent
  <2>2. [here EXCEPT !.present = p, !.healing = @ \intersect p] \in Worlds
    BY <1>0 DEF Worlds
  <2>3. run.task # "prove" /\ UNCHANGED scripts
    BY <1>7 DEF Agent, Stages, Attempt
  <2> QED
    BY <1>h, <2>1, <2>2, <2>3
<1>8. CASE Down
  <2>1. Becomes(NoWorld) /\ UNCHANGED scripts /\ NoWorld.present = {} /\ NoWorld.healing = {}
    BY <1>8 DEF Down, NoWorld
  <2> QED
    BY <1>0, <1>h, <2>1
<1>9. CASE LeftBehind
  <2>1. PICK gone \in {NoWorld, here} :
            Becomes([gone EXCEPT !.live = here.live, !.injected = here.injected])
    BY <1>9 DEF LeftBehind
  <2> DEFINE w == [gone EXCEPT !.live = here.live, !.injected = here.injected]
  <2>2. w \in Worlds /\ w.healing = gone.healing /\ w.present = gone.present
    BY <1>0 DEF Worlds
  <2>3. gone.present \subseteq here.present /\ gone.healing \subseteq here.healing
    BY DEF NoWorld
  <2>4. Becomes(w) /\ UNCHANGED scripts
    BY <1>9, <2>1 DEF LeftBehind
  <2> HIDE DEF w
  <2> QED
    BY <1>h, <2>2, <2>3, <2>4
<1>10. CASE UNCHANGED <<world, scripts>>
  BY <1>10
<1> QED
  BY <1>1, <1>2, <1>3, <1>4, <1>5, <1>6, <1>7, <1>8, <1>9, <1>10
     DEF Next, Goes, Begin, WaitRunsOut, BreakDone, ProveBroken, ProveNotBroken, ProveFixed,
         ProveStillBroken, ProveWholePack, ProveDetects, ProveRecovers, AgentEnds, AgentFails,
         Status, Scored, Append, Disturbed, Fails, NotAppended, Killed, GiveUp, vars

\* The state names what was injected, and a fault is at hand while one is proved.
LEMMA RecordedStep == Types /\ Stages /\ PackRecorded /\ [Next]_vars => PackRecorded'
<1> SUFFICES ASSUME Types, Stages, PackRecorded, [Next]_vars PROVE PackRecorded'
  OBVIOUS
<1> USE DEF Elsewhere, Failure, At, PackRecorded, Single, Whole, Attempt
<1>0. /\ here \in Worlds /\ run \in RunRecords /\ NoWorld \in Worlds /\ "prove" \in Tasks
      /\ world \in [Tasks -> Worlds]
  BY DEF Types, here, RunRecords, Worlds, NoWorld, Tasks
<1>g. ASSUME run'.task = run.task, run'.todo = run.todo, world'[run.task].injected = here.injected,
             run'.pc \in Whole \union Attempt => run.pc \in Whole \union Attempt,
             run'.pc \in Single => run.pc \in Single,
             run'.pc = "break" => run.pc = "break"
      PROVE  PackRecorded'
  BY <1>g DEF here
<1>n. ASSUME run'.pc \notin Whole \union Attempt \union Single \union {"break"} PROVE PackRecorded'
  BY <1>n
<1>1. ASSUME NEW task \in Tasks, Begin(task) PROVE PackRecorded'
  BY <1>1, <1>n DEF Begin, Idle
<1>2. ASSUME NEW t \in Tasks, Heals(t) PROVE PackRecorded'
  <2>1. PICK f \in world[t].healing :
            world' = [world EXCEPT ![t].present = @ \ {f}, ![t].healing = @ \ {f}]
    BY <1>2 DEF Heals
  <2>2. world'[t] = [world[t] EXCEPT !.present = @ \ {f}, !.healing = @ \ {f}]
        /\ \A u \in Tasks : u # t => world'[u] = world[u]
    BY <1>0, <2>1
  <2>3. world'[t].injected = world[t].injected
    BY <1>0, <2>2 DEF Worlds
  <2>4. world'[run.task].injected = here.injected /\ UNCHANGED run
    BY <1>0, <1>2, <2>2, <2>3 DEF Heals, here, RunRecords
  <2> QED
    BY <1>g, <2>4
<1>3. CASE UpProvision
  BY <1>0, <1>3, <1>n DEF UpProvision, RunRecords
<1>4. CASE UpHealthy
  <2>1. run'.todo = Pack /\ run'.pc \in {"inject", "break"}
    BY <1>0, <1>4 DEF UpHealthy, RunRecords
  <2> QED
    BY <2>1
<1>5. CASE BreakOne
  <2> DEFINE f == Min(run.todo)
  <2>1. f \in Pack
    BY <1>0, <1>5, MinIsOneOf DEF BreakOne, RunRecords
  <2>2. PICK w \in Injected(f) :
            Becomes(IF scripts.inject[f] # "fails" THEN [w EXCEPT !.injected = @ \union {f}] ELSE w)
    BY <1>5 DEF BreakOne
  <2> DEFINE v == [w EXCEPT !.injected = @ \union {f}]
  <2>3. w \in Worlds /\ w.injected = here.injected
    BY <2>1, <2>2, InjectedIs
  <2>4. v \in Worlds /\ v.injected = here.injected \union {f}
    BY <2>1, <2>3 DEF Worlds
  <2>5. /\ run'.task = run.task /\ run'.todo = run.todo \ {f} /\ run.pc = "break"
        /\ run'.pc = IF scripts.inject[f] # "fails" THEN "break" ELSE "down"
    BY <1>0, <1>5 DEF BreakOne, RunRecords
  <2>6. CASE scripts.inject[f] # "fails"
    <3>1. Becomes(v)
      BY <2>2, <2>6
    <3>2. world'[run.task] = v
      BY <2>4, <3>1, Replaced
    <3> HIDE DEF v
    <3> QED
      BY <2>4, <2>5, <2>6, <3>2 DEF here
  <2>7. CASE scripts.inject[f] = "fails"
    BY <1>n, <2>5, <2>7
  <2> QED
    BY <2>6, <2>7
<1>6. CASE BreakDone
  <2>1. /\ run'.task = run.task /\ UNCHANGED world /\ run.todo = {} /\ run.pc = "break"
        /\ run'.pc \in {"detects", "agent"}
    BY <1>0, <1>6 DEF BreakDone, Goto, RunRecords
  <2>2. here.injected \subseteq Pack
    BY <1>0 DEF Worlds
  <2> QED
    BY <2>1, <2>2 DEF here
<1>7. CASE ProveInject
  <2>1. run'.todo = run.todo /\ run.todo # {} /\ run'.pc \in {"broken?", "down"}
    BY <1>0, <1>7 DEF ProveInject, Goto, RunRecords
  <2> QED
    BY <2>1
<1>8. CASE ProveBroken \/ ProveDetects \/ AgentEnds \/ Status
  <2>1. run'.task = run.task /\ run'.todo = run.todo /\ UNCHANGED world
    BY <1>0, <1>8 DEF ProveBroken, ProveDetects, AgentEnds, Status, Goto, RunRecords
  <2>2. <<run.pc, run'.pc>> \in {<<"broken?", "fix">>, <<"detects", "fix all">>, <<"detects", "down">>,
                               <<"agent", "status">>, <<"status", "judge">>}
    BY <1>0, <1>8 DEF ProveBroken, ProveDetects, AgentEnds, Status, Goto, RunRecords
  <2> QED
    BY <1>g, <2>1, <2>2 DEF here
<1>9. CASE ProveFix \/ ProveFixAll
  <2>1. PICK faults, alone : Becomes(Fixed(faults, alone))
    BY <1>9 DEF ProveFix, ProveFixAll
  <2>2. Fixed(faults, alone) \in Worlds /\ Fixed(faults, alone).injected = here.injected
    BY <1>0 DEF Fixed, Worlds
  <2>3. world'[run.task].injected = here.injected
    BY <2>1, <2>2, Replaced
  <2>4. /\ run'.task = run.task /\ run'.todo = run.todo
        /\ <<run.pc, run'.pc>> \in {<<"fix", "fixed?">>, <<"fix", "down">>,
                                 <<"fix all", "recovers">>, <<"fix all", "down">>}
    BY <1>0, <1>9 DEF ProveFix, ProveFixAll, Goto, RunRecords
  <2> QED
    BY <1>g, <2>3, <2>4
<1>10. CASE ProveWholePack
  <2>1. run'.todo = Pack /\ run'.pc = "break"
    BY <1>0, <1>10 DEF ProveWholePack, RunRecords
  <2> QED
    BY <2>1
<1>11. CASE ProveFixed \/ ProveNotBroken \/ ProveStillBroken \/ WaitRunsOut \/ ProveRecovers
            \/ AgentFails \/ Scored \/ Append \/ Fails \/ NotAppended
  <2>1. run'.pc \in {"inject", "down", "idle"}
    BY <1>0, <1>11 DEF ProveFixed, ProveNotBroken, ProveStillBroken, WaitRunsOut, ProveRecovers,
       AgentFails, Scored, Append, Fails, NotAppended, GiveUp, Goto, RunRecords
  <2> QED
    BY <1>n, <2>1
<1>12. CASE Down \/ LeftBehind \/ Killed
  <2>1. Next1 \in {"idle", "append"}
    BY DEF Next1
  <2>2. CASE Down \/ LeftBehind
    <3>1. Goto(Next1)
      BY <2>2 DEF Down, LeftBehind
    <3> QED
      BY <1>0, <1>n, <2>1, <3>1 DEF Goto, RunRecords
  <2>3. CASE Killed
    BY <1>n, <2>3 DEF Killed, Idle
  <2> QED
    BY <1>12, <2>2, <2>3
<1>13. CASE Agent
  <2>1. PICK p \in SUBSET Pack : Becomes([here EXCEPT !.present = p, !.healing = @ \intersect p])
    BY <1>13 DEF Agent
  <2> DEFINE w == [here EXCEPT !.present = p, !.healing = @ \intersect p]
  <2>2. w \in Worlds /\ w.injected = here.injected
    BY <1>0 DEF Worlds
  <2>3. world'[run.task] = w /\ UNCHANGED run
    BY <1>13, <2>1, <2>2, Replaced DEF Agent
  <2> HIDE DEF w
  <2> QED
    BY <1>g, <2>2, <2>3
<1>14. CASE Disturbed
  <2> DEFINE d == [run EXCEPT !.disturbed = TRUE]
  <2>0. d \in RunRecords /\ d.task = run.task /\ d.todo = run.todo
    BY <1>0 DEF RunRecords
  <2>1. /\ UNCHANGED world
        /\ \/ run.pc = "broken?" /\ run' = [d EXCEPT !.pc = "fix"]
           \/ run.pc = "detects" /\ run' = [d EXCEPT !.pc = "fix all"]
           \/ run.pc = "status" /\ \E n \in 0..FixedNow :
                 run' = [d EXCEPT !.pc = "judge", !.left = here.present, !.seen = n]
           \/ run.pc = "judge" /\
                 run' = [d EXCEPT !.pc = "down", !.down = AppDown,
                    !.verdict = Judgement(Cardinality(here.injected), run.seen, FALSE)]
    BY <1>14 DEF Disturbed
  <2> HIDE DEF d
  <2>2. /\ run'.task = run.task /\ run'.todo = run.todo
        /\ <<run.pc, run'.pc>> \in {<<"broken?", "fix">>, <<"detects", "fix all">>,
                                 <<"status", "judge">>, <<"judge", "down">>}
    BY <2>0, <2>1 DEF RunRecords
  <2> QED
    BY <1>g, <2>1, <2>2 DEF here
<1>15. CASE UNCHANGED vars
  BY <1>15 DEF vars, here
<1> QED
  BY <1>1, <1>2, <1>3, <1>4, <1>5, <1>6, <1>7, <1>8, <1>9, <1>10, <1>11, <1>12, <1>13, <1>14,
     <1>15 DEF Next, Goes

\* A run of `prove` has seen what it goes on from.
LEMMA SeenStep ==
    Types /\ Stages /\ EffectsHaveCauses /\ SeenSoFar /\ PackRecorded /\ [Next]_vars => SeenSoFar'
<1> SUFFICES ASSUME Types, Stages, EffectsHaveCauses, SeenSoFar, PackRecorded, [Next]_vars,
                    run'.task = "prove", ~run'.disturbed
             PROVE  Seen'
  BY DEF SeenSoFar
<1> USE DEF Elsewhere, Failure, At, Single, Whole, Attempt
<1>0. /\ here \in Worlds /\ run \in RunRecords /\ "prove" \in Tasks /\ scripts \in AllScripts
      /\ world \in [Tasks -> Worlds] /\ run.todo \in SUBSET Pack
  BY DEF Types, here, RunRecords, Worlds, Tasks
<1>m. run.todo # {} => Current \in run.todo /\ Current \in Pack
  BY <1>0, MinIsOneOf DEF Current
<1>h. ASSUME NEW w \in Worlds, Becomes(w), run'.task = run.task PROVE here' = w
  BY <1>h, Replaced DEF here
<1>e. ASSUME run'.pc \in {"idle", "up", "down", "append"}, (run.won => ProvedOn(run.found))'
      PROVE  Seen'
  BY <1>e DEF Seen, SeenUp, SeenDetected, SeenCurrent, SeenPack
<1>f. run.task = "prove" => world["prove"] = here
  BY DEF here
<1>p. ASSUME UNCHANGED scripts, run'.found = run.found
      PROVE  /\ ProvedOn(run.found)' <=> ProvedOn(run.found)
             /\ \A f \in Pack : Detected(f, run.found)' <=> Detected(f, run.found)
             /\ PackBreaks' <=> PackBreaks
  <2>1. ASSUME NEW f \in Pack PROVE Detected(f, run.found)' <=> Detected(f, run.found)
    BY <1>p DEF Detected
  <2>2. PackBreaks' <=> PackBreaks
    BY <1>p DEF PackBreaks
  <2>3. AloneSurvived' <=> AloneSurvived
    BY <1>p DEF AloneSurvived
  <2> QED
    BY <2>1, <2>2, <2>3 DEF ProvedOn
\* Where faults heal.
<1>q. ASSUME UNCHANGED <<scripts, run>>, run.task = "prove", ~run.disturbed,
             here.present \ here.healing \subseteq here'.present \ here'.healing,
             here'.present \subseteq here.present,
             \A f \in here.present \ here'.present : scripts.fix[f] \in {"works", "alone"}
      PROVE  Seen'
  <2>1. SeenUp /\ SeenDetected /\ SeenCurrent /\ SeenPack
    BY <1>q DEF SeenSoFar, Seen
  <2>2. ASSUME NEW f, Breaks(f) PROVE Breaks(f)'
    BY <1>q, <2>2 DEF Breaks
  <2>3. run' = run /\ scripts' = scripts /\ Current' = Current
    BY <1>q DEF Current
  <2>4. SeenUp'
    BY <1>q, <2>1, <2>3 DEF SeenUp
  <2>5. SeenDetected'
    BY <1>p, <2>1, <2>3 DEF SeenDetected
  <2>6. SeenCurrent'
    <3>1. run.pc \in {"broken?", "fix"} => Breaks(Current)'
      BY <2>1, <2>2, <2>3 DEF SeenCurrent
    <3> QED
      BY <1>q, <2>1, <2>3, <3>1 DEF SeenCurrent
  <2>7. SeenPack'
    BY <1>p, <2>1, <2>2, <2>3 DEF SeenPack
  <2> QED
    BY <2>4, <2>5, <2>6, <2>7 DEF Seen
<1>1. ASSUME NEW task \in Tasks, Begin(task) PROVE Seen'
  BY <1>1, <1>e DEF Begin, Idle
<1>2. CASE Killed
  BY <1>2, <1>e DEF Killed, Idle
<1>3. ASSUME NEW t \in Tasks, Heals(t) PROVE Seen'
  <2>1. PICK f \in world[t].healing :
            world' = [world EXCEPT ![t].present = @ \ {f}, ![t].healing = @ \ {f}]
    BY <1>3 DEF Heals
  <2>2. world'[t] = [world[t] EXCEPT !.present = @ \ {f}, !.healing = @ \ {f}]
        /\ \A u \in Tasks : u # t => world'[u] = world[u]
    BY <1>0, <2>1
  <2>3. UNCHANGED <<scripts, run>> /\ run.task = "prove" /\ ~run.disturbed
    BY <1>3 DEF Heals
  <2>4. CASE t = "prove"
    <3>1. /\ here'.present = here.present \ {f} /\ here'.healing = here.healing \ {f}
          /\ f \in here.healing
      BY <1>0, <1>f, <2>1, <2>2, <2>3, <2>4 DEF here, Worlds
    <3>2. scripts.fix[f] \in {"works", "alone"}
      BY <1>f, <2>3, <3>1 DEF EffectsHaveCauses
    <3> QED
      BY <1>q, <2>3, <3>1, <3>2
  <2>5. CASE t # "prove"
    <3>1. here' = here
      BY <1>0, <2>2, <2>3, <2>5 DEF here
    <3> QED
      BY <1>q, <2>3, <3>1
  <2> QED
    BY <2>4, <2>5
<1>4. CASE UNCHANGED vars
  <2>1. here' = here /\ UNCHANGED <<scripts, run>>
    BY <1>4 DEF vars, here
  <2> QED
    BY <1>q, <2>1
\* The steps that end a run, or change nothing of the environment.
<1>5. CASE Down \/ LeftBehind \/ Append \/ NotAppended
  <2>1. /\ run'.won = run.won /\ run'.found = run.found /\ run'.task = run.task
        /\ run'.disturbed = run.disturbed /\ UNCHANGED scripts
        /\ run'.pc \in {"idle", "append"}
    <3>1. Next1 \in {"idle", "append"}
      BY DEF Next1
    <3>2. CASE Down \/ LeftBehind
      BY <1>0, <3>1, <3>2 DEF Down, LeftBehind, Goto, RunRecords
    <3>3. CASE Append \/ NotAppended
      BY <1>0, <3>3 DEF Append, NotAppended, Goto, RunRecords
    <3> QED
      BY <1>5, <3>2, <3>3
  <2>2. run.won => ProvedOn(run.found)
    BY <2>1 DEF SeenSoFar, Seen, SeenPack
  <2> QED
    BY <1>e, <1>p, <2>1, <2>2
<1>6. CASE WaitRunsOut \/ ProveNotBroken \/ ProveStillBroken \/ Fails
  <2>1. run'.won = run.won /\ run'.pc = "down" /\ run.pc \notin {"idle", "down", "append"}
    BY <1>0, <1>6 DEF WaitRunsOut, ProveNotBroken, ProveStillBroken, Fails, GiveUp, Goto, RunRecords
  <2>2. ~run'.won
    BY <2>1 DEF Stages
  <2> QED
    BY <1>e, <2>1, <2>2
\* Those of the agent are no concern of `prove`, and disturbed checks count for nothing.
<1>7. CASE AgentEnds \/ AgentFails \/ Status \/ Scored \/ Agent
  <2>1. run'.task = run.task /\ run.pc \in Attempt
    BY <1>0, <1>7 DEF AgentEnds, AgentFails, Status, Scored, Agent, Goto, RunRecords
  <2> QED
    BY <2>1 DEF Stages
<1>8. CASE Disturbed
  <2>1. run'.disturbed
    BY <1>0, <1>8 DEF Disturbed, RunRecords
  <2> QED
    BY <2>1
\* The others go by what was seen so far.
<1>s. ASSUME run'.task = run.task, run'.disturbed = run.disturbed
      PROVE  SeenUp /\ SeenDetected /\ SeenCurrent /\ SeenPack
  BY <1>s DEF SeenSoFar, Seen
<1>9. CASE UpProvision
  <2>1. PICK kept \in SUBSET here.present :
            Becomes([here EXCEPT !.up = TRUE, !.present = kept, !.healing = @ \intersect kept])
    BY <1>9 DEF UpProvision
  <2> DEFINE w == [here EXCEPT !.up = TRUE, !.present = kept, !.healing = @ \intersect kept]
  <2>2. w \in Worlds /\ w.present = kept
    BY <1>0 DEF Worlds
  <2>3. /\ run'.pc = "healthy" /\ run'.found = here.up /\ run'.task = run.task
        /\ run'.won = run.won /\ run.pc = "up"
    BY <1>0, <1>9 DEF UpProvision, RunRecords
  <2>4. here' = w /\ ~run'.won
    BY <1>h, <2>1, <2>2, <2>3 DEF Stages
  <2>5. ~run'.found => here'.present = {}
    BY <2>2, <2>3, <2>4 DEF Stages, here, RunRecords, Types
  <2> HIDE DEF w
  <2> QED
    BY <2>3, <2>4, <2>5 DEF Seen, SeenUp, SeenDetected, SeenCurrent, SeenPack
<1>10. CASE UpHealthy
  <2> DEFINE w == [here EXCEPT !.live = TRUE, !.injected = IF here.live THEN @ ELSE {}]
  <2>1. w \in Worlds /\ w.present = here.present
    BY <1>0 DEF Worlds
  <2>2. /\ run.pc = "healthy" /\ run'.task = run.task /\ run'.todo = Pack /\ run'.won = run.won
        /\ run'.found = run.found /\ run'.disturbed = run.disturbed /\ UNCHANGED scripts
        /\ run'.pc = IF run.task = "prove" THEN "inject" ELSE "break"
    BY <1>0, <1>10 DEF UpHealthy, RunRecords
  <2>3. here' = w /\ ~run'.won /\ SeenUp
    BY <1>10, <1>h, <1>s, <2>1, <2>2 DEF UpHealthy, Stages
  <2>4. scripts.verify \in {"passes", "honest"}
    BY <1>0, <1>10 DEF UpHealthy, Verify, Says, AllScripts, Verifies
  <2> HIDE DEF w
  <2> QED
    BY <2>1, <2>2, <2>3, <2>4 DEF Seen, SeenUp, SeenDetected, SeenCurrent, SeenPack
<1>11. CASE ProveInject
  <2> DEFINE f == Current
  <2>1. PICK w \in Injected(f) : Becomes(w)
    BY <1>11 DEF ProveInject, Current
  <2>2. /\ f \in Pack /\ run.pc = "inject" /\ run'.task = run.task /\ run'.todo = run.todo
        /\ run'.found = run.found /\ run'.won = run.won /\ run'.disturbed = run.disturbed
        /\ UNCHANGED scripts /\ Current' = Current
        /\ run'.pc = IF scripts.inject[f] = "fails" THEN "down" ELSE "broken?"
    BY <1>0, <1>11, <1>m DEF ProveInject, Goto, RunRecords, Current
  <2>3. w \in Worlds /\ \/ w = here /\ scripts.inject[f] # "works"
                        \/ w.present = here.present \union {f} /\ w.healing = here.healing \ {f}
    BY <2>1, <2>2, InjectedIs
  <2>4. here' = w /\ ~run'.won /\ SeenUp /\ SeenDetected
    BY <1>h, <1>s, <2>1, <2>2, <2>3 DEF Stages
  <2>5. CASE run'.pc = "down"
    BY <1>e, <2>4, <2>5
  <2>6. CASE run'.pc = "broken?"
    <3>1. SeenUp'
      BY <2>2, <2>4, <2>6 DEF SeenUp
    <3>2. SeenDetected'
      BY <1>p, <2>2, <2>4, <2>6 DEF SeenDetected
    <3>3. Breaks(f)'
      BY <2>2, <2>3, <2>4 DEF Breaks
    <3>4. ~run.found => here'.present \subseteq {f}
      BY <2>2, <2>3, <2>4 DEF SeenUp
    <3>5. SeenCurrent'
      BY <2>2, <2>6, <3>3, <3>4 DEF SeenCurrent
    <3> QED
      BY <2>4, <2>6, <3>1, <3>2, <3>5 DEF Seen, SeenPack
  <2> QED
    BY <2>2, <2>5, <2>6
<1>12. CASE ProveBroken
  <2> DEFINE f == Current
  <2>1. /\ run.pc = "broken?" /\ run'.pc = "fix" /\ run'.task = run.task /\ run'.todo = run.todo
        /\ run'.found = run.found /\ run'.won = run.won /\ run'.disturbed = run.disturbed
        /\ UNCHANGED <<scripts, world>> /\ Check(f) = "broken"
    BY <1>0, <1>12 DEF ProveBroken, Goto, RunRecords, Current
  <2>2. f \in Pack /\ here' = here /\ Current' = Current
    BY <1>m, <2>1 DEF PackRecorded, here, Current
  <2>3. ~run'.won /\ SeenUp /\ SeenDetected /\ SeenCurrent
    BY <1>s, <2>1 DEF Stages
  <2>4. /\ scripts.check[f] \in {"fails"} \union Truthful
        /\ scripts.check[f] = "honest" => f \in here.present
        /\ scripts.check[f] = "any" => here.present # {}
    BY <1>0, <2>1, <2>2 DEF Check, Says, AllScripts, Checks, Verifies, Truthful
  <2>5. f \in here.present => scripts.inject[f] = "works"
    <3>1. scripts.inject[f] \in Effects /\ scripts.inject[f] # "fails"
      BY <1>0, <2>1, <2>2, <2>3 DEF AllScripts, SeenCurrent
    <3> QED
      BY <1>f, <2>1, <3>1 DEF EffectsHaveCauses, Effects
  <2>6. ~run.found /\ here.present # {} => f \in here.present
    BY <2>1, <2>3 DEF SeenCurrent
  <2>7. SeenUp'
    BY <2>1, <2>2, <2>3 DEF SeenUp
  <2>8. SeenDetected'
    BY <1>p, <2>1, <2>2, <2>3 DEF SeenDetected
  <2>9. SeenCurrent'
    <3>1. Breaks(Current)'
      BY <2>1, <2>2, <2>3 DEF SeenCurrent, Breaks
    <3>2. Current' = f /\ run'.pc = "fix"
      BY <2>1, <2>2
    <3>3. scripts.check[f] = "honest" \/ (~run.found /\ scripts.check[f] = "any")
                => scripts.inject[f] = "works"
      BY <2>4, <2>5, <2>6
    <3> QED
      BY <2>1, <2>2, <2>3, <2>4, <3>1, <3>3 DEF SeenCurrent
  <2> QED
    BY <2>1, <2>3, <2>7, <2>8, <2>9 DEF Seen, SeenPack
<1>13. CASE ProveFix
  <2> DEFINE f == Current
             w == Fixed({f}, TRUE)
  <2>1. /\ run.pc = "fix" /\ run'.task = run.task /\ run'.todo = run.todo
        /\ run'.found = run.found /\ run'.won = run.won /\ run'.disturbed = run.disturbed
        /\ UNCHANGED scripts /\ Becomes(w) /\ run'.pc \in {"down", "fixed?"}
        /\ scripts.fix[f] = "fails" => run'.pc = "down"
    BY <1>0, <1>13 DEF ProveFix, Goto, RunRecords, Current
  <2>2. w \in Worlds /\ w.present = here.present
    BY <1>0 DEF Fixed, Worlds
  <2>3. /\ here' = w /\ Current' = Current /\ f \in Pack
        /\ ~run'.won /\ SeenUp /\ SeenDetected /\ SeenCurrent
    BY <1>h, <1>m, <1>s, <2>1, <2>2 DEF Stages, Current, PackRecorded
  <2> HIDE DEF w
  <2>4. CASE run'.pc = "down"
    BY <1>e, <2>3, <2>4
  <2>5. CASE run'.pc = "fixed?"
    <3>1. SeenUp'
      BY <2>1, <2>3, <2>5 DEF SeenUp
    <3>2. SeenDetected'
      BY <1>p, <2>1, <2>3, <2>5 DEF SeenDetected
    <3>3. scripts.inject[f] = "works" => f \in here'.present
      BY <2>1, <2>2, <2>3 DEF SeenCurrent, Breaks
    <3>4. SeenCurrent'
      BY <2>1, <2>2, <2>3, <2>5, <3>3 DEF SeenCurrent
    <3> QED
      BY <2>3, <2>5, <3>1, <3>2, <3>4 DEF Seen, SeenPack
  <2> QED
    BY <2>1, <2>4, <2>5
<1>14. CASE ProveFixed
  <2> DEFINE f == Current
  <2>1. /\ run.pc = "fixed?" /\ run'.pc = "inject" /\ run'.task = run.task
        /\ run'.todo = run.todo \ {f} /\ run'.found = run.found /\ run'.won = run.won
        /\ run'.disturbed = run.disturbed /\ UNCHANGED <<scripts, world>> /\ Check(f) = "fixed"
    BY <1>0, <1>14 DEF ProveFixed, RunRecords, Current
  <2>2. here' = here /\ f \in Pack /\ ~run'.won /\ SeenUp /\ SeenDetected /\ SeenCurrent
    BY <1>m, <1>s, <2>1 DEF here, Stages, PackRecorded
  <2>3. scripts.check[f] \in {"fails"} \union Truthful
    BY <2>1, <2>2 DEF SeenCurrent
  <2>4. scripts.check[f] \in Truthful /\ f \notin here.present
    BY <2>1, <2>3 DEF Check, Says, Truthful
  <2>5. Detected(f, run.found)
    BY <2>1, <2>2, <2>4 DEF SeenCurrent, Detected, Truthful
  <2>6. SeenDetected'
    BY <1>p, <2>1, <2>2, <2>5 DEF SeenDetected
  <2>7. SeenUp'
    BY <2>1, <2>2, <2>4 DEF SeenUp, SeenCurrent
  <2> QED
    BY <2>1, <2>2, <2>6, <2>7 DEF Seen, SeenCurrent, SeenPack
<1>15. CASE ProveWholePack
  <2>1. /\ run.pc = "inject" /\ run.todo = {} /\ run'.pc = "break" /\ run'.task = run.task
        /\ run'.todo = Pack /\ run'.found = run.found /\ run'.won = run.won
        /\ run'.disturbed = run.disturbed /\ UNCHANGED <<scripts, world>>
    BY <1>0, <1>15 DEF ProveWholePack, RunRecords
  <2>2. ~run'.won /\ SeenUp /\ SeenDetected
    BY <1>s, <2>1 DEF Stages
  <2>3. SeenDetected'
    BY <1>p, <2>1, <2>2 DEF SeenDetected
  <2> QED
    BY <2>1, <2>2, <2>3 DEF Seen, SeenUp, SeenCurrent, SeenPack
<1>16. CASE BreakOne
  <2> DEFINE f == Current
             v(w) == IF scripts.inject[f] # "fails" THEN [w EXCEPT !.injected = @ \union {f}] ELSE w
  <2>1. PICK w \in Injected(f) : Becomes(v(w))
    BY <1>16 DEF BreakOne, Current
  <2>2. /\ f \in Pack /\ run.pc = "break" /\ run'.task = run.task /\ run'.todo = run.todo \ {f}
        /\ run'.found = run.found /\ run'.won = run.won /\ run'.disturbed = run.disturbed
        /\ UNCHANGED scripts
        /\ run'.pc = IF scripts.inject[f] # "fails" THEN "break" ELSE "down"
    BY <1>0, <1>16, <1>m DEF BreakOne, RunRecords, Current
  <2>3. w \in Worlds /\ \/ w = here /\ scripts.inject[f] # "works"
                        \/ w.present = here.present \union {f} /\ w.healing = here.healing \ {f}
    BY <2>1, <2>2, InjectedIs
  <2>4. v(w) \in Worlds /\ v(w).present = w.present /\ v(w).healing = w.healing
    BY <2>2, <2>3 DEF Worlds
  <2>5. here' = v(w) /\ ~run'.won /\ SeenUp /\ SeenDetected /\ SeenPack
    BY <1>h, <1>s, <2>1, <2>2, <2>4 DEF Stages
  <2> HIDE DEF v
  <2>6. CASE run'.pc = "down"
    BY <1>e, <2>5, <2>6
  <2>7. CASE run'.pc = "break"
    <3>1. SeenDetected'
      BY <1>p, <2>2, <2>5, <2>7 DEF SeenDetected
    <3>2. ASSUME NEW x \in Pack \ run'.todo PROVE Breaks(x)'
      <4>1. CASE x = f
        BY <2>2, <2>3, <2>4, <2>5, <4>1 DEF Breaks
      <4>2. CASE x # f
        <5>1. Breaks(x)
          BY <2>2, <2>5, <4>2 DEF SeenPack
        <5> QED
          BY <2>2, <2>3, <2>4, <2>5, <4>2, <5>1 DEF Breaks
      <4> QED
        BY <4>1, <4>2
    <3>3. SeenPack'
      BY <2>5, <2>7, <3>2 DEF SeenPack
    <3>4. SeenUp'
      BY <2>2, <2>5, <2>7 DEF SeenUp
    <3> QED
      BY <2>7, <3>1, <3>3, <3>4 DEF Seen, SeenCurrent
  <2> QED
    BY <2>2, <2>6, <2>7
<1>17. CASE BreakDone
  <2>1. /\ run.pc = "break" /\ run.todo = {} /\ run'.pc = "detects" /\ run'.task = run.task
        /\ run'.todo = run.todo /\ run'.found = run.found /\ run'.won = run.won
        /\ run'.disturbed = run.disturbed /\ UNCHANGED <<scripts, world>>
    BY <1>0, <1>17 DEF BreakDone, Goto, RunRecords
  <2>2. here' = here /\ ~run'.won /\ SeenUp /\ SeenDetected /\ SeenPack
    BY <1>s, <2>1 DEF Stages, here
  <2>3. SeenDetected'
    BY <1>p, <2>1, <2>2 DEF SeenDetected
  <2>4. \A x \in Pack : Breaks(x)'
    BY <2>1, <2>2 DEF SeenPack, Breaks
  <2> QED
    BY <2>1, <2>2, <2>3, <2>4 DEF Seen, SeenUp, SeenCurrent, SeenPack
<1>18. CASE ProveDetects
  <2>1. /\ run.pc = "detects" /\ run'.pc = (IF Verify THEN "down" ELSE "fix all")
        /\ run'.task = run.task /\ run'.found = run.found /\ run'.won = run.won
        /\ run'.disturbed = run.disturbed /\ UNCHANGED <<scripts, world>>
    BY <1>0, <1>18 DEF ProveDetects, Goto, RunRecords
  <2>2. here' = here /\ ~run'.won /\ SeenUp /\ SeenDetected /\ SeenPack
    BY <1>s, <2>1 DEF Stages, here
  <2>3. CASE Verify
    BY <1>e, <2>1, <2>2, <2>3
  <2>4. CASE ~Verify
    <3>1. PackBreaks
      BY <1>0, <2>1, <2>2, <2>4 DEF Verify, Says, AppDown, PackBreaks, SeenUp, Worlds
    <3>2. SeenDetected'
      BY <1>p, <2>1, <2>2, <2>4 DEF SeenDetected
    <3>3. \A x \in Pack : Breaks(x)'
      BY <2>1, <2>2 DEF SeenPack, Breaks
    <3>4. PackBreaks'
      BY <1>p, <2>1, <3>1
    <3> QED
      BY <2>1, <2>2, <2>4, <3>2, <3>3, <3>4 DEF Seen, SeenUp, SeenCurrent, SeenPack
  <2> QED
    BY <2>3, <2>4
<1>19. CASE ProveFixAll
  <2> DEFINE w == Fixed(here.injected, Cardinality(here.injected) = 1)
  <2>1. /\ run.pc = "fix all" /\ run'.pc \in {"down", "recovers"} /\ run'.task = run.task
        /\ run'.found = run.found /\ run'.won = run.won /\ run'.disturbed = run.disturbed
        /\ UNCHANGED scripts /\ Becomes(w)
    BY <1>0, <1>19 DEF ProveFixAll, Goto, RunRecords
  <2>2. here.injected = Pack /\ Cardinality(Pack) = NFaults
    BY <2>1, PackIsFinite DEF PackRecorded
  <2>3. /\ w \in Worlds /\ w.present = here.present
        /\ NFaults # 1 => \A x \in w.healing \ here.healing : scripts.fix[x] = "works"
    BY <1>0, <2>2 DEF Fixed, Worlds
  <2>4. here' = w /\ ~run'.won /\ SeenDetected /\ SeenPack
    BY <1>h, <1>s, <2>1, <2>3 DEF Stages
  <2> HIDE DEF w
  <2>5. CASE run'.pc = "down"
    BY <1>e, <2>4, <2>5
  <2>6. CASE run'.pc = "recovers"
    <3>1. SeenDetected'
      BY <1>p, <2>1, <2>4, <2>6 DEF SeenDetected
    <3>2. PackBreaks'
      BY <1>p, <2>1, <2>4 DEF SeenPack
    <3>3. NFaults = 1 \/ \A x \in Pack : scripts.fix[x] = "alone" => Breaks(x)'
      BY <2>1, <2>3, <2>4 DEF SeenPack, Breaks
    <3>4. SeenPack'
      BY <2>1, <2>4, <2>6, <3>2, <3>3 DEF SeenPack
    <3> QED
      BY <2>6, <3>1, <3>4 DEF Seen, SeenUp, SeenCurrent
  <2> QED
    BY <2>1, <2>5, <2>6
<1>20. CASE ProveRecovers
  <2>1. /\ run.pc = "recovers" /\ run'.pc = "down" /\ run'.task = run.task
        /\ run'.found = run.found /\ run'.won = Verify /\ run'.disturbed = run.disturbed
        /\ UNCHANGED <<scripts, world>>
    BY <1>0, <1>20 DEF ProveRecovers, RunRecords
  <2>2. SeenDetected /\ SeenPack
    BY <1>s, <2>1
  <2>3. (\A x \in Pack : Detected(x, run.found)) /\ PackBreaks
    BY <2>1, <2>2 DEF SeenDetected, SeenPack
  <2>4. Verify => here.present \subseteq scripts.survived
    BY <2>3 DEF Verify, Says, AppDown, PackBreaks
  <2>5. Verify => ProvedOn(run.found)
    BY <2>1, <2>2, <2>3, <2>4 DEF ProvedOn, AloneSurvived, SeenPack, Breaks
  <2> QED
    BY <1>e, <1>p, <2>1, <2>5
<1> QED
  BY <1>1, <1>2, <1>3, <1>4, <1>5, <1>6, <1>7, <1>8, <1>9, <1>10, <1>11, <1>12, <1>13, <1>14,
     <1>15, <1>16, <1>17, <1>18, <1>19, <1>20 DEF Next, Goes

\* A run that passed adds where it did.
LEMMA GreenStep ==
    Types /\ Stages /\ SeenSoFar /\ GreenInv /\ [Next]_vars => GreenInv'
<1> SUFFICES ASSUME Types, Stages, SeenSoFar, GreenInv, [Next]_vars PROVE GreenInv'
  OBVIOUS
<1>1. ASSUME NEW found \in BOOLEAN, UNCHANGED scripts PROVE ProvedOn(found)' <=> ProvedOn(found)
  BY <1>1 DEF ProvedOn, Detected, PackBreaks, AloneSurvived
<1>2. CASE Down \/ LeftBehind
  <2>1. UNCHANGED scripts /\ green' = green \union Passed
    BY <1>2 DEF Down, LeftBehind
  <2>2. ASSUME NEW w \in Passed PROVE ProvedOn(w = "found")
    <3>1. run.won /\ ~run.disturbed /\ w = IF run.found THEN "found" ELSE "own"
      BY <2>2 DEF Passed
    <3>2. ProvedOn(run.found) /\ run.found \in BOOLEAN
      BY <3>1 DEF Stages, SeenSoFar, Seen, SeenPack, Types, RunRecords
    <3>3. (w = "found") = run.found
      BY <3>1, <3>2
    <3> QED
      BY <3>2, <3>3, Zenon
  <2>3. ASSUME NEW w \in green' PROVE ProvedOn(w = "found")'
    <3>1. ProvedOn(w = "found")
      BY <2>1, <2>2, <2>3 DEF GreenInv
    <3> QED
      BY <1>1, <2>1, <3>1
  <2> QED
    BY <2>3 DEF GreenInv
<1>3. CASE UNCHANGED <<scripts, green>>
  BY <1>1, <1>3 DEF GreenInv
<1>4. UNCHANGED <<scripts, green>> \/ Down \/ LeftBehind
  BY DEF Next, Goes, Begin, Heals, UpProvision, UpHealthy, WaitRunsOut, BreakOne, BreakDone,
     ProveInject, ProveBroken, ProveNotBroken, ProveFix, ProveFixed, ProveStillBroken,
     ProveWholePack, ProveDetects, ProveFixAll, ProveRecovers, Agent, AgentEnds, AgentFails,
     Status, Scored, Append, Disturbed, Fails, NotAppended, Killed, GiveUp, Elsewhere, vars
<1> QED
  BY <1>2, <1>3, <1>4

\* What is seen fixed is fixed, where the checks can tell.
LEMMA SeenIsFixed == Types /\ Honest => FixedNow <= Cardinality(Pack \ here.present)
<1> SUFFICES ASSUME Types, Honest PROVE FixedNow <= Cardinality(Pack \ here.present)
  OBVIOUS
<1>1. here \in Worlds
  BY DEF Types, here, RunRecords
<1> DEFINE F == {f \in here.injected : Check(f) = "fixed"}
<1>2. F \subseteq Pack \ here.present
  BY <1>1 DEF Worlds, Honest, Truthful, Check, Says
<1>3. Cardinality(F) <= Cardinality(Pack \ here.present)
  BY <1>2, PackIsFinite
<1> QED
  BY <1>3 DEF FixedNow

\* An agent is judged by what it left, and the entry says so.
LEMMA JudgedStep ==
    Types /\ Stages /\ PackRecorded /\ Judged /\ [Next]_vars => Judged'
<1> SUFFICES ASSUME Types, Stages, PackRecorded, Judged, [Next]_vars PROVE Judged'
  OBVIOUS
<1> USE DEF Elsewhere, Failure, At
<1>0. here \in Worlds /\ run \in RunRecords /\ "prove" \in Tasks
  BY DEF Types, here, RunRecords, Tasks
<1>h. UNCHANGED scripts
  BY DEF Next, Goes, Begin, Heals, UpProvision, UpHealthy, WaitRunsOut, BreakOne, BreakDone,
     ProveInject, ProveBroken, ProveNotBroken, ProveFix, ProveFixed, ProveStillBroken,
     ProveWholePack, ProveDetects, ProveFixAll, ProveRecovers, Agent, AgentEnds, AgentFails,
     Status, Scored, Down, Append, Disturbed, Fails, LeftBehind, NotAppended, Killed, GiveUp, vars
<1>i. Honest' <=> Honest
  BY <1>h DEF Honest
<1>l. ASSUME UNCHANGED ledger PROVE \A e \in ledger' : EntryIsTrue(e)'
  BY <1>i, <1>l DEF Judged, EntryIsTrue, MostFixed
\* Those that judge nothing.
<1>k. ASSUME UNCHANGED ledger, run'.pc = "judge" => run.pc = "judge", run'.seen = run.seen,
             run'.left = run.left, run'.down = run.down, run'.verdict = run.verdict,
             run'.failed = run.failed, run'.disturbed = run.disturbed
      PROVE  Judged'
  <2>1. EntryIsTrue(run)'
    BY <1>i, <1>k DEF Judged, EntryIsTrue, MostFixed
  <2>2. run'.pc = "judge" /\ Honest' => run'.seen <= Cardinality(Pack \ run'.left)
    BY <1>i, <1>k DEF Judged
  <2> QED
    BY <1>k, <1>l, <2>1, <2>2 DEF Judged
<1>n. ASSUME UNCHANGED ledger, run'.pc # "judge", run'.verdict = "none", ~run'.failed PROVE Judged'
  BY <1>l, <1>n DEF Judged, EntryIsTrue
<1>1. ASSUME NEW task \in Tasks, Begin(task) PROVE Judged'
  BY <1>1, <1>n DEF Begin, Idle
<1>2. CASE Killed
  BY <1>2, <1>n DEF Killed, Idle
<1>3. CASE UNCHANGED <<run, ledger>>
  BY <1>3, <1>k
<1>4. CASE UpProvision \/ UpHealthy \/ BreakOne \/ ProveFixed \/ ProveWholePack \/ ProveRecovers
  BY <1>0, <1>4, <1>k DEF UpProvision, UpHealthy, BreakOne, ProveFixed, ProveWholePack,
     ProveRecovers, RunRecords
<1>5. ASSUME NEW label, Goto(label), label # "judge", UNCHANGED ledger PROVE Judged'
  BY <1>0, <1>5, <1>k DEF Goto, RunRecords
<1>6. CASE WaitRunsOut \/ ProveNotBroken \/ ProveStillBroken \/ ProveBroken \/ AgentEnds \/ Fails
  BY <1>5, <1>6 DEF WaitRunsOut, ProveNotBroken, ProveStillBroken, ProveBroken, AgentEnds, Fails,
     GiveUp
<1>7. CASE BreakDone \/ ProveInject \/ ProveFix
  BY <1>0, <1>k, <1>7 DEF BreakDone, ProveInject, ProveFix, Goto, RunRecords
<1>8. CASE ProveDetects \/ ProveFixAll
  BY <1>0, <1>k, <1>8 DEF ProveDetects, ProveFixAll, Goto, RunRecords
<1>9. CASE Down \/ LeftBehind \/ NotAppended
  <2>1. Next1 # "judge"
    BY DEF Next1
  <2> QED
    BY <1>5, <1>9, <2>1 DEF Down, LeftBehind, NotAppended
<1>10. CASE AgentFails
  <2>1. run'.pc = "down" /\ run'.verdict = "inconclusive" /\ UNCHANGED ledger
    BY <1>0, <1>10 DEF AgentFails, RunRecords
  <2> QED
    BY <1>l, <2>1 DEF Judged, EntryIsTrue
<1>s. ASSUME run.pc = "status", UNCHANGED ledger, run'.verdict = run.verdict,
             run'.failed = run.failed, run'.left = here.present,
             run'.seen \in Nat, run'.seen <= FixedNow
      PROVE  Judged'
  <2>1. run'.verdict = "none" /\ ~run'.failed
    BY <1>s DEF Stages
  <2>2. Honest => run'.seen <= Cardinality(Pack \ run'.left)
    <3>1. here.present \in SUBSET Pack
      BY <1>0 DEF Worlds
    <3>2. Cardinality(Pack \ here.present) \in Nat /\ FixedNow \in Nat
      BY <3>1, PackIsFinite, FixedNowIsTyped, GateAssumption
    <3> QED
      BY <1>s, <3>2, SeenIsFixed
  <2> QED
    BY <1>i, <1>l, <1>s, <2>1, <2>2 DEF Judged, EntryIsTrue
<1>11. CASE Status
  <2>1. FixedNow \in Nat
    BY FixedNowIsTyped, GateAssumption
  <2> QED
    BY <1>0, <1>11, <1>s, <2>1 DEF Status, RunRecords
<1>j. ASSUME run.pc = "judge", UNCHANGED ledger, NEW says \in BOOLEAN,
             says => Verify, Verify => says \/ run'.disturbed, run'.pc = "down",
             run'.left = run.left, run'.failed = run.failed, run'.down = AppDown,
             run'.verdict = Judgement(Cardinality(here.injected), run.seen, says)
      PROVE  Judged'
  <2>1. ~run.failed /\ here.injected = Pack /\ Cardinality(Pack) = NFaults
    BY <1>j, PackIsFinite DEF Stages, PackRecorded, Attempt
  <2>2. Honest => (Verify <=> ~AppDown)
    BY DEF Honest, Verify, Says
  <2>3. Honest => run.seen <= Cardinality(Pack \ run.left)
    BY <1>j DEF Judged
  <2>4. run.seen \in Nat /\ Cardinality(Pack \ run.left) \in Nat /\ NFaults \in Nat \ {0}
    BY <1>0, PackIsFinite, GateAssumption DEF RunRecords
  <2>5. run'.verdict = IF says \/ 10 * run.seen >= 6 * NFaults THEN "too-easy" ELSE "holds"
    BY <1>j, <2>1, <2>4 DEF Judgement
  <2>6. Honest /\ 10 * run.seen >= 6 * NFaults => MostFixed(run.left)
    BY <2>3, <2>4 DEF MostFixed
  <2>7. EntryIsTrue(run)'
    BY <1>i, <1>j, <2>1, <2>2, <2>5, <2>6 DEF EntryIsTrue, MostFixed
  <2> QED
    BY <1>j, <1>l, <2>7 DEF Judged
<1>12. CASE Scored
  <2>1. Verify \in BOOLEAN
    BY DEF Verify
  <2>2. /\ run.pc = "judge" /\ UNCHANGED ledger /\ run'.pc = "down" /\ run'.left = run.left
        /\ run'.failed = run.failed /\ run'.down = AppDown
        /\ run'.verdict = Judgement(Cardinality(here.injected), run.seen, Verify)
    BY <1>0, <1>12 DEF Scored, RunRecords
  <2> QED
    BY <1>j, <2>1, <2>2
<1>13. CASE Append
  <2>0. PICK e : e = [verdict |-> run.verdict, left |-> run.left, down |-> run.down,
                      failed |-> run.failed, disturbed |-> run.disturbed]
    OBVIOUS
  <2>1. ledger' = ledger \union {e}
    BY <1>13, <2>0 DEF Append
  <2>2. EntryIsTrue(e)'
    BY <1>i, <2>0 DEF Judged, EntryIsTrue, MostFixed
  <2>3. \A x \in ledger : EntryIsTrue(x)'
    BY <1>i DEF Judged, EntryIsTrue, MostFixed
  <2>4. run'.pc = "idle" /\ EntryIsTrue(run)'
    BY <1>0, <1>13, <1>i DEF Append, Goto, RunRecords, Judged, EntryIsTrue, MostFixed
  <2> QED
    BY <2>1, <2>2, <2>3, <2>4 DEF Judged
<1>14. CASE Disturbed
  <2> DEFINE d == [run EXCEPT !.disturbed = TRUE]
  <2>0. /\ d \in RunRecords /\ d.disturbed /\ d.seen = run.seen /\ d.left = run.left
        /\ d.down = run.down /\ d.verdict = run.verdict /\ d.failed = run.failed
    BY <1>0 DEF RunRecords
  <2>1. UNCHANGED ledger
    BY <1>14 DEF Disturbed
  <2>2. \/ run.pc \in {"broken?", "detects"} /\ run' = [d EXCEPT !.pc = "fix"]
        \/ run.pc \in {"broken?", "detects"} /\ run' = [d EXCEPT !.pc = "fix all"]
        \/ run.pc = "status" /\ \E n \in 0..FixedNow :
                run' = [d EXCEPT !.pc = "judge", !.left = here.present, !.seen = n]
        \/ run.pc = "judge" /\
                run' = [d EXCEPT !.pc = "down", !.down = AppDown,
                    !.verdict = Judgement(Cardinality(here.injected), run.seen, FALSE)]
    BY <1>14 DEF Disturbed
  <2> HIDE DEF d
  <2>3. CASE run.pc \in {"broken?", "detects"} /\
                (run' = [d EXCEPT !.pc = "fix"] \/ run' = [d EXCEPT !.pc = "fix all"])
    <3>1. run.verdict = "none" /\ ~run.failed
      BY <2>3 DEF Stages
    <3> QED
      BY <1>n, <2>0, <2>1, <2>3, <3>1 DEF RunRecords
  <2>4. CASE run.pc = "status" /\ \E n \in 0..FixedNow :
                run' = [d EXCEPT !.pc = "judge", !.left = here.present, !.seen = n]
    <3>1. PICK n \in 0..FixedNow :
                run' = [d EXCEPT !.pc = "judge", !.left = here.present, !.seen = n]
      BY <2>4
    <3>2. FixedNow \in Nat
      BY FixedNowIsTyped, GateAssumption
    <3> QED
      BY <1>s, <2>0, <2>1, <2>4, <3>1, <3>2 DEF RunRecords
  <2>5. CASE run.pc = "judge" /\
                run' = [d EXCEPT !.pc = "down", !.down = AppDown,
                    !.verdict = Judgement(Cardinality(here.injected), run.seen, FALSE)]
    <3>1. /\ run'.pc = "down" /\ run'.left = run.left /\ run'.failed = run.failed
          /\ run'.disturbed /\ run'.down = AppDown
          /\ run'.verdict = Judgement(Cardinality(here.injected), run.seen, FALSE)
      BY <2>0, <2>5 DEF RunRecords
    <3> QED
      BY <1>j, <2>1, <2>5, <3>1
  <2> QED
    BY <2>2, <2>3, <2>4, <2>5
<1> QED
  BY <1>1, <1>2, <1>3, <1>4, <1>6, <1>7, <1>8, <1>9, <1>10, <1>11, <1>12, <1>13, <1>14
     DEF Next, Goes, Heals, Agent, vars
-----------------------------------------------------------------------------
LEMMA GateInvHolds == Spec => []GateInv
<1>1. Init => GateInv
  <2> SUFFICES ASSUME Init PROVE GateInv
    OBVIOUS
  <2>1. Types
    <3>1. NoWorld \in Worlds /\ Idle \in RunRecords
      BY GateAssumption DEF NoWorld, Worlds, Idle, RunRecords, Labels, Tasks
    <3> QED
      BY <3>1 DEF Init, Types
  <2>2. run = Idle /\ ledger = {} /\ green = {} /\ \A t \in Tasks : world[t] = NoWorld
    BY DEF Init
  <2>3. run.pc = "idle" /\ ~run.won /\ run.verdict = "none" /\ ~run.failed /\ "prove" \in Tasks
    BY <2>2 DEF Idle, Tasks
  <2>4. Stages
    BY <2>2, <2>3 DEF Stages, NoWorld, Single, Whole, Attempt
  <2>5. EffectsHaveCauses
    BY <2>2, <2>3 DEF EffectsHaveCauses, NoWorld
  <2>6. SeenSoFar
    BY <2>3 DEF SeenSoFar, Seen, SeenUp, SeenDetected, SeenCurrent, SeenPack, Single, Whole
  <2>7. PackRecorded /\ GreenInv /\ Judged
    BY <2>2, <2>3 DEF PackRecorded, GreenInv, Judged, EntryIsTrue, Single, Whole, Attempt
  <2> QED
    BY <2>1, <2>4, <2>5, <2>6, <2>7 DEF GateInv
<1>2. GateInv /\ [Next]_vars => GateInv'
  BY TypesStep, StagesStep, EffectsStep, SeenStep, RecordedStep, GreenStep, JudgedStep DEF GateInv
<1> QED
  BY <1>1, <1>2, PTL DEF Spec

\* The scripts stay as they are, an environment that is down has no faults, and what is
\* judged is written down as one of three verdicts.
THEOREM GateTypeCorrect == Spec => []TypeOK
<1>1. GateInv => TypeOK
  <2> SUFFICES ASSUME GateInv PROVE TypeOK
    OBVIOUS
  <2>1. run.todo \subseteq Pack /\ run.seen \in 0..NFaults
    BY DEF GateInv, Types, RunRecords
  <2>2. \A e \in ledger : e.verdict \in Judgements
    BY DEF GateInv, Types, Stages, Entries
  <2> QED
    BY <2>1, <2>2 DEF GateInv, Types, Stages, TypeOK, Judgements
<1> QED
  BY <1>1, GateInvHolds, PTL

\* What `prove` lets through does what its scripts say, for a pack of any size, whatever its
\* scripts are worth and whatever runs were killed, failed or left an environment behind.
THEOREM GreenContentWorks == Spec => []GreenMeansProved
<1>1. GateInv => GreenMeansProved
  <2> SUFFICES ASSUME GateInv, green # {} PROVE GreenMeansProved
    BY DEF GreenMeansProved
  <2>1. PICK w \in green : ProvedOn(w = "found")
    BY DEF GateInv, GreenInv
  <2>2. "own" \in green => ProvedOn(FALSE)
    <3> SUFFICES ASSUME "own" \in green PROVE ProvedOn(FALSE)
      OBVIOUS
    <3>1. ProvedOn("own" = "found")
      BY DEF GateInv, GreenInv
    <3>2. ("own" = "found") = FALSE
      OBVIOUS
    <3> QED
      BY <3>1, <3>2, Zenon
  <2>3. ASSUME NEW f \in Pack
        PROVE  /\ scripts.check[f] \in Truthful
               /\ scripts.check[f] = "honest" \/ "own" \in green => scripts.inject[f] = "works"
               /\ scripts.inject[f] = "works" => scripts.fix[f] \in {"works", "alone"}
    BY <2>1, <2>2 DEF ProvedOn, Detected
  <2>4. PackBreaks /\ AloneSurvived
    BY <2>1 DEF ProvedOn
  <2> QED
    BY <2>3, <2>4 DEF PackBreaks, AloneSurvived, GreenMeansProved
<1> QED
  BY <1>1, GateInvHolds, PTL

\* The calibration ledger is right about every attempt at such content, however the attempts
\* interleave with the gate's runs and with what heals or fails meanwhile.
THEOREM LedgerIsRight == Spec => []LedgerIsTrue
<1>1. GateInv => LedgerIsTrue
  <2> SUFFICES ASSUME GateInv, green # {}, NEW e \in ledger
               PROVE  /\ e.verdict = "too-easy" => ~e.down \/ 10 * Cardinality(Pack \ e.left) >= 6 * NFaults
                      /\ e.verdict = "holds" => e.down \/ e.disturbed
                      /\ e.failed => e.verdict = "inconclusive"
    BY DEF LedgerIsTrue
  <2>1. Honest
    BY DEF GateInv, GreenInv, ProvedOn, Detected, PackBreaks, Honest
  <2>2. EntryIsTrue(e)
    BY DEF GateInv, Judged
  <2> QED
    BY <2>1, <2>2 DEF EntryIsTrue, MostFixed
<1> QED
  BY <1>1, GateInvHolds, PTL
=============================================================================
