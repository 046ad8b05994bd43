-------------------------------- MODULE Gate --------------------------------
(***************************************************************************)
(* The two unattended users of the engine over one fault pack: `prove`,    *)
(* the gate that content passes before it merges (internal/debug/prove.go, *)
(* cmdProve), and `redteam`, which lets an agent loose on the broken       *)
(* environment and enters a verdict into a ledger (internal/redteam).      *)
(* Each has an environment under a seed of its own, which the next run     *)
(* finds again when a teardown failed.                                     *)
(*                                                                         *)
(* What the scripts of a problem are worth is chosen at the beginning: the *)
(* gate is there to find out.  The packs of a problem are proved at once,  *)
(* but share nothing, so one stands for all.  A script ends: no command of *)
(* either has a bound of its own.                                          *)
(***************************************************************************)
EXTENDS Naturals, FiniteSets, FiniteSetsExt

CONSTANTS
    NFaults,        \* the pack, in lexical order
    MaxDefects,     \* bound on what is wrong with the scripts
    MaxRuns,        \* bound on runs
    MaxFailures     \* bound on failures that are not the scripts'

ASSUME GateAssumption ==
    /\ NFaults \in Nat \ {0}
    /\ {MaxDefects, MaxRuns, MaxFailures} \subseteq Nat

Pack == 1..NFaults
Tasks == {"prove", "redteam"}

VARIABLES
    scripts,        \* the problem's scripts
    world,          \* each task's environment: its faults, and what state.json says
    run,            \* the run: where it is, and what it knows
    ledger,         \* the entries of the calibration ledger, each with what was so
    green,          \* history: where the gate passed, its checks undisturbed
    runs, failures  \* so far

vars == <<scripts, world, run, ledger, green, runs, failures>>

\* An inject script breaks the app, does nothing, or fails.  A fix may also work on its
\* own only, and not as one of many (IV_FIX_FAST).  A check passes on what is fixed, or
\* always, or never, or once no fault at all is left, or cannot run.
Effects == {"works", "nothing", "fails"}
Fixes == Effects \union {"alone"}
Verifies == {"honest", "passes", "fails"}
Checks == Verifies \union {"any", "cannot run"}
Truthful == {"honest", "any"}

AllScripts == [inject : [Pack -> Effects], fix : [Pack -> Fixes], check : [Pack -> Checks],
               verify : Verifies, survived : SUBSET Pack]

Defects(s) ==
    {<<"inject", f>> : f \in {f \in Pack : s.inject[f] # "works"}} \union
    {<<"fix", f>> : f \in {f \in Pack : s.fix[f] # "works"}} \union
    {<<"check", f>> : f \in {f \in Pack : s.check[f] # "honest"}} \union
    (IF s.verify = "honest" THEN {} ELSE {<<"verify", 0>>})

Idle == [pc |-> "idle", task |-> "prove", todo |-> {}, won |-> FALSE, disturbed |-> FALSE,
         found |-> FALSE, failed |-> FALSE, left |-> {}, down |-> FALSE, verdict |-> "none",
         seen |-> 0]
NoWorld == [up |-> FALSE, live |-> FALSE, present |-> {}, healing |-> {}, injected |-> {}]

Init ==
    /\ scripts \in {s \in AllScripts : Cardinality(Defects(s)) <= MaxDefects}
    /\ world = [t \in Tasks |-> NoWorld]
    /\ run = Idle
    /\ ledger = {} /\ green = {}
    /\ runs = 0 /\ failures = 0

----------------------------------------------------------------------------
\* What the scripts say and do.

here == world[run.task]
At(label) == run.pc = label
Goto(label) == run' = [run EXCEPT !.pc = label]
Becomes(w) == world' = [world EXCEPT ![run.task] = w]
Elsewhere == UNCHANGED <<scripts, ledger, green, runs, failures>>

AppDown == ~(here.present \subseteq scripts.survived)
Says(probe, honestly) ==
    CASE probe = "passes" -> "fixed" [] probe = "fails" -> "broken"
      [] probe = "cannot run" -> "cannot run"
      [] probe = "any" -> IF here.present # {} THEN "broken" ELSE "fixed"
      [] probe = "honest" -> IF honestly THEN "broken" ELSE "fixed"

Check(f) == Says(scripts.check[f], f \in here.present)

Verify == Says(scripts.verify, AppDown) = "fixed"

\* A script that fails may have had its effect.  A fix has its effect by and by.
Injected(f) ==
    LET broken == [here EXCEPT !.present = @ \union {f}, !.healing = @ \ {f}]
    IN  {w \in {here, broken} : /\ scripts.inject[f] = "works" => w = broken
                                /\ scripts.inject[f] = "nothing" => w = here}

Fixed(faults, alone) ==
    [here EXCEPT !.healing = @ \union
        {f \in faults \intersect here.present : scripts.fix[f] = "works" \/ (alone /\ scripts.fix[f] = "alone")}]

Heals(t) ==
    /\ \E f \in world[t].healing :
        world' = [world EXCEPT ![t].present = @ \ {f}, ![t].healing = @ \ {f}]
    /\ UNCHANGED run /\ Elsewhere

\* The run is over, and the environment is torn down whatever came of it.
GiveUp == Goto("down") /\ UNCHANGED world /\ Elsewhere

----------------------------------------------------------------------------
\* Up and Break, with which both begin.

Begin(task) ==
    /\ At("idle") /\ runs < MaxRuns
    /\ runs' = runs + 1
    /\ run' = [Idle EXCEPT !.pc = "up", !.task = task]
    /\ UNCHANGED <<scripts, world, ledger, green, failures>>

\* An environment that is still there is applied to again, and may keep its faults.
UpProvision ==
    /\ At("up")
    /\ \E kept \in SUBSET here.present :
        Becomes([here EXCEPT !.up = TRUE, !.present = kept, !.healing = @ \intersect kept])
    /\ run' = [run EXCEPT !.pc = "healthy", !.found = here.up]
    /\ Elsewhere

\* Plausible bug: the state is written as one that was torn down.
UpHealthyTornDown ==
    /\ At("healthy") /\ Verify
    /\ Becomes([here EXCEPT !.live = FALSE, !.injected = IF here.live THEN @ ELSE {}])
    /\ run' = [run EXCEPT !.pc = IF run.task = "prove" THEN "inject" ELSE "break", !.todo = Pack]
    /\ Elsewhere

\* VerifyWait passes, and the state is saved, with what it says is injected.
UpHealthy ==
    /\ At("healthy") /\ Verify
    /\ Becomes([here EXCEPT !.live = TRUE, !.injected = IF here.live THEN @ ELSE {}])
    /\ run' = [run EXCEPT !.pc = IF run.task = "prove" THEN "inject" ELSE "break", !.todo = Pack]
    /\ Elsewhere

\* Nothing that would make it pass is under way: the wait runs out.
WaitRunsOut == At("healthy") /\ ~Verify /\ GiveUp

BreakOne ==
    /\ At("break") /\ run.todo # {}
    /\ LET f == Min(run.todo)
           worked == scripts.inject[f] # "fails"
       IN  /\ \E w \in Injected(f) :
                Becomes(IF worked THEN [w EXCEPT !.injected = @ \union {f}] ELSE w)
           /\ run' = [run EXCEPT !.todo = @ \ {f}, !.pc = IF worked THEN @ ELSE "down"]
    /\ Elsewhere

BreakDone ==
    /\ At("break") /\ run.todo = {}
    /\ Goto(IF run.task = "prove" THEN "detects" ELSE "agent")
    /\ UNCHANGED world /\ Elsewhere

----------------------------------------------------------------------------
\* Prove: each fault on its own, then the whole pack.

ProveInject ==
    /\ At("inject") /\ run.todo # {}
    /\ LET f == Min(run.todo)
       IN  /\ \E w \in Injected(f) : Becomes(w)
           /\ Goto(IF scripts.inject[f] = "fails" THEN "down" ELSE "broken?")
    /\ Elsewhere

ProveBroken ==
    /\ At("broken?") /\ Check(Min(run.todo)) = "broken"
    /\ Goto("fix") /\ UNCHANGED world /\ Elsewhere

ProveNotBroken == At("broken?") /\ Check(Min(run.todo)) # "broken" /\ GiveUp

ProveFix ==
    /\ At("fix")
    /\ LET f == Min(run.todo)
       IN  /\ Becomes(Fixed({f}, TRUE))
           /\ Goto(IF scripts.fix[f] = "fails" THEN "down" ELSE "fixed?")
    /\ Elsewhere

ProveFixed ==
    /\ At("fixed?") /\ Check(Min(run.todo)) = "fixed"
    /\ run' = [run EXCEPT !.pc = "inject", !.todo = @ \ {Min(run.todo)}]
    /\ UNCHANGED world /\ Elsewhere

\* Plausible bug: polling has no deadline.
PollsForEver == At("fixed?") /\ Check(Min(run.todo)) = "cannot run" /\ GiveUp

\* It is polled until the deadline, unless it cannot run.
ProveStillBroken == At("fixed?") /\ Check(Min(run.todo)) # "fixed" /\ GiveUp

ProveWholePack ==
    /\ At("inject") /\ run.todo = {}
    /\ run' = [run EXCEPT !.pc = "break", !.todo = Pack]
    /\ UNCHANGED world /\ Elsewhere

\* Plausible bug: nobody asks whether verify can fail.
DetectsNothing ==
    /\ At("detects")
    /\ Goto("fix all") /\ UNCHANGED world /\ Elsewhere

ProveDetects ==
    /\ At("detects")
    /\ Goto(IF Verify THEN "down" ELSE "fix all")
    /\ UNCHANGED world /\ Elsewhere

\* Fix goes through what the state says is injected; several at once are fixed fast.
ProveFixAll ==
    /\ At("fix all")
    /\ Becomes(Fixed(here.injected, Cardinality(here.injected) = 1))
    /\ Goto(IF \E f \in here.injected : scripts.fix[f] = "fails" THEN "down" ELSE "recovers")
    /\ Elsewhere

ProveRecovers ==
    /\ At("recovers")
    /\ run' = [run EXCEPT !.pc = "down", !.won = Verify]
    /\ UNCHANGED world /\ Elsewhere

----------------------------------------------------------------------------
\* DebugRun: the agent, and what is made of it.

Agent ==
    /\ At("agent")
    /\ \E p \in SUBSET Pack :
        /\ p # here.present
        /\ Becomes([here EXCEPT !.present = p, !.healing = @ \intersect p])
    /\ UNCHANGED run /\ Elsewhere

\* It finishes, or has used its turns or its budget.
AgentEnds == At("agent") /\ Goto("status") /\ UNCHANGED world /\ Elsewhere

\* The driver fails, or the model declines: an entry, and no judgement.
AgentFails ==
    /\ At("agent")
    /\ run' = [run EXCEPT !.pc = "down", !.verdict = "inconclusive", !.failed = TRUE]
    /\ UNCHANGED world /\ Elsewhere

\* A check that cannot run is a fault that is not fixed.
FixedNow == Cardinality({f \in here.injected : Check(f) = "fixed"})

Status ==
    /\ At("status")
    /\ run' = [run EXCEPT !.pc = "judge", !.left = here.present, !.seen = FixedNow]
    /\ UNCHANGED world /\ Elsewhere

\* Plausible bug: any fault fixed is one too many.
JudgementHarsh(total, fixed, verified) ==
    IF total = 0 THEN "inconclusive" ELSE IF verified \/ fixed > 0 THEN "too-easy" ELSE "holds"

\* Judge: tooEasyShare is 0.6.
Judgement(total, fixed, verified) ==
    IF total = 0 THEN "inconclusive"
    ELSE IF verified \/ 10 * fixed >= 6 * total THEN "too-easy" ELSE "holds"

Scored ==
    /\ At("judge")
    /\ run' = [run EXCEPT !.pc = "down", !.down = AppDown,
                          !.verdict = Judgement(Cardinality(here.injected), run.seen, Verify)]
    /\ UNCHANGED world /\ Elsewhere

----------------------------------------------------------------------------
\* Down(purge), whatever the run came to, and the ledger's entry.

Next1 == IF run.verdict = "none" THEN "idle" ELSE "append"

\* On an environment of its own, or on one that was found.
Passed ==
    IF run.won /\ ~run.disturbed THEN {IF run.found THEN "found" ELSE "own"} ELSE {}

Down ==
    /\ At("down")
    /\ Becomes(NoWorld)
    /\ green' = green \union Passed
    /\ Goto(Next1)
    /\ UNCHANGED <<scripts, ledger, runs, failures>>

Append ==
    /\ At("append")
    /\ ledger' = ledger \union {[verdict |-> run.verdict, left |-> run.left, down |-> run.down,
                                 failed |-> run.failed, disturbed |-> run.disturbed]}
    /\ Goto("idle")
    /\ UNCHANGED <<scripts, world, green, runs, failures>>

----------------------------------------------------------------------------
\* What fails that is not the scripts' doing.

Failure == failures < MaxFailures /\ failures' = failures + 1

\* A check or verify that fails for a reason of its own reads as a broken app.
Disturbed ==
    /\ Failure
    /\ \E disturbed \in {[run EXCEPT !.disturbed = TRUE]} :
        \/ At("broken?") /\ run' = [disturbed EXCEPT !.pc = "fix"]
        \/ At("detects") /\ run' = [disturbed EXCEPT !.pc = "fix all"]
        \/ At("status") /\ \E n \in 0..FixedNow :
               run' = [disturbed EXCEPT !.pc = "judge", !.left = here.present, !.seen = n]
        \/ At("judge") /\
               run' = [disturbed EXCEPT !.pc = "down", !.down = AppDown,
                   !.verdict = Judgement(Cardinality(here.injected), run.seen, FALSE)]
    /\ UNCHANGED <<scripts, world, ledger, green, runs>>

\* The provider, a script, the state file, the agent's kubeconfig or brief.
Fails ==
    /\ Failure
    /\ run.pc \in {"up", "healthy", "break", "inject", "fix", "fix all", "agent"}
    /\ Goto("down")
    /\ UNCHANGED <<scripts, world, ledger, green, runs>>

\* The teardown fails, before or after the environment is gone, or is not asked for
\* (--keep): the result stands.
LeftBehind ==
    /\ Failure /\ At("down")
    /\ \E gone \in {NoWorld, here} : Becomes([gone EXCEPT !.live = here.live, !.injected = here.injected])
    /\ green' = green \union Passed
    /\ Goto(Next1)
    /\ UNCHANGED <<scripts, ledger, runs>>

NotAppended ==
    /\ Failure /\ At("append") /\ Goto("idle")
    /\ UNCHANGED <<scripts, world, ledger, green, runs>>

Killed ==
    /\ Failure /\ ~At("idle") /\ run' = Idle
    /\ UNCHANGED <<scripts, world, ledger, green, runs>>

----------------------------------------------------------------------------

Goes ==
    \/ UpProvision \/ UpHealthy \/ WaitRunsOut \/ BreakOne \/ BreakDone
    \/ ProveInject \/ ProveBroken \/ ProveNotBroken \/ ProveFix \/ ProveFixed \/ ProveStillBroken
    \/ ProveWholePack \/ ProveDetects \/ ProveFixAll \/ ProveRecovers
    \/ AgentEnds \/ AgentFails \/ Status \/ Scored \/ Down \/ Append

Next ==
    \/ \E task \in Tasks : Begin(task)
    \/ \E t \in Tasks : Heals(t)
    \/ Goes \/ Agent
    \/ Disturbed \/ Fails \/ LeftBehind \/ NotAppended \/ Killed

\* A step that can be taken is taken: scripts end, waits have deadlines, the agent a budget.
Spec == Init /\ [][Next]_vars /\ WF_vars(Goes)

----------------------------------------------------------------------------
\* Properties.

\* The one typing invariant of this module.
TypeOK ==
    /\ scripts \in AllScripts
    /\ \A t \in Tasks :
        /\ world[t].healing \subseteq world[t].present
        /\ world[t].present # {} => world[t].up
        /\ world[t].injected # {} => world[t].live
    /\ run.todo \subseteq Pack /\ run.seen \in 0..NFaults
    /\ \A e \in ledger : e.verdict \in {"holds", "too-easy", "inconclusive"}

\* What the gate lets through works: each check speaks of the faults, verify can tell, and
\* the pack takes the app down; on an environment of its own, every inject and documented
\* fix do what they say.  On one that an earlier run left, a check that speaks of any fault
\* may be answered by one of that run, and its own fault's scripts do nothing.  A fix that
\* works only on its own gets through for a fault the app survives, fixed along with others.
GreenMeansProved ==
    green # {} =>
        /\ \A f \in Pack :
            /\ scripts.check[f] \in Truthful
            /\ scripts.check[f] = "honest" \/ "own" \in green => scripts.inject[f] = "works"
            /\ scripts.inject[f] = "works" => scripts.fix[f] \in {"works", "alone"}
        /\ scripts.verify = "honest" /\ ~(Pack \subseteq scripts.survived)
        /\ NFaults = 1 \/ {f \in Pack : scripts.fix[f] = "alone" /\ scripts.inject[f] = "works"}
                            \subseteq scripts.survived

\* The ledger is right about content that the gate lets through: "too easy" is said of an
\* agent that brought the app back or fixed six tenths of the pack, "holds" only of a run
\* that left the app down, and neither of a run that failed.
LedgerIsTrue ==
    green # {} => \A e \in ledger :
        /\ e.verdict = "too-easy" => ~e.down \/ 10 * Cardinality(Pack \ e.left) >= 6 * NFaults
        /\ e.verdict = "holds" => e.down \/ e.disturbed
        /\ e.failed => e.verdict = "inconclusive"

\* A run ends, unless it is killed over and over: nothing in it waits for ever.
EveryRunEnds == run.pc # "idle" ~> run.pc = "idle"
=============================================================================
