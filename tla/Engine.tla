------------------------------- MODULE Engine -------------------------------
(***************************************************************************)
(* The debugging engine and its state file: internal/debug/engine.go.      *)
(*                                                                         *)
(* `env up`, `break`, `fix` and `env down` are processes of their own.     *)
(* They share the substrate (a kind cluster or a compose project, in       *)
(* up, present and landed) and the workdir (state, files), and nothing     *)
(* keeps two of them from running at once.  What a process read from       *)
(* state.json is its snap; what it has left to do is its todo.             *)
(*                                                                         *)
(* A workdir belongs to one variant, so its pack is fixed.  Faults are     *)
(* numbered in the lexical order of their ids, the order Break uses.       *)
(***************************************************************************)
EXTENDS Naturals

CONSTANTS
    Procs,       \* the command processes that may run at once
    NFaults,     \* how many faults the pack has
    MaxAborts    \* bound on commands that stop before they are done

ASSUME PackNotEmpty == NFaults \in Nat \ {0}
ASSUME AbortBound == MaxAborts \in Nat

Fault == 1..NFaults

\* What state.json says: nothing, the faults of a live environment, or that
\* the environment was torn down.
NoState == [kind |-> "none", injected |-> {}]
LiveState(injected) == [kind |-> "live", injected |-> injected]
Unknown(s) == [s EXCEPT !.kind = "gone"]  \* plausible bug: a kind of its own
TornDown(s) == [s EXCEPT !.kind = "torn"]
States == [kind : {"none", "live", "torn"}, injected : SUBSET Fault]

VARIABLES
    up,        \* does the cluster or the compose project exist
    present,   \* the faults that are in the environment now
    landed,    \* the faults ever injected into this environment
    state,     \* state.json
    files,     \* what else there is: the workdir, what Up rendered, evidence
    pc,        \* where each command is
    snap,      \* the state a command loaded, as it has changed it since
    todo,      \* the faults a command has still to handle
    aborts     \* commands that stopped before they were done

substrate == <<up, present, landed>>
vars == <<up, present, landed, state, files, pc, snap, todo, aborts>>

Label == {"idle", "provision", "verify", "read", "save",
          "inject", "record", "giveup", "fix",
          "purge", "clean", "stamp", "tidy", "rmdir"}

TypeOK ==
    /\ up \in BOOLEAN
    /\ present \subseteq Fault
    /\ landed \subseteq Fault
    /\ state \in States
    /\ files \subseteq {"dir", "owned", "evidence"}
    /\ pc \in [Procs -> Label]
    /\ snap \in [Procs -> States]
    /\ todo \in [Procs -> SUBSET Fault]
    /\ aborts \in 0..MaxAborts

Init ==
    /\ up = FALSE
    /\ present = {}
    /\ landed = {}
    /\ state = NoState
    /\ files = {}
    /\ pc = [p \in Procs |-> "idle"]
    /\ snap = [p \in Procs |-> NoState]
    /\ todo = [p \in Procs |-> {}]
    /\ aborts = 0

Live(s) == s.kind = "live"
Goto(p, label) == pc' = [pc EXCEPT ![p] = label]
Keep(p, s) == snap' = [snap EXCEPT ![p] = s]
Left(p, faults) == todo' = [todo EXCEPT ![p] = faults]
First(p, f) == f \in todo[p] /\ \A g \in todo[p] : f <= g

\* saveState: the temporary file needs the workdir to be there.
SaveState(s) == state' = IF "dir" \in files THEN s ELSE state
Saved == "dir" \in files

-----------------------------------------------------------------------------
(* Up *)

UpBegin(p) ==
    /\ pc[p] = "idle"
    /\ files' = files \union {"dir"}
    /\ Goto(p, "provision")
    /\ UNCHANGED <<up, present, landed, state, snap, todo, aborts>>

\* provider.Up: a cluster that is listed is used again, one that is not is
\* created.  Applying the manifests again may undo what some faults changed.
Provision ==
    /\ up' = TRUE
    /\ IF up THEN present' \in SUBSET present /\ landed' = landed
             ELSE present' = {} /\ landed' = {}

UpProvision(p) ==
    /\ pc[p] = "provision"
    /\ Provision
    /\ files' = files \union {"dir", "owned"}
    /\ Goto(p, "verify")
    /\ UNCHANGED <<state, snap, todo, aborts>>

\* provider.Up fails before or after it has made the cluster.
UpProvisionFails(p) ==
    /\ pc[p] = "provision"
    /\ Provision \/ UNCHANGED substrate
    /\ files' \in {files, files \union {"dir", "owned"}}
    /\ Goto(p, "idle")
    /\ UNCHANGED <<state, snap, todo, aborts>>

\* VerifyWait: verify passes only against an environment, also against a
\* broken one that survives its faults; or the timeout elapses.
UpVerify(p) ==
    /\ pc[p] = "verify"
    /\ Goto(p, "idle") \/ (up /\ Goto(p, "read"))
    /\ UNCHANGED <<up, present, landed, state, files, snap, todo, aborts>>

UpRead(p) ==
    /\ pc[p] = "read"
    /\ Keep(p, state)
    /\ Goto(p, "save")
    /\ UNCHANGED <<up, present, landed, state, files, todo, aborts>>

\* Plausible bug: every Up starts from an empty list of faults.
UpSaveForgetting(p) ==
    /\ pc[p] = "save"
    /\ SaveState(LiveState({}))
    /\ Goto(p, "idle")
    /\ UNCHANGED <<up, present, landed, files, snap, todo, aborts>>

UpSave(p) ==
    /\ pc[p] = "save"
    /\ SaveState(LiveState(IF Live(snap[p]) THEN snap[p].injected ELSE {}))
    /\ Goto(p, "idle")
    /\ UNCHANGED <<up, present, landed, files, snap, todo, aborts>>

-----------------------------------------------------------------------------
(* Break *)

\* Plausible bug: the list is cleared before the pack is injected again.
BreakBeginClearing(p) ==
    /\ pc[p] = "idle"
    /\ Live(state)
    /\ Keep(p, LiveState({}))
    /\ Left(p, Fault)
    /\ Goto(p, "inject")
    /\ UNCHANGED <<up, present, landed, state, files, aborts>>

\* Plausible bug: only the faults not yet recorded are injected.
BreakBeginResuming(p) ==
    /\ pc[p] = "idle"
    /\ Live(state)
    /\ state.injected # Fault
    /\ Keep(p, state)
    /\ Left(p, Fault \ state.injected)
    /\ Goto(p, "inject")
    /\ UNCHANGED <<up, present, landed, state, files, aborts>>

\* Plausible bug: only an absent state is refused, not one torn down.
BreakBeginUnchecked(p) ==
    /\ pc[p] = "idle"
    /\ state.kind # "none"
    /\ Keep(p, state)
    /\ Left(p, Fault)
    /\ Goto(p, "inject")
    /\ UNCHANGED <<up, present, landed, state, files, aborts>>

\* liveState: a state that is absent or torn down is refused.
BreakBegin(p) ==
    /\ pc[p] = "idle"
    /\ Live(state)
    /\ Keep(p, state)
    /\ Left(p, Fault)
    /\ Goto(p, "inject")
    /\ UNCHANGED <<up, present, landed, state, files, aborts>>

\* inject.sh ran to its end, which takes an environment.
BreakInject(p) ==
    /\ pc[p] = "inject"
    /\ up
    /\ \E f \in Fault :
        /\ First(p, f)
        /\ present' = present \union {f}
        /\ landed' = landed \union {f}
        /\ Keep(p, LiveState(snap[p].injected \union {f}))
    /\ Goto(p, "record")
    /\ UNCHANGED <<up, state, files, todo, aborts>>

\* inject.sh failed, and may have broken something before it did.
BreakInjectFails(p) ==
    /\ pc[p] = "inject"
    /\ \E f \in Fault :
        /\ First(p, f)
        /\ present' \in {present, present \union (IF up THEN {f} ELSE {})}
    /\ Goto(p, "giveup")
    /\ UNCHANGED <<up, landed, state, files, snap, todo, aborts>>

\* A fault is recorded as it lands; a save that fails ends the command.
BreakRecord(p) ==
    /\ pc[p] = "record"
    /\ SaveState(snap[p])
    /\ \E f \in Fault :
        /\ First(p, f)
        /\ Left(p, todo[p] \ {f})
        /\ Goto(p, IF Saved /\ todo[p] # {f} THEN "inject" ELSE "idle")
    /\ UNCHANGED <<up, present, landed, files, snap, aborts>>

BreakGiveUp(p) ==
    /\ pc[p] = "giveup"
    /\ SaveState(snap[p])
    /\ Goto(p, "idle")
    /\ UNCHANGED <<up, present, landed, files, snap, todo, aborts>>

-----------------------------------------------------------------------------
(* Fix: one fault of the scenario by name, or all that are recorded *)

FixBegin(p) ==
    /\ pc[p] = "idle"
    /\ Live(state)
    /\ \E ids \in {state.injected} \union {{f} : f \in Fault} :
        /\ ids # {}
        /\ Left(p, ids)
    /\ Goto(p, "fix")
    /\ UNCHANGED <<up, present, landed, state, files, snap, aborts>>

FixOne(p) ==
    /\ pc[p] = "fix"
    /\ up
    /\ \E f \in Fault :
        /\ First(p, f)
        /\ present' = present \ {f}
        /\ Left(p, todo[p] \ {f})
        /\ Goto(p, IF todo[p] = {f} THEN "idle" ELSE "fix")
    /\ UNCHANGED <<up, landed, state, files, snap, aborts>>

\* fix.sh failed: the faults after it are left alone.
FixFails(p) ==
    /\ pc[p] = "fix"
    /\ \E f \in Fault : First(p, f) /\ present' \in {present, present \ {f}}
    /\ Goto(p, "idle")
    /\ UNCHANGED <<up, landed, state, files, snap, todo, aborts>>

-----------------------------------------------------------------------------
(* Down *)

\* provider.Down comes first, and whether the state is live is not asked.
DownBegin(p) ==
    /\ pc[p] = "idle"
    /\ up' = FALSE
    /\ present' = {}
    /\ landed' = {}
    /\ \E purge \in BOOLEAN : Goto(p, IF purge THEN "purge" ELSE "clean")
    /\ UNCHANGED <<state, files, snap, todo, aborts>>

DownPurge(p) ==
    /\ pc[p] = "purge"
    /\ files' = {}
    /\ state' = NoState
    /\ Goto(p, "idle")
    /\ UNCHANGED <<up, present, landed, snap, todo, aborts>>

\* What Up rendered goes; then the state is read, to be stamped if live.
DownClean(p) ==
    /\ pc[p] = "clean"
    /\ files' = files \ {"owned"}
    /\ Keep(p, state)
    /\ Goto(p, IF Live(state) THEN "stamp" ELSE "tidy")
    /\ UNCHANGED <<up, present, landed, state, todo, aborts>>

DownStamp(p) ==
    /\ pc[p] = "stamp"
    /\ SaveState(TornDown(snap[p]))
    /\ Goto(p, IF Saved THEN "tidy" ELSE "idle")
    /\ UNCHANGED <<up, present, landed, files, snap, todo, aborts>>

\* The workdir goes when it holds nothing, the state file included.
DownTidy(p) ==
    /\ pc[p] = "tidy"
    /\ Goto(p, IF files = {"dir"} /\ state = NoState THEN "rmdir" ELSE "idle")
    /\ UNCHANGED <<up, present, landed, state, files, snap, todo, aborts>>

DownRemoveDir(p) ==
    /\ pc[p] = "rmdir"
    /\ files' = {}
    /\ state' = NoState
    /\ Goto(p, "idle")
    /\ UNCHANGED <<up, present, landed, snap, todo, aborts>>

-----------------------------------------------------------------------------
(* The rest of the world *)

\* A command is killed, or returns on an error of the file system or of the
\* provider, having done what it did.
Abort(p) ==
    /\ pc[p] # "idle"
    /\ aborts < MaxAborts
    /\ aborts' = aborts + 1
    /\ Goto(p, "idle")
    /\ UNCHANGED <<up, present, landed, state, files, snap, todo>>

CandidateFixes ==
    /\ \E f \in present : present' = present \ {f}
    /\ UNCHANGED <<up, landed, state, files, pc, snap, todo, aborts>>

\* A session, which needs the state to start, leaves its recording, score
\* and hints in the workdir.
SessionWritesEvidence ==
    /\ state.kind # "none"
    /\ "dir" \in files
    /\ files' = files \union {"evidence"}
    /\ UNCHANGED <<up, present, landed, state, pc, snap, todo, aborts>>

Up(p) ==
    \/ UpBegin(p) \/ UpProvision(p) \/ UpProvisionFails(p)
    \/ UpVerify(p) \/ UpRead(p) \/ UpSave(p)
Break(p) ==
    \/ BreakBegin(p) \/ BreakInject(p) \/ BreakInjectFails(p)
    \/ BreakRecord(p) \/ BreakGiveUp(p)
Fix(p) == FixBegin(p) \/ FixOne(p) \/ FixFails(p)
Down(p) ==
    \/ DownBegin(p) \/ DownPurge(p) \/ DownClean(p)
    \/ DownStamp(p) \/ DownTidy(p) \/ DownRemoveDir(p)

Next ==
    \/ \E p \in Procs : Up(p) \/ Break(p) \/ Fix(p) \/ Down(p) \/ Abort(p)
    \/ CandidateFixes
    \/ SessionWritesEvidence

Spec == Init /\ [][Next]_vars

-----------------------------------------------------------------------------
(* One command at a time, the way an interview is run: every property below *)
(* is about this use, and two commands that race break it.                  *)

OneAtATime == \A p, q \in Procs : p = q

Recorded == IF Live(state) THEN state.injected ELSE {}

\* "A pack that fails partway has still broken the environment": every fault
\* in the environment is recorded, but for the one whose inject was cut short
\* or failed, and that one is the first the next Break injects again.  Holds
\* across failing scripts, killed commands, repeated Ups and teardowns.
OnlyNextFaultUnrecorded ==
    \A f \in present \ Recorded : \A g \in Fault : g < f => g \in Recorded

\* "Stamping it keeps every later command able to say the environment is
\* gone": only bringing the environment up again makes a stamped state live.
TeardownSticks ==
    [][state.kind = "torn" /\ Live(state') => \E p \in Procs : pc[p] = "save"]_vars

\* "Never drop what is already recorded": while the environment lives, the
\* record of its faults only grows, whatever Up, Break or Fix do and fail at.
RecordOnlyGrows ==
    [][Live(state) /\ Live(state') => state.injected \subseteq state'.injected]_vars

\* A Break that runs to its end leaves the whole pack recorded and injected
\* into the environment that is there, whatever earlier commands left undone.
BreakInjectsWholePack ==
    [][\A p \in Procs :
        pc[p] = "record" /\ pc'[p] = "idle" /\ todo'[p] = {} /\ aborts' = aborts
        => Recorded' = Fault /\ Fault \subseteq landed']_vars
=============================================================================
