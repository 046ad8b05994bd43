------------------------------ MODULE Registry ------------------------------
(***************************************************************************)
(* The session registry of one interviewer's machine                       *)
(* (internal/interview/interview.go) under the commands that write it:     *)
(* start, end, bundle, and the stage commands sent, returned and reviewed  *)
(* (internal/cli).                                                         *)
(*                                                                         *)
(* The registry is one file per session and a marker naming the session an *)
(* unqualified command means.  No lock covers them: a command reads and    *)
(* writes whole files between slow calls that build or destroy what the    *)
(* record names, and another terminal can run in each gap.                 *)
(*                                                                         *)
(* What a teardown goes for is read off files: the pins in the workdir's   *)
(* state.json, terraform's state of the workspace.  A build cut short      *)
(* leaves what these do not name.                                          *)
(***************************************************************************)
EXTENDS Naturals, FiniteSets

CONSTANTS
    Seeds,       \* interview ids
    NoSeed,      \* the marker file is missing
    Procs,       \* the terminals commands run in; one terminal is serial use
    UsesOf,      \* the modes each id is ever started with
    PinnedSeeds, \* the ids that are ever started with a --set
    MaxCrashes   \* bound on the commands killed before they return

Live == {"local", "aws"}
Modes == Live \union {"offline"}
Stages == {"created", "sent", "returned", "reviewed"}

ASSUME SeedAssumption == NoSeed \notin Seeds
ASSUME UsesAssumption == UsesOf \in [Seeds -> SUBSET Modes]
ASSUME PinAssumption == PinnedSeeds \subseteq Seeds
ASSUME CrashAssumption == MaxCrashes \in Nat

VARIABLES
    rec,        \* the record on disk of each id
    marker,     \* the id in the current file
    resource,   \* the environments and hosts that exist, by id
    saved,      \* the environment the state.json of each id's workdir is of
    pc,         \* where each command is
    mem,        \* the session record a command holds in memory
    crashes     \* commands killed so far

vars == <<rec, marker, resource, saved, pc, mem, crashes>>

Records == [mode : Modes \union {"none"}, ended : BOOLEAN,
            stage : Stages \union {"none"}]
NoRec == [mode |-> "none", ended |-> FALSE, stage |-> "none"]
Fresh(m) == [mode |-> m, ended |-> FALSE,
             stage |-> IF m = "offline" THEN "created" ELSE "none"]

\* Environments of an id: of its seed alone, or with a --set too; its host, and a host
\* that terraform did not come to save.
Variants == {"seeded", "pinned"}
Hosts == {"host", "lost host"}
KindOf(e) == IF e \in Variants THEN "local" ELSE "aws"

Nothing == [seed |-> NoSeed, record |-> NoRec, env |-> "none"]
Memory == [seed : Seeds \union {NoSeed}, record : Records,
           env : Variants \union {"host", "none"}]

Recorded(s) == rec[s].mode # "none"
Open(s) == Recorded(s) /\ ~rec[s].ended

Starting == {"mark", "build", "publish"}
Ending == {"down", "record", "clear", "unmark"}
Delivering == {"lookup", "mark drop"}
Label == {"idle", "stage"} \union Starting \union Ending \union Delivering

TypeOK ==
    /\ rec \in [Seeds -> Records]
    /\ marker \in Seeds \union {NoSeed}
    /\ resource \in [Seeds -> SUBSET (Variants \union Hosts)]
    /\ saved \in [Seeds -> Variants \union {"none"}]
    /\ pc \in [Procs -> Label]
    /\ mem \in [Procs -> Memory]
    /\ \A p \in Procs :
        /\ pc[p] # "idle" => mem[p].seed \in Seeds
        /\ pc[p] \in Starting => mem[p].record.mode \in Live
        /\ pc[p] \in Starting \union {"down"} =>
            mem[p].env # "none" /\ KindOf(mem[p].env) = mem[p].record.mode
    /\ crashes \in 0..MaxCrashes

Init ==
    /\ rec = [s \in Seeds |-> NoRec]
    /\ marker = NoSeed
    /\ resource = [s \in Seeds |-> {}]
    /\ saved = [s \in Seeds |-> "none"]
    /\ pc = [p \in Procs |-> "idle"]
    /\ mem = [p \in Procs |-> Nothing]
    /\ crashes = 0

-----------------------------------------------------------------------------
(* Steps of a command. *)

Goto(p, label) == pc' = [pc EXCEPT ![p] = label]
Hold(p, s, r, e) == mem' = [mem EXCEPT ![p] = [seed |-> s, record |-> r, env |-> e]]
Save(s, r) == rec' = [rec EXCEPT ![s] = r]

\* The command returns, forgetting what it held.
Return(p) ==
    /\ Goto(p, "idle")
    /\ mem' = [mem EXCEPT ![p] = Nothing]

\* What Current returns: the marked session, whatever its state, if its record
\* can be read; else the only open one; else nothing, there being none or many.
Current ==
    IF marker # NoSeed /\ Recorded(marker) THEN {marker}
    ELSE {s \in Seeds : /\ Open(s)
                        /\ \A t \in Seeds : Open(t) => t = s}

\* resolveProblem: what is pinned now, else what was when the environment was built, else
\* the seed alone.  Terraform's workspace has one host.
Resolved(s, m, pinned) ==
    IF m = "aws" THEN "host"
    ELSE IF pinned THEN "pinned"
    ELSE IF saved[s] # "none" THEN saved[s] ELSE "seeded"

-----------------------------------------------------------------------------
(* start, for a live environment: cmdStart and startRemote. *)

\* An id may be one already in use: --seed is not checked against the registry.
StartRecord(p, s, m, pinned) ==
    /\ pc[p] = "idle"
    /\ m \in UsesOf[s] \intersect Live
    /\ pinned => m = "local" /\ s \in PinnedSeeds
    /\ Hold(p, s, Fresh(m), Resolved(s, m, pinned))
    /\ Save(s, Fresh(m))
    /\ Goto(p, "mark")
    /\ UNCHANGED <<marker, resource, saved, crashes>>

StartMark(p) ==
    /\ pc[p] = "mark"
    /\ marker' = mem[p].seed
    /\ Goto(p, "build")
    /\ UNCHANGED <<rec, resource, saved, mem, crashes>>

Added(p, e) == [resource EXCEPT ![mem[p].seed] = @ \union {e}]
Noted(p) == IF mem[p].env \in Variants THEN [saved EXCEPT ![mem[p].seed] = mem[p].env] ELSE saved

\* Up, which saves its state last, Break and the session's start, or terraform apply.
StartBuild(p) ==
    /\ pc[p] = "build"
    /\ resource' = Added(p, mem[p].env) /\ saved' = Noted(p)
    /\ Goto(p, "publish")
    /\ UNCHANGED <<rec, marker, mem, crashes>>

\* As far as a build may have come: nothing is up, or what is up is not saved yet, or
\* what comes after that failed.
CutShort(p) ==
    \/ UNCHANGED <<resource, saved>>
    \/ resource' = Added(p, mem[p].env) /\ saved' \in {saved, Noted(p)}
    \/ mem[p].env = "host" /\ resource' = Added(p, "lost host") /\ UNCHANGED saved

StartBuildFails(p) ==
    /\ pc[p] = "build"
    /\ CutShort(p)
    /\ Return(p)
    /\ UNCHANGED <<rec, marker, crashes>>

\* The record as it was when start began, with the URLs added.
StartPublish(p) ==
    /\ pc[p] = "publish"
    /\ Save(mem[p].seed, mem[p].record)
    /\ Return(p)
    /\ UNCHANGED <<marker, resource, saved, crashes>>

Start(p) ==
    \/ \E s \in Seeds, m \in Live, pinned \in BOOLEAN : StartRecord(p, s, m, pinned)
    \/ StartMark(p)
    \/ StartBuild(p)
    \/ StartBuildFails(p)
    \/ StartPublish(p)

-----------------------------------------------------------------------------
(* end: cmdEnd and endRemote.  The id is given or is Current's, which is *)
(* always some recorded one.  An offline session has no environment to   *)
(* end, and the command fails before it changes anything.                *)

EndLoad(p, s) ==
    /\ pc[p] = "idle"
    /\ rec[s].mode \in Live
    /\ Hold(p, s, rec[s], Resolved(s, rec[s].mode, FALSE))
    /\ Goto(p, "down")
    /\ UNCHANGED <<rec, marker, resource, saved, crashes>>

Destroyed(p) == [resource EXCEPT ![mem[p].seed] = @ \ {mem[p].env}]
Purged(p) == [saved EXCEPT ![mem[p].seed] = "none"]

\* Plausible bug: a failed teardown is reported and the session recorded as
\* ended all the same.
EndDownFailsOn(p) ==
    /\ pc[p] = "down"
    /\ resource' \in {resource, Destroyed(p)} /\ saved' \in {saved, Purged(p)}
    /\ Goto(p, "record")
    /\ UNCHANGED <<rec, marker, mem, crashes>>

\* It succeeds over an environment that is not there.  A --purge takes the workdir too.
EndDown(p) ==
    /\ pc[p] = "down"
    /\ resource' = Destroyed(p) /\ saved' \in {saved, Purged(p)}
    /\ Goto(p, "record")
    /\ UNCHANGED <<rec, marker, mem, crashes>>

\* As far as a teardown may have come.
DownCutShort(p) ==
    \/ UNCHANGED <<resource, saved>>
    \/ resource' = Destroyed(p) /\ saved' \in {saved, Purged(p)}

\* The teardown fails: the record stays open.
EndDownFails(p) ==
    /\ pc[p] = "down"
    /\ DownCutShort(p)
    /\ Return(p)
    /\ UNCHANGED <<rec, marker, crashes>>

EndRecord(p) ==
    /\ pc[p] = "record"
    /\ Save(mem[p].seed, [mem[p].record EXCEPT !.ended = TRUE])
    /\ Goto(p, "clear")
    /\ UNCHANGED <<marker, resource, saved, mem, crashes>>

\* ClearCurrent reads the marker, and removes it if it named the session.
EndReadMarker(p) ==
    /\ pc[p] = "clear"
    /\ IF marker = mem[p].seed
       THEN Goto(p, "unmark") /\ UNCHANGED mem
       ELSE Return(p)
    /\ UNCHANGED <<rec, marker, resource, saved, crashes>>

EndUnmark(p) ==
    /\ pc[p] = "unmark"
    /\ marker' = NoSeed
    /\ Return(p)
    /\ UNCHANGED <<rec, resource, saved, crashes>>

End(p) ==
    \/ \E s \in Seeds : EndLoad(p, s)
    \/ EndDown(p)
    \/ EndDownFails(p)
    \/ EndRecord(p)
    \/ EndReadMarker(p)
    \/ EndUnmark(p)

-----------------------------------------------------------------------------
(* start and bundle, for an offline interview: deliver. *)

DeliverRecord(p, s) ==
    /\ pc[p] = "idle"
    /\ "offline" \in UsesOf[s]
    /\ Hold(p, s, Fresh("offline"), "none")
    /\ Save(s, Fresh("offline"))
    /\ Goto(p, "lookup")
    /\ UNCHANGED <<marker, resource, saved, crashes>>

Busy(p) == \E c \in Current : c # mem[p].seed /\ Open(c)

\* Plausible bug: the drop is marked whatever Current says, as start does.
DeliverAlwaysMarks(p) ==
    /\ pc[p] = "lookup"
    /\ Goto(p, "mark drop")
    /\ UNCHANGED <<rec, marker, resource, saved, mem, crashes>>

\* SetCurrentIfIdle asks Current, and marks the drop unless another open
\* session is current.
DeliverLookup(p) ==
    /\ pc[p] = "lookup"
    /\ IF Busy(p) THEN Return(p) ELSE Goto(p, "mark drop") /\ UNCHANGED mem
    /\ UNCHANGED <<rec, marker, resource, saved, crashes>>

DeliverMark(p) ==
    /\ pc[p] = "mark drop"
    /\ marker' = mem[p].seed
    /\ Return(p)
    /\ UNCHANGED <<rec, resource, saved, crashes>>

Deliver(p) ==
    \/ \E s \in Seeds : DeliverRecord(p, s)
    \/ DeliverLookup(p)
    \/ DeliverMark(p)

-----------------------------------------------------------------------------
(* sent, returned, reviewed: cmdStage.  No order of the stages is enforced. *)

\* Plausible bug: the stage goes into the field that says what the session is.
StagedInMode(r, stage) == [r EXCEPT !.mode = stage]

Staged(r, stage) ==
    [r EXCEPT !.stage = stage, !.ended = @ \/ stage = "reviewed"]

StageLoad(p, s, stage) ==
    /\ pc[p] = "idle"
    /\ rec[s].mode = "offline"
    /\ Hold(p, s, Staged(rec[s], stage), "none")
    /\ Goto(p, "stage")
    /\ UNCHANGED <<rec, marker, resource, saved, crashes>>

StageSave(p) ==
    /\ pc[p] = "stage"
    /\ Save(mem[p].seed, mem[p].record)
    /\ Return(p)
    /\ UNCHANGED <<marker, resource, saved, crashes>>

Stage(p) ==
    \/ \E s \in Seeds, stage \in Stages \ {"created"} : StageLoad(p, s, stage)
    \/ StageSave(p)

-----------------------------------------------------------------------------

Crash(p) ==
    /\ pc[p] # "idle"
    /\ crashes < MaxCrashes
    /\ crashes' = crashes + 1
    /\ \/ pc[p] = "build" /\ CutShort(p)
       \/ pc[p] = "down" /\ DownCutShort(p)
       \/ pc[p] \notin {"build", "down"} /\ UNCHANGED <<resource, saved>>
    /\ Return(p)
    /\ UNCHANGED <<rec, marker>>

\* Outside the program: a host's own timer or the account's reaper destroys it,
\* or somebody deletes the cluster by hand.
Vanish(s, e) ==
    /\ e \in resource[s]
    /\ resource' = [resource EXCEPT ![s] = @ \ {e}]
    /\ UNCHANGED <<rec, marker, saved, pc, mem, crashes>>

Command(p) == Start(p) \/ End(p) \/ Deliver(p) \/ Stage(p)

Next ==
    \/ \E p \in Procs : Command(p) \/ Crash(p)
    \/ \E s \in Seeds, e \in Variants \union Hosts : Vanish(s, e)

Spec == Init /\ [][Next]_vars

-----------------------------------------------------------------------------
(* Properties *)

\* Whatever was built, however its build ended and whatever runs beside it, has a record
\* of its kind under its id, from which a command can start: "Record before building",
\* cli/interview.go:140.  An id keeps to one mode here: start --seed with an id in use in
\* another mode overwrites its record.
EveryResourceIsNamed ==
    \A s \in Seeds : \A e \in resource[s] : rec[s].mode = KindOf(e)

\* An ended record, from one terminal, has nothing left that the id's own files name: over
\* kills, teardowns that failed halfway and starts again, none ends over what it could
\* have found.  Without a --set nothing is left at all but a host terraform did not save;
\* with one, an environment is that a start was stopped over before it saved its pins, or
\* that a later start with other pins displaced (resolveProblem, cli/common.go:343).
EndedOverNothingNamed ==
    \A s \in Seeds : rec[s].ended =>
        /\ saved[s] \notin resource[s] /\ "host" \notin resource[s]
        /\ s \notin PinnedSeeds => resource[s] \subseteq {"lost host"}

\* Once a session is marked and open, only a start repoints unqualified
\* commands at another one; preparing a drop beside it never does (SetCurrentIfIdle).
OnlyStartRetargets ==
    [][marker # NoSeed /\ marker' \notin {marker, NoSeed} /\ Open(marker) =>
          \E p \in Procs : pc[p] = "mark"]_vars

=============================================================================
