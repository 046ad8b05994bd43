------------------------------ MODULE Evidence ------------------------------
(***************************************************************************)
(* The evidence of a session: internal/session/evidence.go and timeline.go,*)
(* with the score of `grade score`, and the teardown it races.             *)
(*                                                                         *)
(* An evidence pass reads the checks of the injected faults, writes        *)
(* score.json, builds an archive of the workdir's files beside the last    *)
(* one, renames it into place and, on a host, uploads it.  A timer runs    *)
(* one every two minutes, `session stop` takes the last, and `end` tears   *)
(* the environment down after it.  A timeline tick reads the same checks   *)
(* and appends what they say.  All of them are processes of their own.     *)
(***************************************************************************)
EXTENDS Recorder, FiniteSets

CONSTANTS
    Procs,          \* processes that run a pass, a tick or a stop
    Commands,       \* what is run: some of AllCommands
    Faults,         \* the faults state.json records as injected
    Inodes,         \* archives the disk holds at once
    None,           \* no archive, no process
    MaxFaults       \* bound on failed steps, killed processes and starts over nothing

\* The timer's pass, `grade score`, a tick, and the two that take the last pass.
AllCommands == {"sync", "score", "tick", "stop", "end"}

ASSUME EvidenceAssumption ==
    /\ Commands \subseteq AllCommands
    /\ Faults # {} /\ IsFiniteSet(Faults)
    /\ None \notin Procs /\ None \notin Inodes
    /\ MaxFaults \in Nat

VARIABLES
    env,            \* whether the environment is there
    live,           \* whether state.json says it is
    fixed,          \* the faults the candidate has repaired
    ended,          \* whether the session's record is marked ended
    score,          \* score.json: a reading of every fault
    scoreError,     \* whether there is a score-error.txt
    disk,           \* the archive in each inode
    tmp, bundle,    \* the inodes under evidence.tar.gz.tmp and evidence.tar.gz
    bucket,         \* of the archive in S3: the recording, and whether it is whole
    pass,           \* each process: where it is, and what it knows
    mishaps         \* failed steps, killed processes and starts over nothing so far

environment == <<env, live, fixed, ended>>
workdir == <<score, scoreError>>
archives == <<disk, tmp, bundle, bucket>>
vars == <<recording, environment, workdir, archives, pass, mishaps>>

Verdicts == {"fixed", "broken", "unread"}
NoReading == [f \in Faults |-> "none"]
Readings == [Faults -> Verdicts \union {"none"}]

\* What an archive holds of the files the properties speak of, who truncated it
\* (None once somebody else wrote into it too), and whether it has its trailer.
Archives == [writer : Procs \union {None}, whole : BOOLEAN, score : Readings,
             error : BOOLEAN, cast : [Segments -> 0..MaxStarts],
             log : SUBSET ((1..MaxStarts) \X (1..MaxSegments))]
Empty(p) == [writer |-> p, whole |-> FALSE, score |-> NoReading, error |-> FALSE,
             cast |-> NoCast, log |-> {}]
NoArchive == Empty(None)
Whole(archive) == archive.whole /\ archive.writer # None
Uploaded(archive) == [whole |-> Whole(archive), cast |-> archive.cast]

Refreshing == {"load", "status", "check", "write", "note"}
Members == {"score.json", "session.cast", "segments", "recorder.log", "score-error.txt"}
Bundling == Members \union {"open", "close", "rename", "remove", "upload"}
Ending == {"signal", "kill-session", "destroy", "stamp", "record"}
Idle == [pc |-> "idle", doing |-> "sync", read |-> NoReading, failed |-> FALSE,
         fd |-> None]

TypeOK ==
    /\ RecorderTypeOK
    /\ {env, live, ended, scoreError} \subseteq BOOLEAN
    /\ fixed \subseteq Faults
    /\ score \in [Faults -> Verdicts] \union {NoReading}
    /\ disk \in [Inodes -> Archives]
    /\ {tmp, bundle} \subseteq Inodes \union {None}
    /\ bucket \in [whole : BOOLEAN, cast : [Segments -> 0..MaxStarts]]
    /\ pass \in [Procs -> [pc : {"idle", "append"} \union Refreshing \union Bundling
                                \union Ending,
                           doing : AllCommands, read : Readings, failed : BOOLEAN,
                           fd : Inodes \union {None}]]
    /\ \A p \in Procs : pass[p].fd # None => pass[p].pc \in Bundling
    /\ mishaps \in 0..MaxFaults

\* An environment is up and broken; nothing is recorded.
Init ==
    /\ RecorderInit
    /\ env = TRUE /\ live = TRUE /\ fixed = {} /\ ended = FALSE
    /\ score = NoReading /\ scoreError = FALSE
    /\ disk = [i \in Inodes |-> NoArchive]
    /\ tmp = None /\ bundle = None /\ bucket = Uploaded(NoArchive)
    /\ pass = [p \in Procs |-> Idle]
    /\ mishaps = 0

----------------------------------------------------------------------------
\* Moves of a process.

At(p, label) == pass[p].pc = label
Goto(p, label) == pass' = [pass EXCEPT ![p].pc = label]
Fails == mishaps < MaxFaults /\ mishaps' = mishaps + 1
Works == UNCHANGED mishaps

\* Evidence returns: `end` goes on to the teardown whatever it returned.
AfterEvidence(p) == IF pass[p].doing = "end" THEN "destroy" ELSE "idle"
\* Plausible bug: an error path leaves the archive's descriptor open.
ReturnOpen(p) ==
    pass' = [pass EXCEPT ![p].pc = AfterEvidence(p), ![p].read = NoReading,
                         ![p].failed = FALSE]

Return(p) ==
    pass' = [pass EXCEPT ![p] = IF AfterEvidence(p) = "idle" THEN Idle
                                ELSE [Idle EXCEPT !.pc = "destroy", !.doing = "end"]]

\* The timer, or somebody at a terminal.
Begin(p, command) ==
    /\ At(p, "idle")
    /\ pass' = [pass EXCEPT ![p] = [Idle EXCEPT !.doing = command, !.pc =
                   CASE command = "sync" -> "load"
                     [] command \in {"score", "tick"} -> "status"
                     [] command \in {"stop", "end"} -> "signal"]]
    /\ UNCHANGED <<recording, environment, workdir, archives, mishaps>>

----------------------------------------------------------------------------
\* Refreshing the score.

\* Evidence refreshes only what state.json calls live.
Load(p) ==
    /\ At(p, "load")
    /\ Goto(p, IF live THEN "status" ELSE "open")
    /\ UNCHANGED <<recording, environment, workdir, archives, mishaps>>

\* RefreshScore fails: Evidence keeps the error, `grade score` reports it.
RefreshFails(p) ==
    pass' = [pass EXCEPT ![p] = IF @.doing \in {"score", "tick"} THEN Idle
                                ELSE [@ EXCEPT !.pc = "note", !.failed = TRUE,
                                               !.read = NoReading]]

\* Plausible bug: a state that was read is taken for a live one.
StatusUnchecked(p) ==
    /\ At(p, "status")
    /\ Goto(p, "check")
    /\ UNCHANGED <<recording, environment, workdir, archives, mishaps>>

\* Status reads state.json again.
Status(p) ==
    /\ At(p, "status")
    /\ IF live THEN Goto(p, "check") ELSE RefreshFails(p)
    /\ UNCHANGED <<recording, environment, workdir, archives, mishaps>>

\* What a check says of a fault: the truth of an environment that is there, and of
\* one that is not whatever its exit status is taken for.
Says(f) == CASE ~env -> {"broken", "unread"}
             [] env /\ f \in fixed -> {"fixed"}
             [] env /\ f \notin fixed -> {"broken"}

Reads(p, read) == CASE \E g \in Faults : read[g] = "none" -> "check"
                    [] OTHER -> IF pass[p].doing = "tick" THEN "append" ELSE "write"

\* One check script; after the last, a tick appends and the rest write the score.
Check(p) ==
    /\ At(p, "check")
    /\ \E f \in Faults :
        /\ pass[p].read[f] = "none"
        /\ \E v \in Verdicts :
            /\ \/ v \in Says(f) /\ Works
               \/ v \in {"broken", "unread"} \ Says(f) /\ Fails
            /\ LET read == [pass[p].read EXCEPT ![f] = v] IN
               pass' = [pass EXCEPT ![p].read = read, ![p].pc = Reads(p, read)]
    /\ UNCHANGED <<recording, environment, workdir, archives>>

\* The pack, the end-to-end verify and WriteScore, an atomic replacement.
WriteScore(p) ==
    /\ At(p, "write")
    /\ \/ /\ Works
          /\ score' = pass[p].read
          /\ pass' = [pass EXCEPT ![p] = IF @.doing = "score" THEN Idle
                                         ELSE [@ EXCEPT !.pc = "open", !.read = NoReading]]
       \/ Fails /\ UNCHANGED score /\ RefreshFails(p)
    /\ UNCHANGED <<recording, environment, scoreError, archives>>

\* score-error.txt; without it the pass gives up its bundle too.
NoteError(p) ==
    /\ At(p, "note")
    /\ \/ Works /\ scoreError' = TRUE /\ Goto(p, "open")
       \/ Fails /\ UNCHANGED scoreError /\ Return(p)
    /\ UNCHANGED <<recording, environment, score, archives>>

\* A tick appends its rows to timeline.jsonl, or some of them.  The model keeps
\* none: it is when they are appended that matters here.
Append(p) ==
    /\ At(p, "append")
    /\ pass' = [pass EXCEPT ![p] = Idle]
    /\ UNCHANGED <<recording, environment, workdir, archives, mishaps>>

----------------------------------------------------------------------------
\* The bundle.

\* What a process writes goes to the inode it opened, whatever its name is by
\* now; an archive two processes wrote into is nobody's.
Put(p, archive) ==
    LET i == pass[p].fd IN
    disk' = [disk EXCEPT ![i] = [archive EXCEPT !.writer = IF @ = p THEN p ELSE None]]
Archive(p) == disk[pass[p].fd]

\* An inode that lost its name: nobody reads it again.
Unlink(i) == disk' = [j \in Inodes |-> IF j = i THEN NoArchive ELSE disk[j]]

\* Plausible bug: O_EXCL, against two passes writing into one archive.
OpenExclusive(p) ==
    /\ At(p, "open")
    /\ \/ /\ tmp = None /\ Works
          /\ \E i \in Inodes :
              /\ i # bundle /\ \A q \in Procs : pass[q].fd # i
              /\ tmp' = i
              /\ disk' = [disk EXCEPT ![i] = Empty(p)]
              /\ pass' = [pass EXCEPT ![p].pc = "score.json", ![p].fd = i]
       \/ /\ IF tmp = None THEN Fails ELSE Works
          /\ Return(p) /\ UNCHANGED <<disk, tmp>>
    /\ UNCHANGED <<recording, environment, workdir, bundle, bucket>>

\* O_CREATE and O_TRUNC on the one temporary name.
Open(p) ==
    /\ At(p, "open")
    /\ \/ /\ Works
          /\ \E i \in Inodes :
              /\ IF tmp # None THEN i = tmp
                 ELSE i # bundle /\ \A q \in Procs : pass[q].fd # i
              /\ tmp' = i
              /\ disk' = [disk EXCEPT ![i] = Empty(p)]
              /\ pass' = [pass EXCEPT ![p].pc = "score.json", ![p].fd = i]
       \/ Fails /\ Return(p) /\ UNCHANGED <<disk, tmp>>
    /\ UNCHANGED <<recording, environment, workdir, bundle, bucket>>

\* Plausible bug: recorder.log is copied before the segments.
AfterLogFirst == [name \in Members |->
    CASE name = "score.json" -> "session.cast"
      [] name = "session.cast" -> "recorder.log"
      [] name = "recorder.log" -> "segments"
      [] name = "segments" -> "score-error.txt"
      [] name = "score-error.txt" -> "close"]

\* evidenceFiles: the order they are copied in, the segments behind session.cast.
After == [name \in Members |->
    CASE name = "score.json" -> "session.cast"
      [] name = "session.cast" -> "segments"
      [] name = "segments" -> "recorder.log"
      [] name = "recorder.log" -> "score-error.txt"
      [] name = "score-error.txt" -> "close"]

\* Plausible bug: a file that came up short fails the pass but not the rename.
MemberKept(p, name, archive) ==
    /\ At(p, name)
    /\ \/ Works /\ Put(p, archive) /\ Goto(p, After[name])
       \/ Fails /\ UNCHANGED disk /\ Goto(p, "rename")
    /\ UNCHANGED <<recording, environment, workdir, tmp, bundle, bucket>>

\* One file: as it is now, or the pass fails on it.
Member(p, name, archive) ==
    /\ At(p, name)
    /\ \/ Works /\ Put(p, archive) /\ Goto(p, After[name])
       \/ Fails /\ UNCHANGED disk /\ Goto(p, "remove")
    /\ UNCHANGED <<recording, environment, workdir, tmp, bundle, bucket>>

\* castSegments: the numbered files from 1 to the first that is missing.
Contiguous == {k \in Segments \ {0} : \A j \in 1..k : cast[j] # 0}

AddScore(p) ==
    Member(p, "score.json", [Archive(p) EXCEPT !.score = score])
AddCast(p) ==
    Member(p, "session.cast", [Archive(p) EXCEPT !.cast[0] = cast[0]])
AddSegments(p) ==
    Member(p, "segments",
           [Archive(p) EXCEPT !.cast =
               [k \in Segments |-> IF k \in Contiguous THEN cast[k] ELSE @[k]]])
AddRecorderLog(p) ==
    Member(p, "recorder.log", [Archive(p) EXCEPT !.log = log])
AddScoreError(p) ==
    Member(p, "score-error.txt", [Archive(p) EXCEPT !.error = scoreError])

AddMember(p) ==
    \/ AddScore(p) \/ AddCast(p) \/ AddSegments(p) \/ AddRecorderLog(p) \/ AddScoreError(p)

\* The trailers, and the descriptor is closed.
Close(p) ==
    /\ At(p, "close")
    /\ \/ Works /\ Put(p, [Archive(p) EXCEPT !.whole = TRUE])
          /\ pass' = [pass EXCEPT ![p].pc = "rename", ![p].fd = None]
       \/ Fails /\ UNCHANGED disk /\ Goto(p, "remove")
    /\ UNCHANGED <<recording, environment, workdir, tmp, bundle, bucket>>

\* The rename takes what has the temporary name, and fails when nothing has.
Rename(p) ==
    /\ At(p, "rename")
    /\ \/ /\ tmp # None /\ Works
          /\ bundle' = tmp /\ tmp' = None /\ Unlink(bundle)
          /\ IF pass[p].doing = "sync" THEN Goto(p, "upload") ELSE Return(p)
       \/ /\ IF tmp = None THEN Works ELSE Fails
          /\ UNCHANGED <<disk, tmp, bundle>>
          /\ Goto(p, "remove")
    /\ UNCHANGED <<recording, environment, workdir, bucket>>

\* Plausible bug: what a failed pass removes is the name it was to publish.
RemoveBundle(p) ==
    /\ At(p, "remove")
    /\ bundle' = None /\ Unlink(bundle)
    /\ Return(p)
    /\ UNCHANGED <<recording, environment, workdir, tmp, bucket, mishaps>>

\* A failed pass removes the temporary name, and there is no upload.
Remove(p) ==
    /\ At(p, "remove")
    /\ tmp' = None /\ Unlink(tmp)
    /\ Return(p)
    /\ UNCHANGED <<recording, environment, workdir, bundle, bucket, mishaps>>

\* aws s3 cp evidence.tar.gz: S3 replaces an object whole, or not at all.
Upload(p) ==
    /\ At(p, "upload")
    /\ \/ Works /\ bucket' = Uploaded(disk[bundle])
       \/ Fails /\ UNCHANGED bucket
    /\ Return(p)
    /\ UNCHANGED <<recording, environment, workdir, disk, tmp, bundle>>

----------------------------------------------------------------------------
\* The end of a session.

\* Stop kills the recorder's loop, or fails to ask which processes are alive and
\* leaves everything to `end`, which only says so.
Signal(p) ==
    /\ At(p, "signal")
    /\ \/ Works /\ supervisor' = "off" /\ Goto(p, "kill-session")
       \/ Fails /\ UNCHANGED supervisor /\ Return(p)
    /\ UNCHANGED <<session, starts, n, cast, log, environment, workdir, archives>>

\* Plausible bug: the session is left up while the pass is taken.
KillSessionLater(p) ==
    /\ At(p, "kill-session")
    /\ Goto(p, "load")
    /\ UNCHANGED <<recording, environment, workdir, archives, mishaps>>

\* Then the tmux session, and Stop takes its pass.
KillSession(p) ==
    /\ At(p, "kill-session")
    /\ session' = FALSE
    /\ Goto(p, "load")
    /\ UNCHANGED <<starts, supervisor, n, cast, log, environment, workdir, archives, mishaps>>

\* Down: the environment goes, or the provider fails with or without it gone.
Destroy(p) ==
    /\ At(p, "destroy")
    /\ \/ Works /\ env' = FALSE /\ Goto(p, "stamp")
       \/ Fails /\ env' \in {env, FALSE} /\ pass' = [pass EXCEPT ![p] = Idle]
    /\ UNCHANGED <<recording, live, fixed, ended, workdir, archives>>

\* state.json is stamped: the environment is no longer live.
Stamp(p) ==
    /\ At(p, "stamp")
    /\ \/ Works /\ live' = FALSE /\ Goto(p, "record")
       \/ Fails /\ UNCHANGED live /\ pass' = [pass EXCEPT ![p] = Idle]
    /\ UNCHANGED <<recording, env, fixed, ended, workdir, archives>>

\* The session's record is marked ended.
Record(p) ==
    /\ At(p, "record")
    /\ \/ Works /\ ended' = TRUE
       \/ Fails /\ UNCHANGED ended
    /\ pass' = [pass EXCEPT ![p] = Idle]
    /\ UNCHANGED <<recording, env, live, fixed, workdir, archives>>

----------------------------------------------------------------------------
\* Everybody else.

\* A session is started, or restarted, in no terminal that is ending it; its timer may be
\* at work.  That there is a state.json is all that is asked: a start over an environment
\* that is gone works, and counts among what goes wrong.
StartSession ==
    /\ \A p \in Procs : pass[p].doing \in {"stop", "end"} => At(p, "idle")
    /\ IF env THEN Works ELSE Fails
    /\ Start
    /\ UNCHANGED <<environment, workdir, archives, pass>>

\* In the session the candidate repairs a fault, or breaks it again.
Repair(f) ==
    /\ session /\ env
    /\ fixed' = IF f \in fixed THEN fixed \ {f} ELSE fixed \union {f}
    /\ UNCHANGED <<recording, env, live, ended, workdir, archives, pass, mishaps>>

Interfere ==
    /\ KillClient \/ KillServer
    /\ UNCHANGED <<environment, workdir, archives, pass, mishaps>>

RecorderStep ==
    /\ Supervise
    /\ UNCHANGED <<environment, workdir, archives, pass, mishaps>>

\* A process is killed; the temporary name stays.
Killed(p) ==
    /\ ~At(p, "idle")
    /\ Fails
    /\ pass' = [pass EXCEPT ![p] = Idle]
    /\ UNCHANGED <<recording, environment, workdir, archives>>

PassStep(p) ==
    \/ Load(p) \/ Status(p) \/ Check(p) \/ WriteScore(p) \/ NoteError(p) \/ Append(p)
    \/ Open(p) \/ AddMember(p) \/ Close(p) \/ Rename(p) \/ Remove(p) \/ Upload(p)
    \/ Signal(p) \/ KillSession(p) \/ Destroy(p) \/ Stamp(p) \/ Record(p)

Next ==
    \/ \E p \in Procs : PassStep(p) \/ Killed(p) \/ \E c \in Commands : Begin(p, c)
    \/ StartSession \/ Interfere \/ RecorderStep
    \/ \E f \in Faults : Repair(f)

\* A process that runs goes on; the timer comes round again after every pass,
\* failed or killed, whatever else was run in between.
Fairness ==
    \A p \in Procs : WF_vars(PassStep(p)) /\ SF_vars(Begin(p, "sync"))

Spec == Init /\ [][Next]_vars /\ Fairness

----------------------------------------------------------------------------
\* Properties.

\* From the first bundle on there is one, and it is whole, whatever pass fails or is
\* killed at whatever step; and so is what the upload sends (bundle, evidence.go:214).
\* One renamed by a pass whose refresh failed carries score-error.txt, for its score is
\* an older one (Evidence, evidence.go:142).
LastGoodBundleStands ==
    [][bundle # None \/ bundle' # None =>
           /\ bundle' # None /\ Whole(disk'[bundle'])
           /\ bucket' # bucket => bucket'.whole
           /\ \A p \in Procs : bundle' # bundle /\ At(p, "rename") /\ pass[p].failed =>
                  disk'[bundle'].error]_vars

\* A bundle with a numbered segment has the line of recorder.log that says why, however
\* the recorder restarts while the pass copies (evidenceFiles' order, evidence.go:31;
\* recorderScript, session.go:197); and a session ended with nothing going wrong leaves a
\* bundle with every segment there is, which nothing writes to any more (Stop,
\* session.go:729).
SegmentsAreAccountedFor ==
    /\ bundle # None =>
        \A k \in Segments \ {0} : disk[bundle].cast[k] # 0 =>
            \E s \in 1..MaxStarts : <<s, k>> \in disk[bundle].log
    /\ ended /\ mishaps = 0 =>
        bundle # None /\ disk[bundle].cast = cast /\ supervisor = "off"

\* A session ended with nothing going wrong has a score that says of each fault what was
\* true of the environment when it was destroyed (cmdEnd, cli/interview.go:229).
FinalScoreStands ==
    ended /\ mishaps = 0 =>
        \A f \in Faults : score[f] = IF f \in fixed THEN "fixed" ELSE "broken"

\* Once a session has ended no pass, tick or `grade score` changes the score or the
\* timeline: there is nothing left to read (liveState, engine.go:542).
EndedSessionIsFrozen ==
    [][ended => UNCHANGED score /\ \A p \in Procs : pass'[p].pc # "append"]_vars

\* No check is run against an environment that is gone (evidence_test.go:379).
ChecksNeedAnEnvironment ==
    [][\A p \in Procs : pass'[p].read \notin {pass[p].read, NoReading} => env]_vars

\* Every file of the recording reaches the bucket, over failed and killed passes
\* (iv-evidence-sync.service).
SegmentsReachTheBucket ==
    \A k \in Segments : cast[k] # 0 ~> bucket.cast[k] # 0

\* The recording in a bundle that is there and whole.
bundled == IF bundle # None /\ Whole(disk[bundle]) THEN disk[bundle].cast ELSE NoCast

Promised == INSTANCE Delivery WITH
    Segments <- Segments, recorded <- cast, bundled <- bundled, delivered <- bucket.cast

\* Whatever the recorder, a restart, a failed pass or a killed one does meanwhile, the
\* bundle and the object in S3 only ever move on to more of the recording (bundle,
\* evidence.go:214; Evidence, evidence.go:167): a pass is never older than what it replaces.
ImplementsDelivery == Promised!Spec
=============================================================================
