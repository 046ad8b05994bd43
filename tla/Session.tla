------------------------------ MODULE Session ------------------------------
(***************************************************************************)
(* The live layer of a session: internal/session/session.go.               *)
(*                                                                         *)
(* `session start` puts a tmux session, a recorder and two ttyd listeners  *)
(* (and, for some problems, an app forwarder) over an environment, as      *)
(* background processes whose pids it writes to pidfiles in the workdir;   *)
(* `session stop`, another process, finds them there.  The listeners bind  *)
(* two ports of the host, whatever environment they serve.  A candidate    *)
(* can end the tmux server, a process can die, a command can be killed and *)
(* the host can reboot and hand out the pids again.                        *)
(***************************************************************************)
EXTENDS Integers, FiniteSets

CONSTANTS
    Envs,              \* environments on this host, a workdir each
    Procs,             \* terminals that run start and stop
    NPids,             \* pids for the processes of one role and environment
    AppEnvs,           \* those whose problem serves an app through a forwarder
    SharedEnvs,        \* those whose tmux server is the candidate account's
    MaxFaults          \* bound on kills, failed pidfile writes and reboots

ASSUME BoundAssumption == {NPids, MaxFaults} \subseteq Nat
ASSUME KindAssumption == AppEnvs \subseteq Envs /\ SharedEnvs \subseteq Envs

Listeners == {"candidate", "observer"}
Roles == Listeners \union {"recorder", "app"}

\* A pid is named for the process of ours that gets it, and may later be that of
\* somebody else.
NoEnv == "none"
Pids == Envs \X Roles \X (1..NPids)
NoPid == <<NoEnv, "recorder", 0>>
EnvOf(q) == q[1]
RoleOf(q) == q[2]

VARIABLES
    proc,      \* what runs under each pid: our process, a stranger's, none
    port,      \* the pid listening on each listener's port
    tmux,      \* the environments with a tmux session
    pidfile,   \* the pids recorded in each workdir
    info,      \* the environments with a session.json
    accused,   \* the recorders that logged a session gone without a stop, falsely
    stopped,   \* the environments whose tmux session the platform ended last
    cmd,       \* each command: where it is, and what it knows
    crashes, failures, reboots   \* what has gone wrong so far

world == <<proc, port, tmux>>
faults == <<crashes, failures, reboots>>
vars == <<proc, port, tmux, pidfile, info, accused, stopped, cmd, faults>>

NoPids == [r \in Roles |-> NoPid]
Idle == [pc |-> "idle", env |-> NoEnv, role |-> "recorder", mine |-> NoPids,
         knows |-> FALSE]

Starting == {"sweep", "ports", "tmux", "share", "spawn", "note", "wait",
             "recheck", "publish", "cleanup"}
Stopping == {"signal", "end"}

TypeOK ==
    /\ proc \in [Pids -> {"runs", "stranger", "dead"}]
    /\ port \in [Listeners -> Pids \union {NoPid}]
    /\ tmux \subseteq Envs
    /\ pidfile \in [Envs -> [Roles -> Pids \union {NoPid}]]
    /\ info \subseteq Envs
    /\ accused \subseteq Envs
    /\ stopped \subseteq Envs
    /\ cmd \in [Procs -> [pc : {"idle"} \union Starting \union Stopping,
                          env : Envs \union {NoEnv}, role : Roles,
                          mine : [Roles -> Pids \union {NoPid}], knows : BOOLEAN]]
    /\ {crashes, failures, reboots} \subseteq 0..MaxFaults
    /\ crashes + failures + reboots <= MaxFaults

Init ==
    /\ proc = [q \in Pids |-> "dead"]
    /\ port = [l \in Listeners |-> NoPid]
    /\ tmux = {}
    /\ pidfile = [e \in Envs |-> NoPids]
    /\ info = {}
    /\ accused = {}
    /\ stopped = {}
    /\ cmd = [p \in Procs |-> Idle]
    /\ crashes = 0 /\ failures = 0 /\ reboots = 0

-----------------------------------------------------------------------------

At(p, label) == cmd[p].pc = label
Goto(p, label) == cmd' = [cmd EXCEPT ![p].pc = label]
Turn(p, label, role) == cmd' = [cmd EXCEPT ![p].pc = label, ![p].role = role]
Return(p) == cmd' = [cmd EXCEPT ![p] = Idle]
Env(p) == cmd[p].env
Mine(p, r) == cmd[p].mine[r]
Shared(p) == Env(p) \in SharedEnvs

FaultsLeft == crashes + failures + reboots < MaxFaults

\* Alive sends signal 0: whoever has the pid now answers.
Alive(q) == q # NoPid /\ proc[q] # "dead"
Recorded(q) == \E e \in Envs, r \in Roles : pidfile[e][r] = q
LivePids(e) == {r \in Roles : Alive(pidfile[e][r])}

\* A process ends, and whatever port it listened on is free.
Ended(q) ==
    /\ proc' = [proc EXCEPT ![q] = "dead"]
    /\ port' = [l \in Listeners |-> IF port[l] = q THEN NoPid ELSE port[l]]

\* The kernel does not hand a pid out again until it has handed out the rest,
\* which takes a reboot.
Unused(q) ==
    /\ proc[q] = "dead"
    /\ ~Recorded(q)
    /\ \A p \in Procs, r \in Roles : Mine(p, r) # q
NextPid(q, e, role) ==
    LET mine == {u \in Pids : EnvOf(u) = e /\ RoleOf(u) = role /\ Unused(u)} IN
    q \in mine /\ \A u \in mine : q[3] <= u[3]

-----------------------------------------------------------------------------
(* Start *)

\* Plausible bug: a start over a live session is not refused.
StartOverLive(p, e) ==
    /\ At(p, "idle")
    /\ cmd' = [cmd EXCEPT ![p] = [Idle EXCEPT !.pc = "sweep", !.env = e]]
    /\ UNCHANGED <<world, pidfile, info, accused, stopped, faults>>

\* refuseIfRunning finds none of the recorded pids alive.
StartLook(p, e) ==
    /\ At(p, "idle")
    /\ LivePids(e) = {}
    /\ cmd' = [cmd EXCEPT ![p] = [Idle EXCEPT !.pc = "sweep", !.env = e]]
    /\ UNCHANGED <<world, pidfile, info, accused, stopped, faults>>

\* The stale pidfiles go.
StartSweep(p) ==
    /\ At(p, "sweep")
    /\ pidfile' = [pidfile EXCEPT ![Env(p)] = NoPids]
    /\ Goto(p, "ports")
    /\ UNCHANGED <<world, info, accused, stopped, faults>>

\* Plausible bug: the ports are not dialled before anything is spawned.
StartPortsUnchecked(p) ==
    /\ At(p, "ports")
    /\ Goto(p, "tmux")
    /\ UNCHANGED <<world, pidfile, info, accused, stopped, faults>>

\* Neither port may answer: the session of another environment holds it.
StartPorts(p) ==
    /\ At(p, "ports")
    /\ IF \A l \in Listeners : port[l] = NoPid THEN Goto(p, "tmux") ELSE Return(p)
    /\ UNCHANGED <<world, pidfile, info, accused, stopped, faults>>

\* new-session refuses a name that is taken, or fails of itself, and nothing is
\* cleaned up then.
StartTmux(p) ==
    /\ At(p, "tmux")
    /\ \/ Return(p) /\ UNCHANGED <<tmux, stopped>>
       \/ /\ Env(p) \notin tmux
          /\ tmux' = tmux \union {Env(p)}
          /\ stopped' = stopped \ {Env(p)}
          /\ Goto(p, "share")
    /\ UNCHANGED <<proc, port, pidfile, info, accused, faults>>

\* shareServer or pipe-pane, which needs the session that was just created.
StartShare(p) ==
    /\ At(p, "share")
    /\ \/ Env(p) \in tmux /\ Turn(p, "spawn", "recorder")
       \/ Goto(p, "cleanup")
    /\ UNCHANGED <<world, pidfile, info, accused, stopped, faults>>

\* Every process is its own step, and its pidfile another.
StartSpawn(p, q) ==
    /\ At(p, "spawn")
    /\ NextPid(q, Env(p), cmd[p].role)
    /\ proc' = [proc EXCEPT ![q] = "runs"]
    /\ cmd' = [cmd EXCEPT ![p].pc = "note", ![p].mine[cmd[p].role] = q]
    /\ UNCHANGED <<port, tmux, pidfile, info, accused, stopped, faults>>

\* What follows a process that came up, in the order of Start.
AfterSpawn(p) ==
    CASE cmd[p].role = "recorder"  -> Turn(p, "spawn", "candidate")
      [] cmd[p].role = "candidate" -> Turn(p, "spawn", "observer")
      [] cmd[p].role = "observer"  -> Turn(p, "wait", "candidate")
      [] cmd[p].role = "app"       -> Goto(p, "publish")

\* The recorder is optional when the interviewer's account is the only one, and
\* the app is always; a listener that does not start fails the start.
Optional(p) ==
    cmd[p].role = "app" \/ (cmd[p].role = "recorder" /\ ~Shared(p))

StartSpawnFails(p) ==
    /\ At(p, "spawn")
    /\ IF Optional(p) THEN AfterSpawn(p) ELSE Goto(p, "cleanup")
    /\ UNCHANGED <<world, pidfile, info, accused, stopped, faults>>

StartNote(p) ==
    /\ At(p, "note")
    /\ pidfile' = [pidfile EXCEPT ![Env(p)][cmd[p].role] = Mine(p, cmd[p].role)]
    /\ AfterSpawn(p)
    /\ UNCHANGED <<world, info, accused, stopped, faults>>

\* The pidfile cannot be written.  Only the app's start goes on, with a warning.
StartNoteFails(p) ==
    /\ At(p, "note")
    /\ FaultsLeft
    /\ failures' = failures + 1
    /\ IF cmd[p].role = "app" THEN AfterSpawn(p) ELSE Goto(p, "cleanup")
    /\ UNCHANGED <<world, pidfile, info, accused, stopped, crashes, reboots>>

\* waitListening: the port answers, whoever answers.
StartAnswered(p) ==
    /\ At(p, "wait")
    /\ port[cmd[p].role] # NoPid
    /\ IF cmd[p].role = "candidate" THEN Turn(p, "wait", "observer")
       ELSE Goto(p, "recheck")
    /\ UNCHANGED <<world, pidfile, info, accused, stopped, faults>>

\* The listener is gone, or has not answered in time.
StartUnanswered(p) ==
    /\ At(p, "wait")
    /\ port[cmd[p].role] = NoPid
    /\ Goto(p, "cleanup")
    /\ UNCHANGED <<world, pidfile, info, accused, stopped, faults>>

AfterRecheck(p) ==
    IF Env(p) \in AppEnvs THEN [cmd[p] EXCEPT !.pc = "spawn", !.role = "app"]
    ELSE [cmd[p] EXCEPT !.pc = "publish"]

\* A recorder that exited at once fails the start of a shared session; without
\* one, its pidfile goes and the start goes on.
StartRecheck(p) ==
    LET q == Mine(p, "recorder") IN
    /\ At(p, "recheck")
    /\ \/ /\ q = NoPid \/ Alive(q)
          /\ cmd' = [cmd EXCEPT ![p] = AfterRecheck(p)]
          /\ UNCHANGED pidfile
       \/ /\ q # NoPid /\ ~Alive(q) /\ ~Shared(p)
          /\ pidfile' = [pidfile EXCEPT ![Env(p)].recorder = NoPid]
          /\ cmd' = [cmd EXCEPT ![p] = [AfterRecheck(p) EXCEPT !.mine.recorder = NoPid]]
       \/ /\ q # NoPid /\ ~Alive(q) /\ Shared(p)
          /\ Goto(p, "cleanup")
          /\ UNCHANGED pidfile
    /\ UNCHANGED <<world, info, accused, stopped, faults>>

\* session.json, and the URLs are printed; or it cannot be written.
StartPublish(p) ==
    /\ At(p, "publish")
    /\ \/ info' = info \union {Env(p)} /\ Return(p)
       \/ UNCHANGED info /\ Goto(p, "cleanup")
    /\ UNCHANGED <<world, pidfile, accused, stopped, faults>>

\* Plausible bug: a pidfile is emptied, which nothing reads as none.
ForgottenEmpty(p, r) ==
    /\ pidfile' = [pidfile EXCEPT ![Env(p)][r] = <<>>]
    /\ cmd' = [cmd EXCEPT ![p].mine[r] = NoPid]

Forgotten(p, r) ==
    /\ pidfile' = [pidfile EXCEPT ![Env(p)][r] = NoPid]
    /\ cmd' = [cmd EXCEPT ![p].mine[r] = NoPid]

\* The one of the processes in hand that was started first.
Launched == <<"recorder", "candidate", "observer", "app">>
Earlier(r, order) == {order[i] : i \in 1..(CHOOSE n \in 1..4 : order[n] = r) - 1}
Foremost(p, r, order) ==
    Mine(p, r) # NoPid /\ \A u \in Earlier(r, order) : Mine(p, u) = NoPid

\* cleanup kills what this start launched, in that order, and drops the pidfile
\* of each.
Cleanup(p, r) ==
    /\ At(p, "cleanup")
    /\ Foremost(p, r, Launched)
    /\ IF Alive(Mine(p, r)) THEN Ended(Mine(p, r)) ELSE UNCHANGED <<proc, port>>
    /\ Forgotten(p, r)
    /\ UNCHANGED <<tmux, info, accused, stopped, faults>>

KillSession(e) ==
    /\ tmux' = tmux \ {e}
    /\ stopped' = IF e \in tmux THEN stopped \union {e} ELSE stopped

CleanupSession(p) ==
    /\ At(p, "cleanup")
    /\ cmd[p].mine = NoPids
    /\ KillSession(Env(p))
    /\ Return(p)
    /\ UNCHANGED <<proc, port, pidfile, info, accused, faults>>

Start(p) ==
    \/ \E e \in Envs : StartLook(p, e)
    \/ StartSweep(p) \/ StartPorts(p) \/ StartTmux(p) \/ StartShare(p)
    \/ \E q \in Pids : StartSpawn(p, q)
    \/ StartSpawnFails(p) \/ StartNote(p) \/ StartNoteFails(p)
    \/ StartAnswered(p) \/ StartUnanswered(p) \/ StartRecheck(p)
    \/ StartPublish(p)
    \/ \E r \in Roles : Cleanup(p, r)
    \/ CleanupSession(p)

-----------------------------------------------------------------------------
(* Stop *)

\* LoadInfo names the tmux socket, and the recorded pids that are alive are the
\* ones to signal.
StopLook(p, e) ==
    /\ At(p, "idle")
    /\ cmd' = [cmd EXCEPT ![p] =
         [Idle EXCEPT !.pc = "signal", !.env = e, !.knows = e \in info,
            !.mine = [r \in Roles |-> IF r \in LivePids(e) THEN pidfile[e][r] ELSE NoPid]]]
    /\ UNCHANGED <<world, pidfile, info, accused, stopped, faults>>

\* One signal each, in the order of the pidfiles' names.  A process that has ended
\* since takes none.
Named == <<"app", "recorder", "candidate", "observer">>

StopSignal(p, r) ==
    /\ At(p, "signal")
    /\ Foremost(p, r, Named)
    /\ IF Alive(Mine(p, r)) THEN Ended(Mine(p, r)) ELSE UNCHANGED <<proc, port>>
    /\ cmd' = [cmd EXCEPT ![p].mine[r] = NoPid]
    /\ UNCHANGED <<tmux, pidfile, info, accused, stopped, faults>>

\* Plausible bug: the pidfiles and the tmux session go before every process
\* has had its signal.
StopForgetEarly(p) ==
    /\ At(p, "signal")
    /\ pidfile' = [pidfile EXCEPT ![Env(p)] = NoPids]
    /\ Goto(p, "end")
    /\ UNCHANGED <<world, info, accused, stopped, faults>>

StopForget(p) ==
    /\ At(p, "signal")
    /\ cmd[p].mine = NoPids
    /\ pidfile' = [pidfile EXCEPT ![Env(p)] = NoPids]
    /\ Goto(p, "end")
    /\ UNCHANGED <<world, info, accused, stopped, faults>>

\* kill-session goes to the socket that session.json named when Stop began: with
\* no session.json the default one, where a shared server is not.
StopSession(p) ==
    /\ At(p, "end")
    /\ IF Shared(p) /\ ~cmd[p].knows THEN UNCHANGED <<tmux, stopped>>
       ELSE KillSession(Env(p))
    /\ Return(p)
    /\ UNCHANGED <<proc, port, pidfile, info, accused, faults>>

Stop(p) ==
    \/ \E e \in Envs : StopLook(p, e)
    \/ \E r \in Roles : StopSignal(p, r)
    \/ StopForget(p)
    \/ StopSession(p)

-----------------------------------------------------------------------------
(* The processes *)

Runs(q, role) == proc[q] = "runs" /\ RoleOf(q) = role

\* ttyd binds its port, or exits because something has it.
ListenerBinds(q, l) ==
    /\ Runs(q, l)
    /\ port[l] = NoPid
    /\ port' = [port EXCEPT ![l] = q]
    /\ UNCHANGED <<proc, tmux, pidfile, info, accused, stopped, cmd, faults>>

ListenerExits(q, l) ==
    /\ Runs(q, l)
    /\ port[l] \notin {NoPid, q}
    /\ Ended(q)
    /\ UNCHANGED <<tmux, pidfile, info, accused, stopped, cmd, faults>>

\* The supervisor finds no session, logs that it is gone without a stop, and
\* exits.  The log is false when it was the platform that ended the session.
RecorderFindsNoSession(q) ==
    /\ Runs(q, "recorder")
    /\ EnvOf(q) \notin tmux
    /\ accused' = accused \union ({EnvOf(q)} \intersect stopped)
    /\ Ended(q)
    /\ UNCHANGED <<tmux, pidfile, info, stopped, cmd, faults>>

\* Anything may die: a listener or a forwarder of itself, a recorder that cannot
\* record (`[ -s cast ] || exit 1`).
Dies(q) ==
    /\ proc[q] = "runs"
    /\ Ended(q)
    /\ UNCHANGED <<tmux, pidfile, info, accused, stopped, cmd, faults>>

\* The candidate ends the tmux server.
CandidateEndsSession(e) ==
    /\ e \in tmux
    /\ tmux' = tmux \ {e}
    /\ stopped' = stopped \ {e}
    /\ UNCHANGED <<proc, port, pidfile, info, accused, cmd, faults>>

Crash(p) ==
    /\ ~At(p, "idle")
    /\ FaultsLeft
    /\ crashes' = crashes + 1
    /\ Return(p)
    /\ UNCHANGED <<world, pidfile, info, accused, stopped, failures, reboots>>

\* Nothing runs after a reboot, and the workdirs are as they were.
Reboot ==
    /\ FaultsLeft
    /\ reboots' = reboots + 1
    /\ proc' = [q \in Pids |-> "dead"]
    /\ port' = [l \in Listeners |-> NoPid]
    /\ tmux' = {}
    /\ cmd' = [p \in Procs |-> Idle]
    /\ UNCHANGED <<pidfile, info, accused, stopped, crashes, failures>>

\* After a reboot the pids of before are handed out again, to anything.  Only a
\* pid that some workdir still records makes a difference; one at a time.
Recycle(q) ==
    /\ reboots > 0
    /\ \A u \in Pids : proc[u] # "stranger"
    /\ proc[q] = "dead"
    /\ Recorded(q)
    /\ proc' = [proc EXCEPT ![q] = "stranger"]
    /\ UNCHANGED <<port, tmux, pidfile, info, accused, stopped, cmd, faults>>

World ==
    \/ \E q \in Pids :
        \/ \E l \in Listeners : ListenerBinds(q, l) \/ ListenerExits(q, l)
        \/ RecorderFindsNoSession(q)
        \/ Dies(q)
        \/ Recycle(q)
    \/ \E e \in Envs : CandidateEndsSession(e)
    \/ Reboot

Next == World \/ \E p \in Procs : Start(p) \/ Stop(p) \/ Crash(p)

Spec == Init /\ [][Next]_vars

-----------------------------------------------------------------------------
(* Properties *)

\* The way a host is run: no two starts or stops at once.
OneAtATime == \A p, q \in Procs : p = q

InHand(q) == \E p \in Procs, r \in Roles : Mine(p, r) = q
Lost(role) == {q \in Pids : Runs(q, role) /\ ~Recorded(q) /\ ~InHand(q)}

\* "Nothing records the pids that stop would have to kill" never comes true: a
\* recorder or listener that runs is in a pidfile or in the hands of a command,
\* but for one per killed command, whatever spawns, binds and writes fail.
EveryProcessIsRecorded ==
    Cardinality(UNION {Lost(r) : r \in Roles \ {"app"}}) <= crashes

\* README: start "waits for both endpoints to answer before printing any URL".
\* Unless a start was killed, the answer it takes is its own listener's, not that
\* of another session or of a start that failed before.
AnswersAreItsOwn ==
    [][\A p \in Procs :
          crashes = 0 /\ At(p, "wait") /\ cmd'[p].pc \in {"wait", "recheck"}
                      /\ cmd'[p] # cmd[p] =>
              port[cmd[p].role] = Mine(p, cmd[p].role)]_vars

\* "A session this loop sees disappear was not ended by the platform": unless a
\* start was killed, the log the candidate is judged by never blames them for a
\* stop or for a start that failed.
RecorderNeverAccusesFalsely == crashes = 0 => accused = {}

\* Unless a start was killed, when stop returns there is nothing left of the
\* session it stopped, neither a recorded process nor its tmux session, so that
\* the next start is not refused.
StopLeavesNothing ==
    [][\A p \in Procs : At(p, "end") /\ cmd'[p].pc = "idle" /\ crashes' = 0 =>
          /\ Env(p) \notin tmux'
          /\ reboots' = reboots => pidfile'[Env(p)] = NoPids
          /\ \A q \in Pids : proc[q] = "runs" /\ EnvOf(q) = Env(p) =>
                             RoleOf(q) = "app" /\ failures > 0]_vars

=============================================================================
