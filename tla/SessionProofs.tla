---------------------------- MODULE SessionProofs ----------------------------
(***************************************************************************)
(* For any environments, bounds and faults: the session manager's state    *)
(* keeps its types; and with one command at a time, a recorder or listener *)
(* that runs is in a pidfile or in the hands of the command, but for one   *)
(* per killed command; and until one is killed, the recorder's log accuses *)
(* nobody falsely, a stop leaves nothing, and an answer is the start's own.*)
(***************************************************************************)
EXTENDS Session, FiniteSetTheorems, TLAPS

\* A command that is under way is about an environment of this host.
EnvKnown == \A p \in Procs : At(p, "idle") \/ Env(p) \in Envs
TypeInv == TypeOK /\ EnvKnown

-----------------------------------------------------------------------------
(* The strengthening for EveryProcessIsRecorded. *)

\* A pid stands in the file and the place that are its own.
FilesInPlace ==
    \A e \in Envs, r \in Roles :
        pidfile[e][r] # NoPid => EnvOf(pidfile[e][r]) = e /\ RoleOf(pidfile[e][r]) = r
HandsInPlace ==
    \A p \in Procs, r \in Roles :
        Mine(p, r) # NoPid => /\ ~At(p, "idle")
                              /\ EnvOf(Mine(p, r)) = Env(p) /\ RoleOf(Mine(p, r)) = r

\* What a command holds is in the pidfiles already, but for the process it has
\* just spawned, or whose pidfile it could not write, and the forwarder.
HandIsRecorded ==
    \A p \in Procs, r \in Roles \ {"app"} :
        Mine(p, r) # NoPid =>
            \/ pidfile[Env(p)][r] = Mine(p, r)
            \/ cmd[p].pc \in {"note", "cleanup"} /\ cmd[p].role = r

\* Whatever runs and is in the pidfiles of the environment a command is about,
\* the command holds, until it has ended them all.
FilesInHand ==
    \A p \in Procs, r \in Roles :
        /\ ~At(p, "idle") /\ ~At(p, "end")
        /\ pidfile[Env(p)][r] # NoPid
        /\ Mine(p, r) # pidfile[Env(p)][r]
        => proc[pidfile[Env(p)][r]] # "runs"

\* What a start has not come to yet it does not hold, nor a stop that has
\* signalled every process.
NotYetHeld ==
    \A p \in Procs :
        LET pc == cmd[p].pc   role == cmd[p].role IN
        /\ pc \in {"end", "sweep", "ports", "tmux", "share"} =>
               \A r \in Roles : Mine(p, r) = NoPid
        /\ pc = "spawn" => Mine(p, role) = NoPid
        /\ pc \in {"spawn", "note"} /\ role = "recorder" => Mine(p, "candidate") = NoPid
        /\ pc \in {"spawn", "note"} /\ role \in {"recorder", "candidate"} =>
               Mine(p, "observer") = NoPid
        /\ pc \in {"spawn", "note"} /\ role # "app" => Mine(p, "app") = NoPid
        /\ pc \in {"wait", "recheck"} => Mine(p, "app") = NoPid

RecordInv ==
    /\ FilesInPlace
    /\ HandsInPlace
    /\ HandIsRecorded
    /\ FilesInHand
    /\ NotYetHeld

-----------------------------------------------------------------------------
(* Types *)

Handful == [Roles -> Pids \union {NoPid}]
Commands == [pc : {"idle"} \union Starting \union Stopping, env : Envs \union {NoEnv},
             role : Roles, mine : Handful, knows : BOOLEAN]

LEMMA NoPidIsNone == NoPid \notin Pids /\ NoPids \in Handful
BY DEF NoPid, Pids, NoPids, Handful

LEMMA IdleCommand == Idle \in Commands
BY NoPidIsNone DEF Idle, Commands, Roles, Listeners

\* The steps a command is built from keep its type.
LEMMA CommandMoves ==
    ASSUME NEW c \in Commands, NEW label \in {"idle"} \union Starting \union Stopping,
           NEW role \in Roles
    PROVE  /\ [c EXCEPT !.pc = label] \in Commands
           /\ [c EXCEPT !.pc = label, !.role = role] \in Commands
BY DEF Commands

LEMMA HandfulMoves ==
    ASSUME NEW m \in Handful, NEW role \in Roles, NEW q \in Pids \union {NoPid}
    PROVE  [m EXCEPT ![role] = q] \in Handful
BY DEF Handful

LEMMA CommandHolds ==
    ASSUME NEW c \in Commands, NEW label \in {"idle"} \union Starting \union Stopping,
           NEW role \in Roles, NEW q \in Pids \union {NoPid}
    PROVE  /\ [c EXCEPT !.mine[role] = q] \in Commands
           /\ [c EXCEPT !.pc = label, !.mine[role] = q] \in Commands
BY HandfulMoves DEF Commands

\* A fault more is still within the bound.
LEMMA FaultsCount ==
    ASSUME TypeOK, FaultsLeft
    PROVE  /\ crashes + 1 \in 0..MaxFaults /\ crashes + 1 + failures + reboots <= MaxFaults
           /\ failures + 1 \in 0..MaxFaults /\ crashes + (failures + 1) + reboots <= MaxFaults
           /\ reboots + 1 \in 0..MaxFaults /\ crashes + failures + (reboots + 1) <= MaxFaults
<1>1. crashes \in Nat /\ failures \in Nat /\ reboots \in Nat /\ MaxFaults \in Nat
  BY BoundAssumption DEF TypeOK
<1>2. crashes + failures + reboots < MaxFaults
  BY DEF FaultsLeft
<1> QED
  BY <1>1, <1>2, SMT

\* Ending a process leaves the world's types alone.
LEMMA EndedTypes ==
    ASSUME TypeOK, NEW q \in Pids, Ended(q)
    PROVE  /\ proc' \in [Pids -> {"runs", "stranger", "dead"}]
           /\ port' \in [Listeners -> Pids \union {NoPid}]
BY DEF TypeOK, Ended

LEMMA InitTypes == Init => TypeInv
<1> SUFFICES ASSUME Init PROVE TypeInv
  OBVIOUS
<1>1. proc \in [Pids -> {"runs", "stranger", "dead"}]
  BY DEF Init
<1>2. port \in [Listeners -> Pids \union {NoPid}]
  BY DEF Init
<1>3. pidfile \in [Envs -> Handful]
  BY NoPidIsNone DEF Init
<1>4. cmd \in [Procs -> Commands]
  BY IdleCommand DEF Init
<1>5. {crashes, failures, reboots} \subseteq 0..MaxFaults
      /\ crashes + failures + reboots <= MaxFaults
  BY BoundAssumption DEF Init
<1>6. EnvKnown
  BY DEF Init, EnvKnown, At, Idle
<1>7. tmux \subseteq Envs /\ info \subseteq Envs /\ accused \subseteq Envs /\ stopped \subseteq Envs
  BY DEF Init
<1> QED
  BY <1>1, <1>2, <1>3, <1>4, <1>5, <1>6, <1>7 DEF TypeInv, TypeOK, Handful, Commands

\* What a step of a command does to the command, and to nothing else's types.
CommandStep(p) ==
    /\ cmd' \in [Procs -> Commands]
    /\ \A q \in Procs : q # p => cmd'[q] = cmd[q]
    /\ cmd'[p].pc = "idle" \/ cmd'[p].env \in Envs

LEMMA StepsAreTyped ==
    ASSUME TypeInv, NEW p \in Procs, CommandStep(p),
           pidfile' \in [Envs -> Handful],
           proc' \in [Pids -> {"runs", "stranger", "dead"}],
           port' \in [Listeners -> Pids \union {NoPid}],
           tmux' \subseteq Envs, info' \subseteq Envs,
           accused' \subseteq Envs, stopped' \subseteq Envs,
           {crashes', failures', reboots'} \subseteq 0..MaxFaults,
           crashes' + failures' + reboots' <= MaxFaults
    PROVE  TypeInv'
<1>1. TypeOK'
  BY DEF TypeOK, CommandStep, Handful, Commands
<1>2. EnvKnown'
  BY DEF TypeInv, EnvKnown, CommandStep, At, Env
<1> QED
  BY <1>1, <1>2 DEF TypeInv

\* The moves an action ends with are steps of a command.
LEMMA Moves ==
    ASSUME TypeInv, NEW p \in Procs, ~At(p, "idle"),
           NEW label \in Starting \union Stopping, NEW role \in Roles
    PROVE  /\ Goto(p, label) => CommandStep(p)
           /\ Turn(p, label, role) => CommandStep(p)
<1>1. cmd \in [Procs -> Commands] /\ Env(p) \in Envs
  BY DEF TypeInv, TypeOK, EnvKnown, Handful, Commands
<1>2. ASSUME Goto(p, label) PROVE CommandStep(p)
  <2>1. [cmd[p] EXCEPT !.pc = label] \in Commands
    BY <1>1, CommandMoves
  <2>2. cmd' = [cmd EXCEPT ![p] = [cmd[p] EXCEPT !.pc = label]]
    BY <1>1, <1>2 DEF Goto
  <2>3. cmd'[p].env = cmd[p].env
    BY <1>1, <2>2 DEF Commands
  <2> QED
    BY <1>1, <2>1, <2>2, <2>3 DEF CommandStep, Env
<1>3. ASSUME Turn(p, label, role) PROVE CommandStep(p)
  <2>1. [cmd[p] EXCEPT !.pc = label, !.role = role] \in Commands
    BY <1>1, CommandMoves
  <2>2. cmd' = [cmd EXCEPT ![p] = [cmd[p] EXCEPT !.pc = label, !.role = role]]
    BY <1>1, <1>3 DEF Turn
  <2>3. cmd'[p].env = cmd[p].env
    BY <1>1, <2>2 DEF Commands
  <2> QED
    BY <1>1, <2>1, <2>2, <2>3 DEF CommandStep, Env
<1> QED
  BY <1>2, <1>3

LEMMA Returns ==
    ASSUME TypeInv, NEW p \in Procs, Return(p) PROVE CommandStep(p)
<1>1. cmd \in [Procs -> Commands]
  BY DEF TypeInv, TypeOK, Handful, Commands
<1> QED
  BY <1>1, IdleCommand DEF Return, CommandStep, Idle

LEMMA StartTypes ==
    ASSUME TypeInv, NEW p \in Procs, Start(p) PROVE TypeInv'
<1> USE StepsAreTyped, Moves, Returns DEF world, faults
<1>0. TypeOK /\ cmd \in [Procs -> Commands] /\ pidfile \in [Envs -> Handful]
      /\ (~At(p, "idle") => Env(p) \in Envs)
  BY DEF TypeInv, TypeOK, EnvKnown, Handful, Commands
<1>1. \A label \in {"sweep", "ports", "tmux", "share", "spawn", "note", "wait",
                    "recheck", "publish", "cleanup"} :
          label \in Starting \union Stopping
  BY DEF Starting
<1>2. {"recorder", "candidate", "observer", "app"} = Roles
  BY DEF Roles, Listeners
<1>a. ASSUME NEW e \in Envs, StartLook(p, e) PROVE TypeInv'
  <2>1. [Idle EXCEPT !.pc = "sweep", !.env = e] \in Commands
    BY IdleCommand, <1>1 DEF Commands
  <2>2. CommandStep(p)
    BY <1>0, <1>a, <2>1 DEF StartLook, CommandStep, Idle
  <2> QED
    BY <1>0, <1>a, <2>2 DEF StartLook, TypeOK, Handful
<1>b. ASSUME StartSweep(p) PROVE TypeInv'
  <2>1. pidfile' \in [Envs -> Handful]
    BY <1>0, <1>b, NoPidIsNone DEF StartSweep
  <2>2. CommandStep(p)
    BY <1>b, <1>1, <1>2 DEF StartSweep, At
  <2> QED
    BY <1>0, <1>b, <2>1, <2>2 DEF StartSweep, TypeOK, Handful
<1>c. ASSUME StartPorts(p) PROVE TypeInv'
  <2>1. CommandStep(p)
    BY <1>c, <1>1, <1>2 DEF StartPorts, At
  <2> QED
    BY <1>0, <1>c, <2>1 DEF StartPorts, TypeOK, Handful
<1>d. ASSUME StartTmux(p) PROVE TypeInv'
  <2>1. CommandStep(p)
    BY <1>d, <1>1, <1>2 DEF StartTmux, At
  <2>2. tmux' \subseteq Envs /\ stopped' \subseteq Envs
    BY <1>0, <1>d DEF StartTmux, TypeOK, At
  <2> QED
    BY <1>0, <1>d, <2>1, <2>2 DEF StartTmux, TypeOK, Handful
<1>e. ASSUME StartShare(p) PROVE TypeInv'
  <2>1. CommandStep(p)
    BY <1>e, <1>1, <1>2 DEF StartShare, At
  <2> QED
    BY <1>0, <1>e, <2>1 DEF StartShare, TypeOK, Handful
<1>f. ASSUME NEW q \in Pids, StartSpawn(p, q) PROVE TypeInv'
  <2>1. [cmd[p] EXCEPT !.pc = "note", !.mine[cmd[p].role] = q] \in Commands
    <3>1. cmd[p] \in Commands /\ cmd[p].role \in Roles
      BY <1>0 DEF Commands
    <3> QED
      BY <3>1, <1>1, CommandHolds
  <2>2. cmd' = [cmd EXCEPT ![p] = [cmd[p] EXCEPT !.pc = "note", !.mine[cmd[p].role] = q]]
    BY <1>0, <1>f DEF StartSpawn
  <2>3. cmd'[p].env = cmd[p].env
    BY <1>0, <2>2 DEF Commands
  <2>4. CommandStep(p)
    BY <1>0, <1>f, <2>1, <2>2, <2>3 DEF CommandStep, StartSpawn, At, Env
  <2>5. proc' \in [Pids -> {"runs", "stranger", "dead"}]
    BY <1>0, <1>f DEF StartSpawn, TypeOK
  <2> QED
    BY <1>0, <1>f, <2>4, <2>5 DEF StartSpawn, TypeOK, Handful
<1>after. ASSUME ~At(p, "idle"), AfterSpawn(p) PROVE CommandStep(p)
  <2>1. cmd[p].role \in {"recorder", "candidate", "observer", "app"}
    BY <1>0, <1>2 DEF Commands
  <2> QED
    BY <1>after, <2>1, <1>1, <1>2 DEF AfterSpawn
<1>g. ASSUME StartSpawnFails(p) PROVE TypeInv'
  <2>1. CommandStep(p)
    BY <1>g, <1>after, <1>1, <1>2 DEF StartSpawnFails, At
  <2> QED
    BY <1>0, <1>g, <2>1 DEF StartSpawnFails, TypeOK, Handful
<1>h. ASSUME StartNote(p) PROVE TypeInv'
  <2>1. CommandStep(p)
    BY <1>h, <1>after DEF StartNote, At
  <2>2. pidfile' \in [Envs -> Handful]
    <3>1. Mine(p, cmd[p].role) \in Pids \union {NoPid} /\ cmd[p].role \in Roles
      BY <1>0 DEF Commands, Handful, Mine
    <3>2. [pidfile[Env(p)] EXCEPT ![cmd[p].role] = Mine(p, cmd[p].role)] \in Handful
      BY <1>0, <1>h, <3>1, HandfulMoves DEF StartNote, At
    <3> QED
      BY <1>0, <1>h, <3>2 DEF StartNote
  <2> QED
    BY <1>0, <1>h, <2>1, <2>2 DEF StartNote, TypeOK, Handful
<1>i. ASSUME StartNoteFails(p) PROVE TypeInv'
  <2>1. CommandStep(p)
    BY <1>i, <1>after, <1>1, <1>2 DEF StartNoteFails, At
  <2>2. failures + 1 \in 0..MaxFaults /\ crashes + (failures + 1) + reboots <= MaxFaults
    BY <1>0, <1>i, FaultsCount DEF StartNoteFails
  <2> QED
    BY <1>0, <1>i, <2>1, <2>2 DEF StartNoteFails, TypeOK, Handful
<1>j. ASSUME StartAnswered(p) PROVE TypeInv'
  <2>1. CommandStep(p)
    BY <1>j, <1>1, <1>2 DEF StartAnswered, At
  <2> QED
    BY <1>0, <1>j, <2>1 DEF StartAnswered, TypeOK, Handful
<1>k. ASSUME StartUnanswered(p) PROVE TypeInv'
  <2>1. CommandStep(p)
    BY <1>k, <1>1, <1>2 DEF StartUnanswered, At
  <2> QED
    BY <1>0, <1>k, <2>1 DEF StartUnanswered, TypeOK, Handful
<1>l. ASSUME StartRecheck(p) PROVE TypeInv'
  <2>1. /\ AfterRecheck(p) \in Commands
        /\ [AfterRecheck(p) EXCEPT !.mine.recorder = NoPid] \in Commands
        /\ AfterRecheck(p).env = Env(p)
        /\ [AfterRecheck(p) EXCEPT !.mine.recorder = NoPid].env = Env(p)
    <3>1. cmd[p] \in Commands
      BY <1>0
    <3>2. AfterRecheck(p) \in Commands /\ AfterRecheck(p).env = Env(p)
      <4>1. /\ [cmd[p] EXCEPT !.pc = "spawn", !.role = "app"] \in Commands
            /\ [cmd[p] EXCEPT !.pc = "publish"] \in Commands
        BY <3>1, <1>1, <1>2, CommandMoves
      <4>2. /\ [cmd[p] EXCEPT !.pc = "spawn", !.role = "app"].env = cmd[p].env
            /\ [cmd[p] EXCEPT !.pc = "publish"].env = cmd[p].env
        BY <3>1 DEF Commands
      <4> QED
        BY <4>1, <4>2 DEF AfterRecheck, Env
    <3>3. [AfterRecheck(p) EXCEPT !.mine["recorder"] = NoPid] \in Commands
      BY <3>2, <1>2, CommandHolds, <1>1
    <3> QED
      BY <3>2, <3>3 DEF Commands
  <2>2. CommandStep(p)
    <3>1. CASE cmd' = [cmd EXCEPT ![p] = AfterRecheck(p)]
      BY <1>0, <1>l, <2>1, <3>1 DEF CommandStep, StartRecheck, At
    <3>2. CASE cmd' = [cmd EXCEPT ![p] = [AfterRecheck(p) EXCEPT !.mine.recorder = NoPid]]
      BY <1>0, <1>l, <2>1, <3>2 DEF CommandStep, StartRecheck, At
    <3>3. CASE Goto(p, "cleanup")
      BY <1>l, <3>3, <1>1, <1>2 DEF StartRecheck, At
    <3> QED
      BY <1>l, <3>1, <3>2, <3>3 DEF StartRecheck
  <2>3. pidfile' \in [Envs -> Handful]
    <3>1. [pidfile[Env(p)] EXCEPT !["recorder"] = NoPid] \in Handful
      BY <1>0, <1>l, <1>2, HandfulMoves DEF StartRecheck, At
    <3> QED
      BY <1>0, <1>l, <3>1 DEF StartRecheck
  <2> QED
    BY <1>0, <1>l, <2>2, <2>3 DEF StartRecheck, TypeOK, Handful
<1>m. ASSUME StartPublish(p) PROVE TypeInv'
  <2>1. CommandStep(p)
    BY <1>m, <1>1, <1>2 DEF StartPublish, At
  <2>2. info' \subseteq Envs
    BY <1>0, <1>m DEF StartPublish, At, TypeOK
  <2> QED
    BY <1>0, <1>m, <2>1, <2>2 DEF StartPublish, TypeOK, Handful
<1>n. ASSUME NEW r \in Roles, Cleanup(p, r) PROVE TypeInv'
  <2>1. pidfile' \in [Envs -> Handful]
    <3>1. [pidfile[Env(p)] EXCEPT ![r] = NoPid] \in Handful
      BY <1>0, <1>n, HandfulMoves DEF Cleanup, At
    <3> QED
      BY <1>0, <1>n, <3>1 DEF Cleanup, Forgotten
  <2>2. CommandStep(p)
    <3>1. [cmd[p] EXCEPT !.mine[r] = NoPid] \in Commands
      BY <1>0, CommandHolds, <1>1
    <3>2. cmd' = [cmd EXCEPT ![p] = [cmd[p] EXCEPT !.mine[r] = NoPid]]
      BY <1>0, <1>n DEF Cleanup, Forgotten
    <3>3. cmd'[p].env = Env(p)
      BY <1>0, <3>2 DEF Commands, Env
    <3> QED
      BY <1>0, <1>n, <3>1, <3>2, <3>3 DEF CommandStep, Cleanup, At
  <2>3. /\ proc' \in [Pids -> {"runs", "stranger", "dead"}]
        /\ port' \in [Listeners -> Pids \union {NoPid}]
    <3>1. Mine(p, r) \in Pids \union {NoPid}
      BY <1>0 DEF Commands, Handful, Mine
    <3>2. CASE Alive(Mine(p, r))
      BY <1>0, <1>n, <3>1, <3>2, EndedTypes DEF Cleanup, Alive
    <3>3. CASE ~Alive(Mine(p, r))
      BY <1>0, <1>n, <3>3 DEF Cleanup, TypeOK
    <3> QED
      BY <3>2, <3>3
  <2> QED
    BY <1>0, <1>n, <2>1, <2>2, <2>3 DEF Cleanup, TypeOK
<1>o. ASSUME CleanupSession(p) PROVE TypeInv'
  <2>1. CommandStep(p)
    BY <1>o DEF CleanupSession
  <2>2. tmux' \subseteq Envs /\ stopped' \subseteq Envs
    BY <1>0, <1>o DEF CleanupSession, KillSession, TypeOK, At
  <2> QED
    BY <1>0, <1>o, <2>1, <2>2 DEF CleanupSession, TypeOK, Handful
<1> QED
  BY <1>a, <1>b, <1>c, <1>d, <1>e, <1>f, <1>g, <1>h, <1>i, <1>j, <1>k, <1>l, <1>m,
     <1>n, <1>o DEF Start

LEMMA StopTypes ==
    ASSUME TypeInv, NEW p \in Procs, Stop(p) PROVE TypeInv'
<1> USE StepsAreTyped, Moves, Returns DEF world, faults
<1>0. TypeOK /\ cmd \in [Procs -> Commands] /\ pidfile \in [Envs -> Handful]
      /\ (~At(p, "idle") => Env(p) \in Envs)
  BY DEF TypeInv, TypeOK, EnvKnown, Handful, Commands
<1>1. "signal" \in Starting \union Stopping /\ "end" \in Starting \union Stopping
  BY DEF Stopping
<1>a. ASSUME NEW e \in Envs, StopLook(p, e) PROVE TypeInv'
  <2> DEFINE live == [r \in Roles |-> IF r \in LivePids(e) THEN pidfile[e][r] ELSE NoPid]
             c == [Idle EXCEPT !.pc = "signal", !.env = e, !.knows = e \in info,
                               !.mine = live]
  <2>1. live \in Handful
    BY <1>0 DEF Handful
  <2>2. \A b \in BOOLEAN : [Idle EXCEPT !.pc = "signal", !.env = e, !.knows = b,
                                        !.mine = live] \in Commands
    <3> HIDE DEF live
    <3> QED
      BY <2>1, IdleCommand, <1>1 DEF Commands
  <2>3. c \in Commands /\ c.env = e
    <3>1. (e \in info) \in BOOLEAN
      OBVIOUS
    <3>2. c \in Commands
      BY <2>2, <3>1
    <3>3. c.env = e
      BY DEF Idle
    <3> QED
      BY <3>2, <3>3
  <2>4. cmd' = [cmd EXCEPT ![p] = c]
    BY <1>a DEF StopLook
  <2>5. CommandStep(p)
    <3> HIDE DEF c
    <3> QED
      BY <1>0, <2>3, <2>4 DEF CommandStep
  <2> QED
    BY <1>0, <1>a, <2>5 DEF StopLook, TypeOK, Handful
<1>b. ASSUME NEW r \in Roles, StopSignal(p, r) PROVE TypeInv'
  <2>1. CommandStep(p)
    <3>1. [cmd[p] EXCEPT !.mine[r] = NoPid] \in Commands
      BY <1>0, CommandHolds, <1>1
    <3>2. cmd' = [cmd EXCEPT ![p] = [cmd[p] EXCEPT !.mine[r] = NoPid]]
      BY <1>0, <1>b DEF StopSignal
    <3>3. cmd'[p].env = Env(p)
      BY <1>0, <3>2 DEF Commands, Env
    <3> QED
      BY <1>0, <1>b, <3>1, <3>2, <3>3 DEF CommandStep, StopSignal, At
  <2>2. /\ proc' \in [Pids -> {"runs", "stranger", "dead"}]
        /\ port' \in [Listeners -> Pids \union {NoPid}]
    <3>1. Mine(p, r) \in Pids \union {NoPid}
      BY <1>0 DEF Commands, Handful, Mine
    <3>2. CASE Alive(Mine(p, r))
      BY <1>0, <1>b, <3>1, <3>2, EndedTypes DEF StopSignal, Alive
    <3>3. CASE ~Alive(Mine(p, r))
      BY <1>0, <1>b, <3>3 DEF StopSignal, TypeOK
    <3> QED
      BY <3>2, <3>3
  <2> QED
    BY <1>0, <1>b, <2>1, <2>2 DEF StopSignal, TypeOK
<1>c. ASSUME StopForget(p) PROVE TypeInv'
  <2>1. pidfile' \in [Envs -> Handful]
    BY <1>0, <1>c, NoPidIsNone DEF StopForget
  <2>2. CommandStep(p)
    BY <1>c, <1>1 DEF StopForget, At, Roles
  <2> QED
    BY <1>0, <1>c, <2>1, <2>2 DEF StopForget, TypeOK, Handful
<1>d. ASSUME StopSession(p) PROVE TypeInv'
  <2>1. CommandStep(p)
    BY <1>d DEF StopSession
  <2>2. tmux' \subseteq Envs /\ stopped' \subseteq Envs
    BY <1>0, <1>d DEF StopSession, KillSession, TypeOK, At
  <2> QED
    BY <1>0, <1>d, <2>1, <2>2 DEF StopSession, TypeOK, Handful
<1> QED
  BY <1>a, <1>b, <1>c, <1>d DEF Stop

LEMMA WorldTypes == ASSUME TypeInv, World PROVE TypeInv'
<1> USE DEF world, faults
<1>0. TypeOK
  BY DEF TypeInv
<1>same. ASSUME TypeOK', cmd' = cmd PROVE TypeInv'
  BY <1>same DEF TypeInv, EnvKnown, At, Env
<1>1. ASSUME NEW q \in Pids, NEW l \in Listeners, ListenerBinds(q, l) PROVE TypeInv'
  BY <1>0, <1>1, <1>same DEF ListenerBinds, TypeOK
<1>2. ASSUME NEW q \in Pids, NEW l \in Listeners, ListenerExits(q, l) PROVE TypeInv'
  BY <1>0, <1>2, <1>same, EndedTypes DEF ListenerExits, TypeOK
<1>3. ASSUME NEW q \in Pids, RecorderFindsNoSession(q) PROVE TypeInv'
  BY <1>0, <1>3, <1>same, EndedTypes DEF RecorderFindsNoSession, TypeOK
<1>4. ASSUME NEW q \in Pids, Dies(q) PROVE TypeInv'
  BY <1>0, <1>4, <1>same, EndedTypes DEF Dies, TypeOK
<1>5. ASSUME NEW q \in Pids, Recycle(q) PROVE TypeInv'
  BY <1>0, <1>5, <1>same DEF Recycle, TypeOK
<1>6. ASSUME NEW e \in Envs, CandidateEndsSession(e) PROVE TypeInv'
  BY <1>0, <1>6, <1>same DEF CandidateEndsSession, TypeOK
<1>7. ASSUME Reboot PROVE TypeInv'
  <2>1. reboots + 1 \in 0..MaxFaults /\ crashes + failures + (reboots + 1) <= MaxFaults
    BY <1>0, <1>7, FaultsCount DEF Reboot
  <2>2. cmd' \in [Procs -> Commands] /\ EnvKnown'
    BY <1>7, IdleCommand DEF Reboot, EnvKnown, At, Idle
  <2>3. /\ proc' \in [Pids -> {"runs", "stranger", "dead"}]
        /\ port' \in [Listeners -> Pids \union {NoPid}]
    BY <1>7 DEF Reboot
  <2> QED
    BY <1>0, <1>7, <2>1, <2>2, <2>3 DEF Reboot, TypeInv, TypeOK, Commands, Handful
<1> QED
  BY <1>1, <1>2, <1>3, <1>4, <1>5, <1>6, <1>7 DEF World

LEMMA CrashTypes == ASSUME TypeInv, NEW p \in Procs, Crash(p) PROVE TypeInv'
<1>1. TypeOK
  BY DEF TypeInv
<1>2. crashes + 1 \in 0..MaxFaults /\ crashes + 1 + failures + reboots <= MaxFaults
  BY <1>1, FaultsCount DEF Crash
<1>3. CommandStep(p)
  BY Returns DEF Crash
<1> QED
  BY <1>1, <1>2, <1>3, StepsAreTyped DEF Crash, TypeOK, Handful, world

LEMMA TypesKept == TypeInv /\ [Next]_vars => TypeInv'
<1>1. ASSUME TypeInv, UNCHANGED vars PROVE TypeInv'
  BY <1>1 DEF TypeInv, TypeOK, EnvKnown, At, Env, vars, world, faults
<1> QED
  BY <1>1, StartTypes, StopTypes, WorldTypes, CrashTypes DEF Next

\* Every variable of the session manager keeps its type, whatever is killed,
\* fails or is recycled; a pidfile holds a pid or is not there.
THEOREM SessionTypeCorrect == Spec => []TypeOK
<1>1. TypeInv => TypeOK
  BY DEF TypeInv
<1> QED
  BY InitTypes, TypesKept, <1>1, PTL DEF Spec

-----------------------------------------------------------------------------
(* Every process is recorded, with one command at a time. *)

Counted == Roles \ {"app"}
Astray == UNION {Lost(r) : r \in Counted}

LEMMA AstrayMeans ==
    \A q : q \in Astray <=> /\ q \in Pids /\ proc[q] = "runs" /\ RoleOf(q) \in Counted
                            /\ ~Recorded(q) /\ ~InHand(q)
BY DEF Astray, Lost, Runs

\* A step loses track of no process, and the invariant holds after it.
Tracked == RecordInv' /\ Astray' \subseteq Astray

\* What is known of the state and of the one command.
Serial(p) ==
    /\ TypeInv /\ TypeInv' /\ RecordInv
    /\ p \in Procs /\ \A u \in Procs : u = p

LEMMA SerialTypes ==
    ASSUME NEW p, Serial(p)
    PROVE  /\ cmd \in [Procs -> Commands] /\ cmd[p] \in Commands
           /\ cmd[p].mine \in Handful /\ cmd[p].role \in Roles
           /\ pidfile \in [Envs -> Handful]
           /\ proc \in [Pids -> {"runs", "stranger", "dead"}]
           /\ ~At(p, "idle") => Env(p) \in Envs
           /\ cmd' \in [Procs -> Commands] /\ cmd'[p] \in Commands
           /\ cmd'[p].mine \in Handful /\ cmd'[p].role \in Roles
           /\ pidfile' \in [Envs -> Handful]
           /\ proc' \in [Pids -> {"runs", "stranger", "dead"}]
BY DEF Serial, TypeInv, TypeOK, EnvKnown, Commands, Handful

LEMMA Fields ==
    ASSUME NEW p, Serial(p), NEW label, NEW role
    PROVE  /\ Goto(p, label) => /\ cmd'[p].pc = label /\ cmd'[p].env = cmd[p].env
                                /\ cmd'[p].role = cmd[p].role /\ cmd'[p].mine = cmd[p].mine
           /\ Turn(p, label, role) =>
                 /\ cmd'[p].pc = label /\ cmd'[p].env = cmd[p].env
                 /\ cmd'[p].role = role /\ cmd'[p].mine = cmd[p].mine
BY SerialTypes DEF Serial, Goto, Turn, Commands

\* A step that only moves the command on: to a place where what it has in hand
\* is recorded, or still what it is about.
LEMMA QuietTracked ==
    ASSUME NEW p, Serial(p), ~At(p, "idle"), ~At(p, "end"),
           pidfile' = pidfile, proc' = proc,
           cmd'[p].env = cmd[p].env, cmd'[p].mine = cmd[p].mine, cmd'[p].pc # "idle",
           NotYetHeld',
           \/ cmd[p].pc \notin {"note", "cleanup"}
           \/ cmd[p].role = "app"
           \/ cmd'[p].pc = "cleanup" /\ cmd'[p].role = cmd[p].role
    PROVE  Tracked
<1> USE SerialTypes DEF Serial, At, Env, Mine
<1>1. FilesInPlace' /\ HandsInPlace'
  BY DEF RecordInv, FilesInPlace, HandsInPlace
<1>2. HandIsRecorded'
  BY DEF RecordInv, HandIsRecorded
<1>3. FilesInHand'
  BY DEF RecordInv, FilesInHand
<1>4. Astray' \subseteq Astray
  BY AstrayMeans DEF Astray, Lost, Runs, Recorded, InHand
<1> QED
  BY <1>1, <1>2, <1>3, <1>4 DEF Tracked, RecordInv

\* A command that returns, all it has in hand being recorded or not running.
LEMMA ReturnTracked ==
    ASSUME NEW p, Serial(p), Return(p), ~At(p, "idle"), pidfile' = pidfile, proc' = proc,
           \A r \in Counted : \/ Mine(p, r) = NoPid
                              \/ pidfile[Env(p)][r] = Mine(p, r)
    PROVE  Tracked
<1> USE SerialTypes DEF Serial, At, Env, Mine
<1>0. cmd'[p] = Idle
  BY DEF Return
<1>1. cmd'[p].pc = "idle" /\ \A r \in Roles : cmd'[p].mine[r] = NoPid
  BY <1>0 DEF Idle, NoPids
<1>2. FilesInPlace' /\ HandsInPlace' /\ HandIsRecorded' /\ FilesInHand' /\ NotYetHeld'
  BY <1>1 DEF RecordInv, FilesInPlace, HandsInPlace, HandIsRecorded, FilesInHand, NotYetHeld
<1>3. ASSUME NEW q \in Astray' PROVE q \in Astray
  <2>1. q \in Pids /\ proc[q] = "runs" /\ RoleOf(q) \in Counted /\ ~Recorded(q)
    BY <1>3 DEF Astray, Lost, Runs, Recorded
  <2>2. ASSUME NEW r \in Roles, cmd[p].mine[r] = q PROVE FALSE
    <3>1. q # NoPid
      BY <2>1, NoPidIsNone
    <3>2. RoleOf(q) = r
      BY <2>2, <3>1 DEF RecordInv, HandsInPlace
    <3>3. pidfile[Env(p)][r] = q
      BY <2>1, <2>2, <3>1, <3>2
    <3> QED
      BY <2>1, <3>3 DEF Recorded
  <2> QED
    BY <2>1, <2>2, AstrayMeans DEF InHand
<1> QED
  BY <1>2, <1>3 DEF Tracked, RecordInv

LEMMA StartTracked ==
    ASSUME NEW p, Serial(p), Start(p) PROVE Tracked
<1> USE DEF world, faults
<1>0. RecordInv /\ p \in Procs /\ \A u \in Procs : u = p
  BY DEF Serial
<1>a. ASSUME NEW e \in Envs, StartLook(p, e) PROVE Tracked
  <2>1. /\ cmd'[p].pc = "sweep" /\ cmd'[p].env = e
        /\ \A r \in Roles : cmd'[p].mine[r] = NoPid
    BY <1>0, <1>a, SerialTypes DEF StartLook, Idle, NoPids
  <2>2. \A r \in Roles : cmd[p].mine[r] = NoPid
    BY <1>0, <1>a DEF StartLook, RecordInv, HandsInPlace, Mine, At
  <2>3. \A r \in Roles : pidfile[e][r] # NoPid => proc[pidfile[e][r]] # "runs"
    BY <1>a DEF StartLook, LivePids, Alive
  <2>4. pidfile' = pidfile /\ proc' = proc
    BY <1>a DEF StartLook
  <2>5. FilesInPlace' /\ HandsInPlace' /\ HandIsRecorded' /\ FilesInHand' /\ NotYetHeld'
    BY <1>0, <2>1, <2>3, <2>4, SerialTypes
       DEF RecordInv, FilesInPlace, HandsInPlace, HandIsRecorded, FilesInHand,
           NotYetHeld, At, Env, Mine
  <2>6. Astray' \subseteq Astray
    BY <1>0, <2>1, <2>2, <2>4, NoPidIsNone DEF Astray, Lost, Runs, Recorded, InHand, Mine
  <2> QED
    BY <2>5, <2>6 DEF Tracked, RecordInv
<1>b. ASSUME StartSweep(p) PROVE Tracked
  <2>1. /\ cmd'[p].pc = "ports" /\ cmd'[p].env = cmd[p].env /\ cmd'[p].mine = cmd[p].mine
    BY <1>b, Fields DEF Serial, StartSweep
  <2>2. \A r \in Roles : Mine(p, r) = NoPid
    BY <1>0, <1>b DEF StartSweep, RecordInv, NotYetHeld, At
  <2>3. \A r \in Roles : pidfile[Env(p)][r] # NoPid => proc[pidfile[Env(p)][r]] # "runs"
    BY <1>0, <1>b, <2>2 DEF StartSweep, RecordInv, FilesInHand, At
  <2>4. /\ proc' = proc /\ Env(p) \in Envs
        /\ \A e \in Envs, r \in Roles :
               pidfile'[e][r] = IF e = Env(p) THEN NoPid ELSE pidfile[e][r]
    BY <1>b, SerialTypes DEF StartSweep, At, NoPids
  <2>5. FilesInPlace' /\ HandsInPlace' /\ HandIsRecorded' /\ FilesInHand' /\ NotYetHeld'
    BY <1>0, <2>1, <2>2, <2>4
       DEF RecordInv, FilesInPlace, HandsInPlace, HandIsRecorded, FilesInHand,
           NotYetHeld, At, Env, Mine
  <2>6. Astray' \subseteq Astray
    <3>1. ASSUME NEW q \in Astray' PROVE q \in Astray
      <4>1. q \in Pids /\ proc[q] = "runs" /\ RoleOf(q) \in Counted
        BY <2>4, <3>1 DEF Astray, Lost, Runs
      <4>2. ~InHand(q)
        BY <1>0, <2>2, <4>1, NoPidIsNone DEF InHand
      <4>3. ~Recorded(q)
        <5>1. ASSUME NEW e \in Envs, NEW r \in Roles, pidfile[e][r] = q PROVE FALSE
          <6>1. CASE e = Env(p)
            BY <2>3, <4>1, <5>1, <6>1, NoPidIsNone
          <6>2. CASE e # Env(p)
            BY <2>4, <3>1, <5>1, <6>2 DEF Astray, Lost, Recorded
          <6> QED
            BY <6>1, <6>2
        <5> QED
          BY <5>1 DEF Recorded
      <4> QED
        BY <4>1, <4>2, <4>3, AstrayMeans
    <3> QED
      BY <3>1
  <2> QED
    BY <2>5, <2>6 DEF Tracked, RecordInv
<1>c. ASSUME StartPorts(p) PROVE Tracked
  <2>1. \A r \in Roles : Mine(p, r) = NoPid
    BY <1>0, <1>c DEF StartPorts, RecordInv, NotYetHeld, At
  <2>2. CASE Goto(p, "tmux")
    <3>1. /\ cmd'[p].pc = "tmux" /\ cmd'[p].env = cmd[p].env /\ cmd'[p].mine = cmd[p].mine
      BY <2>2, Fields DEF Serial
    <3>2. NotYetHeld'
      BY <1>0, <2>1, <3>1 DEF NotYetHeld, Mine
    <3> QED
      BY <1>c, <3>1, <3>2, QuietTracked DEF StartPorts, At
  <2>3. CASE Return(p)
    BY <1>c, <2>1, <2>3, ReturnTracked DEF StartPorts, At, Counted
  <2> QED
    BY <1>c, <2>2, <2>3 DEF StartPorts
<1>d. ASSUME StartTmux(p) PROVE Tracked
  <2>1. \A r \in Roles : Mine(p, r) = NoPid
    BY <1>0, <1>d DEF StartTmux, RecordInv, NotYetHeld, At
  <2>2. CASE Goto(p, "share")
    <3>1. /\ cmd'[p].pc = "share" /\ cmd'[p].env = cmd[p].env /\ cmd'[p].mine = cmd[p].mine
      BY <2>2, Fields DEF Serial
    <3>2. NotYetHeld'
      BY <1>0, <2>1, <3>1 DEF NotYetHeld, Mine
    <3> QED
      BY <1>d, <3>1, <3>2, QuietTracked DEF StartTmux, At
  <2>3. CASE Return(p)
    BY <1>d, <2>1, <2>3, ReturnTracked DEF StartTmux, At, Counted
  <2> QED
    BY <1>d, <2>2, <2>3 DEF StartTmux
<1>clean. ASSUME Goto(p, "cleanup"), pidfile' = pidfile, proc' = proc,
                 ~At(p, "idle"), ~At(p, "end")
          PROVE  Tracked
  <2>1. /\ cmd'[p].pc = "cleanup" /\ cmd'[p].env = cmd[p].env
        /\ cmd'[p].mine = cmd[p].mine /\ cmd'[p].role = cmd[p].role
    BY <1>clean, Fields DEF Serial
  <2>2. NotYetHeld'
    BY <1>0, <2>1 DEF NotYetHeld, Mine
  <2> QED
    BY <1>clean, <2>1, <2>2, QuietTracked
<1>e. ASSUME StartShare(p) PROVE Tracked
  <2>1. \A r \in Roles : Mine(p, r) = NoPid
    BY <1>0, <1>e DEF StartShare, RecordInv, NotYetHeld, At
  <2>2. CASE Turn(p, "spawn", "recorder")
    <3>1. /\ cmd'[p].pc = "spawn" /\ cmd'[p].env = cmd[p].env /\ cmd'[p].mine = cmd[p].mine
          /\ cmd'[p].role = "recorder"
      BY <2>2, Fields DEF Serial
    <3>2. NotYetHeld'
      BY <1>0, <2>1, <3>1 DEF NotYetHeld, Mine, Roles, Listeners
    <3> QED
      BY <1>e, <3>1, <3>2, QuietTracked DEF StartShare, At
  <2>3. CASE Goto(p, "cleanup")
    BY <1>e, <2>3, <1>clean DEF StartShare, At
  <2> QED
    BY <1>e, <2>2, <2>3 DEF StartShare
\* What comes after a process holds nothing of what it has not launched.
<1>after. ASSUME cmd[p].pc \in {"spawn", "note"}, AfterSpawn(p)
          PROVE  /\ cmd'[p].env = cmd[p].env /\ cmd'[p].mine = cmd[p].mine
                 /\ cmd'[p].pc \in {"spawn", "wait", "publish"}
                 /\ NotYetHeld'
  <2> DEFINE role == cmd[p].role
  <2>0. role \in {"recorder", "candidate", "observer", "app"}
    BY SerialTypes DEF Roles, Listeners
  <2>1. CASE role = "recorder"
    <3>1. Turn(p, "spawn", "candidate")
      BY <1>after, <2>1 DEF AfterSpawn
    <3>2. /\ cmd'[p].pc = "spawn" /\ cmd'[p].env = cmd[p].env /\ cmd'[p].mine = cmd[p].mine
          /\ cmd'[p].role = "candidate"
      BY <3>1, Fields DEF Serial
    <3> QED
      BY <1>0, <1>after, <2>1, <3>2 DEF RecordInv, NotYetHeld, Mine
  <2>2. CASE role = "candidate"
    <3>1. Turn(p, "spawn", "observer")
      BY <1>after, <2>2 DEF AfterSpawn
    <3>2. /\ cmd'[p].pc = "spawn" /\ cmd'[p].env = cmd[p].env /\ cmd'[p].mine = cmd[p].mine
          /\ cmd'[p].role = "observer"
      BY <3>1, Fields DEF Serial
    <3> QED
      BY <1>0, <1>after, <2>2, <3>2 DEF RecordInv, NotYetHeld, Mine
  <2>3. CASE role = "observer"
    <3>1. Turn(p, "wait", "candidate")
      BY <1>after, <2>3 DEF AfterSpawn
    <3>2. /\ cmd'[p].pc = "wait" /\ cmd'[p].env = cmd[p].env /\ cmd'[p].mine = cmd[p].mine
          /\ cmd'[p].role = "candidate"
      BY <3>1, Fields DEF Serial
    <3> QED
      BY <1>0, <1>after, <2>3, <3>2 DEF RecordInv, NotYetHeld, Mine
  <2>4. CASE role = "app"
    <3>1. Goto(p, "publish")
      BY <1>after, <2>4 DEF AfterSpawn
    <3>2. /\ cmd'[p].pc = "publish" /\ cmd'[p].env = cmd[p].env /\ cmd'[p].mine = cmd[p].mine
      BY <3>1, Fields DEF Serial
    <3> QED
      BY <1>0, <1>after, <2>4, <3>2 DEF RecordInv, NotYetHeld, Mine
  <2> QED
    BY <2>0, <2>1, <2>2, <2>3, <2>4
<1>f. ASSUME NEW q \in Pids, StartSpawn(p, q) PROVE Tracked
  <2> DEFINE role == cmd[p].role
  <2>1. /\ cmd'[p].pc = "note" /\ cmd'[p].env = cmd[p].env /\ cmd'[p].role = role
        /\ \A r \in Roles : cmd'[p].mine[r] = IF r = role THEN q ELSE cmd[p].mine[r]
    BY <1>0, <1>f, SerialTypes DEF StartSpawn, Commands, Handful
  <2>2. /\ EnvOf(q) = Env(p) /\ RoleOf(q) = role /\ q # NoPid
        /\ \A e \in Envs, r \in Roles : pidfile[e][r] # q
    BY <1>f, NoPidIsNone DEF StartSpawn, NextPid, Unused, Recorded
  <2>3. /\ role \in Roles /\ Env(p) \in Envs /\ cmd[p].pc = "spawn"
        /\ Mine(p, role) = NoPid
    BY <1>0, <1>f, SerialTypes DEF StartSpawn, At, RecordInv, NotYetHeld
  <2>4. /\ pidfile' = pidfile
        /\ \A u \in Pids : proc'[u] = IF u = q THEN "runs" ELSE proc[u]
    BY <1>f, SerialTypes DEF StartSpawn
  <2>5. FilesInPlace'
    BY <1>0, <2>4 DEF RecordInv, FilesInPlace
  <2>6. HandsInPlace'
    BY <1>0, <2>1, <2>2, <2>3 DEF RecordInv, HandsInPlace, At, Env, Mine
  <2>7. HandIsRecorded'
    BY <1>0, <2>1, <2>3, <2>4 DEF RecordInv, HandIsRecorded, Env, Mine
  <2>8. FilesInHand'
    <3>1. \A r \in Roles : pidfile[Env(p)][r] \in Pids \union {NoPid}
      BY <2>3, SerialTypes DEF Handful
    <3>2. ASSUME NEW r \in Roles, pidfile[Env(p)][r] # NoPid,
                 cmd'[p].mine[r] # pidfile[Env(p)][r]
          PROVE  proc'[pidfile[Env(p)][r]] # "runs"
      <4>1. Mine(p, r) # pidfile[Env(p)][r]
        BY <2>1, <2>3, <3>2 DEF Mine
      <4>2. proc[pidfile[Env(p)][r]] # "runs"
        BY <1>0, <2>3, <3>2, <4>1 DEF RecordInv, FilesInHand, At
      <4> QED
        BY <2>2, <2>3, <2>4, <3>1, <3>2, <4>2
    <3> QED
      BY <1>0, <2>1, <2>4, <3>2 DEF FilesInHand, At, Env, Mine
  <2>9. NotYetHeld'
    BY <1>0, <2>1, <2>3 DEF RecordInv, NotYetHeld, Mine, Roles, Listeners
  <2>10. ASSUME NEW u \in Astray' PROVE u \in Astray
    <3>1. u \in Pids /\ RoleOf(u) \in Counted /\ ~Recorded(u) /\ u # q /\ proc[u] = "runs"
      BY <1>0, <2>1, <2>3, <2>4, <2>10 DEF Astray, Lost, Runs, Recorded, InHand, Mine
    <3>2. ~InHand(u)
      BY <1>0, <2>1, <2>3, <2>10, <3>1, NoPidIsNone DEF Astray, Lost, InHand, Mine
    <3> QED
      BY <3>1, <3>2, AstrayMeans
  <2> QED
    BY <2>5, <2>6, <2>7, <2>8, <2>9, <2>10 DEF Tracked, RecordInv
<1>g. ASSUME StartSpawnFails(p) PROVE Tracked
  <2>1. CASE AfterSpawn(p)
    BY <1>g, <2>1, <1>after, QuietTracked DEF StartSpawnFails, At
  <2>2. CASE Goto(p, "cleanup")
    BY <1>g, <2>2, <1>clean DEF StartSpawnFails, At
  <2> QED
    BY <1>g, <2>1, <2>2 DEF StartSpawnFails
<1>h. ASSUME StartNote(p) PROVE Tracked
  <2> DEFINE role == cmd[p].role
  <2>1. /\ cmd'[p].env = cmd[p].env /\ cmd'[p].mine = cmd[p].mine
        /\ cmd'[p].pc \in {"spawn", "wait", "publish"} /\ NotYetHeld'
    BY <1>h, <1>after DEF StartNote, At
  <2>2. role \in Roles /\ Env(p) \in Envs /\ cmd[p].pc = "note"
    BY <1>h, SerialTypes DEF StartNote, At
  <2>3. /\ proc' = proc
        /\ \A e \in Envs, r \in Roles :
               pidfile'[e][r] = IF e = Env(p) /\ r = role THEN Mine(p, role) ELSE pidfile[e][r]
    BY <1>h, <2>2, SerialTypes DEF StartNote, Handful
  <2>4. FilesInPlace'
    BY <1>0, <2>2, <2>3 DEF RecordInv, FilesInPlace, HandsInPlace
  <2>5. HandsInPlace'
    BY <1>0, <2>1, <2>2 DEF RecordInv, HandsInPlace, At, Env, Mine
  <2>6. HandIsRecorded'
    BY <1>0, <2>1, <2>2, <2>3 DEF RecordInv, HandIsRecorded, Env, Mine, Counted
  <2>7. FilesInHand'
    BY <1>0, <2>1, <2>2, <2>3 DEF RecordInv, FilesInHand, At, Env, Mine
  <2>8. ASSUME NEW u \in Astray' PROVE u \in Astray
    <3>1. u \in Pids /\ RoleOf(u) \in Counted /\ proc[u] = "runs" /\ ~InHand(u)
      BY <1>0, <2>1, <2>3, <2>8 DEF Astray, Lost, Runs, InHand, Mine
    <3>2. ASSUME NEW e \in Envs, NEW r \in Roles, pidfile[e][r] = u PROVE FALSE
      \* The only pid a pidfile could have held before is the one in hand.
      <4>1. CASE e = Env(p) /\ r = role
        <5>1. Mine(p, role) = u
          <6>1. pidfile[Env(p)][role] # NoPid
            BY <3>1, <3>2, <4>1, NoPidIsNone
          <6> QED
            BY <1>0, <2>2, <3>1, <3>2, <4>1, <6>1 DEF RecordInv, FilesInHand, At
        <5> QED
          BY <1>0, <2>2, <3>1, <5>1 DEF InHand
      <4>2. CASE ~(e = Env(p) /\ r = role)
        BY <2>3, <2>8, <3>2, <4>2 DEF Astray, Lost, Recorded
      <4> QED
        BY <4>1, <4>2
    <3> QED
      BY <3>1, <3>2, AstrayMeans DEF Recorded
  <2> QED
    BY <2>1, <2>4, <2>5, <2>6, <2>7, <2>8 DEF Tracked, RecordInv
<1>i. ASSUME StartNoteFails(p) PROVE Tracked
  <2>1. CASE cmd[p].role = "app"
    BY <1>i, <2>1, <1>after, QuietTracked DEF StartNoteFails, At
  <2>2. CASE cmd[p].role # "app"
    BY <1>i, <2>2, <1>clean DEF StartNoteFails, At
  <2> QED
    BY <2>1, <2>2
<1>j. ASSUME StartAnswered(p) PROVE Tracked
  <2>1. CASE Turn(p, "wait", "observer")
    <3>1. /\ cmd'[p].pc = "wait" /\ cmd'[p].env = cmd[p].env /\ cmd'[p].mine = cmd[p].mine
      BY <2>1, Fields DEF Serial
    <3>2. NotYetHeld'
      BY <1>0, <1>j, <3>1 DEF StartAnswered, RecordInv, NotYetHeld, At, Mine
    <3> QED
      BY <1>j, <3>1, <3>2, QuietTracked DEF StartAnswered, At
  <2>2. CASE Goto(p, "recheck")
    <3>1. /\ cmd'[p].pc = "recheck" /\ cmd'[p].env = cmd[p].env /\ cmd'[p].mine = cmd[p].mine
      BY <2>2, Fields DEF Serial
    <3>2. NotYetHeld'
      BY <1>0, <1>j, <3>1 DEF StartAnswered, RecordInv, NotYetHeld, At, Mine
    <3> QED
      BY <1>j, <3>1, <3>2, QuietTracked DEF StartAnswered, At
  <2> QED
    BY <1>j, <2>1, <2>2 DEF StartAnswered
<1>k. ASSUME StartUnanswered(p) PROVE Tracked
  BY <1>k, <1>clean DEF StartUnanswered, At
<1>l. ASSUME StartRecheck(p) PROVE Tracked
  <2>0. /\ cmd[p].pc = "recheck" /\ Mine(p, "app") = NoPid /\ Env(p) \in Envs
        /\ proc' = proc /\ "recorder" \in Roles
    BY <1>0, <1>l, SerialTypes
       DEF StartRecheck, At, RecordInv, NotYetHeld, Roles, Listeners
  <2>after. /\ AfterRecheck(p).pc = "publish" \/ (AfterRecheck(p).pc = "spawn" /\ AfterRecheck(p).role = "app")
            /\ AfterRecheck(p).env = cmd[p].env /\ AfterRecheck(p).mine = cmd[p].mine
            /\ AfterRecheck(p) \in Commands
    <3>1. cmd[p] \in Commands /\ "app" \in Roles
          /\ "spawn" \in {"idle"} \union Starting \union Stopping
          /\ "publish" \in {"idle"} \union Starting \union Stopping
      BY SerialTypes DEF Roles, Starting
    <3>2. CASE Env(p) \in AppEnvs
      <4> DEFINE c == [cmd[p] EXCEPT !.pc = "spawn", !.role = "app"]
      <4>1. AfterRecheck(p) = c
        BY <3>2 DEF AfterRecheck
      <4>2. c \in Commands
        BY <3>1, CommandMoves
      <4>3. c.pc = "spawn" /\ c.role = "app" /\ c.env = cmd[p].env /\ c.mine = cmd[p].mine
        BY <3>1 DEF Commands
      <4> HIDE DEF c
      <4> QED
        BY <4>1, <4>2, <4>3
    <3>3. CASE Env(p) \notin AppEnvs
      <4> DEFINE c == [cmd[p] EXCEPT !.pc = "publish"]
      <4>1. AfterRecheck(p) = c
        BY <3>3 DEF AfterRecheck
      <4>2. c \in Commands
        BY <3>1, CommandMoves
      <4>3. c.pc = "publish" /\ c.env = cmd[p].env /\ c.mine = cmd[p].mine
        BY <3>1 DEF Commands
      <4> HIDE DEF c
      <4> QED
        BY <4>1, <4>2, <4>3
    <3> QED
      BY <3>2, <3>3
  <2>1. CASE cmd' = [cmd EXCEPT ![p] = AfterRecheck(p)] /\ pidfile' = pidfile
    <3>1. cmd'[p] = AfterRecheck(p)
      BY <1>0, <2>1, SerialTypes
    <3>2. NotYetHeld'
      BY <1>0, <2>0, <2>after, <3>1 DEF NotYetHeld, Mine
    <3> QED
      BY <2>0, <2>1, <2>after, <3>1, <3>2, QuietTracked DEF At
  <2>2. CASE /\ cmd' = [cmd EXCEPT ![p] = [AfterRecheck(p) EXCEPT !.mine.recorder = NoPid]]
             /\ pidfile' = [pidfile EXCEPT ![Env(p)].recorder = NoPid]
             /\ ~Alive(Mine(p, "recorder"))
    <3>1. /\ cmd'[p].env = cmd[p].env
          /\ cmd'[p].pc = "publish" \/ (cmd'[p].pc = "spawn" /\ cmd'[p].role = "app")
          /\ \A r \in Roles : cmd'[p].mine[r] = IF r = "recorder" THEN NoPid ELSE Mine(p, r)
      BY <1>0, <2>0, <2>2, <2>after, SerialTypes DEF Commands, Handful, Mine
    <3>2. \A e \in Envs, r \in Roles :
              pidfile'[e][r] = IF e = Env(p) /\ r = "recorder" THEN NoPid ELSE pidfile[e][r]
      BY <2>0, <2>2, SerialTypes DEF Handful
    <3>3. FilesInPlace'
      BY <1>0, <3>2 DEF RecordInv, FilesInPlace
    <3>4. HandsInPlace'
      BY <1>0, <2>0, <3>1 DEF RecordInv, HandsInPlace, At, Env, Mine
    <3>5. HandIsRecorded'
      BY <1>0, <2>0, <3>1, <3>2 DEF RecordInv, HandIsRecorded, Env, Mine
    <3>6. FilesInHand'
      BY <1>0, <2>0, <3>1, <3>2 DEF RecordInv, FilesInHand, At, Env, Mine
    <3>7. NotYetHeld'
      BY <1>0, <2>0, <3>1 DEF NotYetHeld, Mine, Roles, Listeners
    <3>8. ASSUME NEW u \in Astray' PROVE u \in Astray
      <4>1. u \in Pids /\ RoleOf(u) \in Counted /\ proc[u] = "runs"
        BY <2>0, <3>8 DEF Astray, Lost, Runs
      <4>2. Mine(p, "recorder") # u
        BY <2>2, <4>1, NoPidIsNone DEF Alive
      <4>3. ~InHand(u)
        BY <1>0, <3>1, <3>8, <4>2 DEF Astray, Lost, InHand, Mine
      <4>4. ASSUME NEW e \in Envs, NEW r \in Roles, pidfile[e][r] = u PROVE FALSE
        <5>1. CASE e = Env(p) /\ r = "recorder"
          BY <1>0, <2>0, <4>1, <4>2, <4>4, <5>1, NoPidIsNone DEF RecordInv, FilesInHand, At
        <5>2. CASE ~(e = Env(p) /\ r = "recorder")
          BY <3>2, <3>8, <4>4, <5>2 DEF Astray, Lost, Recorded
        <5> QED
          BY <5>1, <5>2
      <4> QED
        BY <4>1, <4>3, <4>4, AstrayMeans DEF Recorded
    <3> QED
      BY <3>3, <3>4, <3>5, <3>6, <3>7, <3>8 DEF Tracked, RecordInv
  <2>3. CASE Goto(p, "cleanup") /\ pidfile' = pidfile
    BY <2>0, <2>3, <1>clean DEF At
  <2> QED
    BY <1>l, <2>1, <2>2, <2>3 DEF StartRecheck
<1>m. ASSUME StartPublish(p) PROVE Tracked
  <2>1. CASE Return(p)
    <3>1. \A r \in Counted : Mine(p, r) = NoPid \/ pidfile[Env(p)][r] = Mine(p, r)
      BY <1>0, <1>m DEF StartPublish, RecordInv, HandIsRecorded, At, Counted
    <3> QED
      BY <1>m, <2>1, <3>1, ReturnTracked DEF StartPublish, At
  <2>2. CASE Goto(p, "cleanup")
    BY <1>m, <2>2, <1>clean DEF StartPublish, At
  <2> QED
    BY <1>m, <2>1, <2>2 DEF StartPublish
<1>n. ASSUME NEW r0 \in Roles, Cleanup(p, r0) PROVE Tracked
  <2>0. cmd[p].pc = "cleanup" /\ Env(p) \in Envs
    BY <1>n, SerialTypes DEF Cleanup, At
  <2>1. /\ cmd'[p].env = cmd[p].env /\ cmd'[p].pc = "cleanup" /\ cmd'[p].role = cmd[p].role
        /\ \A r \in Roles : cmd'[p].mine[r] = IF r = r0 THEN NoPid ELSE Mine(p, r)
    BY <1>0, <1>n, <2>0, SerialTypes DEF Cleanup, Forgotten, Commands, Handful, Mine
  <2>2. \A e \in Envs, r \in Roles :
            pidfile'[e][r] = IF e = Env(p) /\ r = r0 THEN NoPid ELSE pidfile[e][r]
    BY <1>n, <2>0, SerialTypes DEF Cleanup, Forgotten, Handful
  <2>3. \A u \in Pids : proc'[u] = "runs" => proc[u] = "runs" /\ u # Mine(p, r0)
    BY <1>n, SerialTypes, NoPidIsNone DEF Cleanup, Alive, Ended
  <2>4. FilesInPlace'
    BY <1>0, <2>2 DEF RecordInv, FilesInPlace
  <2>5. HandsInPlace'
    BY <1>0, <2>0, <2>1 DEF RecordInv, HandsInPlace, At, Env, Mine
  <2>6. HandIsRecorded'
    BY <1>0, <2>0, <2>1, <2>2 DEF RecordInv, HandIsRecorded, Env, Mine
  <2>7. FilesInHand'
    <3>1. \A r \in Roles : pidfile[Env(p)][r] \in Pids \union {NoPid}
      BY <2>0, SerialTypes DEF Handful
    <3> QED
      BY <1>0, <2>0, <2>1, <2>2, <2>3, <3>1 DEF RecordInv, FilesInHand, At, Env, Mine
  <2>8. NotYetHeld'
    BY <1>0, <2>1 DEF NotYetHeld
  <2>9. ASSUME NEW u \in Astray' PROVE u \in Astray
    <3>1. u \in Pids /\ RoleOf(u) \in Counted /\ proc[u] = "runs" /\ Mine(p, r0) # u
      BY <2>3, <2>9 DEF Astray, Lost, Runs
    <3>2. ~InHand(u)
      BY <1>0, <2>1, <2>9, <3>1 DEF Astray, Lost, InHand, Mine
    <3>3. ASSUME NEW e \in Envs, NEW r \in Roles, pidfile[e][r] = u PROVE FALSE
      <4>1. CASE e = Env(p) /\ r = r0
        BY <1>0, <2>0, <3>1, <3>3, <4>1, NoPidIsNone DEF RecordInv, FilesInHand, At
      <4>2. CASE ~(e = Env(p) /\ r = r0)
        BY <2>2, <2>9, <3>3, <4>2 DEF Astray, Lost, Recorded
      <4> QED
        BY <4>1, <4>2
    <3> QED
      BY <3>1, <3>2, <3>3, AstrayMeans DEF Recorded
  <2> QED
    BY <2>4, <2>5, <2>6, <2>7, <2>8, <2>9 DEF Tracked, RecordInv
<1>o. ASSUME CleanupSession(p) PROVE Tracked
  <2>1. \A r \in Counted : Mine(p, r) = NoPid
    BY <1>o DEF CleanupSession, NoPids, Mine, Counted
  <2> QED
    BY <1>o, <2>1, ReturnTracked DEF CleanupSession, At
<1> QED
  BY <1>a, <1>b, <1>c, <1>d, <1>e, <1>f, <1>g, <1>h, <1>i, <1>j, <1>k, <1>l, <1>m,
     <1>n, <1>o DEF Start

LEMMA StopTracked ==
    ASSUME NEW p, Serial(p), Stop(p) PROVE Tracked
<1> USE DEF world, faults
<1>0. RecordInv /\ p \in Procs /\ \A u \in Procs : u = p
  BY DEF Serial
<1>a. ASSUME NEW e \in Envs, StopLook(p, e) PROVE Tracked
  <2> DEFINE live == [r \in Roles |-> IF r \in LivePids(e) THEN pidfile[e][r] ELSE NoPid]
  <2>1. /\ cmd'[p].pc = "signal" /\ cmd'[p].env = e /\ cmd'[p].mine = live
    <3> HIDE DEF live
    <3>1. cmd' = [cmd EXCEPT ![p] =
                    [Idle EXCEPT !.pc = "signal", !.env = e, !.knows = e \in info, !.mine = live]]
      BY <1>a DEF StopLook, live
    <3>2. cmd'[p] = [Idle EXCEPT !.pc = "signal", !.env = e, !.knows = e \in info, !.mine = live]
      BY <1>0, <3>1, SerialTypes
    <3> QED
      BY <3>2 DEF Idle
  <2>2. \A r \in Roles : Mine(p, r) = NoPid
    BY <1>0, <1>a DEF StopLook, RecordInv, HandsInPlace, At
  <2>3. \A r \in Roles : /\ cmd'[p].mine[r] \in {NoPid, pidfile[e][r]}
                         /\ cmd'[p].mine[r] # pidfile[e][r] /\ pidfile[e][r] # NoPid
                                => proc[pidfile[e][r]] # "runs"
    BY <2>1 DEF LivePids, Alive
  <2>4. pidfile' = pidfile /\ proc' = proc
    BY <1>a DEF StopLook
  <2>5. FilesInPlace' /\ HandsInPlace'
    BY <1>0, <2>1, <2>3, <2>4 DEF RecordInv, FilesInPlace, HandsInPlace, At, Env, Mine
  <2>6. HandIsRecorded' /\ FilesInHand' /\ NotYetHeld'
    <3> HIDE DEF live
    <3> QED
      BY <1>0, <2>1, <2>3, <2>4 DEF HandIsRecorded, FilesInHand, NotYetHeld, At, Env, Mine
  <2>7. Astray' \subseteq Astray
    BY <1>0, <2>2, <2>4, NoPidIsNone DEF Astray, Lost, Runs, Recorded, InHand
  <2> QED
    BY <2>5, <2>6, <2>7 DEF Tracked, RecordInv
<1>b. ASSUME NEW r0 \in Roles, StopSignal(p, r0) PROVE Tracked
  <2>0. cmd[p].pc = "signal" /\ Env(p) \in Envs /\ pidfile' = pidfile
    BY <1>b, SerialTypes DEF StopSignal, At
  <2>1. /\ cmd'[p].env = cmd[p].env /\ cmd'[p].pc = "signal" /\ cmd'[p].role = cmd[p].role
        /\ \A r \in Roles : cmd'[p].mine[r] = IF r = r0 THEN NoPid ELSE Mine(p, r)
    BY <1>0, <1>b, <2>0, SerialTypes DEF StopSignal, Commands, Handful, Mine
  <2>3. \A u \in Pids : proc'[u] = "runs" => proc[u] = "runs" /\ u # Mine(p, r0)
    BY <1>b, SerialTypes, NoPidIsNone DEF StopSignal, Alive, Ended
  <2>4. FilesInPlace'
    BY <1>0, <2>0 DEF RecordInv, FilesInPlace
  <2>5. HandsInPlace'
    BY <1>0, <2>0, <2>1 DEF RecordInv, HandsInPlace, At, Env, Mine
  <2>6. HandIsRecorded'
    BY <1>0, <2>0, <2>1 DEF RecordInv, HandIsRecorded, Env, Mine
  <2>7. FilesInHand'
    <3>1. \A r \in Roles : pidfile[Env(p)][r] \in Pids \union {NoPid}
      BY <2>0, SerialTypes DEF Handful
    <3> QED
      BY <1>0, <2>0, <2>1, <2>3, <3>1 DEF RecordInv, FilesInHand, At, Env, Mine
  <2>8. NotYetHeld'
    BY <1>0, <2>1 DEF NotYetHeld
  <2>9. ASSUME NEW u \in Astray' PROVE u \in Astray
    <3>1. /\ u \in Pids /\ RoleOf(u) \in Counted /\ proc[u] = "runs" /\ Mine(p, r0) # u
          /\ ~Recorded(u)
      BY <2>0, <2>3, <2>9 DEF Astray, Lost, Runs, Recorded
    <3>2. ~InHand(u)
      BY <1>0, <2>1, <2>9, <3>1 DEF Astray, Lost, InHand, Mine
    <3> QED
      BY <3>1, <3>2, AstrayMeans
  <2> QED
    BY <2>4, <2>5, <2>6, <2>7, <2>8, <2>9 DEF Tracked, RecordInv
<1>c. ASSUME StopForget(p) PROVE Tracked
  <2>0. cmd[p].pc = "signal" /\ Env(p) \in Envs /\ proc' = proc
    BY <1>c, SerialTypes DEF StopForget, At
  <2>1. /\ cmd'[p].env = cmd[p].env /\ cmd'[p].pc = "end" /\ cmd'[p].mine = cmd[p].mine
        /\ \A r \in Roles : Mine(p, r) = NoPid
    BY <1>c, Fields DEF Serial, StopForget, NoPids, Mine
  <2>2. \A e \in Envs, r \in Roles :
            pidfile'[e][r] = IF e = Env(p) THEN NoPid ELSE pidfile[e][r]
    BY <1>c, <2>0, SerialTypes DEF StopForget, NoPids
  <2>3. \A r \in Roles : pidfile[Env(p)][r] # NoPid => proc[pidfile[Env(p)][r]] # "runs"
    BY <1>0, <2>0, <2>1 DEF RecordInv, FilesInHand, At
  <2>4. FilesInPlace' /\ HandsInPlace' /\ HandIsRecorded' /\ FilesInHand' /\ NotYetHeld'
    BY <1>0, <2>1, <2>2
       DEF RecordInv, FilesInPlace, HandsInPlace, HandIsRecorded, FilesInHand,
           NotYetHeld, At, Env, Mine
  <2>5. ASSUME NEW u \in Astray' PROVE u \in Astray
    <3>1. u \in Pids /\ RoleOf(u) \in Counted /\ proc[u] = "runs" /\ ~InHand(u)
      BY <1>0, <2>0, <2>1, <2>5 DEF Astray, Lost, Runs, InHand, Mine
    <3>2. ASSUME NEW e \in Envs, NEW r \in Roles, pidfile[e][r] = u PROVE FALSE
      <4>1. CASE e = Env(p)
        BY <2>3, <3>1, <3>2, <4>1, NoPidIsNone
      <4>2. CASE e # Env(p)
        BY <2>2, <2>5, <3>2, <4>2 DEF Astray, Lost, Recorded
      <4> QED
        BY <4>1, <4>2
    <3> QED
      BY <3>1, <3>2, AstrayMeans DEF Recorded
  <2> QED
    BY <2>4, <2>5 DEF Tracked, RecordInv
<1>d. ASSUME StopSession(p) PROVE Tracked
  <2>1. \A r \in Counted : Mine(p, r) = NoPid
    BY <1>0, <1>d DEF StopSession, RecordInv, NotYetHeld, At, Counted
  <2> QED
    BY <1>d, <2>1, ReturnTracked DEF StopSession, At
<1> QED
  BY <1>a, <1>b, <1>c, <1>d DEF Stop

\* Outside the commands nothing comes to run, and nothing that is known changes.
LEMMA WorldTracked ==
    ASSUME NEW p, Serial(p), World PROVE Tracked
<1> USE DEF world, faults
<1>0. RecordInv /\ p \in Procs /\ \A u \in Procs : u = p
  BY DEF Serial
<1>1. ASSUME pidfile' = pidfile, cmd' = cmd,
             \A u \in Pids : proc'[u] = "runs" => proc[u] = "runs"
      PROVE  Tracked
  <2>1. FilesInPlace' /\ HandsInPlace' /\ HandIsRecorded' /\ NotYetHeld'
    BY <1>0, <1>1 DEF RecordInv, FilesInPlace, HandsInPlace, HandIsRecorded, NotYetHeld,
                      At, Env, Mine
  <2>2. FilesInHand'
    <3>1. ~At(p, "idle") => \A r \in Roles : pidfile[Env(p)][r] \in Pids \union {NoPid}
      BY SerialTypes DEF Handful
    <3> QED
      BY <1>0, <1>1, <3>1 DEF RecordInv, FilesInHand, At, Env, Mine
  <2>3. Astray' \subseteq Astray
    BY <1>1 DEF Astray, Lost, Runs, Recorded, InHand, Mine
  <2> QED
    BY <2>1, <2>2, <2>3 DEF Tracked, RecordInv
<1>2. ASSUME NEW q \in Pids, NEW l \in Listeners, ListenerBinds(q, l) PROVE Tracked
  BY <1>1, <1>2 DEF ListenerBinds
<1>3. ASSUME NEW q \in Pids, NEW l \in Listeners, ListenerExits(q, l) PROVE Tracked
  BY <1>1, <1>3, SerialTypes DEF ListenerExits, Ended
<1>4. ASSUME NEW q \in Pids, RecorderFindsNoSession(q) PROVE Tracked
  BY <1>1, <1>4, SerialTypes DEF RecorderFindsNoSession, Ended
<1>5. ASSUME NEW q \in Pids, Dies(q) PROVE Tracked
  BY <1>1, <1>5, SerialTypes DEF Dies, Ended
<1>6. ASSUME NEW q \in Pids, Recycle(q) PROVE Tracked
  BY <1>1, <1>6, SerialTypes DEF Recycle
<1>7. ASSUME NEW e \in Envs, CandidateEndsSession(e) PROVE Tracked
  BY <1>1, <1>7 DEF CandidateEndsSession
<1>8. ASSUME Reboot PROVE Tracked
  <2>1. /\ cmd'[p].pc = "idle" /\ \A r \in Roles : cmd'[p].mine[r] = NoPid
        /\ pidfile' = pidfile /\ \A u \in Pids : proc'[u] = "dead"
    BY <1>0, <1>8 DEF Reboot, Idle, NoPids
  <2>2. FilesInPlace' /\ HandsInPlace' /\ HandIsRecorded' /\ FilesInHand' /\ NotYetHeld'
    BY <1>0, <2>1 DEF RecordInv, FilesInPlace, HandsInPlace, HandIsRecorded, FilesInHand,
                      NotYetHeld, At, Mine
  <2>3. Astray' = {}
    BY <2>1 DEF Astray, Lost, Runs
  <2> QED
    BY <2>2, <2>3 DEF Tracked, RecordInv
<1> QED
  BY <1>2, <1>3, <1>4, <1>5, <1>6, <1>7, <1>8 DEF World

\* A killed command takes with it what it had in hand: one process at most that
\* is in no pidfile, the one its last step spawned.
LEMMA CrashTracked ==
    ASSUME NEW p, Serial(p), Crash(p)
    PROVE  RecordInv' /\ \E q : Astray' \subseteq Astray \union {q}
<1> USE SerialTypes DEF Serial, At, Env, Mine, world
<1>0. cmd'[p] = Idle /\ pidfile' = pidfile /\ proc' = proc
  BY DEF Crash, Return
<1>1. cmd'[p].pc = "idle" /\ \A r \in Roles : cmd'[p].mine[r] = NoPid
  BY <1>0 DEF Idle, NoPids
<1>2. FilesInPlace' /\ HandsInPlace' /\ HandIsRecorded' /\ FilesInHand' /\ NotYetHeld'
  BY <1>0, <1>1 DEF RecordInv, FilesInPlace, HandsInPlace, HandIsRecorded, FilesInHand,
                    NotYetHeld
<1>3. ASSUME NEW u \in Astray', u # Mine(p, cmd[p].role) PROVE u \in Astray
  <2>1. /\ u \in Pids /\ proc[u] = "runs" /\ RoleOf(u) \in Counted
        /\ ~Recorded(u)
    BY <1>0, <1>3 DEF Astray, Lost, Runs, Recorded
  <2>2. ASSUME NEW r \in Roles, cmd[p].mine[r] = u PROVE FALSE
    <3>1. u # NoPid
      BY <2>1, NoPidIsNone
    <3>2. RoleOf(u) = r /\ ~At(p, "idle")
      BY <2>2, <3>1 DEF RecordInv, HandsInPlace
    <3>3. pidfile[Env(p)][r] = u
      BY <1>3, <2>1, <2>2, <3>1, <3>2 DEF RecordInv, HandIsRecorded, Counted
    <3>4. Env(p) \in Envs
      BY <3>2
    <3> QED
      BY <2>1, <3>3, <3>4 DEF Recorded
  <2> QED
    BY <2>1, <2>2, AstrayMeans DEF InHand
<1>4. Astray' \subseteq Astray \union {Mine(p, cmd[p].role)}
  BY <1>3
<1>5. \E q : Astray' \subseteq Astray \union {q}
  BY <1>4
<1> QED
  BY <1>2, <1>5 DEF RecordInv

\* The invariant of the theorem: the count, of a set that is finite.
CountInv ==
    /\ TypeInv
    /\ RecordInv
    /\ IsFiniteSet(Astray)
    /\ Cardinality(Astray) <= crashes

LEMMA CountInit == Init => CountInv
<1> SUFFICES ASSUME Init PROVE CountInv
  OBVIOUS
<1>1. RecordInv
  BY DEF Init, RecordInv, FilesInPlace, HandsInPlace, HandIsRecorded, FilesInHand,
         NotYetHeld, At, Mine, Env, Idle, NoPids
<1>2. Astray = {}
  BY DEF Init, Astray, Lost, Runs
<1>3. IsFiniteSet(Astray) /\ Cardinality(Astray) = 0
  BY <1>2, FS_EmptySet
<1> QED
  BY <1>1, <1>3, InitTypes DEF CountInv, Init

LEMMA CountStep ==
    ASSUME OneAtATime, CountInv, [Next]_vars PROVE CountInv'
<1>1. TypeInv'
  BY TypesKept DEF CountInv
<1>2. /\ crashes \in Nat /\ crashes' \in Nat
      /\ IsFiniteSet(Astray) /\ Cardinality(Astray) \in Nat
  BY <1>1, FS_CardinalityType DEF CountInv, TypeInv, TypeOK
<1>tracked. ASSUME Tracked, crashes' = crashes PROVE CountInv'
  <2>1. IsFiniteSet(Astray') /\ Cardinality(Astray') <= Cardinality(Astray)
    BY <1>2, <1>tracked, FS_Subset DEF Tracked
  <2>2. Cardinality(Astray') \in Nat
    BY <2>1, FS_CardinalityType
  <2>3. Cardinality(Astray') <= crashes'
    BY <1>2, <1>tracked, <2>1, <2>2 DEF CountInv
  <2> QED
    BY <1>1, <1>tracked, <2>1, <2>3 DEF CountInv, Tracked
<1>2a. ASSUME NEW p \in Procs PROVE Serial(p)
  BY <1>1 DEF CountInv, Serial, OneAtATime
<1>3. ASSUME NEW p \in Procs, Start(p) PROVE CountInv'
  <2>1. crashes' = crashes
    BY <1>3 DEF Start, StartLook, StartSweep, StartPorts, StartTmux, StartShare, StartSpawn,
       StartSpawnFails, StartNote, StartNoteFails, StartAnswered, StartUnanswered,
       StartRecheck, StartPublish, Cleanup, CleanupSession, faults
  <2> QED
    BY <1>2a, <1>3, <1>tracked, <2>1, StartTracked
<1>4. ASSUME NEW p \in Procs, Stop(p) PROVE CountInv'
  <2>1. crashes' = crashes
    BY <1>4 DEF Stop, StopLook, StopSignal, StopForget, StopSession, faults
  <2> QED
    BY <1>2a, <1>4, <1>tracked, <2>1, StopTracked
<1>5. ASSUME NEW p \in Procs, Crash(p) PROVE CountInv'
  <2>1. RecordInv' /\ \E q : Astray' \subseteq Astray \union {q}
    BY <1>2a, <1>5, CrashTracked
  <2>2. PICK q : Astray' \subseteq Astray \union {q}
    BY <2>1
  <2>3. /\ IsFiniteSet(Astray \union {q})
        /\ Cardinality(Astray \union {q}) <= Cardinality(Astray) + 1
    BY <1>2, FS_AddElement
  <2>4. /\ IsFiniteSet(Astray')
        /\ Cardinality(Astray') <= Cardinality(Astray \union {q})
    BY <2>2, <2>3, FS_Subset
  <2>5. /\ Cardinality(Astray') \in Nat /\ Cardinality(Astray \union {q}) \in Nat
    BY <2>3, <2>4, FS_CardinalityType
  <2>6. Cardinality(Astray') <= crashes'
    BY <1>2, <1>5, <2>3, <2>4, <2>5 DEF CountInv, Crash
  <2> QED
    BY <1>1, <2>1, <2>4, <2>6 DEF CountInv
<1>6. ASSUME World PROVE CountInv'
  <2>1. crashes' = crashes
    BY <1>6 DEF World, ListenerBinds, ListenerExits, RecorderFindsNoSession, Dies, Recycle,
       CandidateEndsSession, Reboot, faults
  <2>2. CASE \E p : p \in Procs
    BY <1>2a, <1>6, <1>tracked, <2>1, <2>2, WorldTracked
  <2>3. CASE Procs = {}
    <3>1. pidfile' = pidfile /\ \A u \in Pids : proc'[u] = "runs" => proc[u] = "runs"
      BY <1>6 DEF CountInv, TypeInv, TypeOK, World, ListenerBinds, ListenerExits,
         RecorderFindsNoSession, Dies, Recycle, CandidateEndsSession, Reboot, Ended, world
    <3>2. RecordInv'
      BY <2>3, <3>1 DEF CountInv, RecordInv, FilesInPlace, HandsInPlace, HandIsRecorded,
         FilesInHand, NotYetHeld
    <3>3. Astray' \subseteq Astray
      BY <2>3, <3>1 DEF Astray, Lost, Runs, Recorded, InHand
    <3> QED
      BY <1>tracked, <2>1, <3>2, <3>3 DEF Tracked
  <2> QED
    BY <2>2, <2>3
<1>7. ASSUME UNCHANGED vars PROVE CountInv'
  <2>1. Tracked /\ crashes' = crashes
    BY <1>7 DEF vars, world, faults, CountInv, RecordInv, Tracked, FilesInPlace,
       HandsInPlace, HandIsRecorded, FilesInHand, NotYetHeld, At, Env, Mine,
       Astray, Lost, Runs, Recorded, InHand
  <2> QED
    BY <1>tracked, <2>1
<1> QED
  BY <1>3, <1>4, <1>5, <1>6, <1>7 DEF Next

\* With one command at a time, for any number of environments, of failed writes,
\* of reboots and of recycled pids: the recorders and listeners that run and that
\* no later stop would find are at most as many as the commands that were killed.
THEOREM ProcessesAreRecorded ==
    ASSUME OneAtATime PROVE Spec => []EveryProcessIsRecorded
<1>1. CountInv => EveryProcessIsRecorded
  BY DEF CountInv, EveryProcessIsRecorded, Astray, Counted
<1>2. Init => CountInv
  BY CountInit
<1>3. CountInv /\ [Next]_vars => CountInv'
  BY OneAtATime, CountStep
<1> QED
  BY <1>1, <1>2, <1>3, PTL DEF Spec

-----------------------------------------------------------------------------
(* The recorder's log and what stop leaves, with one command at a time. *)

\* Where a start has its tmux session, or cleans up after it.
AfterTmux == {"share", "spawn", "note", "wait", "recheck", "publish", "cleanup"}

\* No recorder watches a session that the platform ended, so that it has nobody to accuse;
\* and a start that may spawn one has a session the platform did not end.
BlameInv ==
    crashes = 0 =>
        /\ accused = {}
        /\ \A q \in Pids : Runs(q, "recorder") => EnvOf(q) \notin stopped
        /\ \A p \in Procs : cmd[p].pc \in AfterTmux => Env(p) \notin stopped

\* A tmux session is known to session.json or to the start that has it in hand; a stop that
\* found no session.json has no session to end, and one that has dropped its pidfiles none
\* to drop.
EndInv ==
    /\ \A p \in Procs : At(p, "end") => pidfile[Env(p)] = NoPids
    /\ crashes = 0 =>
        /\ \A e \in tmux : e \in info \/ \E p \in Procs : cmd[p].pc \in AfterTmux /\ Env(p) = e
        /\ \A p \in Procs : cmd[p].pc \in Stopping /\ ~cmd[p].knows => Env(p) \notin tmux

\* What a step of a start does, as far as these are concerned.
Keeps(p) ==
    /\ crashes' = crashes /\ accused' = accused /\ info \subseteq info'
    /\ cmd'[p].pc \notin Stopping
    /\ cmd'[p].pc \in AfterTmux =>
          cmd'[p].env = cmd[p].env /\ cmd[p].pc \in AfterTmux \union {"tmux"}
    /\ cmd[p].pc \in AfterTmux =>
          cmd'[p].pc \in AfterTmux \/ Env(p) \in info' \/ Env(p) \notin tmux'
    /\ tmux' \subseteq tmux \/ (cmd'[p].pc = "share" /\ tmux' \subseteq tmux \union {Env(p)})
    /\ \/ stopped' \subseteq stopped
       \/ /\ At(p, "cleanup") /\ cmd[p].mine = NoPids /\ cmd'[p].pc = "idle"
          /\ stopped' \subseteq stopped \union {Env(p)}
    /\ cmd'[p].pc \in AfterTmux /\ cmd[p].pc = "tmux" => Env(p) \notin stopped'
    /\ \A u \in Pids : proc'[u] = "runs" /\ proc[u] # "runs" =>
          cmd[p].pc \in AfterTmux /\ cmd'[p].pc = "note" /\ EnvOf(u) = Env(p)

LEMMA StartKeeps ==
    ASSUME NEW p, Serial(p), Start(p) PROVE Keeps(p)
<1> USE DEF world, faults, At, Env, AfterTmux, Stopping
<1>0. /\ p \in Procs /\ cmd \in [Procs -> Commands] /\ cmd[p] \in Commands
      /\ proc \in [Pids -> {"runs", "stranger", "dead"}]
  BY SerialTypes DEF Serial
<1>i. Idle.pc = "idle"
  BY DEF Idle
<1>r. ASSUME Return(p) PROVE cmd'[p].pc = "idle"
  BY <1>0, <1>i, <1>r DEF Return
<1>g. ASSUME NEW label, Goto(p, label) PROVE cmd'[p].pc = label /\ cmd'[p].env = cmd[p].env
  BY <1>g, Fields
<1>t. ASSUME NEW label, NEW role, Turn(p, label, role)
      PROVE  cmd'[p].pc = label /\ cmd'[p].env = cmd[p].env
  BY <1>t, Fields
<1>a. ASSUME AfterSpawn(p)
      PROVE  cmd'[p].pc \in {"spawn", "wait", "publish"} /\ cmd'[p].env = cmd[p].env
  <2>1. cmd[p].role \in {"recorder", "candidate", "observer", "app"}
    BY SerialTypes DEF Roles, Listeners
  <2> QED
    BY <1>a, <1>g, <1>t, <2>1 DEF AfterSpawn
\* Within the start: nothing but the command and the pidfiles changes.
<1>w. ASSUME UNCHANGED <<crashes, accused, tmux, stopped, info>>,
             \A u \in Pids : proc'[u] = "runs" => proc[u] = "runs",
             \/ cmd[p].pc \notin AfterTmux
             \/ cmd'[p].pc \in AfterTmux,
             cmd'[p].pc \notin Stopping,
             cmd'[p].pc \in AfterTmux => cmd'[p].env = cmd[p].env /\ cmd[p].pc \in AfterTmux
      PROVE  Keeps(p)
  BY <1>w DEF Keeps
<1>1. ASSUME NEW e \in Envs, StartLook(p, e) PROVE Keeps(p)
  <2>1. cmd'[p].pc = "sweep"
    BY <1>0, <1>1 DEF StartLook, Idle
  <2> QED
    BY <1>1, <1>w, <2>1 DEF StartLook
<1>2. CASE StartSweep(p)
  BY <1>2, <1>g, <1>w DEF StartSweep
<1>3. CASE StartPorts(p)
  BY <1>3, <1>g, <1>r, <1>w DEF StartPorts
<1>4. CASE StartTmux(p)
  <2>1. CASE Return(p) /\ UNCHANGED <<tmux, stopped>>
    BY <1>4, <1>r, <1>w, <2>1 DEF StartTmux
  <2>2. CASE Goto(p, "share") /\ tmux' = tmux \union {Env(p)} /\ stopped' = stopped \ {Env(p)}
    BY <1>4, <1>g, <2>2 DEF StartTmux, Keeps
  <2> QED
    BY <1>4, <2>1, <2>2 DEF StartTmux
<1>5. CASE StartShare(p)
  BY <1>5, <1>g, <1>t, <1>w DEF StartShare
<1>6. ASSUME NEW q \in Pids, StartSpawn(p, q) PROVE Keeps(p)
  <2>1. cmd'[p].pc = "note" /\ cmd'[p].env = cmd[p].env
    BY <1>0, <1>6 DEF StartSpawn, Commands
  <2>2. EnvOf(q) = Env(p)
    BY <1>6 DEF StartSpawn, NextPid
  <2>3. \A u \in Pids : u # q => proc'[u] = proc[u]
    BY <1>0, <1>6 DEF StartSpawn
  <2> QED
    BY <1>6, <2>1, <2>2, <2>3 DEF StartSpawn, Keeps
<1>7. CASE StartSpawnFails(p)
  BY <1>7, <1>a, <1>g, <1>w DEF StartSpawnFails
<1>8. CASE StartNote(p)
  BY <1>8, <1>a, <1>w DEF StartNote
<1>9. CASE StartNoteFails(p)
  BY <1>9, <1>a, <1>g, <1>w DEF StartNoteFails
<1>10. CASE StartAnswered(p) \/ StartUnanswered(p)
  BY <1>10, <1>g, <1>t, <1>w DEF StartAnswered, StartUnanswered
<1>11. CASE StartRecheck(p)
  <2>1. cmd'[p].pc \in {"spawn", "publish", "cleanup"} /\ cmd'[p].env = cmd[p].env
    <3>1. CASE Goto(p, "cleanup")
      BY <1>g, <3>1
    <3>2. CASE cmd' = [cmd EXCEPT ![p] = AfterRecheck(p)]
      BY <1>0, <3>2 DEF AfterRecheck, Commands
    <3>3. CASE cmd' = [cmd EXCEPT ![p] = [AfterRecheck(p) EXCEPT !.mine.recorder = NoPid]]
      BY <1>0, <3>3 DEF AfterRecheck, Commands
    <3> QED
      BY <1>11, <3>1, <3>2, <3>3 DEF StartRecheck
  <2> QED
    BY <1>11, <1>w, <2>1 DEF StartRecheck
<1>12. CASE StartPublish(p)
  <2>1. CASE info' = info \union {Env(p)} /\ Return(p)
    BY <1>12, <1>r, <2>1 DEF StartPublish, Keeps
  <2>2. CASE UNCHANGED info /\ Goto(p, "cleanup")
    BY <1>12, <1>g, <1>w, <2>2 DEF StartPublish
  <2> QED
    BY <1>12, <2>1, <2>2 DEF StartPublish
<1>13. ASSUME NEW r \in Roles, Cleanup(p, r) PROVE Keeps(p)
  <2>1. cmd'[p].pc = "cleanup" /\ cmd'[p].env = cmd[p].env
    BY <1>0, <1>13 DEF Cleanup, Forgotten, Commands
  <2>2. \A u \in Pids : proc'[u] = "runs" => proc[u] = "runs"
    BY <1>0, <1>13 DEF Cleanup, Ended
  <2> QED
    BY <1>13, <1>w, <2>1, <2>2 DEF Cleanup
<1>14. CASE CleanupSession(p)
  BY <1>14, <1>r DEF CleanupSession, KillSession, Keeps
<1> QED
  BY <1>1, <1>2, <1>3, <1>4, <1>5, <1>6, <1>7, <1>8, <1>9, <1>10, <1>11, <1>12, <1>13, <1>14 DEF Start

\* Once a command has ended or forgotten all it held, nothing of its environment runs that
\* a pidfile or the command knows of.
LEMMA NothingKnownRuns ==
    ASSUME NEW p, Serial(p), ~At(p, "idle"), \A r \in Roles : Mine(p, r) = NoPid,
           At(p, "end") => pidfile[Env(p)] = NoPids,
           NEW u \in Pids, proc[u] = "runs", EnvOf(u) = Env(p)
    PROVE  ~Recorded(u) /\ ~InHand(u)
<1>0. RecordInv /\ p \in Procs /\ (\A v \in Procs : v = p) /\ u # NoPid /\ Env(p) \in Envs
  BY NoPidIsNone, SerialTypes DEF Serial
<1>1. ~InHand(u)
  BY <1>0 DEF InHand
<1>2. ASSUME NEW e \in Envs, NEW r \in Roles, pidfile[e][r] = u PROVE FALSE
  <2>1. e = Env(p)
    BY <1>0, <1>2 DEF RecordInv, FilesInPlace
  <2>2. CASE At(p, "end")
    BY <1>0, <1>2, <2>1, <2>2 DEF NoPids
  <2>3. CASE ~At(p, "end")
    BY <1>0, <1>2, <2>1, <2>3 DEF RecordInv, FilesInHand
  <2> QED
    BY <2>2, <2>3
<1> QED
  BY <1>1, <1>2 DEF Recorded

\* With no command killed, a recorder or listener that runs is known.
LEMMA NoneAstray ==
    ASSUME CountInv, crashes = 0, NEW u \in Pids, proc[u] = "runs", RoleOf(u) \in Counted
    PROVE  Recorded(u) \/ InHand(u)
<1>1. IsFiniteSet(Astray) /\ Cardinality(Astray) \in Nat /\ Cardinality(Astray) <= 0
  BY FS_CardinalityType DEF CountInv
<1>2. Cardinality(Astray) = 0
  BY <1>1
<1>3. Astray = {}
  BY <1>1, <1>2, FS_EmptySet
<1> QED
  BY <1>3, AstrayMeans

LEMMA LastBlame ==
    ASSUME NEW p, Serial(p), CountInv, BlameInv, EndInv, crashes = 0, crashes' = 0,
           accused' = accused, ~At(p, "idle"), \A r \in Roles : Mine(p, r) = NoPid,
           cmd'[p].pc = "idle", \A u \in Pids : proc'[u] = "runs" => proc[u] = "runs",
           stopped' \subseteq stopped \union {Env(p)}
    PROVE  BlameInv'
<1>0. p \in Procs /\ \A v \in Procs : v = p
  BY DEF Serial
<1>1. ASSUME NEW u \in Pids, proc[u] = "runs", RoleOf(u) = "recorder" PROVE EnvOf(u) # Env(p)
  <2>1. Recorded(u) \/ InHand(u)
    BY <1>1, NoneAstray DEF Counted, Roles
  <2>2. At(p, "end") => pidfile[Env(p)] = NoPids
    BY <1>0 DEF EndInv
  <2> QED
    BY <1>1, <2>1, <2>2, NothingKnownRuns
<1> QED
  BY <1>0, <1>1 DEF BlameInv, Runs, AfterTmux

\* A step of a start.
LEMMA StartFair ==
    ASSUME NEW p, Serial(p), CountInv, BlameInv, EndInv, Start(p) PROVE BlameInv' /\ EndInv'
<1>0. p \in Procs /\ (\A v \in Procs : v = p) /\ Keeps(p)
  BY StartKeeps DEF Serial
<1>1. BlameInv'
  <2>1. CASE crashes # 0
    BY <1>0, <2>1 DEF BlameInv, Keeps
  <2>2. CASE crashes = 0 /\ stopped' \subseteq stopped
    <3>1. ASSUME NEW u \in Pids, Runs(u, "recorder")' PROVE EnvOf(u) \notin stopped'
      <4>1. CASE proc[u] = "runs"
        BY <2>2, <3>1, <4>1 DEF BlameInv, Runs
      <4>2. CASE proc[u] # "runs"
        BY <1>0, <2>2, <3>1, <4>2 DEF BlameInv, Keeps, Runs
      <4> QED
        BY <4>1, <4>2
    <3>2. cmd'[p].pc \in AfterTmux => cmd'[p].env \notin stopped'
      BY <1>0, <2>2 DEF BlameInv, Keeps, Env
    <3>3. accused' = {}
      BY <1>0, <2>2 DEF BlameInv, Keeps
    <3> QED
      BY <1>0, <3>1, <3>2, <3>3 DEF BlameInv, Env
  <2>3. CASE crashes = 0 /\ ~(stopped' \subseteq stopped)
    <3>1. /\ At(p, "cleanup") /\ cmd[p].mine = NoPids /\ cmd'[p].pc = "idle"
          /\ stopped' \subseteq stopped \union {Env(p)}
          /\ crashes' = 0 /\ accused' = accused
      BY <1>0, <2>3 DEF Keeps
    <3>2. \A u \in Pids : proc'[u] = "runs" => proc[u] = "runs"
      BY <1>0, <3>1 DEF Keeps
    <3>3. ~At(p, "idle") /\ \A r \in Roles : Mine(p, r) = NoPid
      BY <3>1 DEF At, Mine, NoPids
    <3> QED
      BY <2>3, <3>1, <3>2, <3>3, LastBlame
  <2> QED
    BY <2>1, <2>2, <2>3
<1>2. EndInv'
  <2>1. \A v \in Procs : cmd'[v].pc \notin Stopping
    BY <1>0 DEF Keeps
  <2>2. ASSUME crashes = 0, NEW e \in tmux'
        PROVE  e \in info' \/ (cmd'[p].pc \in AfterTmux /\ cmd'[p].env = e)
    <3>1. CASE e \in tmux
      <4>1. e \in info \/ (cmd[p].pc \in AfterTmux /\ Env(p) = e)
        BY <1>0, <2>2, <3>1 DEF EndInv
      <4> QED
        BY <1>0, <2>2, <4>1 DEF Keeps, Env
    <3>2. CASE e \notin tmux
      BY <1>0, <2>2, <3>2 DEF Keeps, Env, AfterTmux
    <3> QED
      BY <3>1, <3>2
  <2>3. crashes' = crashes
    BY <1>0 DEF Keeps
  <2> QED
    BY <1>0, <2>1, <2>2, <2>3 DEF EndInv, Stopping, At, Env
<1> QED
  BY <1>1, <1>2

\* A step of a stop.
LEMMA StopFair ==
    ASSUME NEW p, Serial(p), CountInv, BlameInv, EndInv, Stop(p) PROVE BlameInv' /\ EndInv'
<1> USE DEF world, faults
<1>0. /\ p \in Procs /\ (\A v \in Procs : v = p) /\ RecordInv
      /\ proc \in [Pids -> {"runs", "stranger", "dead"}]
  BY SerialTypes DEF Serial
\* Before its last step it ends no session, and what it knows stays true.
<1>w. ASSUME UNCHANGED <<crashes, accused, tmux, stopped, info>>,
             \A u \in Pids : proc'[u] = "runs" => proc[u] = "runs",
             cmd[p].pc \notin AfterTmux, cmd'[p].pc \in Stopping,
             cmd'[p].pc = "end" => pidfile'[cmd'[p].env] = NoPids,
             \/ cmd'[p].knows <=> cmd'[p].env \in info
             \/ /\ cmd[p].pc \in Stopping
                /\ cmd'[p].knows = cmd[p].knows /\ cmd'[p].env = cmd[p].env
      PROVE  BlameInv' /\ EndInv'
  <2>1. BlameInv'
    BY <1>0, <1>w DEF BlameInv, Runs, AfterTmux, Stopping
  <2>2. crashes = 0 => tmux \subseteq info
    BY <1>0, <1>w DEF EndInv
  <2>3. crashes = 0 /\ ~cmd'[p].knows => cmd'[p].env \notin tmux
    BY <1>0, <1>w, <2>2 DEF EndInv, Env
  <2> QED
    BY <1>0, <1>w, <2>1, <2>2, <2>3 DEF EndInv, At, Env
<1>1. ASSUME NEW e \in Envs, StopLook(p, e) PROVE BlameInv' /\ EndInv'
  <2> DEFINE live == [r \in Roles |-> IF r \in LivePids(e) THEN pidfile[e][r] ELSE NoPid]
  <2>1. cmd'[p].pc = "signal" /\ cmd'[p].env = e /\ cmd'[p].knows = (e \in info)
    <3> HIDE DEF live
    <3>1. cmd' = [cmd EXCEPT ![p] =
                    [Idle EXCEPT !.pc = "signal", !.env = e, !.knows = e \in info, !.mine = live]]
      BY <1>1 DEF StopLook, live
    <3>2. cmd'[p] = [Idle EXCEPT !.pc = "signal", !.env = e, !.knows = e \in info, !.mine = live]
      BY <1>0, <3>1, SerialTypes
    <3> QED
      BY <3>2 DEF Idle
  <2> QED
    BY <1>1, <1>w, <2>1 DEF StopLook, At, AfterTmux, Stopping
<1>2. ASSUME NEW r \in Roles, StopSignal(p, r) PROVE BlameInv' /\ EndInv'
  <2>1. cmd'[p].pc = "signal" /\ cmd'[p].env = cmd[p].env /\ cmd'[p].knows = cmd[p].knows
    BY <1>0, <1>2, SerialTypes DEF StopSignal, At, Commands
  <2>2. \A u \in Pids : proc'[u] = "runs" => proc[u] = "runs"
    BY <1>0, <1>2 DEF StopSignal, Ended
  <2> QED
    BY <1>2, <1>w, <2>1, <2>2 DEF StopSignal, At, AfterTmux, Stopping
<1>3. CASE StopForget(p)
  <2>1. cmd'[p].pc = "end" /\ cmd'[p].env = cmd[p].env /\ cmd'[p].knows = cmd[p].knows
    BY <1>0, <1>3, SerialTypes DEF StopForget, Goto, Commands
  <2>2. pidfile'[cmd[p].env] = NoPids
    BY <1>3, SerialTypes DEF StopForget, At, Env
  <2> QED
    BY <1>3, <1>w, <2>1, <2>2 DEF StopForget, At, AfterTmux, Stopping
<1>4. CASE StopSession(p)
  <2>1. cmd'[p].pc = "idle"
    BY <1>0, <1>4, SerialTypes DEF StopSession, Return, Idle
  <2>2. \A r \in Roles : Mine(p, r) = NoPid
    BY <1>0, <1>4 DEF StopSession, RecordInv, NotYetHeld, At
  <2>3. /\ UNCHANGED <<crashes, accused, info, proc>>
        /\ tmux' \subseteq tmux /\ stopped' \subseteq stopped \union {Env(p)}
        /\ ~At(p, "idle") /\ cmd[p].pc \notin AfterTmux
    BY <1>4 DEF StopSession, KillSession, At, AfterTmux
  <2>4. BlameInv'
    <3>1. CASE crashes = 0
      BY <2>1, <2>2, <2>3, <3>1, LastBlame
    <3>2. CASE crashes # 0
      BY <2>3, <3>2 DEF BlameInv
    <3> QED
      BY <3>1, <3>2
  <2>5. EndInv'
    BY <1>0, <2>1, <2>3 DEF EndInv, At, Stopping
  <2> QED
    BY <2>4, <2>5
<1> QED
  BY <1>1, <1>2, <1>3, <1>4 DEF Stop

\* Outside the commands sessions only end, and not by the platform.
LEMMA WorldFair ==
    ASSUME TypeInv, BlameInv, EndInv, World PROVE BlameInv' /\ EndInv'
<1> USE DEF world, faults
<1>0. proc \in [Pids -> {"runs", "stranger", "dead"}]
  BY DEF TypeInv, TypeOK
<1>w. ASSUME UNCHANGED <<cmd, pidfile, info, crashes>>, tmux' \subseteq tmux,
             stopped' \subseteq stopped, crashes = 0 => accused' = accused,
             \A u \in Pids : proc'[u] = "runs" => proc[u] = "runs"
      PROVE  BlameInv' /\ EndInv'
  <2>1. BlameInv'
    BY <1>w DEF BlameInv, Runs, Env
  <2>2. EndInv'
    BY <1>w DEF EndInv, At, Env
  <2> QED
    BY <2>1, <2>2
<1>1. ASSUME NEW q \in Pids, NEW l \in Listeners, ListenerBinds(q, l) PROVE BlameInv' /\ EndInv'
  BY <1>1, <1>w DEF ListenerBinds
<1>2. ASSUME NEW q \in Pids, NEW l \in Listeners, ListenerExits(q, l) PROVE BlameInv' /\ EndInv'
  BY <1>0, <1>2, <1>w DEF ListenerExits, Ended
<1>3. ASSUME NEW q \in Pids, RecorderFindsNoSession(q) PROVE BlameInv' /\ EndInv'
  <2>1. crashes = 0 => EnvOf(q) \notin stopped
    BY <1>3 DEF RecorderFindsNoSession, BlameInv
  <2>2. crashes = 0 => accused' = accused
    BY <1>3, <2>1 DEF RecorderFindsNoSession
  <2> QED
    BY <1>0, <1>3, <1>w, <2>2 DEF RecorderFindsNoSession, Ended
<1>4. ASSUME NEW q \in Pids, Dies(q) PROVE BlameInv' /\ EndInv'
  BY <1>0, <1>4, <1>w DEF Dies, Ended
<1>5. ASSUME NEW q \in Pids, Recycle(q) PROVE BlameInv' /\ EndInv'
  BY <1>0, <1>5, <1>w DEF Recycle
<1>6. ASSUME NEW e \in Envs, CandidateEndsSession(e) PROVE BlameInv' /\ EndInv'
  BY <1>6, <1>w DEF CandidateEndsSession
<1>7. CASE Reboot
  <2>1. \A v \in Procs : cmd'[v].pc = "idle"
    BY <1>7 DEF Reboot, Idle
  <2>2. BlameInv'
    BY <1>7, <2>1 DEF Reboot, BlameInv, Runs, AfterTmux
  <2>3. EndInv'
    BY <1>7, <2>1 DEF Reboot, EndInv, At, Stopping
  <2> QED
    BY <2>2, <2>3
<1> QED
  BY <1>1, <1>2, <1>3, <1>4, <1>5, <1>6, <1>7 DEF World

FairInv == CountInv /\ BlameInv /\ EndInv

LEMMA FairStep ==
    ASSUME OneAtATime, FairInv, [Next]_vars PROVE FairInv'
<1>0. CountInv /\ CountInv' /\ TypeInv /\ TypeInv'
  BY CountStep DEF FairInv, CountInv
<1>1. ASSUME NEW p \in Procs PROVE Serial(p)
  BY <1>0 DEF CountInv, Serial, OneAtATime
<1>2. ASSUME NEW p \in Procs, Start(p) PROVE BlameInv' /\ EndInv'
  BY <1>0, <1>1, <1>2, StartFair DEF FairInv
<1>3. ASSUME NEW p \in Procs, Stop(p) PROVE BlameInv' /\ EndInv'
  BY <1>0, <1>1, <1>3, StopFair DEF FairInv
<1>4. ASSUME NEW p \in Procs, Crash(p) PROVE BlameInv' /\ EndInv'
  <2>1. crashes' # 0
    BY <1>0, <1>4 DEF Crash, TypeInv, TypeOK
  <2>2. cmd'[p].pc = "idle" /\ \A v \in Procs : v = p
    BY <1>0, <1>1, <1>4, SerialTypes DEF Crash, Return, Idle, Serial
  <2> QED
    BY <2>1, <2>2 DEF BlameInv, EndInv, At
<1>5. ASSUME World PROVE BlameInv' /\ EndInv'
  BY <1>0, <1>5, WorldFair DEF FairInv
<1>6. ASSUME UNCHANGED vars PROVE BlameInv' /\ EndInv'
  BY <1>6 DEF FairInv, vars, world, faults, BlameInv, EndInv, Runs, At, Env
<1> QED
  BY <1>0, <1>2, <1>3, <1>4, <1>5, <1>6 DEF Next, FairInv

LEMMA FairInit == Init => FairInv
<1> SUFFICES ASSUME Init PROVE FairInv
  OBVIOUS
<1>1. \A p \in Procs : cmd[p].pc = "idle"
  BY DEF Init, Idle
<1> QED
  BY <1>1, CountInit DEF Init, FairInv, BlameInv, EndInv, Runs, At, AfterTmux, Stopping

\* With one command at a time and none killed, whatever dies, fails, reboots or is ended by
\* the candidate: the recorder's log says of no session that it is gone without a stop when
\* it was a stop, or the cleanup of a start, that ended it.
THEOREM RecorderIsFair ==
    ASSUME OneAtATime PROVE Spec => []RecorderNeverAccusesFalsely
<1>1. FairInv => RecorderNeverAccusesFalsely
  BY DEF FairInv, BlameInv, RecorderNeverAccusesFalsely
<1>2. Init => FairInv
  BY FairInit
<1>3. FairInv /\ [Next]_vars => FairInv'
  BY OneAtATime, FairStep
<1> QED
  BY <1>1, <1>2, <1>3, PTL DEF Spec

-----------------------------------------------------------------------------
(* What stop leaves: the app's forwarder, whose pidfile may fail silently. *)

\* While nothing has failed, a forwarder that runs is in its pidfile or in a command's hands,
\* and what a command holds is in its pidfile unless it has just been spawned.
AppInv ==
    crashes = 0 /\ failures = 0 =>
        /\ \A q \in Pids : Runs(q, "app") =>
               pidfile[EnvOf(q)]["app"] = q \/ \E p \in Procs : Mine(p, "app") = q
        /\ \A p \in Procs : Mine(p, "app") # NoPid =>
               \/ pidfile[Env(p)]["app"] = Mine(p, "app")
               \/ At(p, "note") /\ cmd[p].role = "app"

\* The forwarders that run after a step ran before it.
AppsOnlyEnd == \A u \in Pids : RoleOf(u) = "app" /\ proc'[u] = "runs" => proc[u] = "runs"

LEMMA AppPlaces ==
    ASSUME NEW p, Serial(p)
    PROVE  /\ "app" \in Roles /\ \A u \in Pids : EnvOf(u) \in Envs /\ u # NoPid
           /\ \A v \in Procs : v = p
           /\ p \in Procs
           /\ Mine(p, "app") # NoPid => EnvOf(Mine(p, "app")) = Env(p) /\ ~At(p, "idle")
           /\ ~At(p, "idle") /\ ~At(p, "end") /\ Mine(p, "app") # pidfile[Env(p)]["app"]
                             /\ pidfile[Env(p)]["app"] # NoPid
                    => proc[pidfile[Env(p)]["app"]] # "runs"
<1>1. "app" \in Roles
  BY DEF Roles
<1>2. ASSUME NEW u \in Pids PROVE EnvOf(u) \in Envs /\ u # NoPid
  BY NoPidIsNone DEF Pids, EnvOf
<1> QED
  BY <1>1, <1>2 DEF Serial, RecordInv, HandsInPlace, FilesInHand

\* A step that leaves the forwarder's pid where it is known.
LEMMA AppQuiet ==
    ASSUME NEW p, Serial(p), AppInv, AppsOnlyEnd, UNCHANGED <<crashes, failures>>,
           \A e \in Envs : pidfile'[e]["app"] = pidfile[e]["app"],
           cmd'[p].env = cmd[p].env, cmd'[p].mine["app"] = cmd[p].mine["app"],
           cmd[p].pc # "note" \/ cmd[p].role # "app"
    PROVE  AppInv'
<1>1. Mine(p, "app") # NoPid => Env(p) \in Envs
  BY AppPlaces, SerialTypes
<1> QED
  BY <1>1, AppPlaces DEF AppInv, AppsOnlyEnd, Runs, Mine, Env, At

\* A command lets go of a forwarder that is in its pidfile, or has ended.
LEMMA AppDropped ==
    ASSUME NEW p, Serial(p), AppInv, AppsOnlyEnd, UNCHANGED <<crashes, failures>>,
           \A e \in Envs : pidfile'[e]["app"] = pidfile[e]["app"],
           cmd'[p].mine["app"] = NoPid,
           \/ cmd[p].pc # "note" \/ cmd[p].role # "app"
           \/ Mine(p, "app") \in Pids => proc'[Mine(p, "app")] # "runs"
    PROVE  AppInv'
<1>1. ASSUME crashes = 0, failures = 0, NEW u \in Pids, Runs(u, "app")'
      PROVE  pidfile'[EnvOf(u)]["app"] = u
  <2>1. Runs(u, "app")
    BY <1>1 DEF AppsOnlyEnd, Runs
  <2>2. pidfile[EnvOf(u)]["app"] = u \/ Mine(p, "app") = u
    BY <1>1, <2>1, AppPlaces DEF AppInv
  <2>3. Mine(p, "app") = u => pidfile[EnvOf(u)]["app"] = u
    BY <1>1, AppPlaces DEF AppInv, At, Runs
  <2> QED
    BY <2>2, <2>3, AppPlaces
<1> QED
  BY <1>1, AppPlaces DEF AppInv, Mine

\* The forwarder's pidfile goes, and with it the command's hold: neither runs by then.
LEMMA AppForgotten ==
    ASSUME NEW p, Serial(p), AppInv, AppsOnlyEnd, UNCHANGED <<crashes, failures>>,
           ~At(p, "idle"), ~At(p, "end"), cmd'[p].mine["app"] = NoPid,
           \A e \in Envs : e # Env(p) => pidfile'[e]["app"] = pidfile[e]["app"],
           Mine(p, "app") \in Pids => proc'[Mine(p, "app")] # "runs"
    PROVE  AppInv'
<1>1. ASSUME crashes = 0, failures = 0, NEW u \in Pids, Runs(u, "app")'
      PROVE  pidfile'[EnvOf(u)]["app"] = u
  <2>1. Runs(u, "app") /\ Mine(p, "app") # u
    BY <1>1 DEF AppsOnlyEnd, Runs
  <2>2. pidfile[EnvOf(u)]["app"] = u
    BY <1>1, <2>1, AppPlaces DEF AppInv
  <2>3. EnvOf(u) # Env(p)
    BY <2>1, <2>2, AppPlaces DEF Runs
  <2> QED
    BY <2>2, <2>3, AppPlaces
<1> QED
  BY <1>1, AppPlaces DEF AppInv, Mine

LEMMA StartApp ==
    ASSUME NEW p, Serial(p), AppInv, Start(p) PROVE AppInv'
<1> USE DEF world, faults, At
<1>0. /\ p \in Procs /\ cmd \in [Procs -> Commands] /\ cmd[p] \in Commands
      /\ proc \in [Pids -> {"runs", "stranger", "dead"}] /\ RecordInv
      /\ (~At(p, "idle") => Env(p) \in Envs) /\ "app" \in Roles
  BY SerialTypes, AppPlaces DEF Serial
<1>i. Idle.mine["app"] = NoPid
  BY AppPlaces DEF Idle, NoPids
<1>s. proc' = proc => AppsOnlyEnd
  BY DEF AppsOnlyEnd
<1>r. ASSUME Return(p), cmd[p].pc # "note", UNCHANGED <<proc, pidfile, crashes, failures>>
      PROVE  AppInv'
  <2>1. cmd'[p].mine["app"] = NoPid
    BY <1>0, <1>i, <1>r DEF Return
  <2> QED
    BY <1>r, <1>s, <2>1, AppDropped
<1>g. ASSUME NEW label, NEW role, Goto(p, label) \/ Turn(p, label, role)
      PROVE  cmd'[p].mine = cmd[p].mine /\ cmd'[p].env = cmd[p].env
  BY <1>g, Fields
<1>a. ASSUME AfterSpawn(p) PROVE cmd'[p].mine = cmd[p].mine /\ cmd'[p].env = cmd[p].env
  <2>1. cmd[p].role \in {"recorder", "candidate", "observer", "app"}
    BY SerialTypes DEF Roles, Listeners
  <2> QED
    BY <1>a, <1>g, <2>1 DEF AfterSpawn
<1>w. ASSUME cmd'[p].mine = cmd[p].mine, cmd'[p].env = cmd[p].env, cmd[p].pc # "note",
             UNCHANGED <<proc, pidfile, crashes, failures>>
      PROVE  AppInv'
  BY <1>s, <1>w, AppQuiet
<1>1. ASSUME NEW e \in Envs, StartLook(p, e) PROVE AppInv'
  <2>1. cmd'[p].mine["app"] = NoPid
    BY <1>0, <1>1, <1>i DEF StartLook, Idle
  <2> QED
    BY <1>1, <1>s, <2>1, AppDropped DEF StartLook
<1>2. ASSUME StartSweep(p) PROVE AppInv'
  <2>1. Mine(p, "app") = NoPid
    BY <1>0, <1>2 DEF StartSweep, RecordInv, NotYetHeld
  <2>2. cmd'[p].mine = cmd[p].mine
    BY <1>2, <1>g DEF StartSweep
  <2>3. \A e \in Envs : e # Env(p) => pidfile'[e] = pidfile[e]
    BY <1>2, SerialTypes DEF StartSweep
  <2> QED
    BY <1>2, <1>s, <2>1, <2>2, <2>3, NoPidIsNone, AppForgotten DEF StartSweep, Mine
<1>3. ASSUME StartPorts(p) PROVE AppInv'
  BY <1>3, <1>g, <1>r, <1>w DEF StartPorts
<1>4. ASSUME StartTmux(p) PROVE AppInv'
  BY <1>4, <1>g, <1>r, <1>w DEF StartTmux
<1>5. ASSUME StartShare(p) PROVE AppInv'
  BY <1>5, <1>g, <1>w DEF StartShare
<1>6. ASSUME NEW q \in Pids, StartSpawn(p, q) PROVE AppInv'
  <2>1. /\ cmd'[p].pc = "note" /\ cmd'[p].env = cmd[p].env /\ cmd'[p].role = cmd[p].role
        /\ \A r \in Roles : cmd'[p].mine[r] = IF r = cmd[p].role THEN q ELSE Mine(p, r)
    BY <1>0, <1>6, SerialTypes DEF StartSpawn, Commands, Handful, Mine
  <2>2. /\ RoleOf(q) = cmd[p].role /\ pidfile' = pidfile
        /\ \A u \in Pids : u # q => proc'[u] = proc[u]
    BY <1>0, <1>6 DEF StartSpawn, NextPid
  <2>3. CASE cmd[p].role # "app"
    BY <1>0, <1>6, <2>1, <2>2, <2>3, AppQuiet DEF StartSpawn, AppsOnlyEnd, Mine
  <2>4. CASE cmd[p].role = "app"
    <3>1. Mine(p, "app") = NoPid
      BY <1>0, <1>6, <2>4 DEF StartSpawn, RecordInv, NotYetHeld
    <3>2. Mine(p, "app")' = q
      BY <1>0, <2>1, <2>4 DEF Mine
    <3>3. ASSUME crashes = 0, failures = 0, NEW u \in Pids, Runs(u, "app")', u # q
          PROVE  pidfile'[EnvOf(u)]["app"] = u
      BY <2>2, <3>1, <3>3, AppPlaces DEF AppInv, Runs
    <3>4. UNCHANGED <<crashes, failures>> /\ At(p, "note")' /\ cmd'[p].role = "app"
      BY <1>6, <2>1, <2>4 DEF StartSpawn
    <3> QED
      BY <3>2, <3>3, <3>4, AppPlaces DEF AppInv
  <2> QED
    BY <2>3, <2>4
<1>7. ASSUME StartSpawnFails(p) PROVE AppInv'
  BY <1>7, <1>a, <1>g, <1>w DEF StartSpawnFails
<1>8. ASSUME StartNote(p) PROVE AppInv'
  <2>0. /\ Env(p) \in Envs /\ cmd[p].role \in Roles
        /\ cmd'[p].mine = cmd[p].mine /\ cmd'[p].env = cmd[p].env
        /\ UNCHANGED <<proc, crashes, failures>>
    BY <1>8, <1>a, SerialTypes DEF StartNote
  <2>1. \A e \in Envs, r \in Roles :
            pidfile'[e][r] = IF e = Env(p) /\ r = cmd[p].role THEN Mine(p, r) ELSE pidfile[e][r]
    BY <1>8, <2>0, SerialTypes DEF StartNote, Handful
  <2>2. CASE cmd[p].role # "app"
    BY <1>0, <1>s, <2>0, <2>1, <2>2, AppQuiet
  <2>3. CASE cmd[p].role = "app"
    <3>1. pidfile'[Env(p)]["app"] = Mine(p, "app") /\ Mine(p, "app")' = Mine(p, "app")
          /\ \A e \in Envs : e # Env(p) => pidfile'[e]["app"] = pidfile[e]["app"]
      BY <1>0, <2>0, <2>1, <2>3 DEF Mine
    <3>2. ~At(p, "idle") /\ ~At(p, "end")
      BY <1>8 DEF StartNote
    <3>3. ASSUME crashes = 0, failures = 0, NEW u \in Pids, Runs(u, "app")'
          PROVE  pidfile'[EnvOf(u)]["app"] = u \/ Mine(p, "app") = u
      <4>1. Runs(u, "app")
        BY <2>0, <3>3 DEF Runs
      <4>2. pidfile[EnvOf(u)]["app"] = u \/ Mine(p, "app") = u
        BY <3>3, <4>1, AppPlaces DEF AppInv
      <4> QED
        BY <3>1, <3>2, <4>1, <4>2, AppPlaces DEF Runs
    <3> QED
      BY <2>0, <3>1, <3>3, AppPlaces DEF AppInv, Env
  <2> QED
    BY <2>2, <2>3
<1>9. ASSUME StartNoteFails(p) PROVE AppInv'
  BY <1>9, SerialTypes DEF StartNoteFails, AppInv, Serial, TypeInv, TypeOK
<1>10. ASSUME StartAnswered(p) \/ StartUnanswered(p) PROVE AppInv'
  BY <1>10, <1>g, <1>w DEF StartAnswered, StartUnanswered
<1>11. ASSUME StartRecheck(p) PROVE AppInv'
  <2>1. cmd'[p].env = cmd[p].env /\ cmd'[p].mine["app"] = cmd[p].mine["app"]
    <3>1. CASE Goto(p, "cleanup")
      BY <1>g, <3>1
    <3>2. CASE cmd' = [cmd EXCEPT ![p] = AfterRecheck(p)]
      BY <1>0, <3>2 DEF AfterRecheck, Commands
    <3>3. CASE cmd' = [cmd EXCEPT ![p] = [AfterRecheck(p) EXCEPT !.mine.recorder = NoPid]]
      BY <1>0, <3>3 DEF AfterRecheck, Commands, Handful
    <3> QED
      BY <1>11, <3>1, <3>2, <3>3 DEF StartRecheck
  <2>2. \A e \in Envs : pidfile'[e]["app"] = pidfile[e]["app"]
    <3>1. CASE pidfile' = [pidfile EXCEPT ![Env(p)].recorder = NoPid]
      <4>1. \A e \in Envs : pidfile[e] \in Handful
        BY SerialTypes
      <4> QED
        BY <1>0, <3>1, <4>1, SerialTypes DEF Handful
    <3>2. CASE pidfile' = pidfile
      BY <3>2
    <3> QED
      BY <1>11, <3>1, <3>2 DEF StartRecheck
  <2> QED
    BY <1>11, <1>s, <2>1, <2>2, AppQuiet DEF StartRecheck
<1>12. ASSUME StartPublish(p) PROVE AppInv'
  BY <1>12, <1>g, <1>r, <1>w DEF StartPublish
<1>13. ASSUME NEW r0 \in Roles, Cleanup(p, r0) PROVE AppInv'
  <2>0. /\ Env(p) \in Envs /\ cmd[p].pc = "cleanup" /\ cmd'[p].env = cmd[p].env
        /\ \A r \in Roles : cmd'[p].mine[r] = IF r = r0 THEN NoPid ELSE Mine(p, r)
        /\ UNCHANGED <<crashes, failures>>
    BY <1>0, <1>13, SerialTypes DEF Cleanup, Forgotten, Commands, Handful, Mine
  <2>1. \A e \in Envs, r \in Roles :
            pidfile'[e][r] = IF e = Env(p) /\ r = r0 THEN NoPid ELSE pidfile[e][r]
    BY <1>13, <2>0, SerialTypes DEF Cleanup, Forgotten, Handful
  <2>2. \A u \in Pids : proc'[u] = "runs" => proc[u] = "runs" /\ u # Mine(p, r0)
    BY <1>13, SerialTypes, NoPidIsNone DEF Cleanup, Alive, Ended
  <2>3. AppsOnlyEnd
    BY <2>2 DEF AppsOnlyEnd
  <2>4. CASE r0 = "app"
    BY <1>0, <2>0, <2>1, <2>2, <2>3, <2>4, AppForgotten
  <2>5. CASE r0 # "app"
    BY <1>0, <2>0, <2>1, <2>3, <2>5, AppQuiet DEF Mine
  <2> QED
    BY <2>4, <2>5
<1>14. ASSUME CleanupSession(p) PROVE AppInv'
  BY <1>14, <1>r DEF CleanupSession
<1> QED
  BY <1>1, <1>2, <1>3, <1>4, <1>5, <1>6, <1>7, <1>8, <1>9, <1>10, <1>11, <1>12, <1>13, <1>14 DEF Start

LEMMA StopApp ==
    ASSUME NEW p, Serial(p), AppInv, Stop(p) PROVE AppInv'
<1> USE DEF world, faults, At
<1>0. /\ p \in Procs /\ cmd \in [Procs -> Commands] /\ cmd[p] \in Commands
      /\ proc \in [Pids -> {"runs", "stranger", "dead"}] /\ RecordInv
      /\ (~At(p, "idle") => Env(p) \in Envs) /\ "app" \in Roles
  BY SerialTypes, AppPlaces DEF Serial
<1>s. proc' = proc => AppsOnlyEnd
  BY DEF AppsOnlyEnd
<1>1. ASSUME NEW e \in Envs, StopLook(p, e) PROVE AppInv'
  <2> DEFINE live == [r \in Roles |-> IF r \in LivePids(e) THEN pidfile[e][r] ELSE NoPid]
  <2>1. cmd'[p].env = e /\ cmd'[p].mine = live
    <3> HIDE DEF live
    <3>1. cmd' = [cmd EXCEPT ![p] =
                    [Idle EXCEPT !.pc = "signal", !.env = e, !.knows = e \in info, !.mine = live]]
      BY <1>1 DEF StopLook, live
    <3>2. cmd'[p] = [Idle EXCEPT !.pc = "signal", !.env = e, !.knows = e \in info, !.mine = live]
      BY <1>0, <3>1
    <3> QED
      BY <3>2 DEF Idle
  <2>2. Mine(p, "app") = NoPid
    BY <1>1, AppPlaces DEF StopLook
  <2>3. cmd'[p].mine["app"] \in {NoPid, pidfile[e]["app"]}
    BY <1>0, <2>1
  <2>4. UNCHANGED <<proc, pidfile, crashes, failures>>
    BY <1>1 DEF StopLook
  <2> HIDE DEF live
  <2>5. ASSUME crashes = 0, failures = 0, NEW u \in Pids, Runs(u, "app")'
        PROVE  pidfile'[EnvOf(u)]["app"] = u
    BY <2>2, <2>4, <2>5, AppPlaces DEF AppInv, Runs
  <2> QED
    BY <2>1, <2>3, <2>4, <2>5, AppPlaces DEF AppInv, Mine, Env
<1>2. ASSUME NEW r0 \in Roles, StopSignal(p, r0) PROVE AppInv'
  <2>0. /\ Env(p) \in Envs /\ cmd[p].pc = "signal" /\ cmd'[p].env = cmd[p].env
        /\ \A r \in Roles : cmd'[p].mine[r] = IF r = r0 THEN NoPid ELSE Mine(p, r)
        /\ UNCHANGED <<pidfile, crashes, failures>>
    BY <1>0, <1>2, SerialTypes DEF StopSignal, Commands, Handful, Mine
  <2>1. AppsOnlyEnd
    BY <1>0, <1>2 DEF StopSignal, Ended, AppsOnlyEnd
  <2>2. CASE r0 = "app"
    BY <1>0, <2>0, <2>1, <2>2, AppDropped
  <2>3. CASE r0 # "app"
    BY <1>0, <2>0, <2>1, <2>3, AppQuiet DEF Mine
  <2> QED
    BY <2>2, <2>3
<1>3. ASSUME StopForget(p) PROVE AppInv'
  <2>1. Mine(p, "app") = NoPid /\ cmd'[p].mine = cmd[p].mine
    BY <1>0, <1>3, Fields DEF StopForget, Mine, NoPids
  <2>2. \A e \in Envs : e # Env(p) => pidfile'[e] = pidfile[e]
    BY <1>3, SerialTypes DEF StopForget
  <2> QED
    BY <1>3, <1>s, <2>1, <2>2, NoPidIsNone, AppForgotten DEF StopForget, Mine
<1>4. ASSUME StopSession(p) PROVE AppInv'
  <2>1. cmd'[p].mine["app"] = NoPid
    BY <1>0, <1>4 DEF StopSession, Return, Idle, NoPids
  <2> QED
    BY <1>4, <1>s, <2>1, AppDropped DEF StopSession
<1> QED
  BY <1>1, <1>2, <1>3, <1>4 DEF Stop

LEMMA WorldApp ==
    ASSUME TypeInv, AppInv, World PROVE AppInv'
<1> USE DEF world, faults
<1>0. proc \in [Pids -> {"runs", "stranger", "dead"}]
  BY DEF TypeInv, TypeOK
<1>w. ASSUME UNCHANGED <<cmd, pidfile, crashes, failures>>, AppsOnlyEnd PROVE AppInv'
  BY <1>w DEF AppInv, AppsOnlyEnd, Runs, Mine, Env, At
<1>1. ASSUME NEW q \in Pids, NEW l \in Listeners, ListenerBinds(q, l) PROVE AppInv'
  BY <1>1, <1>w DEF ListenerBinds, AppsOnlyEnd
<1>2. ASSUME NEW q \in Pids, NEW l \in Listeners, ListenerExits(q, l) PROVE AppInv'
  BY <1>0, <1>2, <1>w DEF ListenerExits, Ended, AppsOnlyEnd
<1>3. ASSUME NEW q \in Pids, RecorderFindsNoSession(q) PROVE AppInv'
  BY <1>0, <1>3, <1>w DEF RecorderFindsNoSession, Ended, AppsOnlyEnd
<1>4. ASSUME NEW q \in Pids, Dies(q) PROVE AppInv'
  BY <1>0, <1>4, <1>w DEF Dies, Ended, AppsOnlyEnd
<1>5. ASSUME NEW q \in Pids, Recycle(q) PROVE AppInv'
  BY <1>0, <1>5, <1>w DEF Recycle, AppsOnlyEnd
<1>6. ASSUME NEW e \in Envs, CandidateEndsSession(e) PROVE AppInv'
  BY <1>6, <1>w DEF CandidateEndsSession, AppsOnlyEnd
<1>7. ASSUME Reboot PROVE AppInv'
  <2>1. "app" \in Roles
    BY DEF Roles
  <2> QED
    BY <1>7, <2>1 DEF Reboot, AppInv, Runs, Mine, Idle, NoPids
<1> QED
  BY <1>1, <1>2, <1>3, <1>4, <1>5, <1>6, <1>7 DEF World

LeavesInv == FairInv /\ AppInv

LEMMA LeavesStep ==
    ASSUME OneAtATime, LeavesInv, [Next]_vars PROVE LeavesInv'
<1>0. FairInv /\ FairInv' /\ TypeInv /\ TypeInv'
  BY FairStep DEF LeavesInv, FairInv, CountInv
<1>1. ASSUME NEW p \in Procs PROVE Serial(p)
  BY <1>0 DEF FairInv, CountInv, Serial, OneAtATime
<1>2. ASSUME NEW p \in Procs, Start(p) PROVE AppInv'
  BY <1>1, <1>2, StartApp DEF LeavesInv
<1>3. ASSUME NEW p \in Procs, Stop(p) PROVE AppInv'
  BY <1>1, <1>3, StopApp DEF LeavesInv
<1>4. ASSUME NEW p \in Procs, Crash(p) PROVE AppInv'
  BY <1>0, <1>4 DEF Crash, AppInv, TypeInv, TypeOK
<1>5. ASSUME World PROVE AppInv'
  BY <1>0, <1>5, WorldApp DEF LeavesInv
<1>6. ASSUME UNCHANGED vars PROVE AppInv'
  BY <1>6 DEF LeavesInv, vars, world, faults, AppInv, Runs, At, Env, Mine
<1> QED
  BY <1>0, <1>2, <1>3, <1>4, <1>5, <1>6 DEF Next, LeavesInv

\* A stop that returns leaves neither a recorded process nor a tmux session, whatever the
\* session it stopped went through, unless a command was killed; only a forwarder whose
\* pidfile could not be written survives it.
THEOREM StopClears ==
    ASSUME OneAtATime PROVE Spec => StopLeavesNothing
<1> DEFINE Clears(p) ==
       At(p, "end") /\ cmd'[p].pc = "idle" /\ crashes' = 0 =>
          /\ Env(p) \notin tmux'
          /\ reboots' = reboots => pidfile'[Env(p)] = NoPids
          /\ \A q \in Pids : proc[q] = "runs" /\ EnvOf(q) = Env(p) =>
                             RoleOf(q) = "app" /\ failures > 0
<1>1. Init => LeavesInv
  <2>1. Init => AppInv
    BY DEF Init, AppInv, Runs, Mine, Idle, NoPids, Roles
  <2> QED
    BY <2>1, FairInit DEF LeavesInv
<1>2. LeavesInv /\ [Next]_vars => LeavesInv'
  BY OneAtATime, LeavesStep
<1>3. ASSUME LeavesInv, [Next]_vars, NEW p \in Procs, At(p, "end"), cmd'[p].pc = "idle",
             crashes' = 0
      PROVE  /\ Env(p) \notin tmux'
             /\ reboots' = reboots => pidfile'[Env(p)] = NoPids
             /\ \A q \in Pids : proc[q] = "runs" /\ EnvOf(q) = Env(p) =>
                                RoleOf(q) = "app" /\ failures > 0
  <2>0. FairInv /\ TypeInv' /\ Serial(p) /\ crashes \in Nat /\ failures \in Nat
    BY <1>2, <1>3 DEF LeavesInv, FairInv, CountInv, Serial, OneAtATime, TypeInv, TypeOK
  <2>1. StopSession(p) \/ Reboot
    <3>1. \A v \in Procs : v = p
      BY <2>0 DEF Serial
    <3>2. cmd' # cmd
      BY <1>3 DEF At
    <3>3. ~Crash(p)
      BY <1>3, <2>0 DEF Crash
    <3>4. ~Start(p)
      BY <1>3 DEF Start, StartLook, StartSweep, StartPorts, StartTmux, StartShare, StartSpawn,
         StartSpawnFails, StartNote, StartNoteFails, StartAnswered, StartUnanswered,
         StartRecheck, StartPublish, Cleanup, CleanupSession, At
    <3>5. Stop(p) => StopSession(p)
      BY <1>3 DEF Stop, StopLook, StopSignal, StopForget, At
    <3>6. World => Reboot
      BY <3>2 DEF World, ListenerBinds, ListenerExits, RecorderFindsNoSession, Dies, Recycle,
         CandidateEndsSession
    <3> QED
      BY <1>3, <3>1, <3>2, <3>3, <3>4, <3>5, <3>6 DEF Next, vars
  <2>2. crashes = 0 /\ \A r \in Roles : Mine(p, r) = NoPid
    <3>1. crashes' = crashes
      BY <2>1 DEF StopSession, Reboot, faults
    <3> QED
      BY <1>3, <2>0, <3>1 DEF Serial, RecordInv, NotYetHeld, At
  <2>3. pidfile[Env(p)] = NoPids /\ ~At(p, "idle") /\ (~cmd[p].knows => Env(p) \notin tmux)
    BY <1>3, <2>0, <2>2 DEF FairInv, EndInv, At, Stopping, Serial
  <2>4. ASSUME NEW q \in Pids, proc[q] = "runs", EnvOf(q) = Env(p)
        PROVE  RoleOf(q) = "app" /\ failures > 0
    <3>1. ~Recorded(q) /\ ~InHand(q)
      BY <2>0, <2>2, <2>3, <2>4, NothingKnownRuns
    <3>2. RoleOf(q) = "app"
      <4>1. RoleOf(q) \in Roles
        BY DEF Pids, RoleOf
      <4> QED
        BY <2>0, <2>2, <2>4, <3>1, <4>1, NoneAstray DEF FairInv, Counted
    <3>3. failures # 0
      <4>1. "app" \in Roles /\ EnvOf(q) \in Envs
        BY <2>0, AppPlaces
      <4> QED
        BY <1>3, <2>2, <2>4, <3>1, <3>2, <4>1 DEF LeavesInv, AppInv, Runs, Recorded, InHand
    <3> QED
      BY <2>0, <3>2, <3>3
  <2>5. Env(p) \notin tmux' /\ (reboots' = reboots => pidfile'[Env(p)] = NoPids)
    <3>1. CASE StopSession(p)
      BY <2>3, <3>1 DEF StopSession, KillSession
    <3>2. CASE Reboot
      BY <2>3, <3>2 DEF Reboot
    <3> QED
      BY <2>1, <3>1, <3>2
  <2> QED
    BY <2>4, <2>5
<1>4. LeavesInv /\ [Next]_vars => \A p \in Procs : Clears(p)
  BY <1>3
<1>5. LeavesInv /\ [Next]_vars => [\A p \in Procs : Clears(p)]_vars
  BY <1>4
<1>6. StopLeavesNothing <=> [][\A p \in Procs : Clears(p)]_vars
  BY DEF StopLeavesNothing
<1> HIDE DEF Clears
<1> QED
  BY <1>1, <1>2, <1>5, <1>6, PTL DEF Spec

-----------------------------------------------------------------------------
(* Whose answer a start takes. *)

\* A start that has yet to hear from the listener l.
Waiting(p, l) ==
    \/ cmd[p].pc \in {"spawn", "note"} /\ cmd[p].role # "app"
    \/ cmd[p].pc = "wait" /\ cmd[p].role \in {l, "candidate"}

\* What a port is bound by runs.
HeldInv == \A l \in Listeners : port[l] # NoPid => Runs(port[l], l)

\* A listener that runs holds its port, unless it is one a start still waits for, or is about
\* to end; so that while a start waits no other runs.
ListenInv ==
    /\ \A p \in Procs : At(p, "wait") => cmd[p].role \in Listeners
    /\ crashes = 0 =>
        \A l \in Listeners, q \in Pids : Runs(q, l) =>
            /\ \/ port[l] = q
               \/ \E p \in Procs : Mine(p, l) = q /\ (Waiting(p, l) \/ At(p, "cleanup"))
            /\ \A p \in Procs :
                   Waiting(p, l) \/ cmd[p].pc \in {"tmux", "share"} => Mine(p, l) = q

\* The listeners that run after a step ran before it.
ListenersOnlyEnd ==
    \A u \in Pids : RoleOf(u) \in Listeners /\ proc'[u] = "runs" => proc[u] = "runs"

\* A step with which the start holds its listeners as before, and waits for none it did not
\* wait for before.
LEMMA ListenQuiet ==
    ASSUME NEW p, Serial(p), ListenInv, ListenersOnlyEnd, UNCHANGED <<port, crashes>>,
           \A l \in Listeners : cmd'[p].mine[l] = cmd[p].mine[l],
           cmd'[p].pc = "wait" => cmd'[p].role \in Listeners,
           \A l \in Listeners :
               /\ Waiting(p, l)' \/ cmd'[p].pc \in {"tmux", "share"} =>
                      Waiting(p, l) \/ cmd[p].pc \in {"tmux", "share"}
               /\ Waiting(p, l) \/ At(p, "cleanup") => Waiting(p, l)' \/ At(p, "cleanup")'
    PROVE  ListenInv'
<1>0. p \in Procs /\ \A v \in Procs : v = p
  BY DEF Serial
<1>1. ASSUME crashes' = 0, NEW l \in Listeners, NEW u \in Pids, Runs(u, l)'
      PROVE  /\ port'[l] = u \/ (Mine(p, l)' = u /\ (Waiting(p, l)' \/ At(p, "cleanup")'))
             /\ Waiting(p, l)' \/ cmd'[p].pc \in {"tmux", "share"} => Mine(p, l)' = u
  <2>1. Runs(u, l) /\ crashes = 0 /\ Mine(p, l)' = Mine(p, l)
    BY <1>1 DEF ListenersOnlyEnd, Runs, Mine
  <2>2. /\ port[l] = u \/ (Mine(p, l) = u /\ (Waiting(p, l) \/ At(p, "cleanup")))
        /\ Waiting(p, l) \/ cmd[p].pc \in {"tmux", "share"} => Mine(p, l) = u
    BY <1>0, <2>1 DEF ListenInv
  <2> QED
    BY <2>1, <2>2
<1> QED
  BY <1>0, <1>1 DEF ListenInv, At

\* A step of a command that waits for no listener, before or after.
LEMMA ListenAway ==
    ASSUME NEW p, Serial(p), ListenInv, ListenersOnlyEnd, crashes' = crashes,
           \A l \in Listeners : ~Waiting(p, l) /\ ~Waiting(p, l)',
           At(p, "cleanup") => cmd[p].mine = NoPids,
           cmd'[p].pc \notin {"tmux", "share", "wait"},
           \A l \in Listeners, u \in Pids : port[l] = u /\ proc'[u] = "runs" => port'[l] = u
    PROVE  ListenInv'
<1>0. p \in Procs /\ \A v \in Procs : v = p
  BY DEF Serial
<1>1. ASSUME crashes' = 0, NEW l \in Listeners, NEW u \in Pids, Runs(u, l)' PROVE port'[l] = u
  <2>1. Runs(u, l) /\ crashes = 0
    BY <1>1 DEF ListenersOnlyEnd, Runs
  <2>2. port[l] = u \/ (Mine(p, l) = u /\ At(p, "cleanup"))
    BY <1>0, <2>1 DEF ListenInv
  <2>3. At(p, "cleanup") => Mine(p, l) # u
    BY NoPidIsNone DEF NoPids, Mine, Roles
  <2> QED
    BY <1>1, <2>2, <2>3 DEF Runs
<1> QED
  BY <1>0, <1>1 DEF ListenInv, At

LEMMA StartListens ==
    ASSUME NEW p, Serial(p), HeldInv, ListenInv, Start(p) PROVE ListenInv'
<1> USE DEF world, faults, At
<1>0. /\ p \in Procs /\ cmd \in [Procs -> Commands] /\ cmd[p] \in Commands
      /\ (\A v \in Procs : v = p) /\ cmd[p].role \in {"recorder", "candidate", "observer", "app"}
      /\ proc \in [Pids -> {"runs", "stranger", "dead"}] /\ RecordInv
      /\ port \in [Listeners -> Pids \union {NoPid}]
      /\ Listeners \subseteq Roles /\ "app" \notin Listeners /\ "recorder" \notin Listeners
  BY SerialTypes DEF Serial, Roles, Listeners, TypeInv, TypeOK
<1>i. Idle.pc = "idle"
  BY DEF Idle
<1>s. proc' = proc => ListenersOnlyEnd
  BY DEF ListenersOnlyEnd
<1>g. ASSUME NEW label, Goto(p, label)
      PROVE  cmd'[p].mine = cmd[p].mine /\ cmd'[p].pc = label /\ cmd'[p].role = cmd[p].role
  BY <1>g, Fields
<1>t. ASSUME NEW label, NEW role, Turn(p, label, role)
      PROVE  cmd'[p].mine = cmd[p].mine /\ cmd'[p].pc = label /\ cmd'[p].role = role
  BY <1>t, Fields
<1>r. ASSUME Return(p), UNCHANGED <<port, proc, crashes>>,
             cmd[p].pc \notin {"spawn", "note", "wait"},
             At(p, "cleanup") => cmd[p].mine = NoPids
      PROVE  ListenInv'
  <2>1. cmd'[p].pc = "idle"
    BY <1>0, <1>i, <1>r DEF Return
  <2> QED
    BY <1>r, <1>s, <2>1, ListenAway DEF Waiting
\* The start gives up.
<1>c. ASSUME cmd'[p].mine = cmd[p].mine, cmd'[p].pc = "cleanup",
             UNCHANGED <<port, proc, crashes>>
      PROVE  ListenInv'
  BY <1>c, <1>s, ListenQuiet DEF Waiting
\* What follows a process that came up, or an optional one that did not.
<1>a. ASSUME AfterSpawn(p), cmd[p].pc \in {"spawn", "note"}, UNCHANGED <<port, proc, crashes>>
      PROVE  ListenInv'
  <2>0. cmd'[p].mine = cmd[p].mine
    BY <1>0, <1>a, <1>g, <1>t DEF AfterSpawn
  <2>1. CASE cmd[p].role = "app"
    <3>1. cmd'[p].pc = "publish"
      BY <1>a, <1>g, <2>1 DEF AfterSpawn
    <3> QED
      BY <1>a, <1>s, <2>0, <2>1, <3>1, ListenQuiet DEF Waiting
  <2>2. CASE cmd[p].role \in {"recorder", "candidate"}
    <3>1. cmd'[p].pc = "spawn" /\ cmd'[p].role \in Listeners
      BY <1>a, <1>t, <2>2 DEF AfterSpawn, Listeners
    <3> QED
      BY <1>0, <1>a, <1>s, <2>0, <2>2, <3>1, ListenQuiet DEF Waiting
  <2>3. CASE cmd[p].role = "observer"
    <3>1. cmd'[p].pc = "wait" /\ cmd'[p].role = "candidate"
      BY <1>a, <1>t, <2>3 DEF AfterSpawn
    <3> QED
      BY <1>a, <1>s, <2>0, <2>3, <3>1, ListenQuiet DEF Waiting, Listeners
  <2> QED
    BY <1>0, <2>1, <2>2, <2>3
<1>1. ASSUME NEW e \in Envs, StartLook(p, e) PROVE ListenInv'
  <2>1. cmd'[p].pc = "sweep"
    BY <1>0, <1>1 DEF StartLook, Idle
  <2> QED
    BY <1>1, <1>s, <2>1, ListenAway DEF StartLook, Waiting
<1>2. ASSUME StartSweep(p) PROVE ListenInv'
  BY <1>2, <1>g, <1>s, ListenAway DEF StartSweep, Waiting
<1>3. ASSUME StartPorts(p) PROVE ListenInv'
  <2>1. CASE \A l \in Listeners : port[l] = NoPid
    <3>1. cmd'[p].pc = "tmux" /\ UNCHANGED <<port, proc, crashes>>
      BY <1>3, <1>g, <2>1 DEF StartPorts
    <3>2. ASSUME crashes = 0, NEW l \in Listeners, NEW u \in Pids, Runs(u, l) PROVE FALSE
      <4>1. port[l] = u \/ \E v \in Procs : Waiting(v, l) \/ At(v, "cleanup")
        BY <3>2 DEF ListenInv
      <4> QED
        BY <1>0, <1>3, <2>1, <4>1, NoPidIsNone DEF StartPorts, Waiting
    <3> QED
      BY <1>0, <3>1, <3>2 DEF ListenInv, Runs
  <2>2. CASE ~\A l \in Listeners : port[l] = NoPid
    BY <1>3, <1>r, <2>2 DEF StartPorts
  <2> QED
    BY <2>1, <2>2
<1>4. ASSUME StartTmux(p) PROVE ListenInv'
  <2>1. CASE Return(p)
    BY <1>4, <1>r, <2>1 DEF StartTmux
  <2>2. CASE Goto(p, "share")
    BY <1>4, <1>g, <1>s, <2>2, ListenQuiet DEF StartTmux, Waiting
  <2> QED
    BY <1>4, <2>1, <2>2 DEF StartTmux
<1>5. ASSUME StartShare(p) PROVE ListenInv'
  <2>1. CASE Turn(p, "spawn", "recorder")
    BY <1>5, <1>t, <1>s, <2>1, ListenQuiet DEF StartShare, Waiting
  <2>2. CASE Goto(p, "cleanup")
    BY <1>5, <1>g, <1>c, <2>2 DEF StartShare
  <2> QED
    BY <1>5, <2>1, <2>2 DEF StartShare
<1>6. ASSUME NEW q \in Pids, StartSpawn(p, q) PROVE ListenInv'
  <2>1. /\ cmd'[p].pc = "note" /\ cmd'[p].role = cmd[p].role
        /\ \A r \in Roles : cmd'[p].mine[r] = IF r = cmd[p].role THEN q ELSE Mine(p, r)
    BY <1>0, <1>6, SerialTypes DEF StartSpawn, Commands, Handful, Mine
  <2>2. /\ RoleOf(q) = cmd[p].role /\ UNCHANGED <<port, crashes>>
        /\ \A u \in Pids : u # q => proc'[u] = proc[u]
    BY <1>0, <1>6 DEF StartSpawn, NextPid
  <2>3. CASE cmd[p].role \notin Listeners
    BY <1>0, <1>6, <2>1, <2>2, <2>3, ListenQuiet DEF StartSpawn, Waiting, ListenersOnlyEnd, Mine
  <2>4. CASE cmd[p].role \in Listeners
    <3>1. Mine(p, cmd[p].role) = NoPid
      BY <1>0, <1>6 DEF StartSpawn, RecordInv, NotYetHeld
    <3>2. \A l \in Listeners : Waiting(p, l) /\ Waiting(p, l)'
      BY <1>0, <1>6, <2>1, <2>4 DEF StartSpawn, Waiting
    <3>3. ASSUME crashes = 0, NEW l \in Listeners, NEW u \in Pids, Runs(u, l)'
          PROVE  Mine(p, l)' = u
      <4>1. CASE l = cmd[p].role
        <5>1. Mine(p, l)' = q
          BY <1>0, <2>1, <4>1 DEF Mine
        <5>2. ASSUME u # q PROVE FALSE
          <6>1. Runs(u, l)
            BY <2>2, <3>3, <5>2 DEF Runs
          <6>2. Mine(p, l) = u
            BY <1>0, <3>2, <3>3, <6>1 DEF ListenInv
          <6> QED
            BY <3>1, <4>1, <6>2, NoPidIsNone
        <5> QED
          BY <5>1, <5>2
      <4>2. CASE l # cmd[p].role
        <5>1. Runs(u, l)
          BY <2>2, <3>3, <4>2 DEF Runs
        <5>2. Mine(p, l) = u
          BY <1>0, <3>2, <3>3, <5>1 DEF ListenInv
        <5> QED
          BY <1>0, <2>1, <4>2, <5>2 DEF Mine
      <4> QED
        BY <4>1, <4>2
    <3> QED
      BY <1>0, <2>1, <2>2, <3>2, <3>3 DEF ListenInv
  <2> QED
    BY <2>3, <2>4
<1>7. ASSUME StartSpawnFails(p) PROVE ListenInv'
  BY <1>7, <1>a, <1>c, <1>g DEF StartSpawnFails
<1>8. ASSUME StartNote(p) PROVE ListenInv'
  BY <1>8, <1>a DEF StartNote
<1>9. ASSUME StartNoteFails(p) PROVE ListenInv'
  BY <1>9, <1>a, <1>c, <1>g DEF StartNoteFails
<1>10. ASSUME StartUnanswered(p) PROVE ListenInv'
  BY <1>10, <1>c, <1>g DEF StartUnanswered
<1>11. ASSUME StartAnswered(p) PROVE ListenInv'
  <2>0. /\ cmd[p].pc = "wait" /\ cmd[p].role \in Listeners /\ port[cmd[p].role] # NoPid
        /\ UNCHANGED <<port, proc, crashes>>
    BY <1>0, <1>11 DEF StartAnswered, ListenInv
  <2>1. /\ cmd'[p].mine = cmd[p].mine
        /\ cmd[p].role = "candidate" => cmd'[p].pc = "wait" /\ cmd'[p].role = "observer"
        /\ cmd[p].role # "candidate" => cmd'[p].pc = "recheck"
    BY <1>11, <1>g, <1>t DEF StartAnswered
  <2>2. ASSUME crashes = 0, NEW u \in Pids, Runs(u, cmd[p].role) PROVE port[cmd[p].role] = u
    <3>1. Waiting(p, cmd[p].role)
      BY <2>0 DEF Waiting
    <3>2. Runs(port[cmd[p].role], cmd[p].role) /\ port[cmd[p].role] \in Pids
      BY <1>0, <2>0 DEF HeldInv
    <3>3. Mine(p, cmd[p].role) = u /\ Mine(p, cmd[p].role) = port[cmd[p].role]
      BY <1>0, <2>0, <2>2, <3>1, <3>2 DEF ListenInv
    <3> QED
      BY <3>3
  <2>3. ASSUME crashes = 0, NEW l \in Listeners, NEW u \in Pids, Runs(u, l)'
        PROVE  /\ port'[l] = u \/ (Mine(p, l)' = u /\ Waiting(p, l)')
               /\ Waiting(p, l)' => Mine(p, l)' = u
    <3>1. Runs(u, l) /\ Mine(p, l)' = Mine(p, l) /\ ~At(p, "cleanup")
      BY <2>0, <2>1, <2>3 DEF Runs, Mine
    <3>2. /\ port[l] = u \/ (Mine(p, l) = u /\ Waiting(p, l))
          /\ Waiting(p, l) => Mine(p, l) = u
      BY <1>0, <2>3, <3>1 DEF ListenInv
    <3>3. CASE l = cmd[p].role
      <4>1. ~Waiting(p, l)'
        BY <2>0, <2>1, <3>3 DEF Waiting, Listeners
      <4> QED
        BY <2>0, <2>2, <2>3, <3>1, <3>3, <4>1
    <3>4. CASE l # cmd[p].role
      <4>1. Waiting(p, l)' <=> Waiting(p, l)
        BY <2>0, <2>1, <3>4 DEF Waiting, Listeners
      <4> QED
        BY <2>0, <3>1, <3>2, <4>1
    <3> QED
      BY <3>3, <3>4
  <2>4. cmd'[p].pc \notin {"tmux", "share"} /\ (cmd'[p].pc = "wait" => cmd'[p].role \in Listeners)
    BY <2>1 DEF Listeners
  <2> QED
    BY <1>0, <2>0, <2>3, <2>4 DEF ListenInv
<1>12. ASSUME StartRecheck(p) PROVE ListenInv'
  <2>1. /\ \A l \in Listeners : cmd'[p].mine[l] = cmd[p].mine[l]
        /\ \/ cmd'[p].pc = "cleanup" \/ cmd'[p].pc = "publish"
           \/ cmd'[p].pc = "spawn" /\ cmd'[p].role = "app"
    <3>1. CASE Goto(p, "cleanup")
      BY <1>g, <3>1
    <3>2. CASE cmd' = [cmd EXCEPT ![p] = AfterRecheck(p)]
      BY <1>0, <3>2 DEF AfterRecheck, Commands
    <3>3. CASE cmd' = [cmd EXCEPT ![p] = [AfterRecheck(p) EXCEPT !.mine.recorder = NoPid]]
      BY <1>0, <3>3 DEF AfterRecheck, Commands, Handful
    <3> QED
      BY <1>12, <3>1, <3>2, <3>3 DEF StartRecheck
  <2> QED
    BY <1>12, <1>s, <2>1, ListenQuiet DEF StartRecheck, Waiting
<1>13. ASSUME StartPublish(p) PROVE ListenInv'
  BY <1>13, <1>r, <1>c, <1>g DEF StartPublish
<1>14. ASSUME NEW r0 \in Roles, Cleanup(p, r0) PROVE ListenInv'
  <2>1. /\ cmd[p].pc = "cleanup" /\ cmd'[p].pc = "cleanup" /\ crashes' = crashes
        /\ \A r \in Roles : cmd'[p].mine[r] = IF r = r0 THEN NoPid ELSE Mine(p, r)
    BY <1>0, <1>14, SerialTypes DEF Cleanup, Forgotten, Commands, Handful, Mine
  <2>2. \A u \in Pids : proc'[u] = "runs" => proc[u] = "runs" /\ u # Mine(p, r0)
    BY <1>14, SerialTypes, NoPidIsNone DEF Cleanup, Alive, Ended
  <2>3. \A l \in Listeners, u \in Pids : port[l] = u /\ u # Mine(p, r0) => port'[l] = u
    BY <1>0, <1>14 DEF Cleanup, Ended
  <2>4. ASSUME crashes = 0, NEW l \in Listeners, NEW u \in Pids, Runs(u, l)'
        PROVE  port'[l] = u \/ Mine(p, l)' = u
    <3>1. Runs(u, l) /\ u # Mine(p, r0)
      BY <2>2, <2>4 DEF Runs
    <3>2. port[l] = u \/ Mine(p, l) = u
      BY <1>0, <2>4, <3>1 DEF ListenInv
    <3> QED
      BY <1>0, <2>1, <2>3, <3>1, <3>2 DEF Mine
  <2> QED
    BY <1>0, <2>1, <2>4 DEF ListenInv, Waiting
<1>15. ASSUME CleanupSession(p) PROVE ListenInv'
  BY <1>15, <1>r DEF CleanupSession
<1> QED
  BY <1>1, <1>2, <1>3, <1>4, <1>5, <1>6, <1>7, <1>8, <1>9, <1>10, <1>11, <1>12, <1>13, <1>14,
     <1>15 DEF Start

LEMMA StopListens ==
    ASSUME NEW p, Serial(p), ListenInv, Stop(p) PROVE ListenInv'
<1> USE DEF world, faults, At
<1>0. /\ p \in Procs /\ cmd \in [Procs -> Commands] /\ cmd[p] \in Commands
      /\ proc \in [Pids -> {"runs", "stranger", "dead"}]
      /\ port \in [Listeners -> Pids \union {NoPid}]
  <2>1. p \in Procs /\ port \in [Listeners -> Pids \union {NoPid}]
    BY DEF Serial, TypeInv, TypeOK
  <2> QED
    BY <2>1, SerialTypes
<1>w. ASSUME cmd[p].pc \in {"idle", "signal", "end"}, cmd'[p].pc \in {"idle", "signal", "end"},
             ListenersOnlyEnd, crashes' = crashes,
             \A l \in Listeners, u \in Pids : port[l] = u /\ proc'[u] = "runs" => port'[l] = u
      PROVE  ListenInv'
  BY <1>w, ListenAway DEF Waiting
<1>1. ASSUME NEW e \in Envs, StopLook(p, e) PROVE ListenInv'
  <2> DEFINE live == [r \in Roles |-> IF r \in LivePids(e) THEN pidfile[e][r] ELSE NoPid]
  <2>1. cmd'[p].pc = "signal"
    <3> HIDE DEF live
    <3>1. cmd' = [cmd EXCEPT ![p] =
                    [Idle EXCEPT !.pc = "signal", !.env = e, !.knows = e \in info, !.mine = live]]
      BY <1>1 DEF StopLook, live
    <3>2. cmd'[p] = [Idle EXCEPT !.pc = "signal", !.env = e, !.knows = e \in info, !.mine = live]
      BY <1>0, <3>1
    <3> QED
      BY <3>2 DEF Idle
  <2> QED
    BY <1>1, <1>w, <2>1 DEF StopLook, ListenersOnlyEnd
<1>2. ASSUME NEW r0 \in Roles, StopSignal(p, r0) PROVE ListenInv'
  <2>1. cmd'[p].pc = "signal"
    BY <1>0, <1>2 DEF StopSignal, Commands
  <2>2. /\ \A u \in Pids : proc'[u] = "runs" => proc[u] = "runs"
        /\ \A l \in Listeners, u \in Pids : port[l] = u /\ proc'[u] = "runs" => port'[l] = u
    BY <1>0, <1>2 DEF StopSignal, Ended
  <2> QED
    BY <1>2, <1>w, <2>1, <2>2 DEF StopSignal, ListenersOnlyEnd
<1>3. ASSUME StopForget(p) PROVE ListenInv'
  <2>1. cmd'[p].pc = "end"
    BY <1>3, Fields DEF StopForget
  <2> QED
    BY <1>3, <1>w, <2>1 DEF StopForget, ListenersOnlyEnd
<1>4. ASSUME StopSession(p) PROVE ListenInv'
  <2>1. cmd'[p].pc = "idle"
    BY <1>0, <1>4 DEF StopSession, Return, Idle
  <2> QED
    BY <1>4, <1>w, <2>1 DEF StopSession, ListenersOnlyEnd
<1> QED
  BY <1>1, <1>2, <1>3, <1>4 DEF Stop

LEMMA WorldListens ==
    ASSUME TypeInv, ListenInv, World PROVE ListenInv'
<1> USE DEF world, faults
<1>0. /\ proc \in [Pids -> {"runs", "stranger", "dead"}]
      /\ port \in [Listeners -> Pids \union {NoPid}]
  BY DEF TypeInv, TypeOK
<1>w. ASSUME UNCHANGED <<cmd, crashes>>, ListenersOnlyEnd,
             \A l \in Listeners, u \in Pids : port[l] = u /\ proc'[u] = "runs" => port'[l] = u
      PROVE  ListenInv'
  <2>1. ASSUME NEW l \in Listeners, NEW u \in Pids, Runs(u, l)' PROVE Runs(u, l)
    BY <1>w, <2>1 DEF ListenersOnlyEnd, Runs
  <2>2. ASSUME NEW l \in Listeners, NEW u \in Pids, Runs(u, l)', port[l] = u PROVE port'[l] = u
    BY <1>w, <2>2 DEF Runs
  <2> QED
    BY <1>w, <2>1, <2>2 DEF ListenInv, Waiting, Mine, At
<1>1. ASSUME NEW q \in Pids, NEW l \in Listeners, ListenerBinds(q, l) PROVE ListenInv'
  BY <1>0, <1>1, <1>w, NoPidIsNone DEF ListenerBinds, ListenersOnlyEnd
<1>2. ASSUME NEW q \in Pids, NEW l \in Listeners, ListenerExits(q, l) PROVE ListenInv'
  BY <1>0, <1>2, <1>w DEF ListenerExits, Ended, ListenersOnlyEnd
<1>3. ASSUME NEW q \in Pids, RecorderFindsNoSession(q) PROVE ListenInv'
  BY <1>0, <1>3, <1>w DEF RecorderFindsNoSession, Ended, ListenersOnlyEnd
<1>4. ASSUME NEW q \in Pids, Dies(q) PROVE ListenInv'
  BY <1>0, <1>4, <1>w DEF Dies, Ended, ListenersOnlyEnd
<1>5. ASSUME NEW q \in Pids, Recycle(q) PROVE ListenInv'
  BY <1>0, <1>5, <1>w DEF Recycle, ListenersOnlyEnd
<1>6. ASSUME NEW e \in Envs, CandidateEndsSession(e) PROVE ListenInv'
  BY <1>6, <1>w DEF CandidateEndsSession, ListenersOnlyEnd
<1>7. ASSUME Reboot PROVE ListenInv'
  BY <1>7 DEF Reboot, ListenInv, Runs, Idle, At
<1> QED
  BY <1>1, <1>2, <1>3, <1>4, <1>5, <1>6, <1>7 DEF World

\* Whatever ends frees its port, and whatever else changes leaves what runs running.
LEMMA HeldStep ==
    ASSUME TypeInv, HeldInv, [Next]_vars PROVE HeldInv'
<1> USE DEF world, faults
<1>0. /\ proc \in [Pids -> {"runs", "stranger", "dead"}]
      /\ port \in [Listeners -> Pids \union {NoPid}]
  BY DEF TypeInv, TypeOK
<1>w. ASSUME port' = port, \A u \in Pids : proc[u] = "runs" => proc'[u] = "runs" PROVE HeldInv'
  BY <1>0, <1>w DEF HeldInv, Runs
<1>e. ASSUME NEW q, Ended(q) PROVE HeldInv'
  BY <1>0, <1>e DEF HeldInv, Runs, Ended
<1>1. ASSUME NEW p \in Procs, Start(p) PROVE HeldInv'
  <2>1. CASE UNCHANGED <<port, proc>>
    BY <1>w, <2>1
  <2>2. ASSUME NEW q \in Pids, StartSpawn(p, q) PROVE HeldInv'
    BY <1>0, <1>w, <2>2 DEF StartSpawn
  <2>3. ASSUME NEW r \in Roles, Cleanup(p, r) PROVE HeldInv'
    BY <1>w, <1>e, <2>3 DEF Cleanup
  <2> QED
    BY <1>1, <2>1, <2>2, <2>3 DEF Start, StartLook, StartSweep, StartPorts, StartTmux,
       StartShare, StartSpawnFails, StartNote, StartNoteFails, StartAnswered,
       StartUnanswered, StartRecheck, StartPublish, CleanupSession
<1>2. ASSUME NEW p \in Procs, Stop(p) PROVE HeldInv'
  <2>1. CASE UNCHANGED <<port, proc>>
    BY <1>w, <2>1
  <2>2. ASSUME NEW r \in Roles, StopSignal(p, r) PROVE HeldInv'
    BY <1>w, <1>e, <2>2 DEF StopSignal
  <2> QED
    BY <1>2, <2>1, <2>2 DEF Stop, StopLook, StopForget, StopSession
<1>3. ASSUME NEW p \in Procs, Crash(p) PROVE HeldInv'
  BY <1>3, <1>w DEF Crash
<1>4. ASSUME World PROVE HeldInv'
  <2>1. ASSUME NEW q \in Pids, NEW l \in Listeners, ListenerBinds(q, l) PROVE HeldInv'
    BY <1>0, <2>1 DEF ListenerBinds, HeldInv, Runs
  <2>2. ASSUME NEW q \in Pids, Recycle(q) PROVE HeldInv'
    BY <1>0, <1>w, <2>2 DEF Recycle
  <2>3. ASSUME Reboot PROVE HeldInv'
    BY <2>3 DEF Reboot, HeldInv
  <2>4. ASSUME NEW e \in Envs, CandidateEndsSession(e) PROVE HeldInv'
    BY <1>w, <2>4 DEF CandidateEndsSession
  <2> QED
    BY <1>4, <1>e, <2>1, <2>2, <2>3, <2>4 DEF World, ListenerExits, RecorderFindsNoSession, Dies
<1>5. CASE UNCHANGED vars
  BY <1>5, <1>w DEF vars
<1> QED
  BY <1>1, <1>2, <1>3, <1>4, <1>5 DEF Next

AnswerInv == CountInv /\ HeldInv /\ ListenInv

LEMMA AnswerStep ==
    ASSUME OneAtATime, AnswerInv, [Next]_vars PROVE AnswerInv'
<1>0. CountInv /\ CountInv' /\ TypeInv /\ TypeInv' /\ HeldInv'
  BY CountStep, HeldStep DEF AnswerInv, CountInv
<1>1. ASSUME NEW p \in Procs PROVE Serial(p)
  BY <1>0 DEF CountInv, Serial, OneAtATime
<1>2. ASSUME NEW p \in Procs, Start(p) PROVE ListenInv'
  BY <1>1, <1>2, StartListens DEF AnswerInv
<1>3. ASSUME NEW p \in Procs, Stop(p) PROVE ListenInv'
  BY <1>1, <1>3, StopListens DEF AnswerInv
<1>4. ASSUME NEW p \in Procs, Crash(p) PROVE ListenInv'
  <2>1. crashes' # 0
    BY <1>0, <1>4 DEF Crash, TypeInv, TypeOK
  <2>2. cmd'[p].pc = "idle" /\ \A v \in Procs : v = p
    BY <1>0, <1>1, <1>4, SerialTypes DEF Crash, Return, Idle, Serial
  <2> QED
    BY <2>1, <2>2 DEF ListenInv, At
<1>5. ASSUME World PROVE ListenInv'
  BY <1>0, <1>5, WorldListens DEF AnswerInv
<1>6. ASSUME UNCHANGED vars PROVE ListenInv'
  BY <1>6 DEF AnswerInv, vars, world, faults, ListenInv, Runs, At, Waiting, Mine
<1> QED
  BY <1>0, <1>2, <1>3, <1>4, <1>5, <1>6 DEF Next, AnswerInv

\* The answer a start goes on with comes from the listener it has started itself, whatever
\* else ran on the host before or failed before, unless a command was killed.
THEOREM AnswersAreOwn ==
    ASSUME OneAtATime PROVE Spec => AnswersAreItsOwn
<1> DEFINE Own(p) ==
       crashes = 0 /\ At(p, "wait") /\ cmd'[p].pc \in {"wait", "recheck"} /\ cmd'[p] # cmd[p] =>
           port[cmd[p].role] = Mine(p, cmd[p].role)
<1>1. Init => AnswerInv
  <2>1. Init => HeldInv /\ ListenInv
    BY DEF Init, HeldInv, ListenInv, Runs, At, Idle
  <2> QED
    BY <2>1, CountInit DEF AnswerInv
<1>2. AnswerInv /\ [Next]_vars => AnswerInv'
  BY OneAtATime, AnswerStep
<1>3. ASSUME AnswerInv, [Next]_vars, NEW p \in Procs, crashes = 0, At(p, "wait"),
             cmd'[p].pc \in {"wait", "recheck"}, cmd'[p] # cmd[p]
      PROVE  port[cmd[p].role] = Mine(p, cmd[p].role)
  <2>0. Serial(p)
    BY <1>2, <1>3 DEF AnswerInv, CountInv, Serial, OneAtATime
  <2>1. port[cmd[p].role] # NoPid
    <3>1. StartUnanswered(p) => cmd'[p].pc = "cleanup"
      BY <2>0, Fields DEF StartUnanswered
    <3>2. ~Stop(p)
      BY <1>3 DEF Stop, StopLook, StopSignal, StopForget, StopSession, At
    <3>3. ~Crash(p) /\ ~Reboot
      BY <1>3, <2>0, SerialTypes DEF Crash, Return, Reboot, Idle, Serial
    <3>4. World => Reboot
      BY <1>3 DEF World, ListenerBinds, ListenerExits, RecorderFindsNoSession, Dies, Recycle,
         CandidateEndsSession
    <3>5. Start(p) => StartAnswered(p) \/ StartUnanswered(p)
      BY <1>3 DEF Start, StartLook, StartSweep, StartPorts, StartTmux, StartShare, StartSpawn,
         StartSpawnFails, StartNote, StartNoteFails, StartRecheck, StartPublish, Cleanup,
         CleanupSession, At
    <3>6. \A v \in Procs : v = p
      BY <2>0 DEF Serial
    <3>7. cmd' # cmd
      BY <1>3
    <3> QED
      BY <1>3, <3>1, <3>2, <3>3, <3>4, <3>5, <3>6, <3>7 DEF Next, vars, StartAnswered
  <2>2. cmd[p].role \in Listeners /\ port \in [Listeners -> Pids \union {NoPid}]
    BY <1>3, <2>0 DEF AnswerInv, ListenInv, Serial, TypeInv, TypeOK
  <2>3. port[cmd[p].role] \in Pids /\ Runs(port[cmd[p].role], cmd[p].role)
    BY <1>3, <2>1, <2>2 DEF AnswerInv, HeldInv
  <2>4. Waiting(p, cmd[p].role)
    BY <1>3 DEF At, Waiting
  <2> QED
    BY <1>3, <2>2, <2>3, <2>4 DEF AnswerInv, ListenInv
<1>4. AnswerInv /\ [Next]_vars => \A p \in Procs : Own(p)
  BY <1>3
<1>5. AnswerInv /\ [Next]_vars => [\A p \in Procs : Own(p)]_vars
  BY <1>4
<1>6. AnswersAreItsOwn <=> [][\A p \in Procs : Own(p)]_vars
  BY DEF AnswersAreItsOwn
<1> HIDE DEF Own
<1> QED
  BY <1>1, <1>2, <1>5, <1>6, PTL DEF Spec

=============================================================================
