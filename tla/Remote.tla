------------------------------- MODULE Remote -------------------------------
(***************************************************************************)
(* An interview on a provisioned host: startRemote and endRemote           *)
(* (internal/cli/remote.go), adoption (discover.go), the bounded commands  *)
(* they run (setup.go), the terraform they drive, and the account it       *)
(* changes.                                                                *)
(*                                                                         *)
(* The interview is started on one machine and may be ended from any: from *)
(* a record where there is one, otherwise from what the account says is    *)
(* running.  Terraform keeps what it made in a state that every machine    *)
(* reads, under a lock; a terraform that is interrupted saves the state    *)
(* and gives up the lock, one that is killed does neither.  The marker of  *)
(* the current interview is in Registry, the evidence in Evidence.         *)
(***************************************************************************)
EXTENDS Reaper

CONSTANTS
    Machines,       \* interviewers' machines, each with one terminal
    Home,           \* the one that starts the interview
    NoOne,          \* nobody holds the lock
    MaxKills        \* bound on killed commands

ASSUME RemoteAssumption ==
    /\ Home \in Machines /\ NoOne \notin Machines
    /\ MaxKills \in Nat

VARIABLES
    tfstate,        \* the objects terraform's state names
    lock,           \* the machine whose terraform took the state's lock
    rec,            \* each machine's record of the interview: up once it has an address
    cmd,            \* each machine's command: where it is, and what it knows
    starts, kills   \* so far

vars == <<account, reaper, failures, tfstate, lock, rec, cmd, starts, kills>>

\* A command's start is its number, 0 for an end; tf is its terraform's memory.
Idle == [pc |-> "idle", n |-> 0, tf |-> {}]

TypeOK ==
    /\ ReaperTypeOK
    /\ tfstate \subseteq Objects
    /\ lock \in Machines \union {NoOne}
    /\ rec \in [Machines -> {"none", "open", "up", "ended"}]
    /\ cmd \in [Machines -> [pc : {"idle", "save", "init", "apply", "outputs", "destroy",
                                   "ended"},
                             n : 0..MaxStarts, tf : SUBSET Objects]]
    /\ starts \in 0..MaxStarts /\ kills \in 0..MaxKills

Init ==
    /\ ReaperInit
    /\ tfstate = {} /\ lock = NoOne
    /\ rec = [m \in Machines |-> "none"]
    /\ cmd = [m \in Machines |-> Idle]
    /\ starts = 0 /\ kills = 0

At(m, label) == cmd[m].pc = label
Go(m, label) == cmd' = [cmd EXCEPT ![m].pc = label]
Return(m) == cmd' = [cmd EXCEPT ![m] = Idle]
ByHand == UNCHANGED <<account, reaper, failures, starts, kills>>
Fails == failures < MaxFailures /\ failures' = failures + 1

----------------------------------------------------------------------------
\* Terraform.

InTerraform(m) == cmd[m].pc \in {"apply", "destroy"}

\* After its init: it takes the lock, reads the state, and drops what is not there.
TakeLock(m) ==
    /\ At(m, "init") /\ lock = NoOne
    /\ lock' = m
    /\ cmd' = [cmd EXCEPT ![m].pc = IF cmd[m].n # 0 THEN "apply" ELSE "destroy",
                          ![m].tf = tfstate \intersect cloud]
    /\ UNCHANGED <<tfstate, rec>> /\ ByHand

Locked(m) ==
    /\ At(m, "init") /\ lock # NoOne
    /\ Return(m)
    /\ UNCHANGED <<tfstate, lock, rec>> /\ ByHand

\* What each object of the module is made with.
Needs == [role |-> {}, profile |-> {"role"}, address |-> {}, host |-> {"profile", "address"}]

Links(objects) == {e \in objects \X objects : e[2][1] \in Needs[e[1][1]]}

\* A profile whose role the reaper took is given it back.
Create(m, kind) ==
    LET made == <<kind, cmd[m].n>>
        needed == {o \in cmd[m].tf : o[1] \in Needs[kind]}
    IN  /\ At(m, "apply")
        /\ \A o \in cmd[m].tf : o[1] # kind
        /\ {o[1] : o \in needed} = Needs[kind] /\ needed \subseteq cloud
        /\ cloud' = cloud \union {made}
        /\ uses' = uses \union Links((cmd[m].tf \intersect cloud) \union {made})
        /\ cmd' = [cmd EXCEPT ![m].tf = @ \union {made}]
        /\ UNCHANGED <<late, reaper, failures, tfstate, lock, rec, starts, kills>>

\* An object goes after those that were made with it.
Destroy(m, o) ==
    /\ At(m, "destroy")
    /\ o \in cmd[m].tf /\ \A u \in cmd[m].tf : o[1] \notin Needs[u[1]]
    /\ Gone({o})
    /\ cmd' = [cmd EXCEPT ![m].tf = @ \ {o}]
    /\ UNCHANGED <<reaper, failures, tfstate, lock, rec, starts, kills>>

\* It saves the state and gives up the lock.
Exit(m) ==
    /\ tfstate' = cmd[m].tf
    /\ lock' = IF lock = m THEN NoOne ELSE lock

TerraformDone(m) ==
    /\ \/ At(m, "apply") /\ {o[1] : o \in cmd[m].tf} = Kinds /\ Go(m, "outputs")
       \/ At(m, "destroy") /\ cmd[m].tf = {} /\ Go(m, "ended")
    /\ Exit(m)
    /\ UNCHANGED rec /\ ByHand

\* Plausible bug: past its bound terraform is killed, not interrupted.
StopsAtOnce(m) ==
    /\ InTerraform(m) /\ Fails
    /\ Return(m)
    /\ UNCHANGED <<account, reaper, tfstate, lock, rec, starts, kills>>

\* A call to AWS fails, or the bound is reached and terraform is interrupted.
Stops(m) ==
    /\ InTerraform(m) /\ Fails
    /\ Exit(m)
    /\ Return(m)
    /\ UNCHANGED <<account, reaper, rec, starts, kills>>

\* Killed past its grace, or with the machine.  The state is what was written last.
Killed(m) ==
    /\ ~At(m, "idle") /\ kills < MaxKills
    /\ kills' = kills + 1
    /\ tfstate' \in {tfstate} \union (IF InTerraform(m) THEN {cmd[m].tf} ELSE {})
    /\ Return(m)
    /\ UNCHANGED <<account, reaper, failures, lock, rec, starts>>

\* Plausible bug: a lock is cleared because it is in the way.
ForceUnlockAnyway ==
    /\ lock # NoOne
    /\ lock' = NoOne
    /\ UNCHANGED <<tfstate, rec, cmd>> /\ ByHand

\* What a failed end says to do about a lock, if no other command is running.
ForceUnlock ==
    /\ lock # NoOne /\ \A m \in Machines : ~InTerraform(m)
    /\ lock' = NoOne
    /\ UNCHANGED <<tfstate, rec, cmd>> /\ ByHand

----------------------------------------------------------------------------
\* start --remote, and end.

StartBegins ==
    /\ At(Home, "idle") /\ starts < MaxStarts
    /\ starts' = starts + 1
    /\ cmd' = [cmd EXCEPT ![Home] = [Idle EXCEPT !.pc = "save", !.n = starts + 1]]
    /\ UNCHANGED <<account, reaper, failures, tfstate, lock, rec, kills>>

\* Recorded before anything is built.
SaveOpen(m) ==
    /\ At(m, "save")
    /\ rec' = [rec EXCEPT ![m] = "open"]
    /\ Go(m, "init")
    /\ UNCHANGED <<tfstate, lock>> /\ ByHand

\* The outputs are recorded, and the host is waited for: in vain or not.
SaveOutputs(m) ==
    /\ At(m, "outputs")
    /\ rec' = [rec EXCEPT ![m] = "up"]
    /\ Return(m)
    /\ UNCHANGED <<tfstate, lock>> /\ ByHand

\* Without a record the account is asked: it knows what runs, not what is left.
Adoptable == Of("host") # {}
CanEnd(m) == rec[m] # "none" \/ Adoptable

EndBegins(m) ==
    /\ At(m, "idle") /\ CanEnd(m)
    /\ Go(m, "init")
    /\ UNCHANGED <<tfstate, lock, rec>> /\ ByHand

\* The destroy is done, and the record says so.
SaveEnded(m) ==
    /\ At(m, "ended")
    /\ rec' = [rec EXCEPT ![m] = "ended"]
    /\ Return(m)
    /\ UNCHANGED <<tfstate, lock>> /\ ByHand

\* A save, an init or the outputs fail: the command returns.
CommandFails(m) ==
    /\ cmd[m].pc \in {"save", "init", "outputs", "ended"} /\ Fails
    /\ Return(m)
    /\ UNCHANGED <<account, reaper, tfstate, lock, rec, starts, kills>>

----------------------------------------------------------------------------

Others == UNCHANGED <<tfstate, lock, rec, cmd, starts, kills>>

\* A day is far past any provision: what a start makes is not old while it runs.
TimePasses(o) ==
    /\ o[1] # "host" => \A m \in Machines : cmd[m].n # o[2]
    /\ Ages(o) /\ Others

ReaperStep == ReaperGoesOn /\ Others

CommandStep(m) ==
    \/ TakeLock(m) \/ Locked(m)
    \/ \E kind \in Kinds : Create(m, kind)
    \/ \E o \in Objects : Destroy(m, o)
    \/ TerraformDone(m)
    \/ SaveOpen(m) \/ SaveOutputs(m) \/ SaveEnded(m)

Next ==
    \/ ReaperStep
    \/ RunFails /\ Others
    \/ \E h \in Objects : HostStops(h) /\ Others
    \/ \E o \in Objects : TimePasses(o)
    \/ ForceUnlock \/ StartBegins
    \/ \E m \in Machines : \/ CommandStep(m) \/ EndBegins(m)
                           \/ Stops(m) \/ Killed(m) \/ CommandFails(m)

\* The reaper is run every fifteen minutes, a day passes, and what a command waits
\* for is bounded, so that it ends.  Nothing is assumed of `end` or of the guest.
Fairness ==
    /\ WF_vars(ReaperStep)
    /\ \A o \in Objects : WF_vars(TimePasses(o))
    /\ \A m \in Machines : WF_vars(CommandStep(m))

Spec == Init /\ [][Next]_vars /\ Fairness

----------------------------------------------------------------------------

\* One terraform at a time works on the state, under its lock: an interrupted one has
\* let go of it, and a lock is cleared by hand only when it is nobody's.
TerraformIsAlone ==
    \A m \in Machines : InTerraform(m) => lock = m

\* Until a command is killed, whatever exists is in terraform's state or in the hands of
\* the terraform that is about to write it there; and while the state names anything,
\* some machine has an open record, with which `end` can be run again.
EverythingIsNamed ==
    /\ kills = 0 => cloud \subseteq tfstate \union UNION {cmd[m].tf : m \in Machines}
    /\ tfstate # {} => \E m \in Machines : rec[m] \in {"open", "up"}

\* The reaper, which looked at the instances some calls ago, leaves a host the profile
\* its own start made, and that profile its role: also when the host is no one's any more.
SweepSparesHosts ==
    [][reaper' # reaper =>
        \A h \in Of("host") \intersect cloud' :
            \A e \in uses : /\ e[1] = h \/ <<h, e[1]>> \in uses
                            /\ e[1][2] = h[2] /\ e[2][2] = h[2]
                            => e \in uses']_vars

\* Whatever fails or is killed, and though nobody ever runs `end`, no host runs and no
\* role or profile is left in the end: a sweep that failed midway is taken up again.  Of
\* hosts with a deadline: started with --ttl 0, or without their TTLMinutes tag, they stay.
HostsAndRolesGo == <>[](cloud \subseteq {o \in Objects : o[1] = "address"})

\* Said of the state in the bucket: any interviewer can tear down what came up.
AnyMachineCanEnd ==
    tfstate # {} /\ (\A m \in Machines : At(m, "idle")) => \A m \in Machines : CanEnd(m)
=============================================================================
