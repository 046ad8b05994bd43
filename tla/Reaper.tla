------------------------------- MODULE Reaper -------------------------------
(***************************************************************************)
(* What an interview holds in the AWS account (infra/aws/interview), and   *)
(* the reaper that clears the account of what outlived its purpose         *)
(* (infra/aws/account/reaper/handler.py).                                  *)
(*                                                                         *)
(* The account is a set of objects and who uses whom: an instance carries  *)
(* a profile and has an address, a profile holds a role.  The reaper reads *)
(* it call by call, so what it deletes it has seen some calls earlier.     *)
(* The tags and the prefix it asks for are those every object of the       *)
(* module has, and are left out: no object here is anybody else's, and     *)
(* every host has a ttl above zero.                                        *)
(***************************************************************************)
EXTENDS Naturals, FiniteSets

CONSTANTS
    MaxStarts,      \* bound on the starts of the interview
    MaxFailures     \* bound on calls that fail

ASSUME ReaperAssumption == MaxStarts \in Nat /\ MaxFailures \in Nat

Kinds == {"role", "profile", "address", "host"}

\* An object is known by its kind and the start whose apply made it.
Objects == Kinds \X (1..MaxStarts)

VARIABLES
    cloud,          \* the objects there are
    uses,           \* which object uses which
    late,           \* hosts past TTL and grace, IAM objects past the orphan age
    reaper,         \* the run of the reaper: where it is, and what it has read
    failures        \* failed calls so far

account == <<cloud, uses, late>>

Of(kind) == {o \in cloud : o[1] = kind}
UsersOf(o) == {u \in cloud : <<u, o>> \in uses}
NoObject == <<"none", 0>>
Asleep == [pc |-> "idle", old |-> {}, inUse |-> {}, at |-> NoObject]

ReaperTypeOK ==
    /\ cloud \subseteq Objects
    /\ uses \subseteq cloud \X cloud
    /\ late \subseteq cloud
    /\ reaper \in [pc : {"idle", "terminate", "in use", "profiles", "delete profile",
                         "roles", "delete role"},
                   old : SUBSET Objects, inUse : SUBSET Objects,
                   at : Objects \union {NoObject}]
    /\ failures \in 0..MaxFailures

ReaperInit ==
    /\ cloud = {} /\ uses = {} /\ late = {}
    /\ reaper = Asleep
    /\ failures = 0

\* Plausible bug: what used an object goes on naming it.
GoneAlone(objects) ==
    /\ cloud' = cloud \ objects
    /\ late' = late \ objects
    /\ UNCHANGED uses

\* Objects leave the account, and with them what used them and what they used.
Gone(objects) ==
    /\ cloud' = cloud \ objects
    /\ uses' = {e \in uses : e[1] \notin objects /\ e[2] \notin objects}
    /\ late' = late \ objects

Goto(label) == reaper' = [reaper EXCEPT !.pc = label]

----------------------------------------------------------------------------
\* A run of the reaper, every fifteen minutes.

\* What is past its time is so as of the run's start.
Scan ==
    /\ reaper.pc = "idle"
    /\ reaper' = [reaper EXCEPT !.pc = "terminate", !.old = late]
    /\ UNCHANGED <<account, failures>>

\* Hosts that are past their ttl, running or stopped.
Terminate ==
    /\ reaper.pc = "terminate"
    /\ Gone(Of("host") \intersect reaper.old)
    /\ Goto("in use")
    /\ UNCHANGED failures

\* The profiles some instance carries, read before any profile is looked at.
ReadInUse ==
    /\ reaper.pc = "in use"
    /\ reaper' = [reaper EXCEPT !.pc = "profiles",
                                !.inUse = {p \in Of("profile") : UsersOf(p) # {}}]
    /\ UNCHANGED <<account, failures>>

\* Plausible bug: an object nothing uses is taken for an orphan at any age.
OrphanedAtAnyAge(o, inUse) == ~inUse

Orphaned(o, inUse) == ~inUse /\ o \in reaper.old

\* Plausible bug: a profile that has no role any more is passed over.
EmptyProfileWithRole(p) ==
    /\ reaper.pc = "profiles" /\ Orphaned(p, p \in reaper.inUse)
    /\ \E e \in uses : e[1] = p
    /\ uses' = {e \in uses : e[1] # p}
    /\ reaper' = [reaper EXCEPT !.pc = "delete profile", !.at = p]
    /\ UNCHANGED <<cloud, late, failures>>

\* An orphaned profile loses its role first.
EmptyProfile(p) ==
    /\ reaper.pc = "profiles" /\ Orphaned(p, p \in reaper.inUse)
    /\ uses' = {e \in uses : e[1] # p}
    /\ reaper' = [reaper EXCEPT !.pc = "delete profile", !.at = p]
    /\ UNCHANGED <<cloud, late, failures>>

\* IAM refuses to delete what an apply has just put to use, and the run ends there.
Delete(o, unused, next) ==
    IF unused
    THEN Gone({o}) /\ reaper' = [reaper EXCEPT !.pc = next, !.at = NoObject]
    ELSE UNCHANGED account /\ reaper' = Asleep

DeleteProfile ==
    /\ reaper.pc = "delete profile"
    /\ Delete(reaper.at, \A e \in uses : e[1] # reaper.at, "profiles")
    /\ UNCHANGED failures

ProfilesDone ==
    /\ reaper.pc = "profiles"
    /\ \A p \in Of("profile") : ~Orphaned(p, p \in reaper.inUse)
    /\ Goto("roles")
    /\ UNCHANGED <<account, failures>>

\* A role goes once no profile holds it, and its policies before it.
CondemnRole(r) ==
    /\ reaper.pc = "roles" /\ Orphaned(r, UsersOf(r) # {})
    /\ reaper' = [reaper EXCEPT !.pc = "delete role", !.at = r]
    /\ UNCHANGED <<account, failures>>

DeleteRole ==
    /\ reaper.pc = "delete role"
    /\ Delete(reaper.at, UsersOf(reaper.at) = {}, "roles")
    /\ UNCHANGED failures

RolesDone ==
    /\ reaper.pc = "roles"
    /\ \A r \in Of("role") : ~Orphaned(r, UsersOf(r) # {})
    /\ reaper' = Asleep
    /\ UNCHANGED <<account, failures>>

\* A call fails and with it the run: nothing is caught, nothing is remembered.
RunFails ==
    /\ reaper.pc # "idle" /\ failures < MaxFailures
    /\ reaper' = Asleep
    /\ failures' = failures + 1
    /\ UNCHANGED account

ReaperGoesOn ==
    \/ Scan \/ Terminate \/ ReadInUse \/ ProfilesDone \/ DeleteProfile
    \/ DeleteRole \/ RolesDone
    \/ \E p \in Of("profile") : EmptyProfile(p)
    \/ \E r \in Of("role") : CondemnRole(r)

----------------------------------------------------------------------------
\* The rest of the account's life.

\* The guest's own timer powers the host off, which terminates it; or a person does.
HostStops(h) ==
    /\ h \in Of("host")
    /\ Gone({h})
    /\ UNCHANGED <<reaper, failures>>

\* Time passes: an object is past its TTL and the grace, or its day.
Ages(o) ==
    /\ o \in cloud \ late /\ o[1] # "address"
    /\ late' = late \union {o}
    /\ UNCHANGED <<cloud, uses, reaper, failures>>
=============================================================================
