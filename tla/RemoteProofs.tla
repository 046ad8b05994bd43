---------------------------- MODULE RemoteProofs ----------------------------
(***************************************************************************)
(* For any machines, starts, failures and kills: one terraform at a time   *)
(* works on an interview's state, what is in the account is named, by that *)
(* state and by an open record, the reaper spares what a host needs, and   *)
(* the listing shows what is left over.                                    *)
(***************************************************************************)
EXTENDS Listing, FiniteSetTheorems, SequenceTheorems, TLAPS

\* The home machine starts, and only it: what it applies it has recorded.
OnlyHomeStarts ==
    \A m \in Machines :
        /\ cmd[m].n # 0 => m = Home
        /\ At(m, "idle") => cmd[m].n = 0
        /\ At(m, "apply") => cmd[m].n # 0

\* Until a kill, the terraform that is at work knows all there is, and the state does
\* when none is.
TerraformKnows ==
    kills = 0 =>
        /\ \A m \in Machines : InTerraform(m) => cloud \subseteq cmd[m].tf
        /\ (\A m \in Machines : ~InTerraform(m)) => cloud \subseteq tfstate

HomeIsOpen == rec[Home] \in {"open", "up"}

\* What the state names, or a terraform may yet write there, or a start is about to make,
\* the home machine has an open record of; it closes it once nothing is named.
HomeKeepsRecord ==
    /\ tfstate # {} => HomeIsOpen
    /\ \A m \in Machines : InTerraform(m) /\ cmd[m].tf # {} => HomeIsOpen
    /\ cmd[Home].n # 0 /\ cmd[Home].pc \in {"init", "apply"} => HomeIsOpen
    /\ At(Home, "ended") =>
        /\ tfstate = {}
        /\ \A m \in Machines : InTerraform(m) => cmd[m].tf = {}

NamedInv == TypeOK /\ OnlyHomeStarts /\ TerraformIsAlone /\ TerraformKnows /\ HomeKeepsRecord

LEMMA OneMore ==
    \A k \in Nat : \A n \in 0..k : n < k => n + 1 \in 0..k /\ n + 1 \in 1..k
OBVIOUS

\* What leaves the account leaves it whole.
LEMMA GoneIsTyped ==
    ASSUME NEW S, cloud \subseteq Objects, uses \subseteq cloud \X cloud, late \subseteq cloud, Gone(S)
    PROVE  /\ cloud' \subseteq cloud /\ cloud' \subseteq Objects
           /\ uses' \subseteq cloud' \X cloud' /\ late' \subseteq cloud'
BY DEF Gone

\* The reaper, the guest and time take from the account, and touch nothing else.
LEMMA ReaperTakes ==
    ASSUME ReaperTypeOK,
           \/ ReaperGoesOn \/ RunFails
           \/ \E h \in Objects : HostStops(h)
           \/ \E o \in Objects : Ages(o)
    PROVE  ReaperTypeOK' /\ cloud' \subseteq cloud
<1> USE ReaperAssumption DEF ReaperTypeOK
<1> Asleep \in [pc : {"idle", "terminate", "in use", "profiles", "delete profile",
                      "roles", "delete role"},
                old : SUBSET Objects, inUse : SUBSET Objects,
                at : Objects \union {NoObject}]
  BY DEF Asleep
<1>1. CASE Scan
  BY <1>1 DEF Scan, account
<1>2. CASE Terminate
  <2>1. Gone(Of("host") \intersect reaper.old)
    BY <1>2 DEF Terminate
  <2> QED
    BY <1>2, <2>1, GoneIsTyped DEF Terminate, Goto
<1>3. CASE ReadInUse
  <2>1. {p \in Of("profile") : UsersOf(p) # {}} \in SUBSET Objects
    BY DEF Of
  <2> QED
    BY <1>3, <2>1 DEF ReadInUse, account
<1>4. CASE ProfilesDone \/ RolesDone
  BY <1>4 DEF ProfilesDone, RolesDone, account, Goto
<1>5. CASE DeleteProfile
  <2>1. CASE Gone({reaper.at}) /\ reaper' = [reaper EXCEPT !.pc = "profiles", !.at = NoObject]
    BY <1>5, <2>1, GoneIsTyped DEF DeleteProfile
  <2>2. CASE UNCHANGED account /\ reaper' = Asleep
    BY <1>5, <2>2 DEF DeleteProfile, account
  <2> QED
    BY <1>5, <2>1, <2>2 DEF DeleteProfile, Delete
<1>6. CASE DeleteRole
  <2>1. CASE Gone({reaper.at}) /\ reaper' = [reaper EXCEPT !.pc = "roles", !.at = NoObject]
    BY <1>6, <2>1, GoneIsTyped DEF DeleteRole
  <2>2. CASE UNCHANGED account /\ reaper' = Asleep
    BY <1>6, <2>2 DEF DeleteRole, account
  <2> QED
    BY <1>6, <2>1, <2>2 DEF DeleteRole, Delete
<1>7. ASSUME NEW p \in Of("profile"), EmptyProfile(p)
      PROVE  ReaperTypeOK' /\ cloud' \subseteq cloud
  BY <1>7 DEF EmptyProfile, Of
<1>8. ASSUME NEW r \in Of("role"), CondemnRole(r)
      PROVE  ReaperTypeOK' /\ cloud' \subseteq cloud
  BY <1>8 DEF CondemnRole, Of, account
<1>9. CASE RunFails
  <2>1. failures \in 0..MaxFailures /\ MaxFailures \in Nat /\ failures < MaxFailures
        /\ failures' = failures + 1
    BY <1>9 DEF RunFails
  <2>2. failures' \in 0..MaxFailures
    BY <2>1, OneMore
  <2>3. reaper' = Asleep /\ UNCHANGED <<cloud, uses, late>>
    BY <1>9 DEF RunFails, account
  <2> QED
    BY <2>2, <2>3
<1>10. ASSUME NEW h \in Objects, HostStops(h)
       PROVE  ReaperTypeOK' /\ cloud' \subseteq cloud
  BY <1>10, GoneIsTyped DEF HostStops
<1>11. ASSUME NEW o \in Objects, Ages(o)
       PROVE  ReaperTypeOK' /\ cloud' \subseteq cloud
  BY <1>11 DEF Ages
<1> QED
  BY <1>1, <1>2, <1>3, <1>4, <1>5, <1>6, <1>7, <1>8, <1>9, <1>10, <1>11 DEF ReaperGoesOn

\* What an action of Next is about: the reaper and the rest of the account's life, or a
\* machine.
LEMMA StepsApart ==
    ASSUME ReaperTypeOK, Next
    PROVE  \/ ReaperTypeOK' /\ cloud' \subseteq cloud /\ Others
           \/ ForceUnlock \/ StartBegins
           \/ \E m \in Machines : \/ CommandStep(m) \/ EndBegins(m)
                                  \/ Stops(m) \/ Killed(m) \/ CommandFails(m)
BY ReaperTakes DEF Next, ReaperStep, TimePasses

Commands == [pc : {"idle", "save", "init", "apply", "outputs", "destroy", "ended"},
             n : 0..MaxStarts, tf : SUBSET Objects]

\* The types, with who starts: an object is named for the start that makes it.
LEMMA TypesStep ==
    ASSUME TypeOK, OnlyHomeStarts, [Next]_vars
    PROVE  TypeOK' /\ OnlyHomeStarts'
<1> USE RemoteAssumption, ReaperAssumption DEF Commands, At
<1>0. /\ cmd \in [Machines -> Commands] /\ Idle \in Commands
      /\ tfstate \subseteq Objects /\ cloud \subseteq Objects
  <2>1. 0 \in 0..MaxStarts
    OBVIOUS
  <2>2. Idle \in Commands
    BY <2>1 DEF Idle
  <2> QED
    BY <2>2 DEF TypeOK, ReaperTypeOK
<1>1. CASE UNCHANGED vars
  <2>1. UNCHANGED <<cloud, uses, late, reaper, failures, tfstate, lock, rec, cmd, starts, kills>>
    BY <1>1 DEF vars, account
  <2>2. ReaperTypeOK'
    BY <2>1 DEF TypeOK, ReaperTypeOK
  <2> QED
    BY <2>1, <2>2 DEF TypeOK, OnlyHomeStarts
<1>2. CASE ReaperTypeOK' /\ cloud' \subseteq cloud /\ Others
  BY <1>2 DEF Others, TypeOK, OnlyHomeStarts
<1>3. CASE ForceUnlock
  BY <1>3 DEF ForceUnlock, ByHand, account, TypeOK, ReaperTypeOK, OnlyHomeStarts, Of
<1>4. CASE StartBegins
  <2>1. /\ starts + 1 \in 1..MaxStarts /\ starts' = starts + 1
        /\ cmd' = [cmd EXCEPT ![Home] = [Idle EXCEPT !.pc = "save", !.n = starts + 1]]
    <3>1. starts \in 0..MaxStarts /\ starts < MaxStarts /\ MaxStarts \in Nat
      BY <1>4 DEF StartBegins, TypeOK
    <3> QED
      BY <1>4, <3>1, OneMore DEF StartBegins
  <2>2. [Idle EXCEPT !.pc = "save", !.n = starts + 1] \in Commands
    <3>1. starts + 1 \in 0..MaxStarts
      BY <2>1
    <3> QED
      BY <3>1 DEF Idle
  <2>3. cmd' \in [Machines -> Commands] /\ starts' \in 0..MaxStarts
    BY <1>0, <2>1, <2>2
  <2>4. OnlyHomeStarts'
    BY <1>0, <2>1 DEF OnlyHomeStarts, Idle
  <2> QED
    BY <1>4, <2>3, <2>4 DEF StartBegins, account, TypeOK, ReaperTypeOK
<1>5. ASSUME NEW m \in Machines, SaveOpen(m) \/ SaveOutputs(m) \/ SaveEnded(m)
      PROVE  TypeOK' /\ OnlyHomeStarts'
  <2>1. cmd' \in [Machines -> Commands]
    BY <1>0, <1>5 DEF SaveOpen, SaveOutputs, SaveEnded, Go, Return
  <2>2. rec' \in [Machines -> {"none", "open", "up", "ended"}]
    BY <1>5 DEF SaveOpen, SaveOutputs, SaveEnded, TypeOK
  <2>3. OnlyHomeStarts'
    BY <1>0, <1>5 DEF SaveOpen, SaveOutputs, SaveEnded, Go, Return, OnlyHomeStarts, Idle
  <2> QED
    BY <1>5, <2>1, <2>2, <2>3 DEF SaveOpen, SaveOutputs, SaveEnded, ByHand, account, TypeOK,
       ReaperTypeOK, Of
<1>6. ASSUME NEW m \in Machines, TakeLock(m) \/ Locked(m) \/ EndBegins(m)
      PROVE  TypeOK' /\ OnlyHomeStarts'
  <2>1. cmd' \in [Machines -> Commands]
    BY <1>0, <1>6 DEF TakeLock, Locked, EndBegins, Go, Return
  <2>2. OnlyHomeStarts'
    BY <1>0, <1>6 DEF TakeLock, Locked, EndBegins, Go, Return, OnlyHomeStarts, Idle
  <2>3. lock' \in Machines \union {NoOne}
    BY <1>6 DEF TakeLock, Locked, EndBegins, TypeOK
  <2> QED
    BY <1>6, <2>1, <2>2, <2>3 DEF TakeLock, Locked, EndBegins, ByHand, account, TypeOK,
       ReaperTypeOK, Of
<1>7. ASSUME NEW m \in Machines, NEW kind \in Kinds, Create(m, kind)
      PROVE  TypeOK' /\ OnlyHomeStarts'
  <2>1. cmd[m].n \in 1..MaxStarts
    BY <1>0, <1>7 DEF Create, OnlyHomeStarts
  <2>2. <<kind, cmd[m].n>> \in Objects
    BY <2>1 DEF Objects
  <2>3. /\ cloud' = cloud \union {<<kind, cmd[m].n>>}
        /\ uses' = uses \union Links((cmd[m].tf \intersect cloud) \union {<<kind, cmd[m].n>>})
        /\ cmd' = [cmd EXCEPT ![m].tf = @ \union {<<kind, cmd[m].n>>}]
        /\ UNCHANGED <<late, reaper, failures, tfstate, lock, rec, starts, kills>>
    BY <1>7 DEF Create
  <2>4. cmd' \in [Machines -> Commands] /\ OnlyHomeStarts'
    BY <1>0, <2>2, <2>3 DEF OnlyHomeStarts
  <2>5. uses' \subseteq cloud' \X cloud'
    BY <2>3 DEF Links, TypeOK, ReaperTypeOK
  <2> QED
    BY <1>0, <2>2, <2>3, <2>4, <2>5 DEF TypeOK, ReaperTypeOK
<1>8. ASSUME NEW m \in Machines, NEW o \in Objects, Destroy(m, o)
      PROVE  TypeOK' /\ OnlyHomeStarts'
  <2>1. Gone({o}) /\ cmd' = [cmd EXCEPT ![m].tf = @ \ {o}]
        /\ UNCHANGED <<reaper, failures, tfstate, lock, rec, starts, kills>>
    BY <1>8 DEF Destroy
  <2>2. cmd' \in [Machines -> Commands] /\ OnlyHomeStarts'
    BY <1>0, <2>1 DEF OnlyHomeStarts
  <2> QED
    BY <2>1, <2>2, GoneIsTyped DEF TypeOK, ReaperTypeOK
<1>9. ASSUME NEW m \in Machines, TerraformDone(m) \/ Stops(m) \/ CommandFails(m)
      PROVE  TypeOK' /\ OnlyHomeStarts'
  <2>1. cmd' \in [Machines -> Commands] /\ OnlyHomeStarts'
    BY <1>0, <1>9 DEF TerraformDone, Stops, CommandFails, Go, Return, OnlyHomeStarts, Idle
  <2>2. tfstate' \subseteq Objects /\ lock' \in Machines \union {NoOne}
    BY <1>0, <1>9 DEF TerraformDone, Stops, CommandFails, Exit, TypeOK
  <2>3. failures' \in 0..MaxFailures
    <3>1. failures \in 0..MaxFailures /\ MaxFailures \in Nat
      BY DEF TypeOK, ReaperTypeOK
    <3> QED
      BY <1>9, <3>1, OneMore DEF TerraformDone, Stops, CommandFails, Fails, ByHand
  <2> QED
    BY <1>9, <2>1, <2>2, <2>3 DEF TerraformDone, Stops, CommandFails, Fails, ByHand, account,
       TypeOK, ReaperTypeOK
<1>10. ASSUME NEW m \in Machines, Killed(m)
       PROVE  TypeOK' /\ OnlyHomeStarts'
  <2>1. cmd' \in [Machines -> Commands] /\ OnlyHomeStarts'
    BY <1>0, <1>10 DEF Killed, Return, OnlyHomeStarts, Idle
  <2>2. tfstate' \subseteq Objects
    BY <1>0, <1>10 DEF Killed
  <2>3. kills' \in 0..MaxKills
    <3>1. kills \in 0..MaxKills /\ MaxKills \in Nat
      BY DEF TypeOK
    <3> QED
      BY <1>10, <3>1, OneMore DEF Killed
  <2> QED
    BY <1>10, <2>1, <2>2, <2>3 DEF Killed, account, TypeOK, ReaperTypeOK
<1> QED
  BY <1>1, <1>2, <1>3, <1>4, <1>5, <1>6, <1>7, <1>8, <1>9, <1>10, StepsApart
     DEF CommandStep, TypeOK

\* One terraform at a time: the lock is taken free, and given up or cleared only when no
\* other terraform is at work.
LEMMA AloneStep ==
    ASSUME TypeOK, TerraformIsAlone, [Next]_vars
    PROVE  TerraformIsAlone'
<1> USE RemoteAssumption DEF TerraformIsAlone, InTerraform, At
<1>0. cmd \in [Machines -> Commands]
  BY DEF TypeOK, Commands
<1>1. CASE UNCHANGED vars
  BY <1>1 DEF vars
<1>2. CASE Others
  BY <1>2 DEF Others
<1>3. CASE ForceUnlock
  BY <1>3 DEF ForceUnlock
<1>4. CASE StartBegins
  BY <1>0, <1>4 DEF StartBegins, Idle
<1>5. ASSUME NEW m \in Machines, SaveOpen(m) \/ SaveOutputs(m) \/ SaveEnded(m) \/ EndBegins(m)
      PROVE  TerraformIsAlone'
  <2>1. /\ cmd'[m].pc \notin {"apply", "destroy"}
        /\ \A u \in Machines : u # m => cmd'[u] = cmd[u]
        /\ UNCHANGED lock
    BY <1>0, <1>5 DEF SaveOpen, SaveOutputs, SaveEnded, EndBegins, Go, Return, Idle, Commands
  <2> QED
    BY <2>1
<1>6. ASSUME NEW m \in Machines, TakeLock(m) \/ Locked(m)
      PROVE  TerraformIsAlone'
  BY <1>0, <1>6 DEF TakeLock, Locked, Return, Idle, Commands
<1>7. ASSUME NEW m \in Machines, NEW kind \in Kinds, Create(m, kind)
      PROVE  TerraformIsAlone'
  BY <1>0, <1>7 DEF Create, Commands
<1>8. ASSUME NEW m \in Machines, NEW o \in Objects, Destroy(m, o)
      PROVE  TerraformIsAlone'
  BY <1>0, <1>8 DEF Destroy, Commands
<1>9. ASSUME NEW m \in Machines, TerraformDone(m) \/ Stops(m) \/ CommandFails(m) \/ Killed(m)
      PROVE  TerraformIsAlone'
  BY <1>0, <1>9 DEF TerraformDone, Stops, CommandFails, Killed, Exit, Go, Return, Idle, Commands
<1> QED
  BY <1>1, <1>2, <1>3, <1>4, <1>5, <1>6, <1>7, <1>8, <1>9, StepsApart DEF CommandStep, TypeOK

\* Until a kill, nothing is made or saved that the terraform at work does not know.
LEMMA KnowsStep ==
    ASSUME TypeOK, TerraformIsAlone, TerraformKnows, [Next]_vars
    PROVE  TerraformKnows'
<1> USE RemoteAssumption DEF TerraformKnows, InTerraform, At
<1>0. cmd \in [Machines -> Commands] /\ kills \in Nat
  BY DEF TypeOK, Commands
<1>1. CASE UNCHANGED vars
  BY <1>1 DEF vars, account
<1>2. CASE cloud' \subseteq cloud /\ Others
  BY <1>2 DEF Others
<1>3. CASE ForceUnlock
  BY <1>3 DEF ForceUnlock, ByHand, account
<1>4. CASE StartBegins
  BY <1>0, <1>4 DEF StartBegins, Idle, account
<1>5. ASSUME NEW m \in Machines, SaveOpen(m) \/ SaveOutputs(m) \/ SaveEnded(m) \/ EndBegins(m)
      PROVE  TerraformKnows'
  <2>1. /\ ~InTerraform(m) /\ cmd'[m].pc \notin {"apply", "destroy"}
        /\ \A u \in Machines : u # m => cmd'[u] = cmd[u]
        /\ UNCHANGED <<cloud, tfstate, kills>>
    BY <1>0, <1>5 DEF SaveOpen, SaveOutputs, SaveEnded, EndBegins, Go, Return, Idle, Commands,
       ByHand, account
  <2> QED
    BY <2>1
<1>6. ASSUME NEW m \in Machines, Locked(m)
      PROVE  TerraformKnows'
  BY <1>0, <1>6 DEF Locked, Return, Idle, Commands, ByHand, account
<1>7. ASSUME NEW m \in Machines, TakeLock(m)
      PROVE  TerraformKnows'
  <2>1. /\ \A u \in Machines : ~InTerraform(u)
        /\ cmd'[m].tf = tfstate \intersect cloud /\ cmd'[m].pc \in {"apply", "destroy"}
        /\ \A u \in Machines : u # m => cmd'[u] = cmd[u]
        /\ UNCHANGED <<cloud, tfstate, kills>>
    BY <1>0, <1>7 DEF TakeLock, TerraformIsAlone, Commands, ByHand, account
  <2> QED
    BY <2>1
<1>8. ASSUME NEW m \in Machines, NEW kind \in Kinds, Create(m, kind)
      PROVE  TerraformKnows'
  <2>1. /\ InTerraform(m) /\ \A u \in Machines : InTerraform(u) => u = m
        /\ cmd'[m].pc = cmd[m].pc
        /\ cmd'[m].tf = cmd[m].tf \union {<<kind, cmd[m].n>>}
        /\ \A u \in Machines : u # m => cmd'[u] = cmd[u]
        /\ cloud' = cloud \union {<<kind, cmd[m].n>>}
        /\ UNCHANGED <<tfstate, kills>>
    BY <1>0, <1>8 DEF Create, TerraformIsAlone, Commands
  <2> QED
    BY <2>1
<1>9. ASSUME NEW m \in Machines, NEW o \in Objects, Destroy(m, o)
      PROVE  TerraformKnows'
  <2>1. /\ InTerraform(m) /\ \A u \in Machines : InTerraform(u) => u = m
        /\ cmd'[m].pc = cmd[m].pc
        /\ cmd'[m].tf = cmd[m].tf \ {o}
        /\ \A u \in Machines : u # m => cmd'[u] = cmd[u]
        /\ cloud' = cloud \ {o}
        /\ UNCHANGED <<tfstate, kills>>
    BY <1>0, <1>9 DEF Destroy, Gone, TerraformIsAlone, Commands
  <2> QED
    BY <2>1
<1>10. ASSUME NEW m \in Machines, TerraformDone(m) \/ Stops(m)
       PROVE  TerraformKnows'
  <2>1. /\ InTerraform(m) /\ \A u \in Machines : InTerraform(u) => u = m
        /\ cmd'[m].pc \notin {"apply", "destroy"}
        /\ \A u \in Machines : u # m => cmd'[u] = cmd[u]
        /\ tfstate' = cmd[m].tf
        /\ UNCHANGED <<cloud, kills>>
    BY <1>0, <1>10 DEF TerraformDone, Stops, Exit, Go, Return, Idle, TerraformIsAlone, Commands,
       ByHand, account
  <2> QED
    BY <2>1
<1>11. ASSUME NEW m \in Machines, CommandFails(m)
       PROVE  TerraformKnows'
  BY <1>0, <1>11 DEF CommandFails, Return, Idle, Commands, account
<1>12. ASSUME NEW m \in Machines, Killed(m)
       PROVE  TerraformKnows'
  BY <1>0, <1>12 DEF Killed
<1> QED
  BY <1>1, <1>2, <1>3, <1>4, <1>5, <1>6, <1>7, <1>8, <1>9, <1>10, <1>11, <1>12, StepsApart
     DEF CommandStep, TypeOK

\* The home machine's record is open from before an apply until nothing is named.
LEMMA RecordStep ==
    ASSUME TypeOK, OnlyHomeStarts, TerraformIsAlone, HomeKeepsRecord, [Next]_vars
    PROVE  HomeKeepsRecord'
<1> USE RemoteAssumption DEF HomeKeepsRecord, HomeIsOpen, InTerraform, At
<1>0. cmd \in [Machines -> Commands] /\ rec \in [Machines -> {"none", "open", "up", "ended"}]
  BY DEF TypeOK, Commands
<1>1. CASE UNCHANGED vars
  BY <1>1 DEF vars
<1>2. CASE Others
  BY <1>2 DEF Others
<1>3. CASE ForceUnlock
  BY <1>3 DEF ForceUnlock, ByHand
<1>4. CASE StartBegins
  BY <1>0, <1>4 DEF StartBegins, Idle
<1>5. ASSUME NEW m \in Machines, SaveOpen(m) \/ SaveOutputs(m)
      PROVE  HomeKeepsRecord'
  <2>1. /\ rec'[m] \in {"open", "up"} /\ \A u \in Machines : u # m => rec'[u] = rec[u]
        /\ cmd'[m].pc \notin {"apply", "destroy", "ended"}
        /\ \A u \in Machines : u # m => cmd'[u] = cmd[u]
        /\ UNCHANGED tfstate
    BY <1>0, <1>5 DEF SaveOpen, SaveOutputs, Go, Return, Idle, Commands
  <2>2. m # Home => cmd[m].n = 0 /\ (HomeIsOpen => HomeIsOpen')
    BY <2>1 DEF OnlyHomeStarts
  <2>3. CASE m = Home
    BY <2>1, <2>3
  <2>4. CASE m # Home
    BY <2>1, <2>2, <2>4
  <2> QED
    BY <2>3, <2>4
<1>6. ASSUME NEW m \in Machines, SaveEnded(m)
      PROVE  HomeKeepsRecord'
  BY <1>0, <1>6 DEF SaveEnded, Return, Idle, Commands
<1>7. ASSUME NEW m \in Machines, EndBegins(m)
      PROVE  HomeKeepsRecord'
  BY <1>0, <1>7 DEF EndBegins, Go, Commands, OnlyHomeStarts
<1>8. ASSUME NEW m \in Machines, TakeLock(m) \/ Locked(m)
      PROVE  HomeKeepsRecord'
  BY <1>0, <1>8 DEF TakeLock, Locked, Return, Idle, Commands
<1>9. ASSUME NEW m \in Machines, NEW kind \in Kinds, Create(m, kind)
      PROVE  HomeKeepsRecord'
  <2>1. m = Home /\ HomeIsOpen
    BY <1>9 DEF Create, OnlyHomeStarts
  <2> QED
    BY <1>0, <1>9, <2>1 DEF Create, Commands
<1>10. ASSUME NEW m \in Machines, NEW o \in Objects, Destroy(m, o)
       PROVE  HomeKeepsRecord'
  BY <1>0, <1>10 DEF Destroy, Commands
<1>11. ASSUME NEW m \in Machines, TerraformDone(m) \/ Stops(m)
       PROVE  HomeKeepsRecord'
  <2>1. /\ InTerraform(m) /\ \A u \in Machines : InTerraform(u) => u = m
        /\ cmd'[m].pc \notin {"apply", "destroy", "init"}
        /\ cmd'[m].pc = "ended" => cmd[m].tf = {}
        /\ \A u \in Machines : u # m => cmd'[u] = cmd[u]
        /\ tfstate' = cmd[m].tf
        /\ UNCHANGED rec
    BY <1>0, <1>11 DEF TerraformDone, Stops, Exit, Go, Return, Idle, TerraformIsAlone, Commands
  <2> QED
    BY <2>1
<1>12. ASSUME NEW m \in Machines, CommandFails(m) \/ Killed(m)
       PROVE  HomeKeepsRecord'
  <2>1. CASE CommandFails(m)
    BY <1>0, <2>1 DEF CommandFails, Return, Idle, Commands
  <2>2. CASE Killed(m)
    <3>1. /\ cmd'[m] = Idle /\ \A u \in Machines : u # m => cmd'[u] = cmd[u]
          /\ tfstate' = tfstate \/ (InTerraform(m) /\ tfstate' = cmd[m].tf)
          /\ UNCHANGED rec
      BY <1>0, <2>2 DEF Killed, Return
    <3> QED
      BY <1>0, <3>1 DEF Idle, Commands
  <2> QED
    BY <1>12, <2>1, <2>2
<1> QED
  BY <1>1, <1>2, <1>3, <1>4, <1>5, <1>6, <1>7, <1>8, <1>9, <1>10, <1>11, <1>12, StepsApart
     DEF CommandStep, TypeOK

LEMMA NamedInvHolds == Spec => []NamedInv
<1>1. Init => NamedInv
  <2> SUFFICES ASSUME Init PROVE NamedInv
    OBVIOUS
  <2> USE RemoteAssumption, ReaperAssumption DEF Init, ReaperInit, Idle, Asleep
  <2>1. ReaperTypeOK
    BY DEF ReaperTypeOK
  <2>2. TypeOK
    BY <2>1 DEF TypeOK
  <2>3. OnlyHomeStarts /\ TerraformIsAlone /\ TerraformKnows /\ HomeKeepsRecord
    BY DEF OnlyHomeStarts, TerraformIsAlone, TerraformKnows, HomeKeepsRecord, InTerraform, At
  <2> QED
    BY <2>2, <2>3 DEF NamedInv
<1>2. NamedInv /\ [Next]_vars => NamedInv'
  BY TypesStep, AloneStep, KnowsStep, RecordStep DEF NamedInv
<1> QED
  BY <1>1, <1>2, PTL DEF Spec

\* The variables of the account, of terraform and of the commands keep their types, for
\* any machines and any bounds: a state or a snapshot of the reaper's names objects only.
THEOREM RemoteTypeCorrect == Spec => []TypeOK
<1>1. NamedInv => TypeOK
  BY DEF NamedInv
<1> QED
  BY <1>1, NamedInvHolds, PTL

\* For any machines, whatever fails, is interrupted past its bound (runBounded,
\* cli/setup.go) or is killed: two terraforms never work on one state, and the one that
\* works holds the lock.
THEOREM OneTerraformAtATime == Spec => []TerraformIsAlone
<1>1. NamedInv => TerraformIsAlone
  BY DEF NamedInv
<1> QED
  BY <1>1, NamedInvHolds, PTL

\* For any machines and starts: until a kill, what exists in the account is in
\* terraform's state or about to be written there; and as long as the state names
\* anything, a record is open with which `end` can be run (startRemote, endRemote).
THEOREM HostsAreNamed == Spec => []EverythingIsNamed
<1>1. NamedInv => EverythingIsNamed
  <2> SUFFICES ASSUME NamedInv PROVE EverythingIsNamed
    OBVIOUS
  <2>1. kills = 0 => cloud \subseteq tfstate \union UNION {cmd[m].tf : m \in Machines}
    BY DEF NamedInv, TerraformKnows
  <2>2. tfstate # {} => \E m \in Machines : rec[m] \in {"open", "up"}
    BY RemoteAssumption DEF NamedInv, HomeKeepsRecord, HomeIsOpen
  <2> QED
    BY <2>1, <2>2 DEF EverythingIsNamed
<1> QED
  BY <1>1, NamedInvHolds, PTL

----------------------------------------------------------------------------
\* What the reaper leaves to a host: what it has read is old when it deletes, so that the
\* invariant says of each reading what can no longer become of it.

\* One object uses another of a kind it is made with.
UsesAreNeeded == \A e \in uses : e[2][1] \in Needs[e[1][1]]

\* An object is of a start that was, and of a start that has yet to apply there is none.
Numbered ==
    /\ \A m \in Machines : cmd[m].n <= starts
    /\ \A o \in cloud \union reaper.old : o[2] <= starts
    /\ \A m \in Machines : cmd[m].n # 0 /\ cmd[m].pc \in {"save", "init"} =>
           \A o \in cloud : o[2] # cmd[m].n

\* An apply knows what it has made itself, and made its host with some profile.
OwnKnown ==
    \A m \in Machines : At(m, "apply") =>
        /\ \A o \in cloud : o[2] = cmd[m].n => o \in cmd[m].tf
        /\ <<"host", cmd[m].n>> \in cmd[m].tf => \E o \in cmd[m].tf : o[1] = "profile"

\* Nothing more is made by the start of a profile that is old, or was when the run began.
AgedIsOver ==
    \A o \in late \union reaper.old : o[1] # "host" => \A m \in Machines : cmd[m].n # o[2]

HostOf(k) == <<"host", k>>
ProfileOf(k) == <<"profile", k>>

\* A host uses the profile its own start made.
Paired ==
    \A k \in 1..MaxStarts :
        HostOf(k) \in cloud /\ ProfileOf(k) \in cloud => <<HostOf(k), ProfileOf(k)>> \in uses

\* What the run has read: an old profile that a host of its start carries it has seen in use,
\* and what it is about to delete it has not.
SweepSees ==
    /\ reaper.pc \in {"profiles", "delete profile"} =>
          \A p \in reaper.old \intersect cloud :
              p[1] = "profile" /\ HostOf(p[2]) \in cloud => p \in reaper.inUse
    /\ reaper.pc = "delete profile" =>
          reaper.at[1] = "profile" /\ reaper.at \in reaper.old /\ reaper.at \notin reaper.inUse
    /\ reaper.pc = "delete role" => reaper.at[1] = "role"

SpareInv ==
    UsesAreNeeded /\ Numbered /\ OwnKnown /\ AgedIsOver /\ Paired /\ SweepSees

\* A step with which nothing comes up.
Fading ==
    /\ cloud' \subseteq cloud /\ uses' \subseteq uses
    /\ \A e \in uses : e[1][1] = "host" /\ e[1] \in cloud' /\ e[2] \in cloud' => e \in uses'
    /\ reaper'.old \subseteq reaper.old \union late
    /\ \A o \in late' : o \in late \/ TimePasses(o)

LEMMA GoneFades ==
    ASSUME NEW S, Gone(S), uses \subseteq cloud \X cloud
    PROVE  /\ cloud' \subseteq cloud /\ uses' \subseteq uses /\ late' \subseteq late
           /\ \A e \in uses : e[1] \in cloud' /\ e[2] \in cloud' => e \in uses'
BY DEF Gone

LEMMA StepsFade ==
    ASSUME TypeOK, [Next]_vars
    PROVE  Fading \/ \E m \in Machines, kind \in Kinds : Create(m, kind)
<1>0. uses \subseteq cloud \X cloud /\ reaper.old \subseteq Objects /\ late \subseteq cloud
  BY DEF TypeOK, ReaperTypeOK
<1>u. Asleep.old = {}
  BY DEF Asleep
<1>s. ASSUME UNCHANGED account, reaper'.old \subseteq reaper.old \union late PROVE Fading
  BY <1>s DEF account, Fading
<1>g. ASSUME NEW S, Gone(S), reaper'.old \subseteq reaper.old \union late PROVE Fading
  BY <1>0, <1>g, GoneFades DEF Fading
<1>1. ASSUME ReaperGoesOn PROVE Fading
  <2>t. reaper \in [pc : {"idle", "terminate", "in use", "profiles", "delete profile",
                          "roles", "delete role"},
                    old : SUBSET Objects, inUse : SUBSET Objects,
                    at : Objects \union {NoObject}]
    BY DEF TypeOK, ReaperTypeOK
  <2>1. CASE Scan
    BY <1>s, <2>t, <2>1 DEF Scan
  <2>2. CASE Terminate
    BY <1>g, <2>t, <2>2 DEF Terminate, Goto
  <2>3. CASE ReadInUse
    BY <1>s, <2>t, <2>3 DEF ReadInUse
  <2>4. CASE ProfilesDone \/ RolesDone
    BY <1>s, <1>u, <2>t, <2>4 DEF ProfilesDone, RolesDone, Goto
  <2>5. CASE DeleteProfile
    BY <1>s, <1>g, <1>u, <2>t, <2>5 DEF DeleteProfile, Delete
  <2>6. CASE DeleteRole
    BY <1>s, <1>g, <1>u, <2>t, <2>6 DEF DeleteRole, Delete
  <2>7. ASSUME NEW p \in Of("profile"), EmptyProfile(p) PROVE Fading
    <3>1. reaper'.old = reaper.old
      BY <2>t, <2>7 DEF EmptyProfile
    <3>2. p[1] # "host"
      BY DEF Of
    <3> QED
      BY <2>7, <3>1, <3>2 DEF EmptyProfile, Fading
  <2>8. ASSUME NEW r \in Of("role"), CondemnRole(r) PROVE Fading
    BY <1>s, <2>t, <2>8 DEF CondemnRole
  <2> QED
    BY <1>1, <2>1, <2>2, <2>3, <2>4, <2>5, <2>6, <2>7, <2>8 DEF ReaperGoesOn
<1>2. ASSUME RunFails PROVE Fading
  BY <1>s, <1>u, <1>2 DEF RunFails
<1>3. ASSUME NEW h \in Objects, HostStops(h) PROVE Fading
  BY <1>g, <1>3 DEF HostStops
<1>4. ASSUME NEW o \in Objects, TimePasses(o) PROVE Fading
  BY <1>4 DEF TimePasses, Ages, Fading
<1>5. ASSUME ForceUnlock \/ StartBegins PROVE Fading
  BY <1>s, <1>5 DEF ForceUnlock, StartBegins, ByHand
<1>6. ASSUME NEW m \in Machines, NEW o \in Objects, Destroy(m, o) PROVE Fading
  BY <1>g, <1>6 DEF Destroy
<1>7. ASSUME NEW m \in Machines,
             \/ TakeLock(m) \/ Locked(m) \/ TerraformDone(m)
             \/ SaveOpen(m) \/ SaveOutputs(m) \/ SaveEnded(m)
             \/ EndBegins(m) \/ Stops(m) \/ Killed(m) \/ CommandFails(m)
      PROVE  Fading
  BY <1>s, <1>7 DEF TakeLock, Locked, TerraformDone, SaveOpen, SaveOutputs, SaveEnded,
     EndBegins, Stops, Killed, CommandFails, ByHand
<1>8. CASE UNCHANGED vars
  BY <1>s, <1>8 DEF vars
<1> QED
  BY <1>1, <1>2, <1>3, <1>4, <1>5, <1>6, <1>7, <1>8 DEF Next, CommandStep, ReaperStep

\* What a step that makes nothing does to a command: it goes on under its number, or is a new
\* start's, or has none.
Moved(m) ==
    \/ cmd'[m].n = 0 /\ cmd'[m].pc # "apply"
    \/ /\ cmd'[m].n = cmd[m].n
       /\ cmd'[m].pc \in {"save", "init"} => cmd[m].pc \in {"save", "init"}
       /\ cmd'[m].pc = "apply" => \/ cmd[m].pc = "apply" /\ cmd'[m].tf = cmd[m].tf
                                  \/ cmd[m].pc = "init" /\ cmd'[m].tf \subseteq cloud
    \/ cmd'[m].n = starts + 1 /\ starts' = starts + 1 /\ cmd'[m].pc = "save"

LEMMA CommandsMove ==
    ASSUME TypeOK, OnlyHomeStarts, [Next]_vars,
           ~\E m \in Machines, kind \in Kinds : Create(m, kind)
    PROVE  (\A m \in Machines : Moved(m)) /\ starts' \in {starts, starts + 1}
<1> USE RemoteAssumption DEF At
<1>0. cmd \in [Machines -> Commands] /\ cmd' \in [Machines -> Commands]
      /\ Idle.n = 0 /\ Idle.pc = "idle"
  <2>1. TypeOK'
    BY TypesStep
  <2> QED
    BY <2>1 DEF TypeOK, Commands, Idle
<1>h. ASSUME cmd' = cmd, starts' = starts
      PROVE  (\A m \in Machines : Moved(m)) /\ starts' \in {starts, starts + 1}
  BY <1>h DEF Moved
<1>m. ASSUME NEW m \in Machines, Moved(m), starts' = starts,
             \A u \in Machines : u # m => cmd'[u] = cmd[u]
      PROVE  (\A u \in Machines : Moved(u)) /\ starts' \in {starts, starts + 1}
  BY <1>m DEF Moved
<1>1. ASSUME Others \/ ForceUnlock \/ UNCHANGED vars
      PROVE  (\A m \in Machines : Moved(m)) /\ starts' \in {starts, starts + 1}
  BY <1>1, <1>h DEF Others, ForceUnlock, ByHand, vars
<1>2. ASSUME StartBegins
      PROVE  (\A m \in Machines : Moved(m)) /\ starts' \in {starts, starts + 1}
  <2>1. cmd'[Home] = [Idle EXCEPT !.pc = "save", !.n = starts + 1] /\ starts' = starts + 1
        /\ \A u \in Machines : u # Home => cmd'[u] = cmd[u]
    BY <1>0, <1>2 DEF StartBegins
  <2>2. cmd'[Home].n = starts + 1 /\ cmd'[Home].pc = "save"
    BY <2>1 DEF Idle
  <2> QED
    BY <2>1, <2>2 DEF Moved
<1>3. ASSUME NEW m \in Machines,
             \/ Locked(m) \/ TerraformDone(m) \/ SaveOpen(m) \/ SaveOutputs(m) \/ SaveEnded(m)
             \/ Stops(m) \/ Killed(m) \/ CommandFails(m)
      PROVE  (\A u \in Machines : Moved(u)) /\ starts' \in {starts, starts + 1}
  <2>1. starts' = starts /\ \A u \in Machines : u # m => cmd'[u] = cmd[u]
    BY <1>0, <1>3 DEF Locked, TerraformDone, SaveOpen, SaveOutputs, SaveEnded, Stops, Killed,
       CommandFails, ByHand, Go, Return
  <2>2. \/ Return(m)
        \/ Go(m, "outputs") \/ Go(m, "ended")
        \/ At(m, "save") /\ Go(m, "init")
    BY <1>3 DEF Locked, TerraformDone, SaveOpen, SaveOutputs, SaveEnded, Stops, Killed,
       CommandFails
  <2>3. Moved(m)
    <3>1. CASE Return(m)
      BY <1>0, <3>1 DEF Return, Moved
    <3>2. CASE ~Return(m)
      BY <1>0, <2>2, <3>2 DEF Go, Moved, Commands
    <3> QED
      BY <3>1, <3>2
  <2> QED
    BY <1>m, <2>1, <2>3
<1>4. ASSUME NEW m \in Machines, EndBegins(m)
      PROVE  (\A u \in Machines : Moved(u)) /\ starts' \in {starts, starts + 1}
  <2>1. starts' = starts /\ \A u \in Machines : u # m => cmd'[u] = cmd[u]
    BY <1>0, <1>4 DEF EndBegins, ByHand, Go
  <2>2. cmd'[m].n = 0 /\ cmd'[m].pc = "init"
    BY <1>0, <1>4 DEF EndBegins, Go, Commands, OnlyHomeStarts
  <2> QED
    BY <1>m, <2>1, <2>2 DEF Moved
<1>5. ASSUME NEW m \in Machines, TakeLock(m)
      PROVE  (\A u \in Machines : Moved(u)) /\ starts' \in {starts, starts + 1}
  <2>1. starts' = starts /\ \A u \in Machines : u # m => cmd'[u] = cmd[u]
    BY <1>0, <1>5 DEF TakeLock, ByHand
  <2>2. cmd'[m].n = cmd[m].n /\ cmd'[m].pc \in {"apply", "destroy"} /\ cmd[m].pc = "init"
        /\ cmd'[m].tf \subseteq cloud
    BY <1>0, <1>5 DEF TakeLock, Commands
  <2> QED
    BY <1>m, <2>1, <2>2 DEF Moved
<1>6. ASSUME NEW m \in Machines, NEW o \in Objects, Destroy(m, o)
      PROVE  (\A u \in Machines : Moved(u)) /\ starts' \in {starts, starts + 1}
  <2>1. starts' = starts /\ \A u \in Machines : u # m => cmd'[u] = cmd[u]
    BY <1>0, <1>6 DEF Destroy
  <2>2. cmd'[m].n = cmd[m].n /\ cmd'[m].pc = "destroy"
    BY <1>0, <1>6 DEF Destroy, Commands
  <2> QED
    BY <1>m, <2>1, <2>2 DEF Moved
<1> QED
  BY <1>1, <1>2, <1>3, <1>4, <1>5, <1>6, StepsApart DEF CommandStep, TypeOK

\* A step that makes nothing keeps what the run's readings rest on.
LEMMA FadingSpares ==
    ASSUME TypeOK, OnlyHomeStarts, SpareInv, [Next]_vars,
           ~\E m \in Machines, kind \in Kinds : Create(m, kind)
    PROVE  UsesAreNeeded' /\ Numbered' /\ OwnKnown' /\ AgedIsOver' /\ Paired'
<1> USE DEF SpareInv
<1>0. /\ Fading /\ (\A m \in Machines : Moved(m)) /\ starts' \in {starts, starts + 1}
      /\ starts \in Nat /\ late \subseteq cloud
      /\ (\A m \in Machines : cmd[m].n \in Nat) /\ \A o \in cloud \union reaper.old : o[2] \in Nat
  <2>1. \A o \in Objects : o[2] \in Nat
    BY DEF Objects
  <2>2. Fading
    BY StepsFade, Zenon
  <2>5. (\A m \in Machines : Moved(m)) /\ starts' \in {starts, starts + 1}
    BY CommandsMove, Zenon
  <2>3. /\ starts \in Nat /\ late \subseteq cloud /\ cmd \in [Machines -> Commands]
        /\ cloud \subseteq Objects /\ reaper.old \subseteq Objects
    <3>1. cmd \in [Machines -> Commands]
      BY DEF TypeOK, Commands
    <3>3. starts \in Nat
      BY ReaperAssumption DEF TypeOK
    <3>2. late \subseteq cloud /\ cloud \subseteq Objects /\ reaper.old \subseteq Objects
      BY DEF TypeOK, ReaperTypeOK
    <3> QED
      BY <3>1, <3>2, <3>3
  <2>4. \A m \in Machines : cmd[m].n \in Nat
    BY <2>3, ReaperAssumption DEF Commands
  <2> QED
    BY <2>1, <2>2, <2>3, <2>4, <2>5
<1>1. UsesAreNeeded'
  BY <1>0 DEF UsesAreNeeded, Fading
<1>2. Numbered'
  <2>1. ASSUME NEW m \in Machines PROVE cmd'[m].n <= starts'
    BY <1>0, <2>1 DEF Numbered, Moved
  <2>2. ASSUME NEW o \in cloud' \union reaper'.old PROVE o[2] <= starts'
    BY <1>0, <2>2 DEF Numbered, Fading
  <2>3. ASSUME NEW m \in Machines, cmd'[m].n # 0, cmd'[m].pc \in {"save", "init"},
               NEW o \in cloud', o[2] = cmd'[m].n
        PROVE  FALSE
    BY <1>0, <2>3 DEF Numbered, Moved, Fading
  <2> QED
    BY <2>1, <2>2, <2>3 DEF Numbered
<1>3. OwnKnown'
  <2>1. ASSUME NEW m \in Machines, cmd'[m].pc = "apply"
        PROVE  /\ \A o \in cloud' : o[2] = cmd'[m].n => o \in cmd'[m].tf
               /\ <<"host", cmd'[m].n>> \in cmd'[m].tf => \E o \in cmd'[m].tf : o[1] = "profile"
    <3>1. cmd'[m].n = cmd[m].n /\ cmd'[m].n # 0
      <4>1. OnlyHomeStarts'
        BY TypesStep
      <4> QED
        BY <1>0, <2>1, <4>1 DEF Moved, OnlyHomeStarts, At
    <3>2. CASE cmd[m].pc = "apply" /\ cmd'[m].tf = cmd[m].tf
      BY <1>0, <3>1, <3>2 DEF OwnKnown, At, Fading
    <3>3. CASE cmd[m].pc = "init" /\ cmd'[m].tf \subseteq cloud
      <4>1. \A o \in cloud : o[2] # cmd[m].n
        BY <3>1, <3>3 DEF Numbered
      <4> QED
        BY <1>0, <3>1, <3>3, <4>1 DEF Fading
    <3> QED
      BY <1>0, <2>1, <3>2, <3>3 DEF Moved
  <2> QED
    BY <2>1 DEF OwnKnown, At
<1>4. AgedIsOver'
  <2>1. ASSUME NEW o \in late' \union reaper'.old, o[1] # "host", NEW m \in Machines,
               cmd'[m].n = o[2]
        PROVE  FALSE
    <3>1. CASE o \in late \union reaper.old
      <4>1. \A u \in Machines : cmd[u].n # o[2]
        BY <2>1, <3>1 DEF AgedIsOver
      <4>2. o[2] <= starts /\ o[2] \in Nat /\ o[2] # 0
        <5>1. o \in Objects
          BY <3>1 DEF TypeOK, ReaperTypeOK
        <5> QED
          BY <1>0, <3>1, <5>1 DEF Numbered, Objects
      <4> QED
        BY <1>0, <2>1, <4>1, <4>2 DEF Moved
    <3>2. CASE o \notin late \union reaper.old
      <4>1. TimePasses(o)
        BY <1>0, <2>1, <3>2 DEF Fading
      <4> QED
        BY <2>1, <4>1 DEF TimePasses, Others
    <3> QED
      BY <3>1, <3>2
  <2> QED
    BY <2>1 DEF AgedIsOver
<1>5. Paired'
  BY <1>0 DEF Paired, Fading, HostOf, ProfileOf
<1> QED
  BY <1>1, <1>2, <1>3, <1>4, <1>5

\* The run reads who is in use, and from then on only what it read can still change.
LEMMA SweepStep ==
    ASSUME TypeOK, SpareInv, [Next]_vars,
           ~\E m \in Machines, kind \in Kinds : Create(m, kind)
    PROVE  SweepSees'
<1> USE DEF SpareInv
<1>0. cloud' \subseteq cloud
  BY StepsFade DEF Fading
<1>t. reaper \in [pc : {"idle", "terminate", "in use", "profiles", "delete profile",
                        "roles", "delete role"},
                  old : SUBSET Objects, inUse : SUBSET Objects,
                  at : Objects \union {NoObject}]
  BY DEF TypeOK, ReaperTypeOK
<1>u. Asleep.pc = "idle"
  BY DEF Asleep
<1>s. ASSUME reaper' = reaper PROVE SweepSees'
  BY <1>0, <1>s DEF SweepSees, HostOf
<1>q. ASSUME reaper'.pc \notin {"profiles", "delete profile", "delete role"} PROVE SweepSees'
  BY <1>q DEF SweepSees
<1>1. ASSUME ReaperGoesOn PROVE SweepSees'
  <2>1. CASE Scan \/ Terminate \/ ProfilesDone \/ RolesDone \/ DeleteRole
    BY <1>q, <1>t, <1>u, <2>1 DEF Scan, Terminate, ProfilesDone, RolesDone, DeleteRole, Delete, Goto
  <2>2. CASE ReadInUse
    <3>1. /\ reaper'.pc = "profiles" /\ reaper'.old = reaper.old /\ UNCHANGED account
          /\ reaper'.inUse = {p \in Of("profile") : UsersOf(p) # {}}
      BY <1>t, <2>2 DEF ReadInUse
    <3>2. ASSUME NEW p \in reaper.old \intersect cloud, p[1] = "profile", HostOf(p[2]) \in cloud
          PROVE  p \in reaper'.inUse
      <4>1. p \in Objects
        BY <1>t
      <4>2. p = ProfileOf(p[2]) /\ p[2] \in 1..MaxStarts
        BY <3>2, <4>1 DEF ProfileOf, Objects
      <4>3. <<HostOf(p[2]), p>> \in uses
        BY <3>2, <4>2 DEF Paired
      <4>4. p \in Of("profile") /\ UsersOf(p) # {}
        BY <3>2, <4>3 DEF Of, UsersOf
      <4> QED
        BY <3>1, <4>4
    <3> QED
      BY <3>1, <3>2 DEF SweepSees, account, HostOf
  <2>3. ASSUME NEW p \in Of("profile"), EmptyProfile(p) PROVE SweepSees'
    <3>1. /\ reaper.pc = "profiles" /\ reaper'.pc = "delete profile" /\ reaper'.at = p
          /\ reaper'.old = reaper.old /\ reaper'.inUse = reaper.inUse
          /\ p \in reaper.old /\ p \notin reaper.inUse /\ p[1] = "profile"
      BY <1>t, <2>3 DEF EmptyProfile, Orphaned, Of
    <3> QED
      BY <1>0, <3>1 DEF SweepSees, HostOf
  <2>4. CASE DeleteProfile
    <3>1. CASE reaper' = [reaper EXCEPT !.pc = "profiles", !.at = NoObject]
      <4>1. /\ reaper.pc = "delete profile" /\ reaper'.pc = "profiles"
            /\ reaper'.old = reaper.old /\ reaper'.inUse = reaper.inUse
        BY <1>t, <2>4, <3>1 DEF DeleteProfile
      <4> QED
        BY <1>0, <4>1 DEF SweepSees, HostOf
    <3>2. CASE reaper' = Asleep
      BY <1>q, <1>u, <3>2
    <3> QED
      BY <2>4, <3>1, <3>2 DEF DeleteProfile, Delete
  <2>5. ASSUME NEW r \in Of("role"), CondemnRole(r) PROVE SweepSees'
    <3>1. reaper'.pc = "delete role" /\ reaper'.at = r /\ r[1] = "role"
      BY <1>t, <2>5 DEF CondemnRole, Of
    <3> QED
      BY <3>1 DEF SweepSees
  <2> QED
    BY <1>1, <2>1, <2>2, <2>3, <2>4, <2>5 DEF ReaperGoesOn
<1>2. ASSUME RunFails PROVE SweepSees'
  BY <1>q, <1>u, <1>2 DEF RunFails
<1>3. ASSUME NEW h \in Objects, HostStops(h) \/ TimePasses(h) PROVE SweepSees'
  BY <1>s, <1>3 DEF HostStops, TimePasses, Ages
<1>4. ASSUME ForceUnlock \/ StartBegins \/ UNCHANGED vars PROVE SweepSees'
  BY <1>s, <1>4 DEF ForceUnlock, StartBegins, ByHand, vars
<1>5. ASSUME NEW m \in Machines,
             \/ TakeLock(m) \/ Locked(m) \/ TerraformDone(m)
             \/ SaveOpen(m) \/ SaveOutputs(m) \/ SaveEnded(m) \/ (\E o \in Objects : Destroy(m, o))
             \/ EndBegins(m) \/ Stops(m) \/ Killed(m) \/ CommandFails(m)
      PROVE  SweepSees'
  BY <1>s, <1>5 DEF TakeLock, Locked, TerraformDone, SaveOpen, SaveOutputs, SaveEnded, Destroy,
     EndBegins, Stops, Killed, CommandFails, ByHand
<1> QED
  BY <1>1, <1>2, <1>3, <1>4, <1>5 DEF Next, CommandStep, ReaperStep

\* What an apply makes is of its own start, which nothing that is old is of; and a host and a
\* profile of one start are linked as they come up.
LEMMA CreateSpares ==
    ASSUME TypeOK, OnlyHomeStarts, SpareInv, NEW m \in Machines, NEW kind \in Kinds, Create(m, kind)
    PROVE  SpareInv'
<1> USE DEF SpareInv
<1> DEFINE n == cmd[m].n
           made == <<kind, n>>
<1>0. /\ cmd \in [Machines -> Commands] /\ (\A u \in Machines : u # m => cmd[u].n = 0)
      /\ cmd[m].pc = "apply" /\ n \in 1..MaxStarts /\ n <= starts
      /\ \A u \in Machines : At(u, "apply") => u = m
  <2>1. cmd \in [Machines -> Commands]
    BY DEF TypeOK, Commands
  <2>2. cmd[m].pc = "apply" /\ n # 0
    BY DEF Create, OnlyHomeStarts, At
  <2>3. \A u \in Machines : cmd[u].n # 0 => u = m
    BY <2>2 DEF OnlyHomeStarts
  <2>4. n \in 0..MaxStarts
    BY <2>1 DEF Commands
  <2> QED
    BY <2>1, <2>2, <2>3, <2>4 DEF Numbered, OnlyHomeStarts
<1>1. /\ cloud' = cloud \union {made}
      /\ uses' = uses \union Links((cmd[m].tf \intersect cloud) \union {made})
      /\ UNCHANGED <<late, reaper, starts>>
      /\ \A o \in cmd[m].tf : o[1] # kind
  BY DEF Create
<1>2. /\ cmd'[m].tf = cmd[m].tf \union {made} /\ cmd'[m].pc = "apply" /\ cmd'[m].n = n
      /\ \A u \in Machines : u # m => cmd'[u] = cmd[u]
  BY <1>0 DEF Create, Commands
<1>3. \A o \in cloud : o[2] = n => o \in cmd[m].tf
  BY <1>0 DEF OwnKnown, At
<1>4. kind = "host" => \E o \in cmd[m].tf \intersect cloud : o[1] = "profile"
  <2>1. {o[1] : o \in {o \in cmd[m].tf : o[1] \in Needs[kind]}} = Needs[kind]
        /\ {o \in cmd[m].tf : o[1] \in Needs[kind]} \subseteq cloud
    BY DEF Create
  <2>2. Needs["host"] = {"profile", "address"}
    BY DEF Needs
  <2> QED
    BY <2>1, <2>2
<1>5. made[1] = kind /\ made[2] = n
  OBVIOUS
<1> HIDE DEF made
<1>6. UsesAreNeeded'
  BY <1>1 DEF UsesAreNeeded, Links
<1>7. Numbered'
  <2>1. \A u \in Machines : cmd'[u].n = cmd[u].n /\ (cmd'[u].pc = cmd[u].pc)
    BY <1>0, <1>2
  <2> QED
    BY <1>0, <1>1, <1>5, <2>1 DEF Numbered
<1>8. OwnKnown'
  <2>1. \A u \in Machines : cmd'[u].pc = "apply" => u = m
    BY <1>0, <1>2 DEF At
  <2>2. \A o \in cloud' : o[2] = n => o \in cmd'[m].tf
    BY <1>1, <1>2, <1>3
  <2>3. <<"host", n>> \in cmd'[m].tf => \E o \in cmd'[m].tf : o[1] = "profile"
    <3>1. CASE <<"host", n>> \in cmd[m].tf
      BY <1>0, <1>2, <3>1 DEF OwnKnown, At
    <3>2. CASE <<"host", n>> = made
      <4>1. kind = "host"
        BY <1>5, <3>2
      <4> QED
        BY <1>2, <1>4, <4>1
    <3> QED
      BY <1>2, <3>1, <3>2
  <2> QED
    BY <1>2, <2>1, <2>2, <2>3 DEF OwnKnown, At
<1>9. AgedIsOver'
  BY <1>0, <1>1, <1>2 DEF AgedIsOver
<1>10. Paired'
  <2>1. ASSUME NEW k \in 1..MaxStarts, HostOf(k) \in cloud', ProfileOf(k) \in cloud',
               <<HostOf(k), ProfileOf(k)>> \notin uses'
        PROVE  FALSE
    <3>1. HostOf(k) = made \/ ProfileOf(k) = made
      BY <1>1, <2>1 DEF Paired
    <3>2. k = n
      BY <1>5, <3>1 DEF HostOf, ProfileOf
    <3>3. CASE HostOf(k) = made
      <4>1. ProfileOf(k) \in cloud /\ ProfileOf(k) \in cmd[m].tf
        BY <1>1, <1>3, <1>5, <2>1, <3>2, <3>3 DEF HostOf, ProfileOf
      <4>2. <<HostOf(k), ProfileOf(k)>> \in Links((cmd[m].tf \intersect cloud) \union {made})
        BY <3>3, <4>1 DEF Links, Needs, HostOf, ProfileOf
      <4> QED
        BY <1>1, <2>1, <4>2
    <3>4. CASE ProfileOf(k) = made
      <4>1. HostOf(k) \in cmd[m].tf /\ kind = "profile"
        BY <1>1, <1>3, <1>5, <2>1, <3>2, <3>4 DEF HostOf, ProfileOf
      <4>2. \E o \in cmd[m].tf : o[1] = "profile"
        BY <1>0, <3>2, <4>1 DEF OwnKnown, HostOf, At
      <4> QED
        BY <1>1, <4>1, <4>2
    <3> QED
      BY <3>1, <3>3, <3>4
  <2> QED
    BY <2>1 DEF Paired, HostOf, ProfileOf
<1>11. SweepSees'
  <2>1. ASSUME NEW p \in reaper.old \intersect cloud', p[1] = "profile", HostOf(p[2]) \in cloud'
        PROVE  p \in cloud /\ HostOf(p[2]) \in cloud
    <3>1. p[2] # n
      BY <2>1 DEF AgedIsOver
    <3> QED
      BY <1>1, <1>5, <2>1, <3>1 DEF HostOf
  <2> QED
    BY <1>1, <2>1 DEF SweepSees, HostOf
<1> QED
  BY <1>6, <1>7, <1>8, <1>9, <1>10, <1>11

\* A step of the reaper with these takes nothing from a host that stays.
LEMMA SweepSpares ==
    ASSUME TypeOK, SpareInv, ReaperGoesOn \/ RunFails,
           NEW h \in Of("host") \intersect cloud', NEW e \in uses,
           e[1] = h \/ <<h, e[1]>> \in uses, e[1][2] = h[2], e[2][2] = h[2]
    PROVE  e \in uses'
<1> USE DEF SpareInv
<1>0. /\ h \in cloud /\ h[1] = "host" /\ h \in Objects /\ e[1] \in cloud /\ e[2] \in cloud
      /\ e[1] \in Objects /\ e[2] \in Objects /\ uses \subseteq cloud \X cloud
  BY DEF Of, TypeOK, ReaperTypeOK
<1>1. /\ e[2][1] # "host"
      /\ e[1] = h \/ e[1][1] \in {"profile", "address"}
      /\ e[1] # h => e[2][1] = "role" /\ e[1][1] = "profile"
  <2>1. e[2][1] \in Needs[e[1][1]]
    BY DEF UsesAreNeeded
  <2>2. <<h, e[1]>> \in uses => e[1][1] \in Needs["host"]
    BY <1>0 DEF UsesAreNeeded
  <2>3. e[1][1] \in Kinds
    BY <1>0 DEF Objects
  <2> QED
    BY <1>0, <2>1, <2>2, <2>3 DEF Needs, Kinds
<1>g. ASSUME NEW S, Gone(S), e[1] \notin S, e[2] \notin S PROVE e \in uses'
  BY <1>g DEF Gone
<1>s. ASSUME UNCHANGED account PROVE e \in uses'
  BY <1>s DEF account
\* A profile that the run takes for an orphan has no host of its own start.
<1>p. ASSUME NEW p \in reaper.old \intersect cloud, p[1] = "profile", p \notin reaper.inUse,
             reaper.pc \in {"profiles", "delete profile"}
      PROVE  p[2] # h[2]
  <2>1. h = HostOf(h[2])
    BY <1>0 DEF HostOf, Objects
  <2> QED
    BY <1>0, <1>p, <2>1 DEF SweepSees
<1>2. CASE Scan \/ ReadInUse \/ ProfilesDone \/ RolesDone \/ RunFails
           \/ \E r \in Of("role") : CondemnRole(r)
  BY <1>s, <1>2 DEF Scan, ReadInUse, ProfilesDone, RolesDone, RunFails, CondemnRole
<1>3. CASE Terminate
  <2>1. e[1] \notin Of("host") \intersect reaper.old /\ e[2] \notin Of("host") \intersect reaper.old
    <3>1. h \notin Of("host") \intersect reaper.old
      BY <1>3 DEF Terminate, Gone
    <3> QED
      BY <1>1, <3>1 DEF Of
  <2> QED
    BY <1>3, <1>g, <2>1 DEF Terminate
<1>4. ASSUME NEW p \in Of("profile"), EmptyProfile(p) PROVE e \in uses'
  <2>1. p \in reaper.old \intersect cloud /\ p[1] = "profile" /\ p \notin reaper.inUse
        /\ reaper.pc = "profiles"
    BY <1>4 DEF EmptyProfile, Orphaned, Of
  <2>2. p[2] # h[2]
    BY <1>p, <2>1
  <2> QED
    BY <1>4, <2>2 DEF EmptyProfile
<1>5. CASE DeleteProfile
  <2>1. reaper.at[1] = "profile" /\ reaper.at \in reaper.old /\ reaper.at \notin reaper.inUse
        /\ reaper.pc = "delete profile"
    BY <1>5 DEF DeleteProfile, SweepSees
  <2>2. e[1] # reaper.at /\ e[2] # reaper.at
    BY <1>0, <1>p, <2>1
  <2> QED
    BY <1>5, <1>g, <1>s, <2>2 DEF DeleteProfile, Delete
<1>6. CASE DeleteRole
  <2>1. reaper.at[1] = "role"
    BY <1>6 DEF DeleteRole, SweepSees
  <2>2. e[1] # reaper.at
    BY <1>0, <1>1, <2>1
  <2>3. UsersOf(reaper.at) = {} => e[2] # reaper.at
    <3>1. e = <<e[1], e[2]>>
      BY <1>0
    <3> QED
      BY <1>0, <3>1 DEF UsersOf
  <2> QED
    BY <1>6, <1>g, <1>s, <2>2, <2>3 DEF DeleteRole, Delete
<1> QED
  BY <1>2, <1>3, <1>4, <1>5, <1>6 DEF ReaperGoesOn

\* For any machines, starts and failures, and however the run's calls interleave with an
\* apply, an end or the guest's timer: the reaper (infra/aws/account/reaper/handler.py) takes
\* from a host that stays neither the profile its own start made nor that profile's role.
THEOREM HostsAreSpared == Spec => SweepSparesHosts
<1> DEFINE Spares ==
       reaper' # reaper =>
        \A h \in Of("host") \intersect cloud' :
            \A e \in uses : /\ e[1] = h \/ <<h, e[1]>> \in uses
                            /\ e[1][2] = h[2] /\ e[2][2] = h[2]
                            => e \in uses'
<1>1. Init => SpareInv
  BY ReaperAssumption DEF Init, ReaperInit, Idle, Asleep, SpareInv, UsesAreNeeded, Numbered,
     OwnKnown, AgedIsOver, Paired, SweepSees, At, HostOf, ProfileOf
<1>2. NamedInv /\ SpareInv /\ [Next]_vars => SpareInv'
  <2> SUFFICES ASSUME NamedInv, SpareInv, [Next]_vars PROVE SpareInv'
    OBVIOUS
  <2>1. TypeOK /\ OnlyHomeStarts
    BY DEF NamedInv
  <2>2. CASE \E m \in Machines, kind \in Kinds : Create(m, kind)
    BY <2>1, <2>2, CreateSpares
  <2>3. CASE ~\E m \in Machines, kind \in Kinds : Create(m, kind)
    BY <2>1, <2>3, FadingSpares, SweepStep DEF SpareInv
  <2> QED
    BY <2>2, <2>3
<1>3. ASSUME NamedInv, SpareInv, [Next]_vars, reaper' # reaper PROVE ReaperGoesOn \/ RunFails
  BY <1>3 DEF Next, vars, CommandStep, ReaperStep, HostStops, TimePasses, Ages, ForceUnlock,
     StartBegins, TakeLock, Locked, Create, Destroy, TerraformDone, SaveOpen, SaveOutputs,
     SaveEnded, EndBegins, Stops, Killed, CommandFails, ByHand
<1>4. ASSUME NamedInv, SpareInv, [Next]_vars PROVE Spares
  BY <1>3, <1>4, SweepSpares DEF NamedInv
<1>5. NamedInv /\ SpareInv /\ [Next]_vars => [Spares]_vars
  BY <1>4
<1>6. SweepSparesHosts <=> [][Spares]_vars
  BY DEF SweepSparesHosts
<1> HIDE DEF Spares
<1> QED
  BY NamedInvHolds, <1>1, <1>2, <1>5, <1>6, PTL DEF Spec

----------------------------------------------------------------------------
\* The listing, which needs no more than the types.

Ordered(i, j, key) == key[i] < key[j] \/ (key[i] = key[j] /\ i <= j)

LEMMA PlacesApart ==
    ASSUME NEW n \in Nat, NEW which \in SUBSET (1..n), NEW key,
           \A i \in which : key[i] \in Nat
    PROVE  /\ IsFiniteSet(which) /\ Cardinality(which) \in Nat
           /\ \A i \in which : Place(which, key, i) \in 1..Cardinality(which)
           /\ \A i, j \in which :
                Place(which, key, i) <= Place(which, key, j) => key[i] <= key[j]
           /\ \A i, j \in which : Place(which, key, i) = Place(which, key, j) => i = j
<1> DEFINE Upto(i) == {j \in which : key[j] < key[i] \/ (key[j] = key[i] /\ j <= i)}
<1>1. IsFiniteSet(which) /\ Cardinality(which) \in Nat
  <2>1. IsFiniteSet(1..n)
    BY FS_Interval
  <2>2. IsFiniteSet(which)
    BY <2>1, FS_Subset
  <2> QED
    BY <2>2, FS_CardinalityType
<1>2. ASSUME NEW i \in which
      PROVE  /\ Upto(i) \subseteq which /\ i \in Upto(i) /\ IsFiniteSet(Upto(i))
             /\ Cardinality(Upto(i)) \in 1..Cardinality(which)
  <2>1. Upto(i) \subseteq which /\ i \in Upto(i)
    OBVIOUS
  <2>2. /\ IsFiniteSet(Upto(i)) /\ Cardinality(Upto(i)) <= Cardinality(which)
        /\ Cardinality(Upto(i)) \in Nat
    BY <1>1, <2>1, FS_Subset, FS_CardinalityType
  <2>3. Cardinality(Upto(i)) # 0
    BY <2>1, <2>2, FS_EmptySet
  <2> QED
    BY <1>1, <2>1, <2>2, <2>3
<1>3. ASSUME NEW i \in which, NEW j \in which, key[i] < key[j] \/ (key[i] = key[j] /\ i < j)
      PROVE  Cardinality(Upto(i)) < Cardinality(Upto(j))
  <2>1. Upto(i) \subseteq Upto(j) /\ j \notin Upto(i)
    <3>1. i \in Nat /\ j \in Nat /\ key[i] \in Nat /\ key[j] \in Nat
      OBVIOUS
    <3>2. ASSUME NEW a \in Upto(i)
          PROVE  a \in Upto(j)
      <4>1. a \in which /\ a \in Nat /\ key[a] \in Nat
        OBVIOUS
      <4> QED
        BY <1>3, <3>1, <4>1
    <3>3. j \notin Upto(i)
      BY <1>3, <3>1
    <3> HIDE DEF Upto
    <3> QED
      BY <3>2, <3>3
  <2>2. /\ j \in Upto(j) /\ IsFiniteSet(Upto(j))
        /\ Cardinality(Upto(i)) \in 1..Cardinality(which)
        /\ Cardinality(Upto(j)) \in 1..Cardinality(which)
    BY <1>2
  <2> HIDE DEF Upto
  <2>3. /\ Cardinality(Upto(i)) <= Cardinality(Upto(j))
        /\ Cardinality(Upto(j)) = Cardinality(Upto(i)) => Upto(j) = Upto(i)
    BY <2>1, <2>2, FS_Subset
  <2> QED
    BY <1>1, <2>1, <2>2, <2>3
<1>4. \A i \in which : Place(which, key, i) = Cardinality(Upto(i))
  BY DEF Place
<1> HIDE DEF Upto
<1>5. \A i, j \in which : Cardinality(Upto(i)) <= Cardinality(Upto(j)) => key[i] <= key[j]
  BY <1>1, <1>2, <1>3
<1>6. \A i, j \in which : Cardinality(Upto(i)) = Cardinality(Upto(j)) => i = j
  BY <1>1, <1>2, <1>3
<1> QED
  BY <1>1, <1>2, <1>4, <1>5, <1>6

\* The places in their order.
Order(which, key) ==
    [k \in 1..Cardinality(which) |-> CHOOSE i \in which : Place(which, key, i) = k]

\* The arranged list is the list through a bijection, under which the keys never fall.
LEMMA ArrangedThrough ==
    ASSUME NEW n \in Nat, NEW which \in SUBSET (1..n), NEW key, NEW list,
           \A i \in which : key[i] \in Nat
    PROVE  /\ IsFiniteSet(which) /\ Cardinality(which) \in Nat
           /\ Order(which, key) \in Bijection(1..Cardinality(which), which)
           /\ DOMAIN Arranged(list, which, key) = 1..Cardinality(which)
           /\ \A k \in 1..Cardinality(which) :
                Arranged(list, which, key)[k] = list[Order(which, key)[k]]
           /\ \A j, k \in 1..Cardinality(which) :
                j <= k => key[Order(which, key)[j]] <= key[Order(which, key)[k]]
<1> DEFINE c == Cardinality(which)
           f == [i \in which |-> Place(which, key, i)]
           h == Order(which, key)
<1>1. /\ IsFiniteSet(which) /\ c \in Nat
      /\ \A i \in which : Place(which, key, i) \in 1..c
      /\ \A i, j \in which : Place(which, key, i) <= Place(which, key, j) => key[i] <= key[j]
      /\ \A i, j \in which : Place(which, key, i) = Place(which, key, j) => i = j
  BY PlacesApart
<1>2. f \in Injection(which, 1..c)
  BY <1>1 DEF Injection, IsInjective
<1>3. IsFiniteSet(1..c) /\ Cardinality(1..c) = c
  BY <1>1, FS_Interval
<1>4. f \in Surjection(which, 1..c)
  BY <1>1, <1>2, <1>3, FS_Injection
<1>5. \A k \in 1..c : h[k] \in which /\ Place(which, key, h[k]) = k
  BY <1>4 DEF Surjection, Order
<1>6. h \in Bijection(1..c, which)
  <2>1. h \in [1..c -> which]
    BY <1>5 DEF Order
  <2>2. \A a, b \in 1..c : h[a] = h[b] => a = b
    BY <1>5
  <2>3. \A i \in which : \E k \in 1..c : h[k] = i
    BY <1>1, <1>5
  <2> HIDE DEF h
  <2> QED
    BY <2>1, <2>2, <2>3 DEF Bijection, Injection, Surjection, IsInjective
<1>7. DOMAIN Arranged(list, which, key) = 1..c
  BY DEF Arranged
<1>8. \A k \in 1..c : Arranged(list, which, key)[k] = list[h[k]]
  BY DEF Arranged, Order
<1>9. \A j, k \in 1..c : j <= k => key[h[j]] <= key[h[k]]
  <2>1. \A k \in 1..c : k \in Nat
    BY <1>1
  <2> HIDE DEF h, c
  <2> QED
    BY <1>1, <1>5, <2>1
<1> QED
  BY <1>1, <1>6, <1>7, <1>8, <1>9

AsTheyWere(which) == Order(which, [i \in which |-> 0])

LEMMA ChosenThrough ==
    ASSUME NEW n \in Nat, NEW which \in SUBSET (1..n), NEW list
    PROVE  /\ Cardinality(which) \in Nat
           /\ AsTheyWere(which) \in Bijection(1..Cardinality(which), which)
           /\ DOMAIN Chosen(list, which) = 1..Cardinality(which)
           /\ \A k \in 1..Cardinality(which) : Chosen(list, which)[k] = list[AsTheyWere(which)[k]]
<1> DEFINE key == [i \in which |-> 0]
<1>1. \A i \in which : key[i] \in Nat
  OBVIOUS
<1> HIDE DEF key
<1>2. /\ Cardinality(which) \in Nat
      /\ Order(which, key) \in Bijection(1..Cardinality(which), which)
      /\ DOMAIN Arranged(list, which, key) = 1..Cardinality(which)
  BY <1>1, ArrangedThrough
<1>3. \A k \in 1..Cardinality(which) :
         Arranged(list, which, key)[k] = list[Order(which, key)[k]]
  BY DEF Arranged, Order
<1> QED
  BY <1>2, <1>3 DEF Chosen, AsTheyWere, key

\* One list after another.
LEMMA OneAfterAnother ==
    ASSUME NEW m \in Nat, NEW n \in Nat, NEW S, NEW T, NEW a \in [1..m -> S], NEW b \in [1..n -> T]
    PROVE  /\ DOMAIN (a \o b) = 1..m + n
           /\ \A i \in 1..m : (a \o b)[i] = a[i]
           /\ \A i \in 1..n : (a \o b)[m + i] = b[i]
           /\ \A i \in m + 1..m + n : (a \o b)[i] = b[i - m]
<1>1. a \in Seq(S \union T) /\ b \in Seq(S \union T) /\ Len(a) = m /\ Len(b) = n
  <2>1. a \in [1..m -> S \union T] /\ b \in [1..n -> S \union T]
    OBVIOUS
  <2>2. a \in Seq(S \union T) /\ b \in Seq(S \union T)
    BY <2>1, SeqDef
  <2> QED
    BY <2>1, <2>2
<1>2. /\ a \o b \in Seq(S \union T) /\ Len(a \o b) = m + n
      /\ \A i \in 1..m + n : (a \o b)[i] = IF i <= m THEN a[i] ELSE b[i - m]
  BY <1>1, ConcatProperties
<1> DEFINE ab == a \o b
<1>3. DOMAIN ab = 1..m + n
  BY <1>2
<1>4. \A i \in 1..m : ab[i] = a[i]
  BY <1>2
<1>5. \A i \in m + 1..m + n : ab[i] = b[i - m]
  BY <1>2
<1>6. \A i \in 1..n : ab[m + i] = b[i]
  <2>1. \A i \in 1..n : m + i \in m + 1..m + n /\ (m + i) - m = i
    OBVIOUS
  <2> HIDE DEF ab
  <2> QED
    BY <1>5, <2>1
<1> QED
  BY <1>3, <1>4, <1>5, <1>6

LEMMA HostsAreFinite == TypeOK => IsFiniteSet(Of("host"))
<1> SUFFICES ASSUME TypeOK PROVE IsFiniteSet(Of("host"))
  OBVIOUS
<1> DEFINE f == [o \in Of("host") |-> o[2]]
<1>1. \A o \in Of("host") : o = <<"host", o[2]>> /\ o[2] \in 1..MaxStarts
  <2>1. \A o \in Of("host") : o \in Kinds \X (1..MaxStarts) /\ o[1] = "host"
    BY DEF TypeOK, ReaperTypeOK, Of, Objects
  <2> QED
    BY <2>1
<1>2. f \in Injection(Of("host"), 1..MaxStarts)
  <2>1. f \in [Of("host") -> 1..MaxStarts]
    BY <1>1
  <2>2. \A a, b \in Of("host") : f[a] = f[b] => a = b
    BY <1>1
  <2> HIDE DEF f
  <2> QED
    BY <2>1, <2>2 DEF Injection, IsInjective
<1>3. IsFiniteSet(1..MaxStarts)
  BY FS_Interval, ReaperAssumption
<1> QED
  BY <1>2, <1>3, FS_Injection

HostCount == Cardinality(Of("host"))

Shown(instance) == IF instance.seed = "" THEN Untagged ELSE instance.seed

\* The instances as they are parsed: those of the interview first.
LEMMA HostsParsed ==
    ASSUME NEW state \in InstanceStates, NEW other \in Beside, IsFiniteSet(Of("host"))
    PROVE  LET hosts == ParseHosts(Instances(state) \o other.instances)
           IN  /\ HostCount \in Nat
               /\ \E n \in Nat : DOMAIN hosts = 1..n /\ HostCount <= n
               /\ \A i \in 1..HostCount : \E h \in Of("host") : hosts[i] = Instance(h, state)
               /\ \A i \in DOMAIN hosts : hosts[i].seed = Seed <=> i <= HostCount
               /\ \A i \in DOMAIN other.instances :
                    \E j \in DOMAIN hosts : hosts[j].seed = Shown(other.instances[i])
<1> DEFINE mine == SetToSeq(Of("host"))
           c == HostCount
           theirs == other.instances
           both == Instances(state) \o theirs
           hosts == ParseHosts(both)
<1>1. c \in Nat /\ mine \in [1..c -> Of("host")]
  <2>1. c \in Nat /\ ExistsBijection(1..c, Of("host"))
    BY FS_CardinalityType DEF HostCount
  <2>2. \E f \in [1..c -> Of("host")] : IsInjective(f)
    BY <2>1 DEF ExistsBijection, Bijection, Injection
  <2> QED
    BY <2>1, <2>2 DEF SetToSeq, HostCount
<1>2. /\ Instances(state) \in [1..c -> {Instance(h, state) : h \in Of("host")}]
      /\ \A i \in 1..c : Instances(state)[i] = Instance(mine[i], state)
  BY <1>1 DEF Instances
<1>3. PICK n \in Nat : theirs \in [1..n -> OtherInstances]
  BY BesideAssumption, SeqDef
<1>4. /\ DOMAIN both = 1..c + n
      /\ \A i \in 1..c : both[i] = Instance(mine[i], state)
      /\ \A i \in 1..n : both[c + i] = theirs[i]
      /\ \A i \in c + 1..c + n : both[i] = theirs[i - c]
  <2> DEFINE first == Instances(state)
             D == {Instance(h, state) : h \in Of("host")}
  <2>1. c \in Nat /\ n \in Nat /\ first \in [1..c -> D] /\ theirs \in [1..n -> OtherInstances]
    BY <1>1, <1>2, <1>3
  <2>2. \A i \in 1..c : first[i] = Instance(mine[i], state)
    BY <1>2
  <2> HIDE DEF c, mine, theirs, first, D
  <2>3. /\ DOMAIN (first \o theirs) = 1..c + n
        /\ \A i \in 1..c : (first \o theirs)[i] = first[i]
        /\ \A i \in 1..n : (first \o theirs)[c + i] = theirs[i]
        /\ \A i \in c + 1..c + n : (first \o theirs)[i] = theirs[i - c]
    BY <2>1, OneAfterAnother
  <2> QED
    BY <2>2, <2>3 DEF first
<1>5. \A h \in Of("host") : Instance(h, state).seed = Seed
  BY DEF Instance
<1>6. \A i \in 1..n : theirs[i].seed # Seed
  BY <1>3, BesideAssumption
<1>7. Seed # "" /\ Untagged # Seed
  BY DEF Seed, Untagged
<1> HIDE DEF c, mine, theirs, both
<1>8. DOMAIN hosts = 1..c + n
  BY <1>4 DEF ParseHosts
<1>9. \A i \in 1..c : hosts[i] = Instance(mine[i], state) /\ mine[i] \in Of("host")
  <2> TAKE i \in 1..c
  <2>1. i \in 1..c + n /\ mine[i] \in Of("host")
    BY <1>1, <1>3
  <2>2. both[i].seed # ""
    BY <1>4, <1>5, <1>7, <2>1
  <2> QED
    BY <1>4, <2>1, <2>2 DEF ParseHosts
<1>10. \A i \in 1..n : hosts[c + i].seed = Shown(theirs[i])
  <2> TAKE i \in 1..n
  <2>1. c + i \in 1..c + n /\ both[c + i] = theirs[i]
    BY <1>1, <1>3, <1>4
  <2>2. theirs[i] = [seed |-> theirs[i].seed, state |-> theirs[i].state,
                     launched |-> theirs[i].launched, ttl |-> theirs[i].ttl]
    BY <1>3 DEF OtherInstances
  <2> DEFINE r == theirs[i]
  <2>3. hosts[c + i] = IF r.seed = "" THEN [r EXCEPT !.seed = Untagged] ELSE r
    BY <1>4, <2>1 DEF ParseHosts
  <2> QED
    BY <2>2, <2>3 DEF Shown
<1>11. \A i \in c + 1..c + n : hosts[i].seed # Seed
  <2> TAKE i \in c + 1..c + n
  <2>1. i - c \in 1..n /\ c + (i - c) = i
    BY <1>1, <1>3
  <2> HIDE DEF hosts
  <2> QED
    BY <1>6, <1>7, <1>10, <2>1 DEF Shown
<1> HIDE DEF hosts
<1>12. \A i \in DOMAIN hosts : hosts[i].seed = Seed <=> i <= c
  BY <1>1, <1>3, <1>5, <1>8, <1>9, <1>11
<1>13. \A i \in DOMAIN theirs : \E j \in DOMAIN hosts : hosts[j].seed = Shown(theirs[i])
  BY <1>1, <1>3, <1>8, <1>10
<1>14. \E l \in Nat : DOMAIN hosts = 1..l /\ c <= l
  BY <1>1, <1>3, <1>8
<1>15. \A i \in 1..c : \E h \in Of("host") : hosts[i] = Instance(h, state)
  BY <1>9
<1> QED
  BY <1>1, <1>12, <1>13, <1>14, <1>15 DEF c, hosts, theirs, both

----------------------------------------------------------------------------

LEMMA HostsAreRanked == \A h, now : HostStatus(h, now).rank \in 1..9
BY DEF HostStatus, UpSince, Is, Rank

LEMMA HostsInTrouble ==
    ASSUME NEW state \in InstanceStates, NEW h
    PROVE  /\ Instance(h, state).seed = Seed
           /\ HostStatus(Instance(h, state), Now).rank = Rank.stranded <=>
                state = "stopped" \/ (state = "running" /\ h \in late)
BY DEF HostStatus, Instance, UpSince, Is, Rank, InstanceStates, Now

OwnRecord(m) ==
    [seed |-> Seed, mode |-> "aws", ended |-> rec[m] = "ended",
     host |-> IF rec[m] = "up" THEN "address" ELSE "",
     created |-> 1, provisioned |-> IF rec[m] = "up" THEN Now ELSE 0, ttl |-> 1]

LEMMA OwnStatus ==
    ASSUME NEW m
    PROVE  /\ SessionStatus(OwnRecord(m), Now).rank \in 1..9
           /\ rec[m] # "up" => SessionStatus(OwnRecord(m), Now).rank # Rank.stranded
BY DEF SessionStatus, AwsStatus, OwnRecord, UpSince, Is, Rank, Now

LEMMA OthersAreRanked ==
    ASSUME NEW s \in OtherSessions
    PROVE  SessionStatus(s, Now).rank \in 1..9
<1>1. OfflineStatus(s, Now).rank \in 1..9
  BY DEF OfflineStatus, Is, Rank
<1>2. AwsStatus(s, Now).rank \in 1..9
  BY DEF AwsStatus, UpSince, Is, Rank
<1>3. s.mode \in {"offline", "local", "aws"}
  BY DEF OtherSessions
<1>4. s.mode = "local" => LocalStatus(s).rank \in 1..9
  <2> SUFFICES ASSUME s.mode = "local" PROVE LocalStatus(s).rank \in 1..9
    OBVIOUS
  <2>1. s.local \in {"no workdir", "no state", "torn down", "healthy", "broken"}
    BY DEF OtherSessions
  <2>2. LocalStatus(s).rank \in {Rank.closed, Rank.live}
    BY <2>1 DEF LocalStatus, Is
  <2> QED
    BY <2>2 DEF Rank
<1>5. Is("ended", Rank.closed).rank \in 1..9
  BY DEF Is, Rank
<1> QED
  BY <1>1, <1>2, <1>3, <1>4, <1>5 DEF SessionStatus

Recorded(m) == rec[m] # "none"

\* The sessions as they are read: the interview's own first.
LEMMA SessionsRead ==
    ASSUME NEW m \in Machines, NEW other \in Beside
    PROVE  LET sessions == Records(m) \o other.sessions
           IN  /\ \E n \in Nat : DOMAIN sessions = 1..n
               /\ \A i \in DOMAIN sessions : sessions[i].seed = Seed <=> Recorded(m) /\ i = 1
               /\ Recorded(m) => 1 \in DOMAIN sessions /\ sessions[1] = OwnRecord(m)
               /\ \A i \in DOMAIN sessions : SessionStatus(sessions[i], Now).rank \in 1..9
<1> DEFINE theirs == other.sessions
           sessions == Records(m) \o theirs
           c == IF Recorded(m) THEN 1 ELSE 0
           first == Records(m)
           r == OwnRecord(m)
<1>1. PICK n \in Nat : theirs \in [1..n -> OtherSessions]
  BY BesideAssumption, SeqDef
<1>2. first \in [1..c -> {r}] /\ c \in Nat
  <2>1. CASE Recorded(m)
    <3>1. first = <<r>> /\ c = 1
      BY <2>1 DEF Records, Recorded, OwnRecord
    <3> HIDE DEF first, r
    <3> QED
      BY <3>1
  <2>2. CASE ~Recorded(m)
    <3>1. first = <<>> /\ c = 0
      BY <2>2 DEF Records, Recorded
    <3> HIDE DEF first, r
    <3> QED
      BY <3>1
  <2> QED
    BY <2>1, <2>2
<1>3. \A i \in 1..n : theirs[i].seed # Seed
  BY <1>1, BesideAssumption
<1> HIDE DEF theirs, first
<1>4. /\ DOMAIN sessions = 1..c + n
      /\ \A i \in 1..c : sessions[i] = r
      /\ \A i \in c + 1..c + n : sessions[i] = theirs[i - c]
  <2> HIDE DEF c, r
  <2> DEFINE D == {r}
  <2>1. first \in [1..c -> D]
    BY <1>2
  <2> HIDE DEF D
  <2>2. /\ DOMAIN (first \o theirs) = 1..c + n
        /\ \A i \in 1..c : (first \o theirs)[i] = first[i]
        /\ \A i \in c + 1..c + n : (first \o theirs)[i] = theirs[i - c]
    BY <1>1, <1>2, <2>1, OneAfterAnother
  <2>3. \A i \in 1..c : first[i] = r
    BY <1>2
  <2> QED
    BY <2>2, <2>3 DEF first
<1>5. r.seed = Seed /\ SessionStatus(r, Now).rank \in 1..9
  <2>1. r.seed = Seed
    BY DEF OwnRecord
  <2> QED
    BY <2>1, OwnStatus
<1> HIDE DEF r, sessions
<1>6. \A i \in c + 1..c + n :
         sessions[i].seed # Seed /\ SessionStatus(sessions[i], Now).rank \in 1..9
  <2> TAKE i \in c + 1..c + n
  <2>1. i - c \in 1..n
    BY <1>1
  <2>2. theirs[i - c] \in OtherSessions /\ sessions[i] = theirs[i - c]
    BY <1>1, <1>4, <2>1
  <2> QED
    BY <1>3, <2>1, <2>2, OthersAreRanked
<1>7. c + n \in Nat
  BY <1>1
<1>8. \A i \in 1..c + n : (i \in 1..c /\ i = 1 /\ Recorded(m)) \/ (i \in c + 1..c + n /\ ~(Recorded(m) /\ i = 1))
  BY <1>1
<1>9. \A i \in 1..c + n : sessions[i].seed = Seed <=> Recorded(m) /\ i = 1
  BY <1>4, <1>5, <1>6, <1>8
<1>10. \A i \in 1..c + n : SessionStatus(sessions[i], Now).rank \in 1..9
  BY <1>4, <1>5, <1>6, <1>8
<1>11. Recorded(m) => 1 \in 1..c + n /\ sessions[1] = r
  BY <1>1, <1>4
<1> QED
  BY <1>4, <1>7, <1>9, <1>10, <1>11 DEF sessions, theirs, r

IsListed(m, all) == Recorded(m) /\ (all \/ rec[m] # "ended")

\* The rows of the records before the hosts are looked at.
LEMMA RowsRead ==
    ASSUME NEW m \in Machines, NEW other \in Beside, NEW all \in BOOLEAN
    PROVE  LET sessions == Records(m) \o other.sessions
               rows == LocalRows(sessions, all, Now)
               own == Row(Seed, SessionStatus(OwnRecord(m), Now), FALSE)
           IN  /\ \E n \in Nat : DOMAIN rows = 1..n
               /\ \A i \in DOMAIN rows : rows[i].rank \in 1..9
               /\ ~IsListed(m, all) => Seed \notin Seeds(rows)
               /\ IsListed(m, all) =>
                    \E i \in DOMAIN rows :
                        rows[i] = own /\ \A j \in DOMAIN rows : rows[j].seed = Seed => j = i
<1> DEFINE sessions == Records(m) \o other.sessions
           rows == LocalRows(sessions, all, Now)
           own == Row(Seed, SessionStatus(OwnRecord(m), Now), FALSE)
           which == {i \in DOMAIN sessions : all \/ ~sessions[i].ended}
           c == Cardinality(which)
           h == AsTheyWere(which)
<1> HIDE DEF sessions
<1>1. PICK n \in Nat : DOMAIN sessions = 1..n
  BY SessionsRead DEF sessions
<1>2. /\ \A i \in DOMAIN sessions : sessions[i].seed = Seed <=> Recorded(m) /\ i = 1
      /\ Recorded(m) => 1 \in DOMAIN sessions /\ sessions[1] = OwnRecord(m)
      /\ \A i \in DOMAIN sessions : SessionStatus(sessions[i], Now).rank \in 1..9
  BY SessionsRead DEF sessions
<1>3. /\ c \in Nat /\ h \in Bijection(1..c, which)
      /\ DOMAIN Chosen(sessions, which) = 1..c
      /\ \A k \in 1..c : Chosen(sessions, which)[k] = sessions[h[k]]
  <2>1. which \in SUBSET (1..n)
    BY <1>1
  <2> HIDE DEF which
  <2> QED
    BY <2>1, ChosenThrough
<1>5. /\ \A k \in 1..c : h[k] \in which
      /\ \A j, k \in 1..c : h[j] = h[k] => j = k
      /\ \A i \in which : \E k \in 1..c : h[k] = i
  BY <1>3 DEF Bijection, Injection, Surjection, IsInjective
<1>6. /\ DOMAIN rows = 1..c
      /\ \A k \in 1..c :
           rows[k] = Row(sessions[h[k]].seed, SessionStatus(sessions[h[k]], Now), FALSE)
  BY <1>3 DEF LocalRows
<1>7. IsListed(m, all) <=> Recorded(m) /\ 1 \in which
  <2>1. 1 \in which <=> 1 \in DOMAIN sessions /\ (all \/ ~sessions[1].ended)
    OBVIOUS
  <2>2. OwnRecord(m).ended <=> rec[m] = "ended"
    BY DEF OwnRecord
  <2> HIDE DEF which
  <2> QED
    BY <1>2, <2>1, <2>2, Zenon DEF IsListed
<1>8. \A i \in which : i \in DOMAIN sessions
  OBVIOUS
<1> HIDE DEF which, c, rows, h
<1>9. DOMAIN rows = 1..c
  BY <1>6
<1>10. \A k \in 1..c : /\ rows[k].seed = sessions[h[k]].seed
                       /\ rows[k].rank = SessionStatus(sessions[h[k]], Now).rank
  BY <1>6 DEF Row
<1>11. \A k \in DOMAIN rows : rows[k].rank \in 1..9
  BY <1>2, <1>5, <1>8, <1>9, <1>10
<1>12. \A k \in DOMAIN rows : rows[k].seed = Seed <=> Recorded(m) /\ h[k] = 1
  BY <1>2, <1>5, <1>8, <1>9, <1>10
<1>13. ~IsListed(m, all) => Seed \notin Seeds(rows)
  BY <1>5, <1>7, <1>9, <1>12 DEF Seeds
<1>14. ASSUME IsListed(m, all)
       PROVE  \E i \in DOMAIN rows :
                 rows[i] = own /\ \A j \in DOMAIN rows : rows[j].seed = Seed => j = i
  <2>1. PICK i \in 1..c : h[i] = 1
    BY <1>5, <1>7, <1>14
  <2>2. sessions[1] = OwnRecord(m)
    BY <1>2, <1>7, <1>14
  <2>3. rows[i] = own
    <3>1. OwnRecord(m).seed = Seed
      BY DEF OwnRecord
    <3> QED
      BY <1>6, <2>1, <2>2, <3>1
  <2>4. \A j \in DOMAIN rows : rows[j].seed = Seed => j = i
    BY <1>5, <1>9, <1>12, <2>1
  <2> QED
    BY <1>9, <2>3, <2>4
<1> QED
  BY <1>3, <1>9, <1>11, <1>13, <1>14 DEF rows, sessions

----------------------------------------------------------------------------

\* What a row of the interview owes the one who reads it.
TellsTrouble(m, state, row) ==
    /\ Trouble(m, state, Of("host") \subseteq late) => row.rank = Rank.stranded
    /\ row.rank = Rank.stranded => Trouble(m, state, Of("host") \intersect late # {})
    /\ row.elsewhere <=> rec[m] = "none"

\* A row of the interview's record, once the hosts are looked at.
LEMMA OwnRowTells ==
    ASSUME TypeOK, IsFiniteSet(Of("host")),
           NEW m \in Machines, NEW state \in InstanceStates, NEW other \in Beside, Recorded(m)
    PROVE  LET sessions == Records(m) \o other.sessions
               hosts == ParseHosts(Instances(state) \o other.instances)
               own == Row(Seed, SessionStatus(OwnRecord(m), Now), FALSE)
               row == Settled(own, Named(sessions, Seed), hosts, Now)
           IN  TellsTrouble(m, state, row)
<1> DEFINE sessions == Records(m) \o other.sessions
           hosts == ParseHosts(Instances(state) \o other.instances)
           own == Row(Seed, SessionStatus(OwnRecord(m), Now), FALSE)
           s == OwnRecord(m)
           row == Settled(own, s, hosts, Now)
<1> HIDE DEF sessions, hosts
<1>1. Named(sessions, Seed) = s
  <2>1. /\ \A i \in DOMAIN sessions : sessions[i].seed = Seed <=> Recorded(m) /\ i = 1
        /\ 1 \in DOMAIN sessions /\ sessions[1] = s
    BY SessionsRead DEF sessions
  <2>2. \A x \in ToSet(sessions) : x.seed = Seed <=> x = s
    BY <2>1 DEF ToSet
  <2>3. s \in ToSet(sessions)
    BY <2>1 DEF ToSet
  <2> HIDE DEF s
  <2> QED
    BY <2>2, <2>3 DEF Named
<1>2. /\ HostCount \in Nat
      /\ \A i \in 1..HostCount : \E h \in Of("host") : hosts[i] = Instance(h, state)
      /\ \A i \in DOMAIN hosts : hosts[i].seed = Seed <=> i <= HostCount
      /\ \E n \in Nat : DOMAIN hosts = 1..n /\ HostCount <= n
  BY HostsParsed DEF hosts
<1>3. Of("host") = {} <=> HostCount = 0
  BY FS_EmptySet DEF HostCount
<1>4. Seed \in Seeds(hosts) <=> Of("host") # {}
  BY <1>2, <1>3 DEF Seeds
<1>5. ASSUME Of("host") # {}
      PROVE  \E h \in Of("host") : Claimed(hosts, Seed) = Instance(h, state)
  <2> DEFINE which == {i \in DOMAIN hosts : hosts[i].seed = Seed}
             last == CHOOSE i \in which : \A j \in which : j <= i
  <2>1. HostCount \in which /\ HostCount \in 1..HostCount
    BY <1>2, <1>3, <1>5
  <2>2. \A j \in which : j \in 1..HostCount
    BY <1>2
  <2> HIDE DEF which
  <2>3. last \in which
    <3>1. \A j \in which : j <= HostCount
      BY <1>2, <2>2
    <3>2. \E i \in which : \A j \in which : j <= i
      BY <2>1, <3>1
    <3> QED
      BY <3>2
  <2>4. Claimed(hosts, Seed) = hosts[last]
    BY DEF Claimed, which
  <2> HIDE DEF last
  <2> QED
    BY <1>2, <2>2, <2>3, <2>4
<1>6. s.mode = "aws" /\ (s.ended <=> rec[m] = "ended") /\ (s.host # "" <=> rec[m] = "up")
  BY DEF OwnRecord
<1>7. own.seed = Seed /\ own.rank = SessionStatus(s, Now).rank
  BY DEF Row
<1>8. ~row.elsewhere
  BY DEF Settled, Row
<1>9. rec[m] # "up" => own.rank # Rank.stranded
  BY <1>7, OwnStatus
<1>10. row.rank =
         CASE s.mode = "aws" /\ s.ended /\ Seed \in Seeds(hosts) -> StillUp.rank
           [] s.mode = "aws" /\ ~s.ended /\ Seed \in Seeds(hosts) ->
                HostStatus(Claimed(hosts, Seed), Now).rank
           [] s.mode = "aws" /\ ~s.ended /\ Seed \notin Seeds(hosts) /\ s.host # "" ->
                Is("host gone", Rank.stranded).rank
           [] OTHER -> own.rank
  <2> HIDE DEF s, own
  <2> QED
    BY <1>7 DEF Settled, Row, Is
<1> HIDE DEF s, own, row
<1>11. StillUp.rank = Rank.stranded /\ Is("host gone", Rank.stranded).rank = Rank.stranded
  BY DEF StillUp, Is
<1>12. rec[m] \in {"open", "up", "ended"}
  BY DEF TypeOK, Recorded
<1>13. ASSUME Of("host") = {} PROVE TellsTrouble(m, state, row)
  <2>1. row.rank = IF rec[m] = "up" THEN Rank.stranded ELSE own.rank
    BY <1>4, <1>6, <1>10, <1>11, <1>12, <1>13
  <2> QED
    BY <1>8, <1>9, <1>12, <1>13, <2>1 DEF TellsTrouble, Trouble, Recorded
<1>14. ASSUME Of("host") # {} /\ rec[m] = "ended" PROVE TellsTrouble(m, state, row)
  <2>1. row.rank = Rank.stranded
    BY <1>4, <1>6, <1>10, <1>11, <1>14
  <2> QED
    BY <1>8, <1>14, <2>1 DEF TellsTrouble, Trouble, Recorded
<1>15. ASSUME Of("host") # {} /\ rec[m] # "ended" PROVE TellsTrouble(m, state, row)
  <2>1. row.rank = HostStatus(Claimed(hosts, Seed), Now).rank
    BY <1>4, <1>6, <1>10, <1>15
  <2>2. PICK h \in Of("host") : Claimed(hosts, Seed) = Instance(h, state)
    BY <1>5, <1>15
  <2>3. row.rank = Rank.stranded <=> state = "stopped" \/ (state = "running" /\ h \in late)
    BY <2>1, <2>2, HostsInTrouble
  <2> QED
    BY <1>8, <1>12, <1>15, <2>2, <2>3 DEF TellsTrouble, Trouble, Recorded
<1> QED
  BY <1>1, <1>13, <1>14, <1>15 DEF sessions, hosts, row, own, s

\* A host of the interview that no row shows: its record, if any, is ended.
LEMMA DiscoveredTells ==
    ASSUME NEW m \in Machines, NEW state \in InstanceStates, NEW other \in Beside,
           NEW h \in Of("host"), Recorded(m) => rec[m] = "ended"
    PROVE  LET sessions == Records(m) \o other.sessions
               row == Discovered(Instance(h, state), sessions, Now)
           IN  row.seed = Seed /\ TellsTrouble(m, state, row)
<1> DEFINE sessions == Records(m) \o other.sessions
           host == Instance(h, state)
           row == Discovered(host, sessions, Now)
<1>1. Seed \in Seeds(sessions) <=> Recorded(m)
  BY SessionsRead DEF Seeds
<1> HIDE DEF sessions
<1>2. /\ host.seed = Seed
      /\ HostStatus(host, Now).rank = Rank.stranded <=>
           state = "stopped" \/ (state = "running" /\ h \in late)
  BY HostsInTrouble
<1> HIDE DEF host
<1>3. CASE Recorded(m)
  <2>1. row.seed = Seed /\ row.rank = Rank.stranded /\ ~row.elsewhere
    BY <1>1, <1>2, <1>3 DEF Discovered, Row, StillUp, Is
  <2> QED
    BY <1>3, <2>1 DEF TellsTrouble, Trouble, Recorded, sessions, host
<1>4. CASE ~Recorded(m)
  <2>1. row.seed = Seed /\ row.rank = HostStatus(host, Now).rank /\ row.elsewhere
    BY <1>1, <1>2, <1>4 DEF Discovered, Row
  <2> QED
    BY <1>2, <1>4, <2>1 DEF TellsTrouble, Trouble, Recorded, sessions, host
<1> QED
  BY <1>3, <1>4

OwnRows(rows) == {i \in DOMAIN rows : rows[i].seed = Seed}

\* One position for each that is counted.
LEMMA AsMany ==
    ASSUME NEW A, NEW B, IsFiniteSet(A), NEW f \in [A -> B],
           \A i, j \in A : f[i] = f[j] => i = j,
           \A b \in B : \E i \in A : f[i] = b
    PROVE  Cardinality(A) = Cardinality(B)
<1>1. f \in Bijection(A, B)
  BY DEF Bijection, Injection, Surjection, IsInjective
<1> QED
  BY <1>1, FS_Bijection DEF ExistsBijection

LEMMA SettledAre ==
    ASSUME NEW row, NEW s, NEW hosts, row.rank \in 1..9
    PROVE  Settled(row, s, hosts, Now).seed = row.seed /\ Settled(row, s, hosts, Now).rank \in 1..9
<1>1. /\ StillUp.rank \in 1..9 /\ Is("host gone", Rank.stranded).rank \in 1..9
      /\ Is(row.state, row.rank).rank \in 1..9
      /\ HostStatus(Claimed(hosts, row.seed), Now).rank \in 1..9
  BY HostsAreRanked DEF StillUp, Is, Rank
<1> QED
  BY <1>1 DEF Settled, Row

LEMMA DiscoveredAre ==
    ASSUME NEW h, NEW sessions
    PROVE  /\ Discovered(h, sessions, Now).seed = h.seed
           /\ Discovered(h, sessions, Now).rank \in 1..9
<1>1. StillUp.rank \in 1..9 /\ HostStatus(h, Now).rank \in 1..9
  BY HostsAreRanked DEF StillUp, Is, Rank
<1> QED
  BY <1>1 DEF Discovered, Row

\* The rows once the hosts are looked at: the interview's are counted and tell its trouble,
\* and every other instance has one.
LEMMA RowsReconciled ==
    ASSUME TypeOK, IsFiniteSet(Of("host")),
           NEW m \in Machines, NEW state \in InstanceStates, NEW other \in Beside,
           NEW all \in BOOLEAN
    PROVE  LET sessions == Records(m) \o other.sessions
               hosts == ParseHosts(Instances(state) \o other.instances)
               rows == Reconcile(LocalRows(sessions, all, Now), sessions, hosts, Now)
           IN  /\ \E n \in Nat : DOMAIN rows = 1..n
               /\ \A i \in DOMAIN rows : rows[i].rank \in 1..9
               /\ Cardinality(OwnRows(rows)) =
                    IF IsListed(m, all) THEN 1 ELSE HostCount
               /\ \A i \in DOMAIN rows : rows[i].seed = Seed => TellsTrouble(m, state, rows[i])
               /\ \A i \in DOMAIN other.instances : Shown(other.instances[i]) \in Seeds(rows)
<1> DEFINE sessions == Records(m) \o other.sessions
           hosts == ParseHosts(Instances(state) \o other.instances)
           recorded == LocalRows(sessions, all, Now)
           own == Row(Seed, SessionStatus(OwnRecord(m), Now), FALSE)
           which == {i \in DOMAIN hosts : hosts[i].seed \notin Seeds(recorded)}
           others == Chosen(hosts, which)
           g == AsTheyWere(which)
           l == Cardinality(which)
           first == [i \in DOMAIN recorded |->
                        Settled(recorded[i], Named(sessions, recorded[i].seed), hosts, Now)]
           second == [i \in DOMAIN others |-> Discovered(others[i], sessions, Now)]
           rows == first \o second
           mine == {i \in DOMAIN rows : rows[i].seed = Seed}
<1>1. Reconcile(recorded, sessions, hosts, Now) = rows
  BY DEF Reconcile
<1>2. PICK k \in Nat : DOMAIN recorded = 1..k
  BY RowsRead
<1>3. /\ \A i \in 1..k : recorded[i].rank \in 1..9
      /\ ~IsListed(m, all) => Seed \notin Seeds(recorded)
      /\ IsListed(m, all) =>
           \E i \in 1..k :
              recorded[i] = own /\ \A j \in 1..k : recorded[j].seed = Seed => j = i
  <2> HIDE DEF own
  <2>1. /\ \A i \in DOMAIN recorded : recorded[i].rank \in 1..9
        /\ ~IsListed(m, all) => Seed \notin Seeds(recorded)
        /\ IsListed(m, all) =>
             \E i \in DOMAIN recorded :
                recorded[i] = own /\ \A j \in DOMAIN recorded : recorded[j].seed = Seed => j = i
    BY RowsRead DEF own
  <2> HIDE DEF recorded
  <2> QED
    BY <1>2, <2>1
<1>4. PICK n \in Nat : DOMAIN hosts = 1..n /\ HostCount <= n
  BY HostsParsed
<1>5. /\ HostCount \in Nat
      /\ \A i \in 1..HostCount : \E h \in Of("host") : hosts[i] = Instance(h, state)
      /\ \A i \in 1..n : hosts[i].seed = Seed <=> i <= HostCount
      /\ \A i \in DOMAIN other.instances :
           \E j \in 1..n : hosts[j].seed = Shown(other.instances[i])
  BY <1>4, HostsParsed
<1>6. IsListed(m, all) => TellsTrouble(m, state, Settled(own, Named(sessions, Seed), hosts, Now))
  BY OwnRowTells DEF IsListed
<1>7. \A h \in Of("host") :
         ~IsListed(m, all) =>
            TellsTrouble(m, state, Discovered(Instance(h, state), sessions, Now))
  <2>1. ~IsListed(m, all) => (Recorded(m) => rec[m] = "ended")
    BY DEF IsListed
  <2> QED
    BY <2>1, DiscoveredTells
<1>8. own.seed = Seed
  BY DEF Row
<1> HIDE DEF sessions, hosts, recorded, own
<1>9. /\ l \in Nat /\ g \in Bijection(1..l, which) /\ DOMAIN others = 1..l
      /\ \A i \in 1..l : others[i] = hosts[g[i]]
  <2>1. which \in SUBSET (1..n)
    BY <1>4
  <2> HIDE DEF which
  <2> QED
    BY <2>1, ChosenThrough
<1>10. /\ \A i \in 1..l : g[i] \in 1..n /\ hosts[g[i]].seed \notin Seeds(recorded)
       /\ \A i, j \in 1..l : g[i] = g[j] => i = j
       /\ \A i \in 1..n : hosts[i].seed \notin Seeds(recorded) => \E j \in 1..l : g[j] = i
  BY <1>4, <1>9 DEF Bijection, Injection, Surjection, IsInjective
<1> HIDE DEF which, others, g, l
<1>11. /\ DOMAIN first = 1..k /\ DOMAIN second = 1..l
       /\ \A i \in 1..k :
            /\ first[i] = Settled(recorded[i], Named(sessions, recorded[i].seed), hosts, Now)
            /\ first[i].seed = recorded[i].seed /\ first[i].rank \in 1..9
       /\ \A i \in 1..l :
            /\ second[i] = Discovered(hosts[g[i]], sessions, Now)
            /\ second[i].seed = hosts[g[i]].seed /\ second[i].rank \in 1..9
  <2>1. DOMAIN first = 1..k /\ DOMAIN second = 1..l
    BY <1>2, <1>9
  <2>2. \A i \in 1..k : first[i] = Settled(recorded[i], Named(sessions, recorded[i].seed), hosts, Now)
    BY <1>2
  <2>3. \A i \in 1..l : second[i] = Discovered(hosts[g[i]], sessions, Now)
    BY <1>9
  <2>4. \A i \in 1..k : first[i].seed = recorded[i].seed /\ first[i].rank \in 1..9
    BY <1>3, <2>2, SettledAre
  <2>5. \A i \in 1..l : second[i].seed = hosts[g[i]].seed /\ second[i].rank \in 1..9
    BY <2>3, DiscoveredAre
  <2> QED
    BY <2>1, <2>2, <2>3, <2>4, <2>5
<1>12. /\ DOMAIN rows = 1..k + l
       /\ \A i \in 1..k : rows[i] = first[i]
       /\ \A i \in 1..l : rows[k + i] = second[i]
       /\ \A i \in k + 1..k + l : rows[i] = second[i - k] /\ i - k \in 1..l
  <2> DEFINE S == {first[i] : i \in 1..k}
             T == {second[i] : i \in 1..l}
  <2>1. first \in [1..k -> S] /\ second \in [1..l -> T]
    <3> HIDE DEF first, second
    <3>1. first = [i \in 1..k |-> first[i]] /\ second = [i \in 1..l |-> second[i]]
      BY <1>11 DEF first, second
    <3> QED
      BY <3>1
  <2>3. k \in Nat /\ l \in Nat
    BY <1>9
  <2> HIDE DEF first, second, S, T
  <2>2. /\ DOMAIN (first \o second) = 1..k + l
        /\ \A i \in 1..k : (first \o second)[i] = first[i]
        /\ \A i \in 1..l : (first \o second)[k + i] = second[i]
        /\ \A i \in k + 1..k + l : (first \o second)[i] = second[i - k]
    BY <2>3, <2>1, OneAfterAnother
  <2>4. \A i \in k + 1..k + l : i - k \in 1..l
    BY <1>2, <1>9
  <2> QED
    BY <2>2, <2>4
<1> HIDE DEF first, second, rows
<1>13. \A i \in 1..k + l :
          \/ i \in 1..k
          \/ i \in k + 1..k + l
  BY <1>2, <1>9
<1>14. \A i \in 1..k : i \in 1..k + l
  BY <1>2, <1>9
<1>15. \A i \in 1..l : k + i \in 1..k + l
  BY <1>2, <1>9
<1>16. \A i \in 1..k + l : rows[i].rank \in 1..9
  BY <1>11, <1>12, <1>13
<1>17. \A i \in DOMAIN other.instances : Shown(other.instances[i]) \in Seeds(rows)
  <2> TAKE i \in DOMAIN other.instances
  <2>1. PICK j \in 1..n : hosts[j].seed = Shown(other.instances[i])
    BY <1>5
  <2>2. CASE hosts[j].seed \in Seeds(recorded)
    <3>1. PICK a \in 1..k : recorded[a].seed = hosts[j].seed
      BY <1>2, <2>2 DEF Seeds
    <3>2. a \in 1..k + l /\ rows[a].seed = hosts[j].seed
      BY <1>11, <1>12, <1>14, <3>1
    <3> QED
      BY <1>12, <2>1, <3>2 DEF Seeds
  <2>3. CASE hosts[j].seed \notin Seeds(recorded)
    <3>1. PICK a \in 1..l : g[a] = j
      BY <1>10, <2>3
    <3>2. k + a \in 1..k + l /\ rows[k + a].seed = hosts[j].seed
      BY <1>11, <1>12, <1>15, <3>1
    <3> QED
      BY <1>12, <2>1, <3>2 DEF Seeds
  <2> QED
    BY <2>2, <2>3
<1>18. ASSUME IsListed(m, all)
       PROVE  \E i \in 1..k + l : mine = {i} /\ TellsTrouble(m, state, rows[i])
  <2>1. PICK i \in 1..k :
           recorded[i] = own /\ \A j \in 1..k : recorded[j].seed = Seed => j = i
    BY <1>3, <1>18
  <2>2. i \in 1..k + l /\ rows[i].seed = Seed /\ TellsTrouble(m, state, rows[i])
    BY <1>6, <1>8, <1>11, <1>12, <1>14, <1>18, <2>1
  <2>3. \A j \in 1..k : rows[j].seed = Seed => j = i
    BY <1>11, <1>12, <2>1
  <2>4. Seed \in Seeds(recorded)
    BY <1>2, <1>8, <2>1 DEF Seeds
  <2>5. \A j \in k + 1..k + l : rows[j].seed # Seed
    BY <1>10, <1>11, <1>12, <2>4
  <2>6. mine = {i}
    BY <1>12, <1>13, <2>2, <2>3, <2>5
  <2> QED
    BY <2>2, <2>6
<1>19. ASSUME ~IsListed(m, all)
       PROVE  /\ Cardinality(mine) = HostCount
              /\ \A i \in mine : TellsTrouble(m, state, rows[i])
  <2>1. Seed \notin Seeds(recorded)
    BY <1>3, <1>19
  <2>2. \A j \in 1..k : rows[j].seed # Seed
    BY <1>2, <1>11, <1>12, <2>1 DEF Seeds
  <2>3. \A i \in mine : i \in k + 1..k + l /\ i - k \in 1..l /\ g[i - k] \in 1..HostCount
    <3> TAKE i \in mine
    <3>1. i \in k + 1..k + l /\ i - k \in 1..l /\ rows[i].seed = Seed
      BY <1>12, <1>13, <2>2
    <3>2. g[i - k] \in 1..n /\ hosts[g[i - k]].seed = Seed
      BY <1>10, <1>11, <1>12, <3>1
    <3>3. g[i - k] <= HostCount
      BY <1>5, <3>2
    <3> QED
      BY <1>4, <1>5, <3>1, <3>2, <3>3
  <2>4. \A i \in mine : TellsTrouble(m, state, rows[i])
    <3> TAKE i \in mine
    <3>1. PICK h \in Of("host") : hosts[g[i - k]] = Instance(h, state)
      BY <1>5, <2>3
    <3>2. rows[i] = Discovered(Instance(h, state), sessions, Now)
      BY <1>11, <1>12, <2>3, <3>1
    <3> QED
      BY <1>7, <1>19, <3>2
  <2>5. \A b \in 1..HostCount : \E i \in mine : g[i - k] = b
    <3> TAKE b \in 1..HostCount
    <3>1. b \in 1..n /\ hosts[b].seed = Seed
      BY <1>4, <1>5
    <3>2. PICK j \in 1..l : g[j] = b
      BY <1>10, <2>1, <3>1
    <3>3. k + j \in 1..k + l /\ rows[k + j].seed = Seed /\ (k + j) - k = j
      BY <1>2, <1>9, <1>11, <1>12, <1>15, <3>1, <3>2
    <3>4. k + j \in mine
      BY <1>12, <3>3
    <3> QED
      BY <3>2, <3>3, <3>4
  <2>6. \A i, j \in mine : g[i - k] = g[j - k] => i = j
    <3> TAKE i, j \in mine
    <3> HAVE g[i - k] = g[j - k]
    <3>1. i - k = j - k
      BY <1>10, <2>3
    <3>2. i \in Int /\ j \in Int
      BY <1>2, <1>9, <2>3
    <3> QED
      BY <1>2, <3>1, <3>2
  <2>7. IsFiniteSet(mine)
    <3>1. IsFiniteSet(1..k + l)
      BY <1>2, <1>9, FS_Interval
    <3>2. mine \in SUBSET (1..k + l)
      BY <1>12
    <3> HIDE DEF mine
    <3> QED
      BY <3>1, <3>2, FS_Subset
  <2>8. Cardinality(mine) = Cardinality(1..HostCount)
    <3> DEFINE f == [i \in mine |-> g[i - k]]
               B == 1..HostCount
    <3> HIDE DEF mine
    <3>1. f \in [mine -> B]
      BY <2>3
    <3>2. \A i, j \in mine : f[i] = f[j] => i = j
      BY <2>6
    <3>3. \A b \in B : \E i \in mine : f[i] = b
      BY <2>5
    <3> HIDE DEF f, B
    <3>4. Cardinality(mine) = Cardinality(B)
      BY <2>7, <3>1, <3>2, <3>3, AsMany
    <3> QED
      BY <3>4 DEF B
  <2>9. Cardinality(1..HostCount) = HostCount
    BY <1>5, FS_Interval
  <2> QED
    BY <2>4, <2>8, <2>9
<1>20. Cardinality(mine) = IF IsListed(m, all) THEN 1 ELSE HostCount
  <2>1. IsListed(m, all) => Cardinality(mine) = 1
    <3> HIDE DEF mine
    <3> QED
      BY <1>18, FS_Singleton
  <2> QED
    BY <1>19, <2>1
<1>21. \A i \in mine : TellsTrouble(m, state, rows[i])
  <2> HIDE DEF mine
  <2> QED
    BY <1>18, <1>19
<1>22. \E a \in Nat : DOMAIN rows = 1..a
  <2>1. k + l \in Nat
    BY <1>2, <1>9
  <2> QED
    BY <1>12, <2>1
<1>23. /\ \E a \in Nat : DOMAIN rows = 1..a
       /\ \A i \in DOMAIN rows : rows[i].rank \in 1..9
       /\ Cardinality(OwnRows(rows)) = IF IsListed(m, all) THEN 1 ELSE HostCount
       /\ \A i \in DOMAIN rows : rows[i].seed = Seed => TellsTrouble(m, state, rows[i])
       /\ \A i \in DOMAIN other.instances : Shown(other.instances[i]) \in Seeds(rows)
  BY <1>12, <1>16, <1>17, <1>20, <1>21, <1>22 DEF OwnRows
<1> QED
  BY <1>1, <1>23 DEF recorded, sessions, hosts

LEMMA ScreenTells == TypeOK => TroubleIsInView
<1> SUFFICES ASSUME TypeOK PROVE TroubleIsInView
  OBVIOUS
<1>1. IsFiniteSet(Of("host"))
  BY HostsAreFinite
<1> SUFFICES ASSUME NEW m \in Machines, NEW state \in InstanceStates, NEW other \in Beside,
                    NEW all \in BOOLEAN
             PROVE  LET rows == Screen(m, state, other, all, FALSE)
                        waiting == Screen(m, state, other, all, TRUE)
                        mine == {i \in DOMAIN rows : rows[i].seed = Seed}
                    IN  /\ Cardinality(mine) =
                            IF rec[m] # "none" /\ (all \/ rec[m] # "ended") THEN 1
                            ELSE Cardinality(Of("host"))
                        /\ \A i \in mine :
                            /\ Trouble(m, state, Of("host") \subseteq late) =>
                                rows[i].rank = Rank.stranded
                            /\ rows[i].rank = Rank.stranded =>
                                /\ Trouble(m, state, Of("host") \intersect late # {})
                                /\ \A j \in 1..i : rows[j].rank = Rank.stranded
                                /\ \E j \in DOMAIN waiting : waiting[j] = rows[i]
                            /\ rows[i].elsewhere <=> rec[m] = "none"
                        /\ \A i \in DOMAIN other.instances :
                            \/ other.instances[i].seed \in Seeds(rows)
                            \/ other.instances[i].seed = "" /\ Untagged \in Seeds(rows)
  BY DEF TroubleIsInView
<1> DEFINE sessions == Records(m) \o other.sessions
           hosts == ParseHosts(Instances(state) \o other.instances)
           all1 == Reconcile(LocalRows(sessions, all, Now), sessions, hosts, Now)
           troubled == {i \in DOMAIN all1 : Waiting(all1[i].rank)}
           rows == Screen(m, state, other, all, FALSE)
           waiting == Screen(m, state, other, all, TRUE)
           mine == {i \in DOMAIN rows : rows[i].seed = Seed}
           own == OwnRows(all1)
           places == DOMAIN all1
           key == [i \in places |-> all1[i].rank]
           c == Cardinality(places)
           h == Order(places, key)
           keyW == [i \in troubled |-> all1[i].rank]
           cW == Cardinality(troubled)
           f == Order(troubled, keyW)
<1>2. rows = ByRank(all1, DOMAIN all1) /\ waiting = ByRank(all1, troubled)
  <2>1. /\ rows = ByRank(all1, {i \in DOMAIN all1 : FALSE => Waiting(all1[i].rank)})
        /\ waiting = ByRank(all1, {i \in DOMAIN all1 : TRUE => Waiting(all1[i].rank)})
    BY DEF Screen, CmdSessions
  <2> HIDE DEF all1
  <2>2. /\ {i \in DOMAIN all1 : FALSE => Waiting(all1[i].rank)} = DOMAIN all1
        /\ {i \in DOMAIN all1 : TRUE => Waiting(all1[i].rank)} = troubled
    OBVIOUS
  <2> QED
    BY <2>1, <2>2
<1>3. /\ \E n \in Nat : DOMAIN all1 = 1..n
      /\ \A i \in DOMAIN all1 : all1[i].rank \in 1..9
      /\ Cardinality(own) = IF IsListed(m, all) THEN 1 ELSE HostCount
      /\ \A i \in DOMAIN all1 : all1[i].seed = Seed => TellsTrouble(m, state, all1[i])
      /\ \A i \in DOMAIN other.instances : Shown(other.instances[i]) \in Seeds(all1)
  <2> HIDE DEF all1
  <2>1. \E n \in Nat : DOMAIN all1 = 1..n
    BY <1>1, RowsReconciled, SMT DEF all1
  <2>2. \A i \in DOMAIN all1 : all1[i].rank \in 1..9
    BY <1>1, RowsReconciled, Zenon DEF all1
  <2>3. Cardinality(own) = IF IsListed(m, all) THEN 1 ELSE HostCount
    BY <1>1, RowsReconciled, Zenon DEF all1
  <2>4. \A i \in DOMAIN all1 : all1[i].seed = Seed => TellsTrouble(m, state, all1[i])
    BY <1>1, RowsReconciled, Zenon DEF all1
  <2>5. \A i \in DOMAIN other.instances : Shown(other.instances[i]) \in Seeds(all1)
    BY <1>1, RowsReconciled, Zenon DEF all1
  <2> QED
    BY <2>1, <2>2, <2>3, <2>4, <2>5
<1> HIDE DEF all1, rows, waiting
<1>4. PICK n \in Nat : DOMAIN all1 = 1..n
  BY <1>3
<1>5. /\ c \in Nat /\ DOMAIN rows = 1..c
      /\ h \in Bijection(1..c, places)
      /\ \A i \in 1..c : rows[i] = all1[h[i]]
      /\ \A i, j \in 1..c : i <= j => key[h[i]] <= key[h[j]]
  <2>1. places \in SUBSET (1..n) /\ \A i \in places : key[i] \in Nat
    BY <1>3, <1>4
  <2>2. DOMAIN rows = 1..c /\ \A i \in 1..c : rows[i] = all1[h[i]]
    BY <1>2 DEF ByRank, Arranged, Order
  <2> HIDE DEF places, key
  <2>3. /\ Cardinality(places) \in Nat
        /\ Order(places, key) \in Bijection(1..Cardinality(places), places)
        /\ \A i, j \in 1..Cardinality(places) :
             i <= j => key[Order(places, key)[i]] <= key[Order(places, key)[j]]
    BY <2>1, ArrangedThrough
  <2> QED
    BY <2>2, <2>3
<1>6. /\ DOMAIN waiting = 1..cW
      /\ f \in Bijection(1..cW, troubled)
      /\ \A i \in 1..cW : waiting[i] = all1[f[i]]
  <2>1. troubled \in SUBSET (1..n) /\ \A i \in troubled : keyW[i] \in Nat
    BY <1>3, <1>4
  <2>2. DOMAIN waiting = 1..cW /\ \A i \in 1..cW : waiting[i] = all1[f[i]]
    BY <1>2 DEF ByRank, Arranged, Order
  <2> HIDE DEF troubled, keyW
  <2>3. Order(troubled, keyW) \in Bijection(1..Cardinality(troubled), troubled)
    BY <2>1, ArrangedThrough
  <2> QED
    BY <2>2, <2>3
<1> HIDE DEF h, f, c, cW
<1>7. /\ \A i \in DOMAIN rows : h[i] \in DOMAIN all1
      /\ \A i, j \in DOMAIN rows : h[i] = h[j] => i = j
      /\ \A i \in DOMAIN all1 : \E j \in DOMAIN rows : h[j] = i
      /\ \A i \in troubled : \E j \in DOMAIN waiting : f[j] = i
  <2> HIDE DEF places, troubled
  <2>1. /\ \A i \in 1..c : h[i] \in places
        /\ \A i, j \in 1..c : h[i] = h[j] => i = j
        /\ \A i \in places : \E j \in 1..c : h[j] = i
        /\ \A i \in troubled : \E j \in 1..cW : f[j] = i
    BY <1>5, <1>6 DEF Bijection, Injection, Surjection, IsInjective
  <2> QED
    BY <1>5, <1>6, <2>1 DEF places
<1>8. Cardinality(mine) = Cardinality(own)
  <2> DEFINE g == [i \in mine |-> h[i]]
  <2>1. IsFiniteSet(mine)
    <3>1. mine \in SUBSET (1..c) /\ IsFiniteSet(1..c)
      BY <1>5, FS_Interval
    <3> HIDE DEF mine
    <3> QED
      BY <3>1, FS_Subset
  <2>2. g \in [mine -> own]
    BY <1>5, <1>7 DEF OwnRows
  <2>3. \A i, j \in mine : g[i] = g[j] => i = j
    BY <1>7
  <2>4. \A b \in own : \E i \in mine : g[i] = b
    <3> TAKE b \in own
    <3>1. b \in DOMAIN all1 /\ all1[b].seed = Seed
      BY DEF OwnRows
    <3>2. PICK i \in DOMAIN rows : h[i] = b
      BY <1>7, <3>1
    <3>3. i \in mine
      BY <1>5, <3>1, <3>2
    <3> QED
      BY <3>2, <3>3
  <2> HIDE DEF mine, own, g
  <2> QED
    BY <2>1, <2>2, <2>3, <2>4, AsMany
<1>9. Cardinality(mine) =
         IF rec[m] # "none" /\ (all \/ rec[m] # "ended") THEN 1 ELSE Cardinality(Of("host"))
  BY <1>3, <1>8 DEF IsListed, Recorded, HostCount
<1>10. ASSUME NEW i \in mine
       PROVE  /\ Trouble(m, state, Of("host") \subseteq late) => rows[i].rank = Rank.stranded
              /\ rows[i].rank = Rank.stranded =>
                   /\ Trouble(m, state, Of("host") \intersect late # {})
                   /\ \A j \in 1..i : rows[j].rank = Rank.stranded
                   /\ \E j \in DOMAIN waiting : waiting[j] = rows[i]
              /\ rows[i].elsewhere <=> rec[m] = "none"
  <2>1. i \in DOMAIN rows /\ rows[i] = all1[h[i]] /\ h[i] \in DOMAIN all1 /\ all1[h[i]].seed = Seed
    BY <1>5, <1>7
  <2>2. TellsTrouble(m, state, rows[i])
    BY <1>3, <2>1
  <2>3. ASSUME rows[i].rank = Rank.stranded
        PROVE  \A j \in 1..i : rows[j].rank = Rank.stranded
    <3> TAKE j \in 1..i
    <3>1. i \in 1..c /\ j \in 1..c /\ j <= i
      BY <1>5, <2>1
    <3>2. /\ h[j] \in DOMAIN all1 /\ rows[j] = all1[h[j]]
          /\ key[h[j]] = rows[j].rank /\ key[h[i]] = rows[i].rank
      BY <1>5, <1>7, <2>1, <3>1
    <3>3. rows[j].rank \in 1..9 /\ rows[j].rank <= rows[i].rank
      BY <1>3, <1>5, <3>1, <3>2
    <3> QED
      BY <2>3, <3>3 DEF Rank
  <2>4. ASSUME rows[i].rank = Rank.stranded
        PROVE  \E j \in DOMAIN waiting : waiting[j] = rows[i]
    <3>1. Waiting(all1[h[i]].rank)
      BY <2>1, <2>4 DEF Waiting, Rank
    <3>2. h[i] \in troubled
      BY <2>1, <3>1
    <3>3. PICK j \in DOMAIN waiting : f[j] = h[i]
      BY <1>7, <3>2
    <3> QED
      BY <1>6, <2>1, <3>3
  <2> QED
    BY <2>2, <2>3, <2>4 DEF TellsTrouble
<1>11. ASSUME NEW i \in DOMAIN other.instances
       PROVE  \/ other.instances[i].seed \in Seeds(rows)
              \/ other.instances[i].seed = "" /\ Untagged \in Seeds(rows)
  <2>1. PICK j \in DOMAIN all1 : all1[j].seed = Shown(other.instances[i])
    BY <1>3 DEF Seeds
  <2>2. PICK k \in DOMAIN rows : h[k] = j
    BY <1>7
  <2>3. Shown(other.instances[i]) \in Seeds(rows)
    BY <1>5, <2>1, <2>2 DEF Seeds
  <2> QED
    BY <2>3 DEF Shown
<1> HIDE DEF mine
<1> QED
  BY <1>9, <1>10, <1>11 DEF rows, waiting, mine

\* Wherever the interviewer looks, at any moment of any run and beside whatever other
\* sessions and instances there are, the list of cmdSessions shows an interview whose host
\* is stopped, past its ttl, gone without an end or there after one, before all that is not
\* stranded, and accuses no other.
THEOREM TroubleIsShown == Spec => []TroubleIsInView
BY RemoteTypeCorrect, ScreenTells, PTL
=============================================================================
