------------------------------ MODULE Variant ------------------------------
(***************************************************************************)
(* Which variant of a problem, and so which environment, a command acts on *)
(* (internal/variant, resolveProblem and resolveTarget of                  *)
(* internal/cli/common.go).  An environment and its default workdir are    *)
(* named for the problem, the seed and every resolved parameter; what was  *)
(* pinned with --set is known to later commands from state.json alone.     *)
(*                                                                         *)
(* One debugging problem on one machine, its commands one after the other. *)
(* The hash in a name is as good as what is hashed.                        *)
(***************************************************************************)
EXTENDS Naturals, Sequences, Functions

CONSTANTS
    Seeds,          \* interview ids
    Params,         \* the names a manifest may use for its parameters
    Values,         \* and the values these may have
    Manifests,      \* what the problem's manifest may declare
    Pins,           \* what may be given with --set
    Drawn,          \* paramRNG: which of n values a seed draws for a parameter
    MaxChoices,     \* bound on the values of one parameter
    MaxEdits,       \* bound on changes of the content
    MaxFailures,    \* bound on what goes wrong
    None            \* no default

\* A choice has its list, an int the list of its range; a string has a default only.
Specs == [type : {"choice", "string"}, of : Seq(Values), default : Values \union {None}]

ASSUME VariantAssumption ==
    /\ \A m \in Manifests : DOMAIN m \subseteq Params /\ \A n \in DOMAIN m : m[n] \in Specs
    /\ \A p \in Pins : DOMAIN p \subseteq Params /\ \A n \in DOMAIN p : p[n] \in Values
    /\ \A s \in Seeds, n \in Params, k \in 1..MaxChoices : Drawn[s][n][k] \in 1..k
    /\ \A m \in Manifests : \A n \in DOMAIN m : Len(m[n].of) <= MaxChoices
    /\ None \notin Values
    /\ {MaxChoices, MaxEdits, MaxFailures} \subseteq Nat

VARIABLES
    manifest,       \* the problem's, as the content checkout has it
    rec,            \* the registry: seed -> where its session's state is, and whether it ended
    state,          \* workdir -> its state.json: what was pinned, and whether it is live
    envs,           \* the environments there are, each with the seed whose session it is
    edits, failures \* so far

vars == <<manifest, rec, state, envs, edits, failures>>

Init ==
    /\ manifest \in Manifests
    /\ rec = <<>> /\ state = <<>> /\ envs = {}
    /\ edits = 0 /\ failures = 0

----------------------------------------------------------------------------
\* maps.Copy(g, f), and every file written over its last version: f where it has
\* something, g elsewhere.
Over(f, g) == [x \in DOMAIN f \union DOMAIN g |-> IF x \in DOMAIN f THEN f[x] ELSE g[x]]

\* Resolve.

Offered(m, n) == Range(m[n].of)

\* Plausible bug: a value is pinned unread.
PinnableByName(m, pins) == DOMAIN pins \subseteq DOMAIN m

\* An override names a parameter, and a value that it may have.
Pinnable(m, pins) ==
    \A n \in DOMAIN pins : n \in DOMAIN m /\ (m[n].type = "choice" => pins[n] \in Offered(m, n))

Resolvable(m, pins) ==
    /\ Pinnable(m, pins)
    /\ \A n \in DOMAIN m \ DOMAIN pins :
        m[n].default # None \/ (m[n].type = "choice" /\ m[n].of # <<>>)

Draw(m, seed, n) == m[n].of[Drawn[seed][n][Len(m[n].of)]]

\* Overrides win, then defaults; what is left is drawn, each parameter for itself.
Resolve(m, seed, pins) ==
    [n \in DOMAIN m |->
        IF n \in DOMAIN pins THEN pins[n]
        ELSE IF m[n].default # None THEN m[n].default ELSE Draw(m, seed, n)]

EnvName(seed, params) == <<seed, params>>

----------------------------------------------------------------------------
\* What a command takes a seed and its own --set to mean.

Recorded(seed) == seed \in DOMAIN rec

\* resolveTarget, and DefaultWorkdir for a seed without a record.
Workdir(seed, pins) ==
    IF Recorded(seed) THEN rec[seed].workdir ELSE EnvName(seed, Resolve(manifest, seed, pins))

\* Plausible bug: what the environment was built with is not asked for.
MeantAsGiven(seed, pins, workdir) == pins

\* What state.json recorded is added, unless the content no longer has it.
Meant(seed, pins, workdir) ==
    LET merged == IF workdir \in DOMAIN state THEN Over(pins, state[workdir].pins) ELSE pins
    IN  IF Resolvable(manifest, merged) THEN merged ELSE pins

\* The environment that the engine is then about.
Target(seed, pins) ==
    EnvName(seed, Resolve(manifest, seed, Meant(seed, pins, Workdir(seed, pins))))

----------------------------------------------------------------------------
\* Commands.

\* Up, and the state it saves when the environment has become healthy.  An explicit --set
\* may lead to a second environment in the same workdir.
Built(seed, pins) ==
    LET w == Workdir(seed, pins)
        meant == Meant(seed, pins, w)
        e == EnvName(seed, Resolve(manifest, seed, meant))
    IN  /\ envs' = envs \union {[name |-> e, seed |-> seed]}
        /\ state' = Over([x \in {w} |-> [pins |-> meant, live |-> TRUE, env |-> e]], state)

RecordStart(seed, pins) ==
    rec' = Over([s \in {seed} |-> [workdir |-> Workdir(seed, pins), ended |-> FALSE]], rec)

Start(seed, pins) ==
    /\ Resolvable(manifest, pins)
    /\ RecordStart(seed, pins) /\ Built(seed, pins)
    /\ UNCHANGED <<manifest, edits, failures>>

\* The build fails, or verify does not pass in time, or the start is killed: it is
\* recorded by then, and no state is.
StartFails(seed, pins) ==
    /\ Resolvable(manifest, pins)
    /\ failures < MaxFailures /\ failures' = failures + 1
    /\ RecordStart(seed, pins)
    /\ \E built \in SUBSET {[name |-> Target(seed, pins), seed |-> seed]} : envs' = envs \union built
    /\ UNCHANGED <<manifest, state, edits>>

\* env up, which records no session.
EnvUp(seed, pins) ==
    /\ Resolvable(manifest, pins)
    /\ Built(seed, pins)
    /\ UNCHANGED <<manifest, rec, edits, failures>>

\* kind delete and compose down are content with an environment that is not there.
TakeDown(name) == envs' = {e \in envs : e.name # name}

Stamped(w, purge) ==
    state' = [x \in (IF purge THEN DOMAIN state \ {w} ELSE DOMAIN state) |->
        IF x = w THEN [state[x] EXCEPT !.live = FALSE] ELSE state[x]]

\* Plausible bug: the environment of the seed, whatever it was built with.
EndPlain(seed, purge) ==
    /\ Recorded(seed)
    /\ TakeDown(EnvName(seed, Resolve(manifest, seed, <<>>)))
    /\ Stamped(Workdir(seed, <<>>), purge)
    /\ rec' = [rec EXCEPT ![seed].ended = TRUE]
    /\ UNCHANGED <<manifest, edits, failures>>

End(seed, purge) ==
    /\ Recorded(seed) /\ Resolvable(manifest, <<>>)
    /\ TakeDown(Target(seed, <<>>))
    /\ Stamped(Workdir(seed, <<>>), purge)
    /\ rec' = [rec EXCEPT ![seed].ended = TRUE]
    /\ UNCHANGED <<manifest, edits, failures>>

\* env down: with a --set of its own it is about another environment of the workdir.
EnvDown(seed, pins, purge) ==
    /\ Resolvable(manifest, pins)
    /\ TakeDown(Target(seed, pins))
    /\ Stamped(Workdir(seed, pins), purge)
    /\ UNCHANGED <<manifest, rec, edits, failures>>

----------------------------------------------------------------------------
\* What happens to the files.

\* The content is pulled, or edited, while no environment is up.
Edit ==
    /\ edits < MaxEdits /\ edits' = edits + 1
    /\ envs = {} /\ \A w \in DOMAIN state : ~state[w].live
    /\ manifest' \in Manifests \ {manifest}
    /\ UNCHANGED <<rec, state, envs, failures>>

\* A record is lost: the session was of another machine, or another home.
Lose(seed) ==
    /\ failures < MaxFailures /\ failures' = failures + 1
    /\ Recorded(seed)
    /\ rec' = [s \in DOMAIN rec \ {seed} |-> rec[s]]
    /\ UNCHANGED <<manifest, state, envs, edits>>

Next ==
    \/ \E s \in Seeds, p \in Pins : Start(s, p) \/ StartFails(s, p) \/ EnvUp(s, p)
    \/ \E s \in Seeds, purge \in BOOLEAN : End(s, purge) \/ \E p \in Pins : EnvDown(s, p, purge)
    \/ Edit
    \/ \E s \in Seeds : Lose(s)

Spec == Init /\ [][Next]_vars

----------------------------------------------------------------------------
\* Properties.

\* The one typing invariant of this module.
TypeOK ==
    /\ manifest \in Manifests
    /\ DOMAIN rec \subseteq Seeds
    /\ \A w \in DOMAIN state : state[w].live =>
        LET built == state[w].env[2]
        IN  /\ DOMAIN built = DOMAIN manifest
            /\ \A n \in DOMAIN built :
                manifest[n].type = "choice" =>
                    built[n] \in Offered(manifest, n) \union {manifest[n].default}
    /\ \A e \in envs : e.seed \in Seeds /\ e.name[1] = e.seed

Live(seed) ==
    Recorded(seed) /\ rec[seed].workdir \in DOMAIN state /\ state[rec[seed].workdir].live

\* Every command on a recorded session means the very environment in its workdir, pinned
\* or not, and what a --set of its own adds it changes that one alone: none acts on
\* parameters the candidate never saw.
CommandsMeanTheSession ==
    \A s \in Seeds, p \in Pins :
        Live(s) /\ Resolvable(manifest, p) =>
            LET built == state[rec[s].workdir].env[2]
            IN  Target(s, p)[2] = [n \in DOMAIN built |-> IF n \in DOMAIN p THEN p[n] ELSE built[n]]

\* A --set that the environment was built with, or that says nothing of it.
Agrees(pins, env) == \A n \in DOMAIN pins : n \in DOMAIN env[2] => pins[n] = env[2][n]

\* A state is stamped as torn down, or purged, in a step that leaves no environment of the
\* name it was saved for: the stamp is what tells every later command that it is gone
\* (Down, debug/engine.go:365).  An env down does it whatever environment its own --set
\* made it about, so one that contradicts the state is the exception, and the only one.
StampMeansGone ==
    [][\A w \in DOMAIN state :
        state[w].live /\ (w \notin DOMAIN state' \/ ~state'[w].live) =>
            \/ \A e \in envs' : e.name # state[w].env
            \/ \E s \in Seeds, p \in Pins, purge \in BOOLEAN :
                EnvDown(s, p, purge) /\ ~Agrees(p, state[w].env)]_vars

=============================================================================
