---------------------------- MODULE ContentProofs ----------------------------
(***************************************************************************)
(* What becomes of authored content.  For any manifests, pins, seeds and   *)
(* draws: what a command on a session means is what state.json says was    *)
(* built.  For any tree, globs and edits: what is handed to a candidate is *)
(* theirs, and whole.                                                      *)
(***************************************************************************)
EXTENDS Variant, Bundle, FiniteSetTheorems, WellFoundedInduction, SequenceTheorems, TLAPS

\* The environment of a live state is the one that the seed its workdir is named for and
\* the recorded pins still resolve to.
BuiltAsRecorded(w) ==
    /\ w[1] \in Seeds
    /\ Resolvable(manifest, state[w].pins)
    /\ state[w].env = EnvName(w[1], Resolve(manifest, w[1], state[w].pins))

VariantInv ==
    /\ manifest \in Manifests
    /\ DOMAIN rec \subseteq Seeds
    /\ \A s \in DOMAIN rec : "workdir" \in DOMAIN rec[s] /\ rec[s].workdir[1] = s
    /\ \A w \in DOMAIN state : "live" \in DOMAIN state[w] /\ (state[w].live => BuiltAsRecorded(w))
    /\ \A e \in envs : e.seed \in Seeds /\ e.name[1] = e.seed

-----------------------------------------------------------------------------
\* Pins over pins that resolve resolve, and decide for the parameters that they name.
LEMMA OverResolvable ==
    ASSUME NEW m, NEW p, NEW q, Resolvable(m, p), Resolvable(m, q)
    PROVE  Resolvable(m, Over(p, q))
<1>1. DOMAIN Over(p, q) = DOMAIN p \union DOMAIN q
  BY DEF Over
<1>2. \A n \in DOMAIN Over(p, q) : Over(p, q)[n] = IF n \in DOMAIN p THEN p[n] ELSE q[n]
  BY DEF Over
<1>3. Pinnable(m, Over(p, q))
  BY <1>1, <1>2 DEF Resolvable, Pinnable
<1> QED
  BY <1>1, <1>3 DEF Resolvable

LEMMA OverResolves ==
    ASSUME NEW m, NEW seed, NEW p, NEW q, Pinnable(m, p)
    PROVE  Resolve(m, seed, Over(p, q)) =
             [n \in DOMAIN m |-> IF n \in DOMAIN p THEN p[n] ELSE Resolve(m, seed, q)[n]]
<1>1. \A n : n \in DOMAIN Over(p, q) <=> n \in DOMAIN p \/ n \in DOMAIN q
  BY DEF Over
<1>2. \A n \in DOMAIN Over(p, q) : Over(p, q)[n] = IF n \in DOMAIN p THEN p[n] ELSE q[n]
  BY DEF Over
<1>3. \A n \in DOMAIN m : Resolve(m, seed, Over(p, q))[n] =
          IF n \in DOMAIN p THEN p[n] ELSE Resolve(m, seed, q)[n]
  BY <1>1, <1>2 DEF Resolve
<1> QED
  BY <1>3 DEF Resolve

\* What is resolved has the manifest's parameters, and of a choice a value it offers.
LEMMA ResolvedIsOffered ==
    ASSUME NEW m \in Manifests, NEW seed \in Seeds, NEW pins, Resolvable(m, pins)
    PROVE  /\ DOMAIN Resolve(m, seed, pins) = DOMAIN m
           /\ \A n \in DOMAIN m : m[n].type = "choice" =>
                  Resolve(m, seed, pins)[n] \in Offered(m, n) \union {m[n].default}
<1>1. DOMAIN Resolve(m, seed, pins) = DOMAIN m
  BY DEF Resolve
<1>2. ASSUME NEW n \in DOMAIN m, m[n].type = "choice"
      PROVE  Resolve(m, seed, pins)[n] \in Offered(m, n) \union {m[n].default}
  <2>1. CASE n \in DOMAIN pins
    BY <1>2, <2>1 DEF Resolve, Resolvable, Pinnable
  <2>2. CASE n \notin DOMAIN pins /\ m[n].default # None
    BY <1>2, <2>2 DEF Resolve
  <2>3. CASE n \notin DOMAIN pins /\ m[n].default = None
    <3>1. m[n].of \in Seq(Values) /\ m[n].of # <<>> /\ Len(m[n].of) <= MaxChoices
      BY <1>2, <2>3, VariantAssumption DEF Resolvable, Specs
    <3> DEFINE k == Len(m[n].of)
    <3>2. k \in 1..MaxChoices
      BY <3>1, VariantAssumption, EmptySeq
    <3>3. n \in Params
      BY VariantAssumption
    <3>4. Drawn[seed][n][k] \in 1..k
      BY <3>2, <3>3, VariantAssumption
    <3>5. Drawn[seed][n][k] \in DOMAIN m[n].of
      BY <3>1, <3>4
    <3>6. Draw(m, seed, n) \in Offered(m, n)
      BY <3>5 DEF Draw, Offered, Range
    <3> QED
      BY <2>3, <3>6 DEF Resolve
  <2> QED
    BY <2>1, <2>2, <2>3
<1> QED
  BY <1>1, <1>2

LEMMA NothingPinned == DOMAIN <<>> = {}
OBVIOUS

-----------------------------------------------------------------------------
\* A command is about its seed's workdir, and means something.
LEMMA OneWorkdir ==
    ASSUME VariantInv, NEW seed, NEW pins
    PROVE  Workdir(seed, pins)[1] = seed
BY DEF VariantInv, Workdir, Recorded, EnvName

LEMMA MeantResolves ==
    ASSUME NEW seed, NEW pins, NEW w, Resolvable(manifest, pins)
    PROVE  Resolvable(manifest, Meant(seed, pins, w))
BY DEF Meant

\* In a workdir whose state is live, it is the environment of that state but for its own pins.
LEMMA MeansTheState ==
    ASSUME VariantInv, NEW seed, NEW pins, NEW w \in DOMAIN state, state[w].live, w[1] = seed,
           Resolvable(manifest, pins)
    PROVE  /\ state[w].env = EnvName(seed, state[w].env[2])
           /\ Resolve(manifest, seed, Meant(seed, pins, w)) =
                [n \in DOMAIN state[w].env[2] |->
                    IF n \in DOMAIN pins THEN pins[n] ELSE state[w].env[2][n]]
<1> DEFINE built == Resolve(manifest, seed, state[w].pins)
<1>1. Resolvable(manifest, state[w].pins) /\ state[w].env = EnvName(seed, built)
  BY DEF VariantInv, BuiltAsRecorded
<1>2. state[w].env[2] = built /\ DOMAIN built = DOMAIN manifest
  BY <1>1 DEF EnvName, Resolve
<1>3. Meant(seed, pins, w) = Over(pins, state[w].pins)
  BY <1>1, OverResolvable DEF Meant
<1>4. Pinnable(manifest, pins)
  BY DEF Resolvable
<1>5. Resolve(manifest, seed, Over(pins, state[w].pins)) =
          [n \in DOMAIN manifest |-> IF n \in DOMAIN pins THEN pins[n] ELSE built[n]]
  BY <1>4, OverResolves
<1> HIDE DEF built
<1> QED
  BY <1>1, <1>2, <1>3, <1>5

\* With pins that do not contradict the state it is that very environment.
LEMMA EndsTheState ==
    ASSUME VariantInv, NEW seed, NEW pins, Resolvable(manifest, pins),
           Workdir(seed, pins) \in DOMAIN state, state[Workdir(seed, pins)].live,
           Agrees(pins, state[Workdir(seed, pins)].env)
    PROVE  Target(seed, pins) = state[Workdir(seed, pins)].env
<1> DEFINE w == Workdir(seed, pins)
           built == state[w].env[2]
<1>1. /\ state[w].env = EnvName(seed, built)
      /\ Resolve(manifest, seed, Meant(seed, pins, w)) =
           [n \in DOMAIN built |-> IF n \in DOMAIN pins THEN pins[n] ELSE built[n]]
  <2>1. w \in DOMAIN state /\ state[w].live /\ w[1] = seed
    BY OneWorkdir
  <2> HIDE DEF w
  <2> QED
    BY <2>1, MeansTheState
<1>2. \E f : built = Resolve(manifest, seed, f)
  <2>1. w[1] = seed
    BY OneWorkdir
  <2> HIDE DEF w
  <2> QED
    BY <2>1 DEF w, VariantInv, BuiltAsRecorded, EnvName
<1>3. built = [n \in DOMAIN built |-> built[n]]
  BY <1>2 DEF Resolve
<1>4. \A n \in DOMAIN built : n \in DOMAIN pins => pins[n] = built[n]
  BY DEF Agrees
<1> HIDE DEF built, w
<1>5. Resolve(manifest, seed, Meant(seed, pins, w)) = built
  BY <1>1, <1>3, <1>4
<1> QED
  BY <1>1, <1>5 DEF Target, w

\* What is stamped is no longer live, and nothing else changes.
LEMMA StampedIs ==
    ASSUME VariantInv, NEW w, NEW purge \in BOOLEAN, Stamped(w, purge)
    PROVE  /\ DOMAIN state' \subseteq DOMAIN state
           /\ \A x \in DOMAIN state : x # w => x \in DOMAIN state' /\ state'[x] = state[x]
           /\ \A x \in DOMAIN state' : "live" \in DOMAIN state'[x]
           /\ w \in DOMAIN state' => ~state'[w].live
BY DEF Stamped, VariantInv

-----------------------------------------------------------------------------
LEMMA VariantInvStep ==
    ASSUME VariantInv, [Next]_vars
    PROVE  VariantInv'
<1> DEFINE Recs == /\ DOMAIN rec \subseteq Seeds
                   /\ \A s \in DOMAIN rec : "workdir" \in DOMAIN rec[s] /\ rec[s].workdir[1] = s
           States == \A w \in DOMAIN state :
                        "live" \in DOMAIN state[w] /\ (state[w].live => BuiltAsRecorded(w))
           Envs == \A e \in envs : e.seed \in Seeds /\ e.name[1] = e.seed
<1>0. Recs /\ States /\ Envs /\ manifest \in Manifests
  BY DEF VariantInv
\* Building, recording, tearing down.
<1>b. ASSUME NEW seed \in Seeds, NEW pins, Resolvable(manifest, pins), Built(seed, pins),
             manifest' = manifest
      PROVE  States' /\ Envs'
  <2> DEFINE w == Workdir(seed, pins)
             meant == Meant(seed, pins, w)
             e == EnvName(seed, Resolve(manifest, seed, meant))
             r == [pins |-> meant, live |-> TRUE, env |-> e]
  <2>1. envs' = envs \union {[name |-> e, seed |-> seed]} /\ state' = Over([x \in {w} |-> r], state)
    BY <1>b DEF Built
  <2>2. w[1] = seed /\ Resolvable(manifest, meant) /\ e[1] = seed
    BY <1>b, OneWorkdir, MeantResolves DEF EnvName
  <2>3. r.pins = meant /\ r.env = EnvName(seed, Resolve(manifest, seed, meant)) /\ "live" \in DOMAIN r
    OBVIOUS
  <2> HIDE DEF w, meant, e, r
  <2>4. Envs'
    BY <1>0, <2>1, <2>2
  <2>5. ASSUME NEW x \in DOMAIN state' PROVE "live" \in DOMAIN state'[x] /\ (state'[x].live => BuiltAsRecorded(x)')
    <3>1. CASE x = w
      <4>1. state'[x] = r
        BY <2>1, <3>1 DEF Over
      <4> QED
        BY <1>b, <2>2, <2>3, <3>1, <4>1 DEF BuiltAsRecorded
    <3>2. CASE x # w
      <4>1. x \in DOMAIN state /\ state'[x] = state[x]
        BY <2>1, <2>5, <3>2 DEF Over
      <4> QED
        BY <1>0, <1>b, <4>1 DEF BuiltAsRecorded
    <3> QED
      BY <3>1, <3>2
  <2> QED
    BY <2>4, <2>5
<1>r. ASSUME NEW seed \in Seeds, NEW pins, RecordStart(seed, pins) PROVE Recs'
  <2> DEFINE r == [workdir |-> Workdir(seed, pins), ended |-> FALSE]
  <2>1. rec' = Over([s \in {seed} |-> r], rec)
    BY <1>r DEF RecordStart
  <2>2. "workdir" \in DOMAIN r /\ r.workdir[1] = seed
    BY OneWorkdir
  <2> HIDE DEF r
  <2>3. /\ DOMAIN rec' = DOMAIN rec \union {seed} /\ rec'[seed] = r
        /\ \A s \in DOMAIN rec : s # seed => rec'[s] = rec[s]
    BY <2>1 DEF Over
  <2> QED
    BY <1>0, <2>2, <2>3
<1>s. ASSUME NEW seed, NEW pins, NEW purge \in BOOLEAN, Stamped(Workdir(seed, pins), purge),
             manifest' = manifest
      PROVE  States'
  <2> DEFINE w == Workdir(seed, pins)
  <2>1. /\ DOMAIN state' \subseteq DOMAIN state
        /\ \A x \in DOMAIN state : x # w => x \in DOMAIN state' /\ state'[x] = state[x]
        /\ \A x \in DOMAIN state' : "live" \in DOMAIN state'[x]
        /\ w \in DOMAIN state' => ~state'[w].live
    BY <1>s, StampedIs
  <2> HIDE DEF w
  <2> QED
    BY <1>0, <1>s, <2>1 DEF BuiltAsRecorded
<1>d. ASSUME NEW name, TakeDown(name) PROVE Envs'
  BY <1>0, <1>d DEF TakeDown
<1>e. ASSUME NEW seed, Recorded(seed), rec' = [rec EXCEPT ![seed].ended = TRUE] PROVE Recs'
  <2>1. /\ DOMAIN rec' = DOMAIN rec /\ \A s \in DOMAIN rec : s # seed => rec'[s] = rec[s]
        /\ rec'[seed] = [rec[seed] EXCEPT !.ended = TRUE]
    BY <1>e DEF Recorded
  <2>2. "workdir" \in DOMAIN rec'[seed] /\ rec'[seed].workdir = rec[seed].workdir
    BY <1>0, <1>e, <2>1 DEF Recorded
  <2> QED
    BY <1>0, <2>1, <2>2
<1>1. CASE UNCHANGED vars
  BY <1>1 DEF vars, VariantInv, BuiltAsRecorded
<1>2. ASSUME NEW s \in Seeds, NEW p \in Pins, Start(s, p) PROVE VariantInv'
  BY <1>0, <1>2, <1>b, <1>r DEF Start, VariantInv
<1>3. ASSUME NEW s \in Seeds, NEW p \in Pins, StartFails(s, p) PROVE VariantInv'
  <2>1. Recs' /\ UNCHANGED <<manifest, state>>
    BY <1>3, <1>r DEF StartFails
  <2>2. Target(s, p)[1] = s
    BY DEF Target, EnvName
  <2>3. Envs'
    BY <1>0, <1>3, <2>2 DEF StartFails
  <2> QED
    BY <1>0, <2>1, <2>3 DEF VariantInv, BuiltAsRecorded
<1>4. ASSUME NEW s \in Seeds, NEW p \in Pins, EnvUp(s, p) PROVE VariantInv'
  BY <1>0, <1>4, <1>b DEF EnvUp, VariantInv
<1>5. ASSUME NEW s \in Seeds, NEW purge \in BOOLEAN, End(s, purge) PROVE VariantInv'
  BY <1>0, <1>5, <1>d, <1>e, <1>s DEF End, VariantInv
<1>6. ASSUME NEW s \in Seeds, NEW p \in Pins, NEW purge \in BOOLEAN, EnvDown(s, p, purge)
      PROVE  VariantInv'
  BY <1>0, <1>6, <1>d, <1>s DEF EnvDown, VariantInv
<1>7. CASE Edit
  BY <1>0, <1>7 DEF Edit, VariantInv
<1>8. ASSUME NEW s \in Seeds, Lose(s) PROVE VariantInv'
  BY <1>0, <1>8 DEF Lose, VariantInv, BuiltAsRecorded
<1> QED
  BY <1>1, <1>2, <1>3, <1>4, <1>5, <1>6, <1>7, <1>8 DEF Next

LEMMA VariantInvHolds == Spec => []VariantInv
<1>1. Init => VariantInv
  BY NothingPinned DEF Init, VariantInv
<1>2. VariantInv /\ [Next]_vars => VariantInv'
  BY VariantInvStep
<1> QED
  BY <1>1, <1>2, PTL DEF Spec

\* What is built has the parameters that the manifest declares, each choice among the values
\* it offers, over edits, lost records and failed starts.
THEOREM VariantTypeCorrect == Spec => []TypeOK
<1>1. VariantInv => TypeOK
  <2> SUFFICES ASSUME VariantInv PROVE TypeOK
    OBVIOUS
  <2>1. ASSUME NEW w \in DOMAIN state, state[w].live
        PROVE  LET built == state[w].env[2]
               IN  /\ DOMAIN built = DOMAIN manifest
                   /\ \A n \in DOMAIN built :
                       manifest[n].type = "choice" =>
                           built[n] \in Offered(manifest, n) \union {manifest[n].default}
    <3> DEFINE built == Resolve(manifest, w[1], state[w].pins)
    <3>1. w[1] \in Seeds /\ Resolvable(manifest, state[w].pins) /\ state[w].env = EnvName(w[1], built)
      BY <2>1 DEF VariantInv, BuiltAsRecorded
    <3>2. manifest \in Manifests
      BY DEF VariantInv
    <3>3. /\ DOMAIN built = DOMAIN manifest
          /\ \A n \in DOMAIN manifest : manifest[n].type = "choice" =>
                built[n] \in Offered(manifest, n) \union {manifest[n].default}
      BY <3>1, <3>2, ResolvedIsOffered
    <3> HIDE DEF built
    <3>4. state[w].env[2] = built
      BY <3>1 DEF EnvName
    <3> QED
      BY <3>3, <3>4
  <2> QED
    BY <2>1 DEF VariantInv, TypeOK
<1> QED
  BY <1>1, VariantInvHolds, PTL

\* For any manifest, pins and seeds a command on a live session means the environment that
\* was built for it, and its own --set changes the parameters it names and no other.
THEOREM CommandsMeanIt == Spec => []CommandsMeanTheSession
<1>1. VariantInv => CommandsMeanTheSession
  <2> SUFFICES ASSUME VariantInv, NEW s \in Seeds, NEW p \in Pins, Live(s), Resolvable(manifest, p)
               PROVE  LET built == state[rec[s].workdir].env[2]
                      IN  Target(s, p)[2] = [n \in DOMAIN built |-> IF n \in DOMAIN p THEN p[n] ELSE built[n]]
    BY DEF CommandsMeanTheSession
  <2> DEFINE w == rec[s].workdir
  <2>1. w \in DOMAIN state /\ state[w].live /\ w[1] = s /\ Workdir(s, p) = w
    BY DEF Live, Recorded, VariantInv, Workdir
  <2> HIDE DEF w
  <2>2. Resolve(manifest, s, Meant(s, p, w)) =
            [n \in DOMAIN state[w].env[2] |-> IF n \in DOMAIN p THEN p[n] ELSE state[w].env[2][n]]
    BY <2>1, MeansTheState
  <2>3. Target(s, p)[2] = Resolve(manifest, s, Meant(s, p, w))
    BY <2>1 DEF Target, EnvName
  <2> QED
    BY <2>2, <2>3 DEF w
<1> QED
  BY <1>1, VariantInvHolds, PTL

\* The stamp that says an environment is gone is put on, or its state purged, with an
\* environment of its name left by nothing but an env down whose own --set contradicts it.
THEOREM StampedIsGone == Spec => StampMeansGone
<1> DEFINE Contradicted(w) ==
        \E s \in Seeds, p \in Pins, purge \in BOOLEAN :
            EnvDown(s, p, purge) /\ ~Agrees(p, state[w].env)
<1>1. VariantInv /\ [Next]_vars
      => [\A w \in DOMAIN state :
             state[w].live /\ (w \notin DOMAIN state' \/ ~state'[w].live) =>
                 \/ \A e \in envs' : e.name # state[w].env
                 \/ Contradicted(w)]_vars
  <2> SUFFICES ASSUME VariantInv, Next, NEW w \in DOMAIN state, state[w].live,
                      w \notin DOMAIN state' \/ ~state'[w].live, ~Contradicted(w)
               PROVE  \A e \in envs' : e.name # state[w].env
    OBVIOUS
  <2>1. ASSUME NEW seed, NEW pins PROVE ~Built(seed, pins)
    <3> DEFINE x == Workdir(seed, pins)
               r == [pins |-> Meant(seed, pins, x), live |-> TRUE,
                     env |-> EnvName(seed, Resolve(manifest, seed, Meant(seed, pins, x)))]
    <3>1. Built(seed, pins) => state' = Over([y \in {x} |-> r], state)
      BY DEF Built
    <3>2. r.live
      OBVIOUS
    <3> HIDE DEF x, r
    <3> QED
      BY <3>1, <3>2 DEF Over
  <2>2. ASSUME NEW seed, NEW pins, NEW purge \in BOOLEAN, Resolvable(manifest, pins),
               TakeDown(Target(seed, pins)), Stamped(Workdir(seed, pins), purge),
               Agrees(pins, state[w].env)
        PROVE  \A e \in envs' : e.name # state[w].env
    <3>1. w = Workdir(seed, pins)
      BY <2>2, StampedIs
    <3>2. Target(seed, pins) = state[w].env
      BY <2>2, <3>1, EndsTheState
    <3> QED
      BY <2>2, <3>2 DEF TakeDown
  <2>3. ASSUME NEW s \in Seeds, NEW purge \in BOOLEAN, End(s, purge)
        PROVE  \A e \in envs' : e.name # state[w].env
    <3>1. Agrees(<<>>, state[w].env)
      BY NothingPinned DEF Agrees
    <3> QED
      BY <2>2, <2>3, <3>1 DEF End
  <2>4. ASSUME NEW s \in Seeds, NEW p \in Pins, NEW purge \in BOOLEAN, EnvDown(s, p, purge)
        PROVE  \A e \in envs' : e.name # state[w].env
    <3>1. Agrees(p, state[w].env)
      BY <2>4
    <3> QED
      BY <2>2, <2>4, <3>1 DEF EnvDown
  <2> QED
    BY <2>1, <2>3, <2>4 DEF Next, Start, StartFails, EnvUp, Edit, Lose
<1> QED
  BY <1>1, VariantInvHolds, PTL DEF Spec, StampMeansGone

-----------------------------------------------------------------------------
\* What a matcher's two positions stand for: the rest of the path is shared out over the
\* rest of the pattern.
Shares(g, p, i, j, a) ==
    /\ \A x, y \in j..Len(p) : x < y => a[x] <= a[y]
    /\ \A x \in j..Len(p) : g[a[x]] \in {"*", "**", p[x]}
    /\ \A k \in i..Len(g) : g[k] # "**" =>
        \E x \in j..Len(p) : a[x] = k /\ \A y \in j..Len(p) : a[y] = k => y = x

FitsFrom(g, p, i, j) == \E a \in [j..Len(p) -> i..Len(g)] : Shares(g, p, i, j, a)

LEMMA FitsIsFromStart ==
    ASSUME NEW g \in Seq(Names), NEW p \in Seq(Names)
    PROVE  Fits(g, p) <=> FitsFrom(g, p, 1, 1)
<1>1. DOMAIN g = 1..Len(g) /\ DOMAIN p = 1..Len(p)
  OBVIOUS
<1> QED
  BY <1>1 DEF Fits, FitsFrom, Shares

LEMMA NothingLeftFits ==
    ASSUME NEW g \in Seq(Names), NEW p \in Seq(Names), NEW j \in 1..Len(p) + 1
    PROVE  FitsFrom(g, p, Len(g) + 1, j) <=> j > Len(p)
<1>1. ASSUME j > Len(p) PROVE FitsFrom(g, p, Len(g) + 1, j)
  <2>1. j..Len(p) = {} /\ (Len(g) + 1)..Len(g) = {}
    BY <1>1
  <2>2. [x \in {} |-> 0] \in [j..Len(p) -> (Len(g) + 1)..Len(g)]
    BY <2>1
  <2> QED
    BY <2>1, <2>2 DEF FitsFrom, Shares
<1>2. ASSUME FitsFrom(g, p, Len(g) + 1, j), j <= Len(p) PROVE FALSE
  <2>1. j \in j..Len(p) /\ (Len(g) + 1)..Len(g) = {}
    BY <1>2
  <2> QED
    BY <1>2, <2>1 DEF FitsFrom
<1> QED
  BY <1>1, <1>2

LEMMA StarsFit ==
    ASSUME NEW g \in Seq(Names), NEW p \in Seq(Names), NEW i \in 1..Len(g),
           NEW j \in 1..Len(p) + 1, g[i] = "**"
    PROVE  FitsFrom(g, p, i, j)
           <=> FitsFrom(g, p, i + 1, j) \/ (j <= Len(p) /\ FitsFrom(g, p, i, j + 1))
<1>1. ASSUME FitsFrom(g, p, i + 1, j) PROVE FitsFrom(g, p, i, j)
  <2>1. PICK a \in [j..Len(p) -> (i + 1)..Len(g)] : Shares(g, p, i + 1, j, a)
    BY <1>1 DEF FitsFrom
  <2>2. a \in [j..Len(p) -> i..Len(g)]
    BY <2>1
  <2>3. Shares(g, p, i, j, a)
    BY <2>1 DEF Shares
  <2> QED
    BY <2>2, <2>3 DEF FitsFrom
<1>2. ASSUME j <= Len(p), FitsFrom(g, p, i, j + 1) PROVE FitsFrom(g, p, i, j)
  <2>1. PICK b \in [(j + 1)..Len(p) -> i..Len(g)] : Shares(g, p, i, j + 1, b)
    BY <1>2 DEF FitsFrom
  <2> DEFINE a == [x \in j..Len(p) |-> IF x = j THEN i ELSE b[x]]
  <2>2. a \in [j..Len(p) -> i..Len(g)] /\ a[j] = i /\ \A x \in (j + 1)..Len(p) : a[x] = b[x]
    BY <1>2, <2>1
  <2> HIDE DEF a
  <2>3. \A x, y \in j..Len(p) : x < y => a[x] <= a[y]
    BY <2>1, <2>2 DEF Shares
  <2>4. \A x \in j..Len(p) : g[a[x]] \in {"*", "**", p[x]}
    BY <2>1, <2>2 DEF Shares
  <2>5. ASSUME NEW k \in i..Len(g), g[k] # "**"
        PROVE  \E x \in j..Len(p) : a[x] = k /\ \A y \in j..Len(p) : a[y] = k => y = x
    <3>1. PICK x \in (j + 1)..Len(p) :
              b[x] = k /\ \A y \in (j + 1)..Len(p) : b[y] = k => y = x
      BY <2>1, <2>5 DEF Shares
    <3> QED
      BY <2>2, <2>5, <3>1
  <2> QED
    BY <2>2, <2>3, <2>4, <2>5 DEF FitsFrom, Shares
<1>3. ASSUME FitsFrom(g, p, i, j), ~(j <= Len(p) /\ FitsFrom(g, p, i, j + 1))
      PROVE  FitsFrom(g, p, i + 1, j)
  <2>1. PICK a \in [j..Len(p) -> i..Len(g)] : Shares(g, p, i, j, a)
    BY <1>3 DEF FitsFrom
  <2>2. ASSUME NEW x \in j..Len(p), a[x] = i PROVE FALSE
    <3>1. a[j] = i /\ j <= Len(p)
      BY <2>1, <2>2 DEF Shares
    <3> DEFINE b == [y \in (j + 1)..Len(p) |-> a[y]]
    <3>2. b \in [(j + 1)..Len(p) -> i..Len(g)] /\ \A y \in (j + 1)..Len(p) : b[y] = a[y]
      BY <2>1
    <3> HIDE DEF b
    <3>3. ASSUME NEW k \in i..Len(g), g[k] # "**"
          PROVE  \E y \in (j + 1)..Len(p) : b[y] = k /\ \A z \in (j + 1)..Len(p) : b[z] = k => z = y
      <4>1. PICK y \in j..Len(p) : a[y] = k /\ \A z \in j..Len(p) : a[z] = k => z = y
        BY <2>1, <3>3 DEF Shares
      <4>2. y # j
        BY <3>1, <3>3, <4>1
      <4> QED
        BY <3>2, <4>1, <4>2
    <3>4. Shares(g, p, i, j + 1, b)
      BY <2>1, <3>2, <3>3 DEF Shares
    <3> QED
      BY <1>3, <3>1, <3>2, <3>4 DEF FitsFrom
  <2>3. a \in [j..Len(p) -> (i + 1)..Len(g)]
    BY <2>1, <2>2
  <2>4. Shares(g, p, i + 1, j, a)
    BY <2>1 DEF Shares
  <2> QED
    BY <2>3, <2>4 DEF FitsFrom
<1> QED
  BY <1>1, <1>2, <1>3

LEMMA SegmentFits ==
    ASSUME NEW g \in Seq(Names), NEW p \in Seq(Names), NEW i \in 1..Len(g),
           NEW j \in 1..Len(p) + 1, g[i] # "**"
    PROVE  FitsFrom(g, p, i, j)
           <=> j <= Len(p) /\ g[i] \in {"*", p[j]} /\ FitsFrom(g, p, i + 1, j + 1)
<1>1. ASSUME FitsFrom(g, p, i, j)
      PROVE  j <= Len(p) /\ g[i] \in {"*", p[j]} /\ FitsFrom(g, p, i + 1, j + 1)
  <2>1. PICK a \in [j..Len(p) -> i..Len(g)] : Shares(g, p, i, j, a)
    BY <1>1 DEF FitsFrom
  <2>2. PICK x \in j..Len(p) : a[x] = i /\ \A y \in j..Len(p) : a[y] = i => y = x
    BY <2>1 DEF Shares
  <2>3. j <= Len(p) /\ j \in j..Len(p)
    BY <2>2
  <2>4. a[j] <= a[x] /\ a[j] \in i..Len(g)
    BY <2>1, <2>2, <2>3 DEF Shares
  <2>5. x = j
    BY <2>2, <2>3, <2>4
  <2>6. g[i] \in {"*", p[j]}
    BY <2>1, <2>2, <2>3, <2>5 DEF Shares
  <2> DEFINE b == [y \in (j + 1)..Len(p) |-> a[y]]
  <2>7. ASSUME NEW y \in (j + 1)..Len(p) PROVE a[y] \in (i + 1)..Len(g)
    <3>1. a[y] \in i..Len(g) /\ a[y] # i
      BY <2>1, <2>2, <2>3, <2>5, <2>7
    <3> QED
      BY <3>1
  <2>8. b \in [(j + 1)..Len(p) -> (i + 1)..Len(g)] /\ \A y \in (j + 1)..Len(p) : b[y] = a[y]
    BY <2>7
  <2> HIDE DEF b
  <2>9. ASSUME NEW k \in (i + 1)..Len(g), g[k] # "**"
        PROVE  \E y \in (j + 1)..Len(p) : b[y] = k /\ \A z \in (j + 1)..Len(p) : b[z] = k => z = y
    <3>1. PICK y \in j..Len(p) : a[y] = k /\ \A z \in j..Len(p) : a[z] = k => z = y
      BY <2>1, <2>9 DEF Shares
    <3>2. y # j
      BY <2>2, <2>5, <2>9, <3>1
    <3> QED
      BY <2>8, <3>1, <3>2
  <2>10. Shares(g, p, i + 1, j + 1, b)
    BY <2>1, <2>8, <2>9 DEF Shares
  <2> QED
    BY <2>3, <2>6, <2>8, <2>10 DEF FitsFrom
<1>2. ASSUME j <= Len(p), g[i] \in {"*", p[j]}, FitsFrom(g, p, i + 1, j + 1)
      PROVE  FitsFrom(g, p, i, j)
  <2>1. PICK b \in [(j + 1)..Len(p) -> (i + 1)..Len(g)] : Shares(g, p, i + 1, j + 1, b)
    BY <1>2 DEF FitsFrom
  <2> DEFINE a == [x \in j..Len(p) |-> IF x = j THEN i ELSE b[x]]
  <2>2. a \in [j..Len(p) -> i..Len(g)] /\ a[j] = i
        /\ \A x \in (j + 1)..Len(p) : a[x] = b[x] /\ a[x] \in (i + 1)..Len(g)
    BY <1>2, <2>1
  <2> HIDE DEF a
  <2>3. \A x, y \in j..Len(p) : x < y => a[x] <= a[y]
    BY <2>1, <2>2 DEF Shares
  <2>4. \A x \in j..Len(p) : g[a[x]] \in {"*", "**", p[x]}
    BY <1>2, <2>1, <2>2 DEF Shares
  <2>5. ASSUME NEW k \in i..Len(g), g[k] # "**"
        PROVE  \E x \in j..Len(p) : a[x] = k /\ \A y \in j..Len(p) : a[y] = k => y = x
    <3>1. CASE k = i
      <4>1. \A y \in j..Len(p) : a[y] = i => y = j
        BY <2>2
      <4> QED
        BY <1>2, <2>2, <3>1, <4>1
    <3>2. CASE k # i
      <4>1. PICK x \in (j + 1)..Len(p) :
                b[x] = k /\ \A y \in (j + 1)..Len(p) : b[y] = k => y = x
        BY <2>1, <2>5, <3>2 DEF Shares
      <4> QED
        BY <2>2, <2>5, <3>2, <4>1
    <3> QED
      BY <3>1, <3>2
  <2> QED
    BY <2>2, <2>3, <2>4, <2>5 DEF FitsFrom, Shares
<1> QED
  BY <1>1, <1>2

Spots(g, p) == (1..Len(g) + 1) \X (1..Len(p) + 1)

Rule(g, p, f, at) ==
    IF at[1] > Len(g) THEN at[2] > Len(p)
    ELSE IF g[at[1]] = "**"
         THEN f[<<at[1] + 1, at[2]>>] \/ (at[2] <= Len(p) /\ f[<<at[1], at[2] + 1>>])
         ELSE at[2] <= Len(p) /\ g[at[1]] \in {"*", p[at[2]]} /\ f[<<at[1] + 1, at[2] + 1>>]

Tabulated(g, p, f) == f = [at \in Spots(g, p) |-> Rule(g, p, f, at)]

LEMMA MatchIsTabulated ==
    ASSUME NEW g, NEW p
    PROVE  Match(g, p) = (CHOOSE f : Tabulated(g, p, f))[<<1, 1>>]
BY DEF Match, Tabulated, Rule, Spots


\* What the recursion computes from a spot on depends on the table at later spots only.
LEMMA RuleIsFits ==
    ASSUME NEW g \in Seq(Names), NEW p \in Seq(Names),
           NEW i \in 1..Len(g) + 1, NEW j \in 1..Len(p) + 1, NEW f,
           \A x \in 1..Len(g) + 1, y \in 1..Len(p) + 1 : x + y > i + j =>
               f[<<x, y>>] = FitsFrom(g, p, x, y)
    PROVE  Rule(g, p, f, <<i, j>>) = FitsFrom(g, p, i, j)
<1>0. Len(g) \in Nat /\ Len(p) \in Nat
  OBVIOUS
<1>1. CASE i > Len(g)
  <2>1. i = Len(g) + 1
    BY <1>0, <1>1
  <2>2. FitsFrom(g, p, i, j) <=> j > Len(p)
    BY <2>1, NothingLeftFits
  <2>3. ASSUME j > Len(p) PROVE Rule(g, p, f, <<i, j>>) = TRUE /\ FitsFrom(g, p, i, j) = TRUE
    BY <1>1, <2>2, <2>3 DEF Rule, FitsFrom
  <2>4. ASSUME ~(j > Len(p)) PROVE Rule(g, p, f, <<i, j>>) = FALSE /\ FitsFrom(g, p, i, j) = FALSE
    BY <1>1, <2>2, <2>4 DEF Rule, FitsFrom
  <2> QED
    BY <2>3, <2>4
<1>2. CASE i <= Len(g) /\ g[i] = "**"
  <2>1. f[<<i + 1, j>>] = FitsFrom(g, p, i + 1, j)
    BY <1>0, <1>2
  <2>2. j <= Len(p) => f[<<i, j + 1>>] = FitsFrom(g, p, i, j + 1)
    BY <1>0
  <2>3. Rule(g, p, f, <<i, j>>)
        = (FitsFrom(g, p, i + 1, j) \/ (j <= Len(p) /\ FitsFrom(g, p, i, j + 1)))
    BY <1>0, <1>2, <2>1, <2>2 DEF Rule
  <2>4. FitsFrom(g, p, i, j)
        <=> FitsFrom(g, p, i + 1, j) \/ (j <= Len(p) /\ FitsFrom(g, p, i, j + 1))
    BY <1>0, <1>2, StarsFit
  <2>5. FitsFrom(g, p, i, j)
        = (FitsFrom(g, p, i + 1, j) \/ (j <= Len(p) /\ FitsFrom(g, p, i, j + 1)))
    BY <2>4 DEF FitsFrom
  <2> QED
    BY <2>3, <2>5
<1>3. CASE i <= Len(g) /\ g[i] # "**"
  <2>1. ASSUME j <= Len(p) PROVE f[<<i + 1, j + 1>>] = FitsFrom(g, p, i + 1, j + 1)
    <3>1. i + 1 \in 1..Len(g) + 1 /\ j + 1 \in 1..Len(p) + 1 /\ (i + 1) + (j + 1) > i + j
      BY <1>0, <1>3, <2>1
    <3> QED
      BY <3>1
  <2>3. Rule(g, p, f, <<i, j>>)
        = (j <= Len(p) /\ g[i] \in {"*", p[j]} /\ FitsFrom(g, p, i + 1, j + 1))
    BY <1>0, <1>3, <2>1 DEF Rule
  <2>4. FitsFrom(g, p, i, j)
        <=> (j <= Len(p) /\ g[i] \in {"*", p[j]} /\ FitsFrom(g, p, i + 1, j + 1))
    BY <1>0, <1>3, SegmentFits
  <2>5. FitsFrom(g, p, i, j)
        = (j <= Len(p) /\ g[i] \in {"*", p[j]} /\ FitsFrom(g, p, i + 1, j + 1))
    BY <2>4 DEF FitsFrom
  <2> QED
    BY <2>3, <2>5
<1> QED
  BY <1>0, <1>1, <1>2, <1>3

LEMMA TableIsFits ==
    ASSUME NEW g \in Seq(Names), NEW p \in Seq(Names), NEW f, Tabulated(g, p, f)
    PROVE  \A i \in 1..Len(g) + 1, j \in 1..Len(p) + 1 : f[<<i, j>>] = FitsFrom(g, p, i, j)
<1> DEFINE Differs(i, j) == i \in 1..Len(g) + 1 /\ j \in 1..Len(p) + 1
                            /\ f[<<i, j>>] # FitsFrom(g, p, i, j)
           Left(i, j) == Len(g) + Len(p) + 2 - i - j
           Open == {n \in Nat : \E i \in 1..Len(g) + 1, j \in 1..Len(p) + 1 :
                                    Differs(i, j) /\ n = Left(i, j)}
<1>0. Len(g) \in Nat /\ Len(p) \in Nat
  OBVIOUS
<1>1. ASSUME NEW n \in Open PROVE \E m \in Open : m < n
  <2>1. PICK i \in 1..Len(g) + 1, j \in 1..Len(p) + 1 : Differs(i, j) /\ n = Left(i, j)
    OBVIOUS
  <2>2. f[<<i, j>>] = Rule(g, p, f, <<i, j>>)
    BY DEF Tabulated, Spots
  <2>3. PICK x \in 1..Len(g) + 1, y \in 1..Len(p) + 1 : x + y > i + j /\ Differs(x, y)
    <3>1. Rule(g, p, f, <<i, j>>) # FitsFrom(g, p, i, j)
      BY <2>1, <2>2
    <3> SUFFICES ASSUME \A x \in 1..Len(g) + 1, y \in 1..Len(p) + 1 :
                            x + y > i + j => f[<<x, y>>] = FitsFrom(g, p, x, y)
                 PROVE  FALSE
      OBVIOUS
    <3> QED
      BY <3>1, RuleIsFits
  <2>4. Left(x, y) \in Nat /\ Left(x, y) < Left(i, j)
    BY <1>0, <2>3
  <2>5. Left(x, y) \in Open
    BY <2>3, <2>4
  <2> QED
    BY <2>1, <2>4, <2>5
<1>2. Open = {}
  <2> SUFFICES ASSUME Open # {} PROVE FALSE
    OBVIOUS
  <2>0. Open \subseteq Nat
    OBVIOUS
  <2> HIDE DEF Open
  <2>1. PICK n \in Open : \A m \in Open : ~(<<m, n>> \in OpToRel(<, Nat))
    BY <2>0, NatLessThanWellFounded, WFMin
  <2>2. PICK m \in Open : m < n
    BY <1>1
  <2>3. <<m, n>> \in OpToRel(<, Nat)
    BY <2>0, <2>2, Zenon DEF OpToRel
  <2> QED
    BY <2>1, <2>3
<1> QED
  <2> SUFFICES ASSUME NEW i \in 1..Len(g) + 1, NEW j \in 1..Len(p) + 1, Differs(i, j) PROVE FALSE
    OBVIOUS
  <2>1. Left(i, j) \in Nat
    BY <1>0
  <2>2. Left(i, j) \in Open
    BY <2>1
  <2> QED
    BY <1>2, <2>2

LEMMA TableExists ==
    ASSUME NEW g \in Seq(Names), NEW p \in Seq(Names)
    PROVE  \E f : Tabulated(g, p, f)
<1> DEFINE f == [at \in Spots(g, p) |-> FitsFrom(g, p, at[1], at[2])]
<1>1. \A x \in 1..Len(g) + 1, y \in 1..Len(p) + 1 : f[<<x, y>>] = FitsFrom(g, p, x, y)
  BY DEF Spots
<1>2. ASSUME NEW at \in Spots(g, p) PROVE FitsFrom(g, p, at[1], at[2]) = Rule(g, p, f, at)
  <2>1. PICK i \in 1..Len(g) + 1, j \in 1..Len(p) + 1 : at = <<i, j>>
    BY DEF Spots
  <2> HIDE DEF f
  <2>2. Rule(g, p, f, <<i, j>>) = FitsFrom(g, p, i, j)
    BY <1>1, RuleIsFits
  <2> QED
    BY <2>1, <2>2
<1>3. f = [at \in Spots(g, p) |-> Rule(g, p, f, at)]
  BY <1>2
<1> QED
  BY <1>3 DEF Tabulated

\* A glob's recursive matcher (matchSegs) says of a path what its reader understands.
LEMMA MatchIsFits ==
    ASSUME NEW g \in Seq(Names), NEW p \in Seq(Names)
    PROVE  Match(g, p) <=> Fits(g, p)
<1> DEFINE f == CHOOSE h : Tabulated(g, p, h)
<1>1. Tabulated(g, p, f)
  BY TableExists
<1>2. Match(g, p) = f[<<1, 1>>]
  BY MatchIsTabulated
<1> HIDE DEF f
<1>3. f[<<1, 1>>] = FitsFrom(g, p, 1, 1)
  <2>1. 1 \in 1..Len(g) + 1 /\ 1 \in 1..Len(p) + 1
    OBVIOUS
  <2> QED
    BY <1>1, <2>1, TableIsFits
<1> QED
  BY <1>2, <1>3, FitsIsFromStart

-----------------------------------------------------------------------------
\* The gate does not look into .git, where git has made a repository of the drop.  Content
\* is kept in git, which tracks no file under that name.
NoRepositoryInside == \A t \in Trees : \A p \in DOMAIN t : p[1] # ".git"

DropTypes ==
    /\ \A p \in DOMAIN tree : p \in Paths
    /\ \A g \in globs : g \in Paths
    /\ gitInit \in BOOLEAN /\ recorded \in BOOLEAN
    /\ drop = [kind |-> drop.kind, files |-> drop.files]
    /\ cmd \in [pc : {"idle", "files", "git", "gate", "tar", "save"},
                tar : BOOLEAN, todo : SUBSET Paths]
    /\ changes \in Nat /\ kills \in Nat

\* Where a drop is made: beside the output path, or in it, and only while it is made.
Assembling == cmd.pc \in {"files", "git", "gate", "tar"}
Placed ==
    /\ Assembling /\ cmd.tar => drop = NoDrop
    /\ ~(Assembling /\ cmd.tar) => temp = Nothing
    /\ cmd.pc \in {"files", "git", "gate"} /\ ~cmd.tar => drop.kind = "dir"
    /\ cmd.pc = "tar" => cmd.tar
    /\ cmd.pc # "idle" => ~recorded

\* What the gate does not look into is git's own.
Known(p) == p \in Paths /\ (NoRepositoryInside /\ p[1] = ".git" => p = GitHead)
Written ==
    /\ NoRepositoryInside => \A p \in DOMAIN tree : p[1] # ".git"
    /\ NoRepositoryInside /\ cmd.pc = "files" => \A p \in cmd.todo : p[1] # ".git"
    /\ Assembling => \A p \in DOMAIN Dir : Known(p)

Safe(files) ==
    NoRepositoryInside => \A p \in DOMAIN files : p \notin {About, GitHead} => Publishable(p) /\ files[p] = "plain"
Gated ==
    /\ cmd.pc = "tar" => Safe(temp)
    /\ cmd.pc = "save" => Safe(drop.files)
    /\ recorded \/ drop.kind = "tar" => Safe(drop.files)

\* Nothing of what there was to write is forgotten.
Whole(files) ==
    /\ Brief \in DOMAIN files /\ About \in DOMAIN files
    /\ gitInit => GitHead \in DOMAIN files
    /\ changes = 0 => \A p \in DOMAIN tree : Publishable(p) => p \in DOMAIN files
Kept ==
    /\ cmd.pc = "files" =>
        /\ Brief \in cmd.todo \union DOMAIN Dir
        /\ changes = 0 =>
            \A p \in DOMAIN tree : Publishable(p) => p \in cmd.todo \union DOMAIN Dir
    /\ cmd.pc = "git" =>
        /\ {Brief, About} \subseteq DOMAIN Dir
        /\ changes = 0 => \A p \in DOMAIN tree : Publishable(p) => p \in DOMAIN Dir
    /\ cmd.pc \in {"gate", "tar"} => Whole(Dir)
    /\ cmd.pc = "save" => Whole(drop.files)
    /\ cmd.pc = "idle" /\ kills = 0 /\ drop # NoDrop => Whole(drop.files)

DropInv == DropTypes /\ Placed /\ Written /\ Gated /\ Kept

LEMMA VisibleIsPublishable ==
    ASSUME DropTypes, NEW p \in Paths, NEW kind
    PROVE  /\ Visible(p, kind) => Publishable(p)
           /\ Publishable(p) /\ ~Irregular(p, kind) /\ (\A g \in globs : Compiles(g))
              => Visible(p, kind)
<1>0. p \in Seq(Names) /\ \A g \in globs : g \in Seq(Names)
  BY DEF Paths, DropTypes
<1>1. \A g \in globs : Match(g, p) <=> Fits(g, p)
  BY <1>0, MatchIsFits
<1>2. ASSUME Visible(p, kind) PROVE Publishable(p)
  <2>1. \E g \in globs : Match(g, p)
    BY <1>2 DEF Visible, Classifier
  <2>2. \A i \in DOMAIN p : p[i] \notin Foreign /\ Folds(p[i]) \notin ProtectedDirs
    BY <1>2 DEF Visible, Irregular, Protected, IsProtectedName
  <2>3. Len(p) = 1 => Folds(p[1]) \notin ProtectedFiles
    BY <1>2 DEF Visible, Protected, IsProtectedName
  <2> QED
    BY <1>1, <2>1, <2>2, <2>3 DEF Publishable
<1>3. ASSUME Publishable(p), ~Irregular(p, kind), \A g \in globs : Compiles(g)
      PROVE  Visible(p, kind)
  <2>1. Classifier = globs
    BY <1>3 DEF Classifier
  <2>2. \E g \in Classifier : Match(g, p)
    BY <1>1, <1>3, <2>1 DEF Publishable
  <2>3. Len(p) = 1 => 1 \in DOMAIN p
    BY <1>0
  <2>4. ~Protected(p)
    BY <1>3, <2>3 DEF Publishable, Protected, IsProtectedName
  <2> QED
    BY <1>3, <2>2, <2>4 DEF Visible
<1> QED
  BY <1>2, <1>3

LEMMA GateIsSafe ==
    ASSUME DropTypes, Gate, \A p \in DOMAIN Dir : Known(p)
    PROVE  Safe(Dir)
<1> SUFFICES ASSUME NoRepositoryInside, NEW p \in DOMAIN Dir, p \notin {About, GitHead}
             PROVE  Publishable(p) /\ Dir[p] = "plain"
  BY DEF Safe
<1>1. p \in Paths /\ p[1] # ".git"
  BY DEF Known
<1>2. Visible(p, "regular") /\ Dir[p] = "plain"
  BY <1>1 DEF Gate
<1> QED
  BY <1>1, <1>2, VisibleIsPublishable

LEMMA PublishableStays ==
    ASSUME UNCHANGED globs PROVE \A p : Publishable(p)' <=> Publishable(p)
BY DEF Publishable

LEMMA SpecialPaths ==
    /\ Brief \in Paths /\ About \in Paths /\ GitHead \in Paths
    /\ Brief[1] # ".git" /\ About[1] # ".git"
    /\ Known(About) /\ Known(GitHead)
<1>1. Brief \in Seq(Names) /\ About \in Seq(Names) /\ GitHead \in Seq(Names)
  <2>1. Brief \in [1..2 -> Names] /\ About \in [1..1 -> Names] /\ GitHead \in [1..2 -> Names]
    BY BundleAssumption DEF Brief, About, GitHead
  <2> QED
    BY <2>1, SeqDef
<1>2. Len(Brief) # 0 /\ Len(About) # 0 /\ Len(GitHead) # 0
  BY DEF Brief, About, GitHead
<1>3. Brief # <<>> /\ About # <<>> /\ GitHead # <<>>
  BY <1>2
<1>4. Brief[1] # ".git" /\ About[1] # ".git"
  BY DEF Brief, About
<1> QED
  BY <1>1, <1>3, <1>4 DEF Paths, Known

LEMMA DropInvInit ==
    ASSUME BundleInit PROVE DropInv
<1> USE DEF BundleInit, NoDrop, Idle
<1>1. DropTypes
  BY BundleAssumption DEF DropTypes
<1>2. Placed /\ Gated
  BY DEF Placed, Assembling, Gated
<1>3. Written
  BY DEF Written, Assembling, NoRepositoryInside
<1>4. Kept
  BY DEF Kept
<1> QED
  BY <1>1, <1>2, <1>3, <1>4 DEF DropInv

LEMMA BeginKeeps ==
    ASSUME DropInv, NEW tar \in BOOLEAN, Begin(tar) PROVE DropInv'
<1> USE DEF DropInv
<1>1. /\ cmd.pc = "idle" /\ ~recorded /\ Validates /\ Available(tar)
      /\ cmd' = [pc |-> "files", tar |-> tar, todo |-> ScanCandidate]
      /\ drop' = IF tar THEN drop ELSE EmptyDir
      /\ temp' = temp /\ recorded' = recorded
      /\ UNCHANGED <<tree, globs, pinned, gitInit, errors, changes, kills>>
  BY DEF Begin, Undisturbed, Problem
<1>2. temp = Nothing
  BY <1>1 DEF Placed, Assembling
<1>3. ScanCandidate \subseteq DOMAIN tree /\ ScanCandidate \subseteq Paths
  BY DEF ScanCandidate, DropTypes
<1>4. DOMAIN Nothing = {}
  BY DEF Nothing
<1>5. Dir' = Nothing
  BY <1>1, <1>2 DEF Dir, EmptyDir
<1>6. DropTypes'
  BY <1>1, <1>3 DEF DropTypes, EmptyDir, NoDrop
<1>7. Placed'
  BY <1>1, <1>2 DEF Placed, Assembling, EmptyDir, Available
<1>8. Written'
  BY <1>1, <1>3, <1>4, <1>5 DEF Written, Assembling
<1>9. Gated'
  <2>1. drop'.kind # "tar"
    BY <1>1 DEF EmptyDir, NoDrop, Available
  <2> QED
    BY <1>1, <2>1 DEF Gated
<1>10. Kept'
  <2>1. \A p \in DOMAIN tree : Publishable(p) => p \in ScanCandidate
    BY <1>1, VisibleIsPublishable DEF Validates, ScanCandidate, DropTypes
  <2>2. \A p : Publishable(p)' <=> Publishable(p)
    BY <1>1, PublishableStays
  <2>3. Brief \in ScanCandidate
    BY <1>1 DEF Validates
  <2> QED
    BY <1>1, <2>1, <2>2, <2>3 DEF Kept
<1> QED
  BY <1>6, <1>7, <1>8, <1>9, <1>10


LEMMA ProblemStays ==
    ASSUME UNCHANGED Problem
    PROVE  \A p : Publishable(p)' <=> Publishable(p)
BY DEF Problem, Publishable

\* A file is put into the drop: one that was due, the front page, or git's.
LEMMA PutKeeps ==
    ASSUME DropInv, Undisturbed, UNCHANGED recorded,
           NEW path, Known(path), NEW body, Assembled(Put(path, body)),
           NEW to \in {"files", "git", "gate"}, NEW left \in SUBSET cmd.todo,
           cmd.pc \in {"files", "git"}, cmd' = [cmd EXCEPT !.pc = to, !.todo = left],
           \A p \in cmd.todo : p \in left \/ p = path,
           to = "files" => cmd.pc = "files",
           to = "git" => cmd.pc = "files" /\ path = About /\ cmd.todo = {},
           to = "gate" => \/ cmd.pc = "files" /\ path = About /\ cmd.todo = {} /\ ~gitInit
                          \/ cmd.pc = "git" /\ path = GitHead
    PROVE  DropInv'
<1> USE DEF DropInv, Undisturbed
<1>1. cmd'.pc = to /\ cmd'.tar = cmd.tar /\ cmd'.todo = left /\ UNCHANGED Problem
      /\ cmd' \in [pc : {"idle", "files", "git", "gate", "tar", "save"},
                   tar : BOOLEAN, todo : SUBSET Paths]
  BY DEF DropTypes
<1>2. IF cmd.tar THEN temp' = Put(path, body) /\ drop' = drop
                 ELSE /\ drop' = [kind |-> drop.kind, files |-> Put(path, body)]
                      /\ temp' = temp
  BY DEF Assembled, DropTypes
<1>3. Dir' = Put(path, body)
  BY <1>1, <1>2 DEF Dir
<1>4. DOMAIN Dir' = DOMAIN Dir \union {path}
  BY <1>3 DEF Put
<1>5. DropTypes'
  BY <1>1, <1>2 DEF DropTypes, Problem
<1>6. Placed'
  BY <1>1, <1>2 DEF Placed, Assembling
<1>7. Written'
  BY <1>1, <1>4 DEF Written, Assembling, Problem
<1>8. Gated'
  <2>1. drop'.kind # "tar" /\ ~recorded'
    BY <1>2 DEF Placed, Assembling, NoDrop
  <2> QED
    BY <1>1, <2>1 DEF Gated
<1>9. Kept'
  <2>1. \A p : Publishable(p)' <=> Publishable(p)
    BY <1>1, ProblemStays
  <2>2. tree' = tree /\ gitInit' = gitInit /\ changes' = changes
    BY DEF Problem
  <2>3. CASE to = "files"
    BY <1>1, <1>4, <2>1, <2>2, <2>3 DEF Kept
  <2>4. CASE to = "git"
    BY <1>1, <1>4, <2>1, <2>2, <2>4 DEF Kept
  <2>5. CASE to = "gate"
    <3>1. Whole(Dir)'
      BY <1>1, <1>4, <2>1, <2>2, <2>5 DEF Kept, Whole
    <3> QED
      BY <1>1, <2>5, <3>1 DEF Kept
  <2> QED
    BY <2>3, <2>4, <2>5
<1> QED
  BY <1>5, <1>6, <1>7, <1>8, <1>9

LEMMA WritesKeep ==
    ASSUME DropInv, (\E p \in cmd.todo : WriteFile(p)) \/ WriteAbout \/ GitInit
    PROVE  DropInv'
<1>0. cmd \in [pc : {"idle", "files", "git", "gate", "tar", "save"},
               tar : BOOLEAN, todo : SUBSET Paths]
  BY DEF DropInv, DropTypes
<1>1. ASSUME NEW p \in cmd.todo, WriteFile(p) PROVE DropInv'
  <2>1. Known(p) /\ cmd.pc = "files"
    BY <1>0, <1>1 DEF WriteFile, DropInv, Written, Known
  <2>2. cmd' = [cmd EXCEPT !.pc = "files", !.todo = cmd.todo \ {p}]
    BY <1>0, <1>1, <2>1 DEF WriteFile
  <2>3. Undisturbed /\ UNCHANGED recorded /\ Assembled(Put(p, Rendered(p)))
    BY <1>1 DEF WriteFile
  <2>4. \A q \in cmd.todo : q \in cmd.todo \ {p} \/ q = p
    OBVIOUS
  <2>5. cmd.todo \ {p} \in SUBSET cmd.todo
    OBVIOUS
  <2> QED
    BY <2>1, <2>2, <2>3, <2>4, <2>5, PutKeeps
<1>2. CASE WriteAbout
  <2>1. cmd.pc = "files" /\ cmd.todo = {} /\ gitInit \in BOOLEAN
    BY <1>2 DEF WriteAbout, DropInv, DropTypes
  <2>2. Undisturbed /\ UNCHANGED recorded /\ Assembled(Put(About, "plain"))
    BY <1>2 DEF WriteAbout
  <2>3. CASE gitInit
    <3>1. cmd' = [cmd EXCEPT !.pc = "git", !.todo = {}]
      BY <1>0, <1>2, <2>1, <2>3 DEF WriteAbout
    <3> QED
      BY <2>1, <2>2, <3>1, SpecialPaths, PutKeeps
  <2>4. CASE ~gitInit
    <3>1. cmd' = [cmd EXCEPT !.pc = "gate", !.todo = {}]
      BY <1>0, <1>2, <2>1, <2>4 DEF WriteAbout
    <3> QED
      BY <2>1, <2>2, <2>4, <3>1, SpecialPaths, PutKeeps
  <2> QED
    BY <2>3, <2>4
<1>3. CASE GitInit
  <2>1. cmd.pc = "git"
    BY <1>3 DEF GitInit
  <2>2. cmd' = [cmd EXCEPT !.pc = "gate", !.todo = cmd.todo]
    BY <1>0, <1>3 DEF GitInit
  <2>3. Undisturbed /\ UNCHANGED recorded /\ Assembled(Put(GitHead, "plain"))
    BY <1>3 DEF GitInit
  <2> QED
    BY <2>1, <2>2, <2>3, SpecialPaths, PutKeeps
<1> QED
  BY <1>1, <1>2, <1>3

LEMMA PublishedKeeps ==
    ASSUME DropInv, GatePasses \/ WriteTarball \/ Save
    PROVE  DropInv'
<1> USE DEF DropInv
<1>0. cmd \in [pc : {"idle", "files", "git", "gate", "tar", "save"},
               tar : BOOLEAN, todo : SUBSET Paths]
  BY DEF DropTypes
<1>1. UNCHANGED <<Problem, changes, kills>>
  BY DEF GatePasses, WriteTarball, Save, Undisturbed
<1>p. /\ \A p : Publishable(p)' <=> Publishable(p)
      /\ tree' = tree /\ globs' = globs /\ gitInit' = gitInit
  BY <1>1, ProblemStays DEF Problem
<1>2. CASE GatePasses
  <2>1. /\ cmd.pc = "gate" /\ UNCHANGED <<temp, drop, recorded>> /\ Gate
        /\ cmd' = [pc |-> IF cmd.tar THEN "tar" ELSE "save", tar |-> cmd.tar, todo |-> cmd.todo]
    BY <1>0, <1>2 DEF GatePasses
  <2>2. Safe(Dir) /\ Whole(Dir)
    <3>1. \A p \in DOMAIN Dir : Known(p)
      BY <2>1 DEF Written, Assembling
    <3> QED
      BY <2>1, <3>1, GateIsSafe DEF Kept
  <2>3. Dir' = Dir
    BY <2>1 DEF Dir
  <2>4. DropTypes'
    BY <1>0, <1>1, <1>p, <2>1 DEF DropTypes
  <2>5. Placed'
    BY <2>1 DEF Placed, Assembling
  <2>6. Written'
    BY <1>p, <2>1, <2>3 DEF Written, Assembling
  <2>7. Dir = IF cmd.tar THEN temp ELSE drop.files
    BY DEF Dir
  <2>8. Gated'
    BY <1>p, <2>1, <2>2, <2>7 DEF Gated, Safe
  <2>9. Kept'
    BY <1>1, <1>p, <2>1, <2>2, <2>3, <2>7 DEF Kept, Whole
  <2> QED
    BY <2>1, <2>4, <2>5, <2>6, <2>8, <2>9
<1>3. CASE WriteTarball
  <2>1. /\ cmd.pc = "tar" /\ cmd.tar /\ temp' = Nothing /\ recorded' = recorded /\ ~recorded
        /\ drop' = [kind |-> "tar", files |-> temp]
        /\ cmd' = [pc |-> "save", tar |-> cmd.tar, todo |-> cmd.todo]
    BY <1>0, <1>3 DEF WriteTarball, Placed
  <2>2. Safe(temp) /\ Whole(temp)
    BY <2>1 DEF Gated, Kept, Dir
  <2>4. DropTypes'
    BY <1>0, <1>1, <1>p, <2>1 DEF DropTypes
  <2>5. Placed' /\ Written'
    BY <1>p, <2>1 DEF Placed, Assembling, Written
  <2>8. Gated'
    BY <1>p, <2>1, <2>2 DEF Gated, Safe
  <2>9. Kept'
    BY <1>1, <1>p, <2>1, <2>2 DEF Kept, Whole
  <2> QED
    BY <2>1, <2>4, <2>5, <2>8, <2>9
<1>4. CASE Save
  <2>1. /\ cmd.pc = "save" /\ recorded' = TRUE /\ cmd' = Idle /\ UNCHANGED <<temp, drop>>
        /\ Idle.pc = "idle" /\ Idle.tar = FALSE /\ Idle.todo = {}
    BY <1>4 DEF Save, Idle
  <2>2. Safe(drop.files) /\ Whole(drop.files) /\ temp = Nothing
    BY <2>1 DEF Gated, Kept, Placed, Assembling
  <2>4. DropTypes'
    BY <1>1, <1>p, <2>1 DEF DropTypes, Idle
  <2>5. Placed' /\ Written'
    BY <1>p, <2>1, <2>2 DEF Placed, Assembling, Written
  <2>8. Gated'
    BY <1>p, <2>1, <2>2 DEF Gated, Safe
  <2>9. Kept'
    BY <1>1, <1>p, <2>1, <2>2 DEF Kept, Whole
  <2> QED
    BY <2>1, <2>4, <2>5, <2>8, <2>9
<1> QED
  BY <1>2, <1>3, <1>4

\* What is left when a bundle stops short is nothing, all that was due, or a killed one's part.
LEMMA StopsKeep ==
    ASSUME DropInv, Refused \/ Fails \/ Killed \/ ClearOutput
    PROVE  DropInv'
<1> USE DEF DropInv
<1>0. Idle.pc = "idle" /\ Idle.tar = FALSE /\ Idle.todo = {} /\ NoDrop.kind = "none"
      /\ NoDrop.files = Nothing /\ DOMAIN Nothing = {} /\ NoDrop = [kind |-> "none", files |-> Nothing]
  BY DEF Idle, NoDrop, Nothing
<1>1. UNCHANGED <<Problem, changes, recorded>>
  BY DEF Refused, Fails, Killed, ClearOutput, Undisturbed
<1>p. /\ \A p : Publishable(p)' <=> Publishable(p)
      /\ tree' = tree /\ globs' = globs /\ gitInit' = gitInit
  BY <1>1, ProblemStays DEF Problem
<1>2. /\ cmd'.pc = "idle" /\ temp' = Nothing /\ kills' \in Nat
      /\ cmd' \in [pc : {"idle", "files", "git", "gate", "tar", "save"},
                   tar : BOOLEAN, todo : SUBSET Paths]
  <2>1. CASE Refused \/ Fails \/ Killed
    <3>1. cmd' = Idle /\ temp' = Nothing
      BY <2>1 DEF Refused, Fails, Killed, Cleans
    <3>2. kills' \in {kills, kills + 1}
      BY <2>1 DEF Refused, Fails, Killed, Undisturbed
    <3> QED
      BY <1>0, <3>1, <3>2 DEF DropTypes, Idle
  <2>2. CASE ClearOutput
    BY <2>2 DEF ClearOutput, Undisturbed, DropTypes, Placed, Assembling
  <2> QED
    BY <2>1, <2>2
<1>3. \/ drop' = NoDrop /\ ~recorded
      \/ drop' = drop /\ (kills' # 0 \/ cmd.pc = "save")
      \/ /\ kills' # 0 /\ cmd.pc = "tar"
         /\ \E done \in SUBSET DOMAIN temp :
              drop' = [kind |-> "tar", files |-> [p \in done |-> temp[p]]]
  <2>1. CASE Refused \/ Fails
    BY <2>1 DEF Refused, Fails, Cleans, Placed
  <2>2. CASE Killed
    BY <2>2 DEF Killed, DropTypes
  <2>3. CASE ClearOutput
    BY <2>3 DEF ClearOutput
  <2> QED
    BY <2>1, <2>2, <2>3
<1>4. DropTypes'
  <2>1. drop' = [kind |-> drop'.kind, files |-> drop'.files]
    BY <1>0, <1>3 DEF DropTypes
  <2>2. changes' \in Nat /\ recorded' \in BOOLEAN
    BY <1>1 DEF DropTypes
  <2> QED
    BY <1>2, <1>p, <2>1, <2>2 DEF DropTypes
<1>5. Placed' /\ Written'
  BY <1>2, <1>p DEF Placed, Written, Assembling
<1>6. Gated'
  <2>1. recorded' \/ drop'.kind = "tar" => Safe(drop.files)'
    <3>1. CASE drop' = NoDrop /\ ~recorded
      BY <1>0, <1>1, <3>1
    <3>2. CASE drop' = drop
      BY <1>1, <1>p, <3>2 DEF Gated, Safe
    <3>3. ASSUME cmd.pc = "tar", NEW done \in SUBSET DOMAIN temp,
                 drop' = [kind |-> "tar", files |-> [p \in done |-> temp[p]]]
          PROVE  Safe(drop.files)'
      BY <1>p, <3>3 DEF Gated, Safe
    <3> QED
      BY <1>3, <3>1, <3>2, <3>3
  <2> QED
    BY <1>2, <2>1 DEF Gated
<1>7. Kept'
  <2>1. ASSUME kills' = 0, drop' # NoDrop PROVE Whole(drop.files)'
    <3>1. drop' = drop /\ cmd.pc = "save"
      BY <1>3, <2>1
    <3> QED
      BY <1>1, <1>p, <3>1 DEF Kept, Whole
  <2> QED
    BY <1>0, <1>2, <2>1 DEF Kept, NoDrop
<1> QED
  BY <1>2, <1>4, <1>5, <1>6, <1>7

\* After an edit the tree is not what was validated; what is written is as it was.
LEMMA EditKeeps ==
    ASSUME DropInv, NEW path \in DOMAIN tree \union {Brief}, EditContent(path)
    PROVE  DropInv'
<1> USE DEF DropInv
<1>1. /\ UNCHANGED <<globs, pinned, gitInit, temp, drop, recorded, cmd, errors, kills>>
      /\ changes' = changes + 1 /\ changes' # 0 /\ changes' \in Nat
  BY DEF EditContent, DropTypes
<1>2. DOMAIN tree' \subseteq DOMAIN tree \union {Brief}
  BY DEF EditContent
<1>3. \A p : Publishable(p)' <=> Publishable(p)
  BY <1>1, PublishableStays
<1>4. Dir' = Dir
  BY <1>1 DEF Dir
<1>5. DropTypes'
  BY <1>1, <1>2, SpecialPaths DEF DropTypes
<1>6. Placed'
  BY <1>1 DEF Placed, Assembling
<1>7. Written'
  BY <1>1, <1>2, <1>4, SpecialPaths DEF Written, Assembling
<1>8. Gated'
  BY <1>1, <1>3 DEF Gated, Safe
<1>9. Kept'
  BY <1>1, <1>4 DEF Kept, Whole
<1> QED
  BY <1>1, <1>5, <1>6, <1>7, <1>8, <1>9

LEMMA RestKeeps == DropInv /\ UNCHANGED bundleVars => DropInv'
<1> SUFFICES ASSUME DropInv, UNCHANGED bundleVars PROVE DropInv'
  OBVIOUS
<1> USE DEF DropInv, bundleVars
<1>1. Dir' = Dir /\ UNCHANGED Problem
  BY DEF Dir, Problem
<1>2. \A p : Publishable(p)' <=> Publishable(p)
  BY <1>1, ProblemStays
<1>3. DropTypes' /\ Placed' /\ Written'
  BY <1>1 DEF DropTypes, Placed, Written, Assembling
<1>4. Gated'
  BY <1>2 DEF Gated, Safe
<1>5. Kept'
  BY <1>1, <1>2 DEF Kept, Whole
<1> QED
  BY <1>3, <1>4, <1>5

LEMMA DropInvHolds == BundleSpec => []DropInv
<1>1. BundleInit => DropInv
  BY DropInvInit
<1>2. DropInv /\ [BundleNext]_bundleVars => DropInv'
  BY BeginKeeps, WritesKeep, PublishedKeeps, StopsKeep, EditKeeps, RestKeeps DEF BundleNext
<1> QED
  BY <1>1, <1>2, PTL DEF BundleSpec

-----------------------------------------------------------------------------
\* Of a problem whose directory holds no repository, what is in a recorded drop or in a
\* tarball, a killed one's part included, is visible, under no interviewer's name, and
\* without a hole or a marker: leak.Visible's matcher means what a glob's reader takes it
\* to mean, and the gate reads what is delivered, not what was validated.
THEOREM CandidateDropIsSafe ==
    ASSUME NoRepositoryInside PROVE BundleSpec => []OnlyTheCandidatesLeaves
<1>1. DropInv => OnlyTheCandidatesLeaves
  BY DEF DropInv, Gated, Safe, OnlyTheCandidatesLeaves
<1> QED
  BY <1>1, DropInvHolds, PTL

\* deliver leaves nothing on an error, or the whole drop when only the registry could not be
\* written: the brief, the front page, the repository it was to be and, unless the content
\* was edited meanwhile, every file that is the candidate's.
THEOREM NoPartIsLeft == BundleSpec => []NothingPartialStays
<1>1. ASSUME DropInv PROVE NothingPartialStays
  <2>1. temp # Nothing => cmd.tar /\ drop = NoDrop
    BY <1>1 DEF DropInv, Placed
  <2>2. ASSUME cmd.pc = "idle", kills = 0, drop # NoDrop PROVE Whole(drop.files)
    BY <1>1, <2>2 DEF DropInv, Kept
  <2> QED
    BY <1>1, <2>1, <2>2 DEF NothingPartialStays, Whole
<1> QED
  BY <1>1, DropInvHolds, PTL
=============================================================================
