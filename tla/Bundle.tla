------------------------------- MODULE Bundle -------------------------------
(***************************************************************************)
(* The candidate drop: what of a problem a candidate may see               *)
(* (internal/leak), the linter that reads it beforehand and the renderer   *)
(* (internal/variant), the drop's assembly and the gate it has to pass     *)
(* (internal/bundle), and `bundle` itself (deliver in internal/cli).       *)
(*                                                                         *)
(* One problem and one output path.  A path is the sequence of its         *)
(* segments; of a file's text only what the linter, the renderer and the   *)
(* gate tell apart is kept.  The marker of the current interview, which    *)
(* deliver sets last, is in Registry.                                      *)
(***************************************************************************)
EXTENDS Naturals, Sequences, SequencesExt

CONSTANTS
    Names,          \* what a segment of a path, or of a glob, may be
    Trees,          \* problem directories there may be: path -> file
    GlobLists,      \* and what their manifests may make candidate-visible
    Rewrites,       \* what an edit may make of a file
    Binary,         \* last segments with an extension that is not rendered
    Foreign,        \* segments that are not plain ASCII
    Folded,         \* segment -> the protected name it spells in other case
    MaxErrors,      \* bound on what fails
    MaxChanges,     \* bound on edits beside a running bundle
    MaxKills        \* bound on kills

Brief == <<"candidate", "brief.md">>
About == <<"ABOUT.md">>
GitHead == <<".git", "HEAD">>

\* A hole names a declared parameter; a typo does not parse, or names an undeclared one where
\* the linter looks; a trap lints and does not execute.  A marker names a protected directory.
Bodies == {"plain", "hole", "typo", "trap", "marker"}
Files == [kind : {"regular", "link"}, body : Bodies]

\* From the problem's directory; a glob is one, clean and relative, with its wildcards.
Paths == Seq(Names) \ {<<>>}

ASSUME BundleAssumption ==
    /\ {"candidate", "brief.md", "ABOUT.md", ".git", "HEAD"} \subseteq Names
    /\ \A t \in Trees : DOMAIN t \subseteq Paths /\ \A p \in DOMAIN t : t[p] \in Files
    /\ \A gs \in GlobLists : gs \subseteq Paths
    /\ Rewrites \subseteq Files
    /\ {MaxErrors, MaxChanges, MaxKills} \subseteq Nat

VARIABLES
    tree,           \* the problem's directory
    globs,          \* its manifest's candidate globs
    pinned,         \* the text its parameter resolves to
    gitInit,        \* whether drops of its type are repositories
    temp,           \* the directory a tarball is assembled in
    drop,           \* what is at the output path: nothing, a directory, a tarball
    recorded,       \* the session of a drop is in the registry
    cmd,            \* the running bundle: where it is, and the files it has yet to write
    errors, changes, kills

bundleVars == <<tree, globs, pinned, gitInit, temp, drop, recorded, cmd, errors, changes, kills>>

Nothing == <<>>
NoDrop == [kind |-> "none", files |-> Nothing]
EmptyDir == [kind |-> "dir", files |-> Nothing]
Idle == [pc |-> "idle", tar |-> FALSE, todo |-> {}]

BundleInit ==
    /\ tree \in Trees /\ globs \in GlobLists
    /\ pinned \in {"plain", "marker"} /\ gitInit \in BOOLEAN
    /\ temp = Nothing /\ drop = NoDrop /\ recorded = FALSE
    /\ cmd = Idle
    /\ errors = 0 /\ changes = 0 /\ kills = 0

----------------------------------------------------------------------------
\* What a candidate may see.

ProtectedDirs == {"interviewer", "faults"}
ProtectedFiles == {"problem.yaml", "env.yaml", "review.yaml"}

Folds(seg) == IF seg \in DOMAIN Folded THEN Folded[seg] ELSE seg
IsProtectedName(seg, names) == seg \in Foreign \/ Folds(seg) \in names

Protected(path) ==
    \/ \E i \in DOMAIN path : IsProtectedName(path[i], ProtectedDirs)
    \/ Len(path) = 1 /\ IsProtectedName(path[1], ProtectedFiles)

\* matchSegs, pattern and path from positions at[1] and at[2] on.
Match(pattern, path) ==
    LET f[at \in (1..Len(pattern) + 1) \X (1..Len(path) + 1)] ==
            LET i == at[1]
                j == at[2]
            IN  IF i > Len(pattern) THEN j > Len(path)
                ELSE IF pattern[i] = "**"
                     THEN f[<<i + 1, j>>] \/ (j <= Len(path) /\ f[<<i, j + 1>>])
                     ELSE j <= Len(path) /\ pattern[i] \in {"*", path[j]} /\ f[<<i + 1, j + 1>>]
    IN  f[<<1, 1>>]

\* NewClassifier refuses a glob that names a protected directory; then nothing is visible.
Compiles(glob) == \A i \in DOMAIN glob : ~IsProtectedName(glob[i], ProtectedDirs)
Classifier == IF \A g \in globs : Compiles(g) THEN globs ELSE {}

Irregular(path, kind) == kind # "regular" \/ \E i \in DOMAIN path : path[i] \in Foreign

Visible(path, kind) ==
    /\ ~Irregular(path, kind) /\ ~Protected(path)
    /\ \E g \in Classifier : Match(g, path)

ScanCandidate == {p \in DOMAIN tree : Visible(p, tree[p].kind)}

----------------------------------------------------------------------------
\* What its text becomes.

IsTemplated(path) == Last(path) \notin Binary

\* CheckTemplates reads the first name of each field reference ({{.name...}}), no more.
Lints(path) == IsTemplated(path) => tree[path].body # "typo"

\* Execute stops at more: a field of what is a string or a number, a name reached through $,
\* a template that is not defined, an index out of range.
Renders(path) == IsTemplated(path) => tree[path].body \notin {"typo", "trap"}

Rendered(path) ==
    IF IsTemplated(path) /\ tree[path].body = "hole" THEN pinned ELSE tree[path].body

\* Validation of the problem as it is loaded.
Validates ==
    /\ \A g \in globs : Compiles(g)
    /\ Brief \in ScanCandidate
    /\ \A p \in DOMAIN tree : ~Irregular(p, tree[p].kind)
    /\ \A p \in ScanCandidate : Lints(p)

----------------------------------------------------------------------------
\* The assembly, in the output directory or, for a tarball, beside it.

Dir == IF cmd.tar THEN temp ELSE drop.files

\* What dir becomes, the output path with it unless there is a tarball to be made.
Assembled(files) ==
    IF cmd.tar THEN temp' = files /\ UNCHANGED drop
    ELSE drop' = [drop EXCEPT !.files = files] /\ UNCHANGED temp

Put(path, body) == [p \in DOMAIN Dir \union {path} |-> IF p = path THEN body ELSE Dir[p]]

Problem == <<tree, globs, pinned, gitInit>>
Undisturbed == UNCHANGED <<Problem, errors, changes, kills>>

\* An output that exists is left as it is, an empty directory is as good as none.
Available(tar) == drop = NoDrop \/ (~tar /\ drop = EmptyDir)

Begin(tar) ==
    /\ cmd.pc = "idle" /\ ~recorded
    /\ Validates /\ Available(tar)
    /\ cmd' = [pc |-> "files", tar |-> tar, todo |-> ScanCandidate]
    /\ drop' = IF tar THEN drop ELSE EmptyDir
    /\ UNCHANGED <<temp, recorded>> /\ Undisturbed

\* A file is read when its turn comes, from the tree as it then is.
WriteFile(path) ==
    /\ cmd.pc = "files" /\ path \in cmd.todo \intersect DOMAIN tree /\ Renders(path)
    /\ Assembled(Put(path, Rendered(path)))
    /\ cmd' = [cmd EXCEPT !.todo = @ \ {path}]
    /\ UNCHANGED recorded /\ Undisturbed

\* The front page goes over a file of its name; then git, for a repository.
WriteAbout ==
    /\ cmd.pc = "files" /\ cmd.todo = {}
    /\ Assembled(Put(About, "plain"))
    /\ cmd' = [cmd EXCEPT !.pc = IF gitInit THEN "git" ELSE "gate"]
    /\ UNCHANGED recorded /\ Undisturbed

GitInit ==
    /\ cmd.pc = "git"
    /\ Assembled(Put(GitHead, "plain"))
    /\ cmd' = [cmd EXCEPT !.pc = "gate"]
    /\ UNCHANGED recorded /\ Undisturbed

\* Plausible bug: what is visible is let through whatever it says.
GateOnPaths == \A p \in DOMAIN Dir : p = About \/ p[1] = ".git" \/ Visible(p, "regular")

\* checkGate: of the finished tree, with the problem's own classifier, and every file
\* outside .git is read for a marker or a hole that is left.
Gate ==
    \A p \in DOMAIN Dir :
        \/ p[1] = ".git"
        \/ (p = About \/ Visible(p, "regular")) /\ Dir[p] = "plain"

GatePasses ==
    /\ cmd.pc = "gate" /\ Gate
    /\ cmd' = [cmd EXCEPT !.pc = IF cmd.tar THEN "tar" ELSE "save"]
    /\ UNCHANGED <<temp, drop, recorded>> /\ Undisturbed

WriteTarball ==
    /\ cmd.pc = "tar"
    /\ drop' = [kind |-> "tar", files |-> temp]
    /\ temp' = Nothing
    /\ cmd' = [cmd EXCEPT !.pc = "save"]
    /\ UNCHANGED recorded /\ Undisturbed

Save ==
    /\ cmd.pc = "save"
    /\ recorded' = TRUE
    /\ cmd' = Idle
    /\ UNCHANGED <<temp, drop>> /\ Undisturbed

----------------------------------------------------------------------------
\* What goes wrong.

\* Plausible bug: only a directory that the gate refused is removed.
CleansAfterGate == drop' = (IF cmd.pc = "gate" THEN NoDrop ELSE drop) /\ temp' = Nothing

\* The output goes with any error in its making, and stays when it cannot be recorded.
Cleans ==
    /\ drop' = IF cmd.pc = "save" THEN drop ELSE NoDrop
    /\ temp' = Nothing

\* A file that is gone or does not render, and what the gate refuses.
Refused ==
    /\ \/ cmd.pc = "files" /\ \E p \in cmd.todo : ~(p \in DOMAIN tree /\ Renders(p))
       \/ cmd.pc = "gate" /\ ~Gate
    /\ Cleans /\ cmd' = Idle
    /\ UNCHANGED recorded /\ Undisturbed

Fails ==
    /\ cmd.pc # "idle" /\ errors < MaxErrors
    /\ errors' = errors + 1
    /\ Cleans /\ cmd' = Idle
    /\ UNCHANGED <<Problem, recorded, changes, kills>>

\* A killed bundle leaves what it had written, a tarball as far as it had come; what was
\* beside it is nobody's any more.
Killed ==
    /\ cmd.pc # "idle" /\ kills < MaxKills
    /\ kills' = kills + 1
    /\ \/ UNCHANGED drop
       \/ cmd.pc = "tar" /\ \E done \in SUBSET DOMAIN temp :
            drop' = [kind |-> "tar", files |-> [p \in done |-> temp[p]]]
    /\ cmd' = Idle /\ temp' = Nothing
    /\ UNCHANGED <<Problem, recorded, errors, changes>>

\* The interviewer removes what is in the way and was not handed out.
ClearOutput ==
    /\ cmd.pc = "idle" /\ ~recorded /\ drop # NoDrop
    /\ drop' = NoDrop
    /\ UNCHANGED <<temp, recorded, cmd>> /\ Undisturbed

\* The author saves a file, adds one or removes it, beside a running bundle or not.
EditContent(path) ==
    /\ changes < MaxChanges /\ changes' = changes + 1
    /\ \/ path \in DOMAIN tree /\ tree' = [p \in DOMAIN tree \ {path} |-> tree[p]]
       \/ \E f \in Rewrites :
            tree' = [p \in DOMAIN tree \union {path} |-> IF p = path THEN f ELSE tree[p]]
    /\ UNCHANGED <<globs, pinned, gitInit, temp, drop, recorded, cmd, errors, kills>>

BundleNext ==
    \/ \E tar \in BOOLEAN : Begin(tar)
    \/ \E p \in cmd.todo : WriteFile(p)
    \/ WriteAbout \/ GitInit \/ GatePasses \/ WriteTarball \/ Save
    \/ Refused \/ Fails \/ Killed \/ ClearOutput
    \/ \E p \in DOMAIN tree \union {Brief} : EditContent(p)

BundleSpec == BundleInit /\ [][BundleNext]_bundleVars

----------------------------------------------------------------------------
\* Properties.

\* A glob as its reader understands it: the segments of the path are shared out over the
\* pattern's in order, each to one that fits, one for each that is not "**".
Fits(glob, path) ==
    \E at \in [DOMAIN path -> DOMAIN glob] :
        /\ \A i, j \in DOMAIN path : i < j => at[i] <= at[j]
        /\ \A i \in DOMAIN path : glob[at[i]] \in {"*", "**", path[i]}
        /\ \A k \in DOMAIN glob : glob[k] # "**" =>
            \E i \in DOMAIN path : at[i] = k /\ \A j \in DOMAIN path : at[j] = k => j = i

\* The candidate's: said visible, and neither in nor called what is the interviewer's.
Publishable(path) ==
    /\ \E g \in globs : Fits(g, path)
    /\ \A i \in DOMAIN path : path[i] \notin Foreign /\ Folds(path[i]) \notin ProtectedDirs
    /\ Len(path) = 1 => Folds(path[1]) \notin ProtectedFiles

\* What is in a recorded drop, or in a tarball however far its writing came, is the
\* candidate's and says nothing of the interviewer's: whatever was edited since the
\* problem was validated, and whatever was pinned into its text.
OnlyTheCandidatesLeaves ==
    recorded \/ drop.kind = "tar" =>
        \A p \in DOMAIN drop.files \ {About, GitHead} :
            Publishable(p) /\ drop.files[p] = "plain"

\* An error leaves nothing, or the whole drop that could not be recorded, and nothing
\* beside it: a part of one is left by a kill only.
NothingPartialStays ==
    /\ temp # Nothing => cmd.tar /\ drop = NoDrop
    /\ cmd.pc = "idle" /\ kills = 0 /\ drop # NoDrop =>
        /\ {Brief, About} \union (IF gitInit THEN {GitHead} ELSE {}) \subseteq DOMAIN drop.files
        /\ changes = 0 => {p \in DOMAIN tree : Publishable(p)} \subseteq DOMAIN drop.files
=============================================================================
