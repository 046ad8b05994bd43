# A specification of `interviews`

`interviews` runs technical interviews: it builds a broken environment (a kind
cluster or a compose project), opens a recorded terminal on it for a candidate
and an observer, takes the evidence of what happened, grades it, and tears the
environment down, on the interviewer's machine or on a host it provisions. All of
it is one Go program whose commands are processes of their own. They share
files, an environment and the ports of a host, and almost nothing keeps two
of them apart; a command lasts minutes, can fail anywhere in them, and can be
killed. That is where the program is hard to test, and what these modules are
about.

## Inventory

| Part | State it keeps | Operations | What makes it correct |
|---|---|---|---|
| Hint ledger (`internal/grading/score.go`, `internal/fileio`) | `hints.json`, `hints.json.lock` | `hint`, `grade hint` | two hints at once cost none; a failed one is not in the ledger; a wait ends |
| Debugging engine (`internal/debug/engine.go`, `kind.go`, `compose.go`) | the substrate, `state.json`, the workdir | `env up`, `break`, `fix`, `env down`, `status` | the record names every fault that is in the environment; teardown keeps record and evidence |
| Session registry (`internal/interview`, `internal/cli`) | a record per interview, the `current` marker | `start`, `end`, `bundle`, `sent`, `returned`, `reviewed` | whatever bills or runs has a record of its kind; none is ended over what its own files name; an ended interview is not current |
| Session manager (`internal/session/session.go`) | tmux session, background processes, pidfiles, `session.json` | `session start`, `session stop` | every process can be found and killed; a URL leads to this session; the recorder's log accuses nobody falsely |
| Recorder (`recorderScript`) | casts, gap log | supervised restart | a kill costs seconds and is logged; a bundle's segments have their line in the log |
| Evidence and timeline (`evidence.go`, `timeline.go`, host timers) | `score.json`, `evidence.tar.gz`, `timeline.jsonl` | pass, tick | the last good bundle survives a failed pass; the final score is of the environment before teardown |
| Provisioned hosts (`cli/remote.go`, `discover.go`, `setup.go`, `provision.sh`) | terraform state and lock, the bucket, the host | `start --remote`, `end`, adoption | no host without a name; a destroy can be retried from any machine |
| Reaper (`infra/aws/account/reaper`) | instances, roles, profiles | a sweep every fifteen minutes | nothing in use goes; everything expired goes in the end |
| Prove gate (`debug/prove.go`, `cli/debug.go`) | an environment of its own | `prove` | passes only for content whose faults break and whose fixes fix |
| Red team (`redteam`, `cli/redteam.go`) | an environment of its own, the ledger | `redteam` | a verdict is about the problem and not about a run that failed |
| Variants (`variant`, `cli/common.go`) | pins in `state.json`, the names of environments and workdirs | `--set`, every command that takes a seed | a command means the environment that was built |
| Candidate drops (`leak`, `bundle`, `variant/lint.go`, `content/validate.go`) | the output path, a temporary directory | `validate`, `bundle` | nothing of the interviewer's leaves; no part of a drop stays |
| Session listing (`cli/interview.go`, `cli/discover.go`) | none; reads records, workdirs, the account | `sessions` | what bills or is stuck is at the top, once |
| Grading, content, taxonomy, provenance, kubeconfig, proxy, setup, doctor, printing | none that changes | | |

How they interact. `start` records the interview in the registry, marks it
current, runs the engine's Up and Break, and the session manager's Start;
`end` runs Stop (which takes the last evidence pass), Down, records the end and
clears the marker. The engine's `state.json` is what session start, evidence,
the timeline and grading read to learn what environment they are over. The
evidence timer and the timeline run beside all of this every two minutes and
every thirty seconds. `hint` finds its workdir through the registry's marker. A
provisioned host runs the same engine and manager under systemd, and its record
lives on the interviewer's machine, while what terraform made for it is named by
a state in the bucket, which any machine can lock and read; the reaper knows
neither and goes by tags and age. `prove` and `redteam` drive the same engine
unattended, each under a seed of its own. `bundle` makes a drop from the same
content that `prove` proves, and records it as an interview.

What is hard. Concurrency of processes with read-modify-write of whole files
(ledger, state, record, marker, bundle); slow external calls between a read and
the write that depends on it; failure and kills between two steps whose order
matters (build and record, spawn and pidfile, inject and save, destroy and
stamp, role out of a profile and deletion); terraforms on two machines, stopped or
killed past a bound; names that later commands must derive again from less than
the first one knew; pids and ports that belong to the host and not to a session; a
candidate who may end anything on their side of the account split. The hazards,
one by one and with the line where each bites, are in `PROJECT.json`.

## Modules

| Module | Models | Checked by | Proved in |
|---|---|---|---|
| `HintLedger` | what a ledger promises: atomic append, truthful answers | the refinement of `Hints` | |
| `Hints` | `lockHints`, `AppendHint`, `WriteAtomic`, kills, the operator | `MCHints` | `HintsProofs` |
| `Engine` | `Up`, `Break`, `Fix`, `Down` and the world around them | `MCEngine` | `EngineProofs` |
| `Registry` | the commands that write records and the marker | `MCRegistry` | `RegistryProofs` |
| `Session` | `Manager.Start`, `Manager.Stop`, the processes they leave | `MCSession` | `SessionProofs` |
| `Recorder` | the loop of `recorderScript` and its files | as part of `Evidence` | |
| `Delivery` | what the evidence promises of a recording: it moves on, and never back | the refinement of `Evidence` | |
| `Evidence` | `Manager.Evidence`, `RefreshScore`, `bundle`, `TimelineTick`, what `end` does around them | `MCEvidence` | `EvidenceProofs` |
| `Reaper` | the account and the handler of the reaper | as part of `Remote` | |
| `Remote` | `startRemote`, `endRemote`, `adopt`, terraform, composed with `Reaper` | `MCRemote` | `RemoteProofs` |
| `Listing` | `cmdSessions`, `sessionState`, `reconcile` over the states of `Remote` | `MCRemote` | `RemoteProofs` |
| `Gate` | `Prove`, `cmdProve`, `redteam.Run` and its ledger, over the engine's operations | `MCGate` | `GateProofs` |
| `Variant` | `variant.Resolve`, `EnvName`, `resolveProblem` and `resolveTarget` under the commands | `MCVariant` | `ContentProofs` |
| `Bundle` | the leak classifier, the linter, the renderer, `deliver` and the bundle's gate | `MCBundle` | `ContentProofs` |

In each of these state machines a process (a command typed in a terminal) is
a program counter and what it holds in memory, and an action is a stretch of its
code that no other process can see the middle of: one file read, one file
written by rename, one external call. What a process read is in its own
variable (`read`, `snap`, `mem`, `cmd[p].mine`, `pass[p].read`), apart from the file, so that
what it writes later can be stale. The definitions marked *Plausible bug* are no part
of the specification; each takes the place of one definition to show that some
property would notice.

**Hints.** `ledger` is `hints.json`, `lock` the lockfile's existence. A writer
opens the lockfile with O_EXCL, loads, writes a temporary file, renames, and
unlocks in a deferred call; it can fail in each step, give up waiting, or be
killed with the lock held. `OperatorDeletesLock` is what the timeout's message
asks for, under the condition that message states. Two hints with one text are
two writers: a hint is identified with the process that logs it.

**Engine.** `up`, `present` and `landed` are the substrate: whether it exists,
which faults are in it, which were ever injected into it. `state` is
`state.json`: absent, live with its injected faults, or stamped torn down.
`files` is the rest of the workdir, by kind: the directory, what Up put there
(`engineOwned`), evidence. A scenario's scripts are abstracted to success or
failure, a failing one with or without effect; a fix may be partial; applying
manifests again may undo faults; the candidate repairs what they like. A workdir
belongs to one variant, so the pack is the same on every Up and the comparison
`prev.Pack == pack` is true. `Abort` is a killed command and also every error
return of an external call that is not an action of its own.

**HintLedger** is the promise: an append in one step, then the answer. `Hints`
implements it with `ledger` as itself and each writer's status read off its
program counter and result (`status`, `Abstract`).

**Registry.** `rec`, `marker` and `resource` are the session files, the
`current` file, and what exists in the world under each id. A record is its
mode, whether it has ended, and its stage. `start` and `startRemote` are one
set of actions, as are `cmdEnd` and `endRemote`: they save, mark, build and
save again, or tear down, save and clear, in the same order. What a command builds or
tears down is what it resolved when it began (`Resolved`): an environment of the seed
alone, or of a `--set` too, for which `saved` is what the workdir's `state.json` tells of;
or the host that terraform's state names. A build that is cut short (`CutShort`) leaves
nothing, an environment, one whose state is saved too, or a host that terraform did not save,
and a teardown takes what it was resolved to and no other. `Current`
is the resolution of an unqualified command. `Vanish` is the outside world: the
host's timer, the reaper, a person.

**Session.** `proc` maps a pid to what runs under it, `port` each listener's
port to the pid that has it, `tmux` holds the environments with a tmux session,
`pidfile` and `info` are the workdir. `Start` takes the code's order: look for
live pids, sweep, dial the ports, new-session, share, then for each process
spawn and, as a separate step, pidfile; then wait for both ports, look at the
recorder again, the app forwarder, `session.json`. Every failure leads to
`Cleanup`, except the ones the code lets pass (the local recorder, the app). The
listeners bind or exit in their own time, anything may die, a recorder that
finds no tmux session logs it (`accused` when the platform had ended it), and a
reboot frees every pid for others. Which problem listens is told apart by
environment; tokens, URLs and the scratch directory are data and left out.

**Recorder.** `cast` is the recording's files by number, each with the start
that wrote it, `n` the loop's counter, `log` its lines. The numbers begin at
`session.cast` again with every start, and the files of an earlier one are still
there. asciinema truncates its file or exits before it does; the candidate ends
its tmux client or the tmux server; the loop asks for the session, and then
whether the file it wrote is empty.

**Evidence** composes `Recorder` with the processes that read its files. `pass`
is a process: a pass of the timer, `grade score`, a timeline tick, `session stop`
or `end`, which share the code that reads the checks. A score is a reading of
each fault, fixed, broken or unread; `fixed` is what the candidate has in fact
repaired. `tmp` and `bundle` are names and `disk` the inodes under them, so that
two passes share the one temporary name as they do in a workdir: what a process
writes goes to the inode it opened, a rename takes whatever has the name, a remove
too. An archive is the members the properties speak of, whether it has its
trailer, and its only writer. Members are copied one by one, in the order of
`evidenceFiles`, while the recorder goes on. The bucket keeps of an archive
whether it is whole and the recording. `env` and `live` are the environment and
`state.json`, as in `Engine`; `destroy`, `stamp` and `record` are the teardown in
`end` with the order in which each can fail. Of a tick's rows only the moment
of the appending is kept. The candidate's directory, `skipped.txt`, the redacted
`session.json`, the pack and the end-to-end verify are data of the same archive and
score and left out.

**Delivery** is the promise of the above: what is recorded is bundled, and what is bundled
is delivered, as of some moment and at no later moment as of an earlier one. `Evidence`
implements it with `cast` as what is recorded, the recording in the whole archive under
`evidence.tar.gz` as what is bundled (`bundled`), and the bucket's as what is delivered.

**Reaper.** `cloud` is what exists in the account, each object with its kind and
the number of the start that made it; `uses` says which host has which profile and
which profile which role; `late` are the objects past their ttl, if hosts, or
past the age guard of a day. `reaper` is a run of the handler: it scans, terminates
the hosts past their ttl, running or stopped, reads the profiles in use in one pass of pages, and then
goes through the profiles and the roles one call at a time, deciding on each from that
reading and from its age. A call fails anywhere, and the run with it; the next starts
over. IAM refuses to delete what is in use (`Delete`), and forgets a use
with its user (`Gone`).

**Remote** composes `Reaper` with machines that share terraform's state and its lock.
A start records, opens, takes the lock, creates objects in terraform's order
(`Needs`), saves the outputs; an end destroys them in the reverse one. `tf` in
a command is what its terraform has made or destroyed and not yet saved: a terraform that
is interrupted saves and unlocks (`Exit`), one that is killed does neither
(`Killed`). `Stops` is a failed or bounded terraform, `ForceUnlock` what the message
of a failed end tells the operator to do. A machine without a record adopts from the
instances that are there (`Adoptable`).

**Listing** has no state of its own. `CmdSessions` and what it calls are functions of
records, instances and the time, translated from the code's and evaluated in
every state of `Remote`, on each machine, with each state an instance may be in, and
beside records and instances of other interviews (`BesideAssumption` says which). The
filters and the stable sort of the rows are one operator, `Arranged`: what is at some places
of a list, in the order of a key and of one key as it was. The constants of the code's
ranking are the numbers of `Rank`, so that `Waiting` is its comparison with the cutoff.

**Gate.** `scripts` is what each script of a problem is worth: an inject that
works, does nothing or fails, a fix that also may work only on its own, a check or
verify that is honest, always passes, always fails, speaks of any fault, or cannot
run; `survived` the faults that the app survives. `world` is the environment of each of
the two tasks, which a teardown that failed leaves to the next run. `run` goes through
Up, Verify, Break, each fault alone, the whole pack and the recovery for `prove`, and
through Break, the agent, Status and Verify for `redteam`; the agent removes any faults.
`Disturbed` is a check that fails for a reason of its own, which the code takes
for a broken app. `run.found` is an environment that Up found there, and `green` in
which of the two kinds, an environment of its own or one it found, the gate has
passed without a disturbed check.

**Variant.** `manifest` is the problem's parameters, `rec` a record's workdir,
`state` what `state.json` in a workdir remembers (the pins), `envs` what exists, by
name. A command resolves its seed with its own `--set` and with what it finds
recorded (`Meant`), and works on the name this gives; an `env down` then stamps the state of
its workdir, whatever environment it was about. What a seed draws is a
constant function; a hash is as good as what is hashed. A pin decides over what is recorded (`Over`), and a
default need not be among the values that are offered. A path or name that two seeds share is
not modelled.

**Bundle.** A problem's directory maps paths to files, a path being a sequence of
segments (`Names`) and a file's text what the tools tell apart: plain, a hole that renders, a typo that the
linter sees, a trap that only the renderer does, the name of a protected directory. `Begin`
validates and lists what is to be written; each file is then read again, rendered and
written, so that an edit can come between. The drop is assembled at the output path or, for
a tarball, in a temporary directory; then come the gate, the tarball's entries and the
record.

## What the runs check

Runs that pass:

| Run | Instance | Shows |
|---|---|---|
| `MCHints` | three writers, one kill | one writer at a time, every process returns, and the refinement of `HintLedger`, where an answer is true of the ledger |
| `MCEngineSerial` | one command at a time, three faults, two aborts | the record covers the environment but for the fault being injected; it never shrinks; teardown stays; a break that finishes has injected all |
| `MCRegistrySerial` | one terminal, four ids (local, local with and without a `--set`, provisioned, offline), two kills, builds and teardowns that fail midway | no record is ended over what `state.json` or terraform's state names, and without a `--set` over nothing but a host terraform did not save; a drop does not retarget |
| `MCSessionSerial` | one command at a time, a shared environment and a local one on one host, one fault (a kill, a failed pidfile write or a reboot) | at most one process per killed command escapes the pidfiles, the one it had just spawned; until a kill: the answer start waits for is its own, the recorder accuses nobody falsely, stop leaves nothing |
| `MCEvidence` | one process at a time, one start of the session, one mishap (a failed step or a kill) | the last good bundle stands, what is uploaded is whole, and a score that could not be refreshed is flagged; a numbered segment in a bundle has its line of the log; without a mishap, `end` leaves every segment in the bundle and the true verdict on each fault; an ended session is frozen; every segment reaches the bucket in the end, and neither bundle nor bucket goes back to less of the recording (the refinement of `Delivery`) |
| `MCRemote` | two machines, one start, a failed and a killed command, beside the reaper | a terraform works only under its lock; what exists is in terraform's state until a kill, and while the state names anything a record is open; every machine's listing shows the trouble it can know of first, once by its record or once for each host; the reaper leaves a host its profile and the profile its role; hosts, profiles and roles go in the end, though nobody runs `end` |
| `MCGate` | every problem of two faults with up to two defects, two runs of either task, one failure | what the gate passes is proved; of a problem it passes, the ledger says too easy only after a repair, holds only of a run that left the app down, and neither of one that failed; every run ends |
| `MCVariant` | one seed, two manifests, four `--set`s for each of `start`, `env up` and `env down`, one edit, one failure | a command on a session means the environment it was built with; a stamp or a purge means that environment is gone, but for an `env down` whose own `--set` contradicts it |
| `MCBundle` | 181 problems of a brief and one more file, five lists of globs, directory and tarball, one edit, failure and kill | only the candidate's files leave, and none of them speaks of the interviewer's; an error leaves no part of a drop |

Runs that are expected to fail, each the disagreement of the code with a line
that describes it (quoted in `PROJECT.json`):

| Run | Shows |
|---|---|
| `MCEvidenceRetried` | an `end` that failed between the teardown and the stamp is run again: its evidence pass checks faults that are gone, and the score it writes calls them broken |
| `MCRemoteStranded` | what is left in terraform's state once no instance runs can be ended from the machine with the record only: `adopt` looks for a running host |
| `MCVariantPinned` | a start with `--set` that fails before the state is saved: `end` tears down another name, reports success, and the environment stays |

### What else the modules show

None of the following has a run of its own. Most of it the modules would show to a reader
who widens a constant or states the property. Where the model has a guard instead (edits while an
environment is up, a link put in during a bundle, the operator who looks before
`force-unlock`) or leaves a thing out (the bucket's purge, hosts without a deadline), that is said.

Two commands at once. With two terminals in `Procs`, two breaks of one workdir each
save what they read, and `RecordOnlyGrows` fails; a break in flight saves after a
teardown and makes the stamped state live (`engine.go:433`, against the comment at
367-368), so `TeardownSticks` fails; two starts on one host can both pass the dial
of the ports, and `AnswersAreItsOwn` fails. In `Evidence` two passes write into
one temporary file, one renames it while the other still writes, and
`LastGoodBundleStands` fails; a tick that has read `state.json` when `end` tears
the environment down checks what is gone and appends it after the end.

Markers and stages. `reviewed` ends an interview and leaves it current
(`cli/interview.go:763`, against `interview.go:282-283`). With the marker missing
and several interviews open, or naming an ended or offline one,
`SetCurrentIfIdle` marks a drop beside an open live interview (`interview.go:276`,
against `cli/bundle.go:128`); `OnlyStartRetargets` is the part that holds.

Records. An `end` resolves what it tears down anew, and what it does not find it does not
miss: kind, compose and terraform succeed over what is not there. So an ended record can
leave an environment that was built with a `--set` and not yet saved, one that a
second start with other pins displaced, and a host that a killed terraform had not saved:
`EndedOverNothingNamed` names these and excludes the rest. `MCVariantPinned` is the first of
them, against what `start` says of it.

Processes. `stop` signals a recorded pid that a reboot gave to somebody else
(`session.go:713`, against `session_test.go:539-540`). An app forwarder whose
pidfile could not be written runs on unrecorded, with a warning; the count in
`EveryProcessIsRecorded` leaves it out.

Evidence. Nothing ever removes `score-error.txt`, so once a refresh has failed every
later bundle carries it. With `MaxStarts = 2` a second, shorter recording is bundled
together with the numbered segments that the first one left behind: no property
claims otherwise.

Hosts. `end --purge` empties the bucket before the destroy (`remote.go:203-206`), and the
host's sync timer may fill it again until it is gone. A profile a
day old that an earlier start left and a new one of the same seed takes up can lose
its role between the reading of the profiles in use and the new host's appearance
(`handler.py:90-91` calls the guard "an age no provision in flight could reach"):
`SweepSparesHosts` therefore speaks of a host, a profile and a role of one start.
The message after a failed destroy (`remote.go:249-251`) offers `force-unlock` to a
machine that cannot see whether the other terraform has ended; the model's operator looks
first. The reaper spares a host that was started with `--ttl 0` or has lost its
`TTLMinutes` tag (`handler.py:72-79`; `runbook.md:265-266` advises the latter): the model's hosts all
have a deadline. In `Listing` a local record of the same seed hides a host, two
hosts of one seed are one row, and a record that cannot be read is dropped from the
list (`List`) and its host shown as elsewhere.

The gate. A check that fails for a reason of its own counts as "broken", which is what
the gate wants to see before a fix: a passing run with such a check proves nothing, which is
why `green` remembers undisturbed runs only. `prove.go:9` speaks of a healthy
environment, and Up is content with one that an earlier run left. In one where a fault is
healing, an inject that does nothing passes for one that works if its check answers for
any fault: it is the other fault that the check sees, and then sees gone. This came out
of the proof of `GreenMeansProved` and takes three faults, one of which the app survives, two
runs and two failures; `GreenMeansProved` asks that an inject works only of runs that made their
environment, or of checks that speak of their own fault. `ledger.go:24` says
that "holds" means an agent "did not get far enough", and line 29 keeps "inconclusive" for
what failed "for reasons unrelated to difficulty": a verify that could not run reads as
an app that is down, and the run as "holds", hence `e.disturbed` in `LedgerIsTrue`.

Variants. Editing the content while an environment is up changes the name that its
seed resolves to, and nothing finds the old one; this is not in the model, where `Edit` has
the guard that none is up.
`env up --set` or `env down --set` on a seed that is live means another environment
in the same workdir and replaces or stamps the state of the first, and so does a start again with
other pins, after which `end` finds the second only. The `env down` deletes an environment that was
perhaps never there and stamps the state over the one that stays (`debug.go:129`, `engine.go:369`,
against the comment before it): `StampMeansGone` names it as the one exception.

Drops. The linter reads the first name of each field reference and no more (`lint.go:84`). A
reference through `$`, a field of what is a string or a number (`{{(.team_name).x}}`, which
`lint_test.go:72` takes for clean), a template that is not defined: all of these validate, and
fail in rendering. They are the model's `trap`, and no property says that what validates
renders. A drop whose record cannot be saved stays at the output path, with
its seed not printed. The gate does not look into `.git` (`gate.go:60`), because git has
made what is there; a problem directory with a visible file under `.git` would have it
delivered unread, but content is kept in git, which tracks none. Errors of `RemoveAll` are ignored. A link put in the place of
a file between the scan and the write is read through.

### Bounds

Kills and aborts are bounded by a constant with `Max` in its name, and in
`Session` kills, failed pidfile writes and reboots together by `MaxFaults`; two in
a run are enough for one to strike during the recovery from another, and where one terminal
runs the commands a third adds no new kind of interleaving. Three writers give a
holder, a waiter and one that comes later. Three faults give a first, a middle
and a last in a pack, so that "the next one" differs from "the first" and "the last".
Four ids give the marked one, the one being worked on and others, which is what
the fallback of `Current` and `SetCurrentIfIdle` tell apart, and one of each kind: local, pinned,
provisioned, offline. Two environments are
the least for the ports to be shared. The run has them without an app forwarder;
with one (`AppEnvs <- FirstEnv`) the same properties were checked over twice the states, which
takes longer than a run should. `NPids` is the number of pids for the processes of
one role and environment, chosen so that one is always left to hand out
(`PidsSuffice` in `MCSession` was checked when the bound was set): a run never stops
for want of one. After a reboot one pid at a time is handed to a stranger. In
`MCEvidence` one fault and one numbered segment are enough to tell a stale reading
and a missed segment (`ImplementsDelivery` was also checked with two starts, the second of which records
over the first, over ten times the states); two inodes are the bundle and the one being built; one mishap is
in each step of each pass. It runs `sync`, `tick` and `end`: `stop` is the first
half of `end`, `grade score` the first half of a pass.

In `MCRemote` a failure is a failed step of a command or of the reaper; with one and one
kill each strikes during the recovery from the other. One start makes each kind
of object, and the other machine ends it; the invariants were also checked with
`MaxStarts = 2`, where the second start takes up what the first left, which takes longer than a run
should. In `MCGate` two faults tell the single ones from the pack, and two runs the
clean environment from a leftover one; two defects are one that hides another. The
invariants were also checked with three faults, so that six tenths is neither
none nor all. In `MCVariant` the choice and the text are the two ways a parameter
gets its value, the two manifests the edits that narrow or widen a choice and drop or add
a parameter; what
is drawn is always the last of a choice, so that narrowing shows. `MCBundle` has a file
for each name and text the classifier, the linter or the gate could get wrong, one at a time since files
do not interact. No run uses symmetry.

`CHECK_DEADLOCK FALSE` is in three configurations. In `MCHints` the processes log one
hint each and when all have returned nothing remains to be done; in `MCGate` the runs and
in `MCBundle` the edits and mishaps are used up, with a drop recorded or content that
does not validate. Elsewhere a terminal can always run another command.

### Fairness

Four modules claim liveness. In `Hints`, `FairSpec` is weak fairness of each writer's own
`Step`: a process that runs is scheduled, its file operations return, and the
deadline of its wait arrives. Nothing is assumed of a process being started, of
kills or of the operator, and no strong fairness: a writer may lose every race
for the lockfile, and then the deadline is what ends its wait.

In `Evidence` a process that runs goes on (weak fairness of `PassStep`), and the
timer's pass begins again and again: strong fairness of `Begin(p, "sync")`,
because the one process of the instance may be busy with something else each time.
`iv-evidence-sync.timer` has `OnUnitActiveSec` and counts from the last run however
that ended. Nothing is assumed of the recorder, the candidate, `end` or a start.
That `SegmentsReachTheBucket` holds although passes fail rests on `MaxFaults`:
mishaps stop, which is the least that must be said of a network. The timer runs on
after an `end`, as it does on a host until the host itself goes.

In `Remote` the reaper is run again and again (`reaper.tf` schedules it every fifteen
minutes) and each of its calls returns; a day passes for every object; and a
command that is under way goes on, because `runBounded` gives each of its waits a
bound. Nothing is assumed of the guest's own shutdown timer, of anybody running
`end`, or of the operator: `HostsAndRolesGo` rests on the reaper alone, and speaks of hosts
with a ttl above zero and a `TTLMinutes` tag, since the reaper looks at no other. An elastic
address is not the reaper's business, and the property leaves it out.

In `Gate` a step that can be taken is taken: each script ends, each wait has a deadline, the
agent has a budget. A script that hangs is beyond it, because `prove` and
`redteam` give none a bound of their own.

### What the passing runs take for granted

- The engine's and the session manager's safety is about one command at a time
  over a workdir, which is how the runbook uses them. The code does not enforce
  it; the section above says what two do.
- An id of the registry keeps to one kind. `start --seed` with the id of an
  interview of another mode replaces its record, and what ran under the old one is
  then named by none.
- In `Evidence` a session started over an environment that is gone counts as the
  mishap, since `Start` asks for a `state.json` only (`session.go:226-232`).
- A killed `start` can leave a shared tmux session that `stop` does not reach
  (no `session.json`, so no socket), and a recorder or a listener that no pidfile
  names: `StopLeavesNothing`, `RecorderNeverAccusesFalsely` and `AnswersAreItsOwn`
  speak of behaviours in which no command has been killed yet. Everything else
  that can go wrong (a failed write, a reboot, a dying process, a candidate who
  ends tmux) they cover.
- Signals take effect at once, and both ports are dialled in one step. In
  `Evidence` the kill of a running recorder succeeds.
- One evidence pass, tick or end at a time. The unit of the timer is a oneshot, so
  it never overlaps itself, and a local session has no timer; but the timeline's
  unit and the operator's commands do not wait for it, and the section
  above says what happens.
- A lock of terraform's is cleared by hand only when nobody's terraform runs.
  A terraform that is killed loses what it had not yet saved to the state, which is
  why the first half of `EverythingIsNamed` speaks of behaviours without a kill.

## What is proved

`tlapm` checks these for all values of the constants; each follows from an
inductive invariant that is stronger than the property. Of the properties of the
passing runs every invariant, every action property and both refinements are
theorems; what is left are the liveness properties. Four hypotheses occur, each in the statement of the theorems that need it:
`OneAtATime` (no command begins before another has ended or was killed),
`OneTerminal`, which is the same for the registry, `OneModePerId` (an id keeps to one kind of
interview), and `NoRepositoryInside` (see *Content*). The first three say how the program is used and not what it
enforces; the section on
what else the modules show has what two commands at once do.

**Hints** (`HintsProofs`), assuming nothing beyond `MaxCrashes \in Nat`:

- `HintTypeCorrect`, for whatever interleaves.
- `HintMutualExclusion`. `LockInv` adds to mutual exclusion that a holder implies
  the lockfile (`Locked`). The operator's deletion preserves it because it waits
  for no process to be running: that guard, stated by the code in an error
  message only, is what the proof turns on.
- `HintResultsAreTrue` and `HintsAppendOnly`, which no run lists, being part of what the
  refinement below says. `LedgerInv` adds that what the holder
  read is still what the ledger holds (`ReadIsCurrent`), which mutual exclusion
  gives, and that a writer which has not yet renamed is not in the ledger
  (`NotYetLogged`).
- `HintsImplementLedger`. Every step is a step of `HintLedger` or a stutter: a
  rename is `Log`, an unlock after it `Confirm`, after a failure `Refuse`.

**Engine** (`EngineProofs`): `EngineTypeCorrect` for any number of processes; and
with one command at a time `RecordCoversEnvironment`,
`RecordedStaysRecorded`, `TornDownStaysTornDown` and `BreakIsWhole`. `SerialInv` relates the
memory of the running command to the file: a break's snapshot agrees with
the state it will overwrite but for the fault just injected, its todo is a final
stretch of the pack, and what is missing from the record starts at the first
fault of the todo. Without the snapshot's part the invariant is not
inductive: the save could then write anything. For `BreakIsWhole`, `LandedInv` adds that
what a break is done with has landed in the environment that is there now: nothing
is skipped because an earlier command recorded it, and no environment is built anew under a
break while commands run one at a time.

**Registry** (`RegistryProofs`): `RegistryTypeCorrect`; `ResourcesAreNamed` for
any number of terminals, assuming one mode per id: `NamedInv` adds
that what a command holds in memory (`ModesAgree`) has the mode of the record it will
overwrite, so a late save cannot unname anything; `EndsOverNothingNamed` for one
terminal and one mode per id: `OpenInv` adds that what an end tears down is still what its
files resolve to (`InProgress`), that between the teardown and the save nothing is left but
what they do not name, that a start holds an open record, and that an id never pinned has nothing
of a pin (`NeverPinned`). `DropsDoNotRetarget`, for one
terminal: what `SetCurrentIfIdle` looked up is still so when it marks (`DropInv`).

**Session** (`SessionProofs`): `SessionTypeCorrect`; and with one command at a
time, for any number of environments, pids and faults:

- `ProcessesAreRecorded`.
  `RecordInv` says where each pid can be: a pid is in the pidfile and in the hand of its
  own role and environment (`FilesInPlace`, `HandsInPlace`); what a command holds
  is in a pidfile but for one process (`HandIsRecorded`); what a pidfile names and
  runs the command holds, until it has ended it (`FilesInHand`); and what it
  has not launched it does not hold (`NotYetHeld`). Each action then makes no process
  astray that was not, except a kill, which loses the one exception of
  `HandIsRecorded`; the count follows by the cardinality of a set that grows by
  at most that one.
- `RecorderIsFair`. While no command was killed a recorder that runs is known
  (by the count above), so that stop and cleanup end it before they end its
  session; `BlameInv` says that none then watches a session the platform ended, and that a
  start which may spawn one has a session it did not end. `EndInv` accounts for
  each tmux session by `session.json` or the start that has it in hand.
- `StopClears` needs both, and `AppInv`: where a forwarder's pid is known.
- `AnswersAreOwn`. `ListenInv`: a listener that runs holds its port or is one that a start
  still waits for; and while a start waits no other runs. That the start swept first and then
  found the ports free is what makes it inductive.

**Evidence** (`EvidenceProofs`): `EvidenceTypeCorrect` for any processes at once,
where types include that a descriptor is open exactly while its process bundles. The rest
with one command at a time, because two passes do write through one temporary name
(`evidence.go:217`):

- `LastBundleStands`. `ArchivesInv` says of each step of the copy what the inode it writes
  to is: the one under the temporary name, with this process as its only writer, not the
  bundle's, and whole by the rename; a pass whose refresh failed has noted it before
  (`NotedInv`).
- `SegmentsAccounted`, for any number of segments. `LoggedInv`: a segment that was begun
  has its line. The log is copied after the casts, so that a segment in the archive was
  begun by then (`Copying`): the order of `evidenceFiles` is what the proof turns on.
- `FinalScoreIsTrue`, and that a clean end's archive has every segment, from
  `EndingInv`: once the processes are stopped nothing is recorded or repaired (`Sealed`), what
  is read then is the truth (`Scored`) and what is copied the recording (`Copied`), and the
  environment lives until it is stamped (`Lives`).
- `EndedIsFrozen`, from `StampedInv`: nothing reads an environment once it is stamped.
- `EvidenceDelivers`. A launch of the recorder is `Record`, a rename `Bundle`, an upload
  `Deliver`, everything else a stutter. That a rename does not go back needs `AgedInv`: what
  has been copied of each segment lies between what the bundle has and what is recorded
  (`Advance`). A bundle's segments are all copied again because the recorder leaves
  none out (`LoggedInv`), though `castSegments` stops at the first that is missing. With
  two passes at once neither holds: the one that began first may rename last.

**Remote** (`RemoteProofs`), for any machines, starts, failures and kills:
`RemoteTypeCorrect`, `OneTerraformAtATime` and `HostsAreNamed`. `NamedInv` adds three
things. Only the home machine's commands have a start's number, and only they apply
(`OnlyHomeStarts`). Until a kill the terraform at work knows all there is, and the
state does when none is at work (`TerraformKnows`): mutual exclusion makes "the" terraform
meaningful, and the reaper only takes away. And the home machine's record is open
from before its apply until nothing is named (`HomeKeepsRecord`), which must speak of
what a terraform on any machine may yet write: one that stops or is killed leaves in the
state what it had in memory, beside an end that is about to close the record.

`HostsAreSpared` (the reaper against everything else, with no hypothesis) rests on
`SpareInv`. What the run of the handler has read is old by the time it deletes: the
invariant says that it is still safe (`SweepSees`), because whatever could come to use
an old profile is of the profile's own start, and that start is over before a day has
passed (`AgedIsOver`); an apply makes its host with the profile it made (`Paired`, from `OwnKnown`
and `Numbered`); and a profile that is in use when it is read stays in the reading.

`TroubleIsShown`, of `Listing`, for any other sessions and instances that `BesideAssumption`
admits. What a list keeps and how it is sorted is `Arranged`, the places of chosen indices
in the order of their keys; it has each chosen element once and in order
(`PlacesApart`, `ArrangedThrough`), by the cardinality of the places before one. From there a row of the screen is followed
back to the record or the host it is about, through the ranking, the filter of `--waiting`,
`reconcile` and the filter of `--all`, and what rank each is given is a case for each state.
Of `Remote` it needs the types alone (`ScreenTells`): the trouble is shown in whatever state a
kill or a failure leaves the registry and the account.

**Gate** (`GateProofs`), for packs of any size, any scripts and any number of runs,
failures and kills: `GateTypeCorrect`, `GreenContentWorks`, `LedgerIsRight`. `GateInv` says
stage by stage what a run of `prove` has seen (`SeenSoFar`: of the faults it is done with, of the
one at hand, of the whole pack), what that is worth given where effects come from
(`EffectsHaveCauses`), and keeps it with what was passed (`GreenInv`). The verdicts of the
ledger compare counts: what an attempt has seen fixed is at most what it left fixed
(`Judged`), by the cardinality of a part of the pack. The first attempt at
`SeenSoFar` failed at an environment that a run finds rather than makes, and changed
the property (see above).

**Content** (`ContentProofs`), of `Variant` and of `Bundle`.
For any manifests, pins, seeds and draws: `VariantTypeCorrect`, `CommandsMeanIt`,
`StampedIsGone`. `VariantInv` says that the environment of a live state is the one its
recorded pins resolve to under the seed its workdir is named for (`BuiltAsRecorded`). That
pins over pins resolve to the same (`OverResolves`) carries a command's own `--set` through.
Pins that agree with what was built resolve to it, so that an `env down` with those stamps only what
it took down; the others are the exception in the statement.
For any tree, globs, edits, failures and kills:

- `CandidateDropIsSafe`, of a problem whose directory holds no `.git` of its own
  (`NoRepositoryInside`; the gate does not look there). `Gated` says where the gate has
  been: a tarball's temporary directory, an output that waits for its record. Nothing is
  asked of what was validated, so that edits do not matter. That the matcher is right is a
  lemma: for any glob and path `Match`, which follows `matchSegs`, agrees with what a reader takes a
  glob to mean (`Fits`: the segments shared out over the pattern in order). It is
  proved by a least counterexample among the pairs of positions, since `tlapm` has no
  induction (`MatchIsFits`).
- `NoPartIsLeft`. `Kept` says at each step that what is due is written or still in the todo,
  and `Placed` where it is being made; an error takes all of it away, a kill does not.

Only model-checked. What is temporal under fairness (`EveryHintReturns`,
`SegmentsReachTheBucket`, `HostsAndRolesGo`, `EveryRunEnds`): fairness and ENABLED are
out of the prover's reach. The three runs that fail are each of a property that does not hold.

## Plan

Done: all the modules above, and the proofs of the section before. Left: an abstract lease,
refined by terraform's lock in `Remote`, and the redaction and the candidate's directory in an
archive, should a property come to speak of them.

Not modelled: scoring and the grading sheet (one process computes a sheet from
files and writes it; `MergeHints` compares times by `==`, their zone included, so a
ledger read from two places can count a hint twice, which no state machine shows);
content validation beyond what a candidate sees, taxonomy, sysdesign, take-home
validation, provenance, doctor, setup, printing and the Terraform of the account
(reading, checking and rendering with no state that changes); the candidate
kubeconfig and `provision.sh` (calls in sequence, run once); the app proxy, whose
connections share a semaphore and nothing else.
