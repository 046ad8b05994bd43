------------------------------ MODULE Listing ------------------------------
(***************************************************************************)
(* What `interviews sessions` makes of the registry, the state files and   *)
(* the account (internal/cli/interview.go, discover.go): a pure reading,   *)
(* and the one place where an interviewer sees that something still bills. *)
(* It is put to the interview of Remote as each machine sees it, beside    *)
(* other sessions and instances.                                           *)
(*                                                                         *)
(* Times are small numbers; a zero time or ttl is one that is not set.  A  *)
(* row is known by its seed; its state is the text without the numbers.    *)
(* The registry and the account are read at one time.                      *)
(***************************************************************************)
EXTENDS Remote, SequencesExt

CONSTANTS
    Beside      \* what other sessions and instances there are: [sessions, instances]

\* Ranks, by who a session is blocked on.
Rank == [stranded |-> 1, toReview |-> 2, overdue |-> 3, notSent |-> 4, waitingCutoff |-> 5,
         sent |-> 6, live |-> 7, reviewed |-> 8, closed |-> 9]
Waiting(rank) == rank < Rank.waitingCutoff

Is(state, rank) == [state |-> state, rank |-> rank]

\* Up until its ttl, counted from when it came up.
UpSince(from, ttl, now) ==
    IF ttl > 0 /\ now >= from + ttl THEN Is("past its ttl", Rank.stranded) ELSE Is("up", Rank.live)

OfflineStatus(s, now) ==
    CASE s.stage = "returned" -> Is("returned, to review", Rank.toReview)
      [] s.stage = "reviewed" -> Is("reviewed", Rank.reviewed)
      [] s.stage = "created" -> Is("not sent", Rank.notSent)
      [] s.stage = "sent" ->
            IF s.due # 0 /\ now > s.due THEN Is("overdue", Rank.overdue) ELSE Is("sent", Rank.sent)
      [] OTHER -> Is(s.stage, Rank.closed)

\* A local session is read off its state.json, if it has one.
LocalStatus(s) ==
    CASE s.local = "no workdir" -> Is("unknown", Rank.closed)
      [] s.local = "no state" -> Is("gone", Rank.closed)
      [] s.local = "torn down" -> Is("torn down", Rank.closed)
      [] s.local = "healthy" -> Is("healthy", Rank.live)
      [] s.local = "broken" -> Is("injected", Rank.live)

\* The host's own timer starts at boot, which the provision came closer to than the record.
AwsStatus(s, now) ==
    IF s.host = "" THEN Is("provisioning", Rank.live)
    ELSE UpSince(IF s.provisioned # 0 THEN s.provisioned ELSE s.created, s.ttl, now)

SessionStatus(s, now) ==
    IF s.mode = "offline" THEN OfflineStatus(s, now)
    ELSE IF s.ended THEN Is("ended", Rank.closed)
    ELSE IF s.mode = "aws" THEN AwsStatus(s, now) ELSE LocalStatus(s)

\* remoteHost.status.
HostStatus(h, now) ==
    IF h.state = "pending" THEN Is("provisioning", Rank.live)
    ELSE IF h.state \in {"stopping", "stopped"}
         THEN Is("stopped, still holding its disk", Rank.stranded)
    ELSE UpSince(h.launched, h.ttl, now)

\* parseHosts: an instance that names no interview is listed all the same.
Untagged == "(untagged)"
ParseHosts(instances) ==
    [i \in DOMAIN instances |->
        IF instances[i].seed = "" THEN [instances[i] EXCEPT !.seed = Untagged] ELSE instances[i]]

----------------------------------------------------------------------------
\* localRows and reconcile.

\* The places of a list in the order of their keys, and of one key as they were.
Place(which, key, i) ==
    Cardinality({j \in which : key[j] < key[i] \/ (key[j] = key[i] /\ j <= i)})

\* What is at these places, in that order.
Arranged(list, which, key) ==
    [k \in 1..Cardinality(which) |-> list[CHOOSE i \in which : Place(which, key, i) = k]]

Chosen(list, which) == Arranged(list, which, [i \in which |-> 0])

Row(seed, status, elsewhere) ==
    [seed |-> seed, state |-> status.state, rank |-> status.rank, elsewhere |-> elsewhere]

LocalRows(sessions, all, now) ==
    LET listed == Chosen(sessions, {i \in DOMAIN sessions : all \/ ~sessions[i].ended})
    IN  [i \in DOMAIN listed |-> Row(listed[i].seed, SessionStatus(listed[i], now), FALSE)]

StillUp == Is("still up after end", Rank.stranded)
Seeds(rows) == {rows[i].seed : i \in DOMAIN rows}
Named(sessions, seed) == CHOOSE s \in ToSet(sessions) : s.seed = seed

\* Of several hosts of one seed the last one described is the one compared.
Claimed(hosts, seed) ==
    LET which == {i \in DOMAIN hosts : hosts[i].seed = seed}
    IN  hosts[CHOOSE i \in which : \A j \in which : j <= i]

\* A session with no address yet is left alone: its apply may still be running.
Settled(row, s, hosts, now) ==
    LET live == row.seed \in Seeds(hosts)
        status ==
            CASE s.mode = "aws" /\ s.ended /\ live -> StillUp
              [] s.mode = "aws" /\ ~s.ended /\ live -> HostStatus(Claimed(hosts, row.seed), now)
              [] s.mode = "aws" /\ ~s.ended /\ ~live /\ s.host # "" -> Is("host gone", Rank.stranded)
              [] OTHER -> Is(row.state, row.rank)
    IN  Row(row.seed, status, FALSE)

\* Plausible bug: what a record of this machine does not show is of another machine.
DiscoveredAsElsewhere(h, sessions, now) == Row(h.seed, HostStatus(h, now), TRUE)

\* A host no row shows: ended here, and the destroy did not finish, or not of this machine.
Discovered(h, sessions, now) ==
    IF h.seed \in Seeds(sessions) THEN Row(h.seed, StillUp, FALSE)
    ELSE Row(h.seed, HostStatus(h, now), TRUE)

Reconcile(rows, sessions, hosts, now) ==
    LET others == Chosen(hosts, {i \in DOMAIN hosts : hosts[i].seed \notin Seeds(rows)})
    IN  [i \in DOMAIN rows |-> Settled(rows[i], Named(sessions, rows[i].seed), hosts, now)]
        \o [i \in DOMAIN others |-> Discovered(others[i], sessions, now)]

\* By rank, and newest first within one, as interview.List has them.
ByRank(rows, which) == Arranged(rows, which, [i \in which |-> rows[i].rank])

\* cmdSessions --remote, with or without --waiting and --all.
CmdSessions(sessions, instances, all, waiting, now) ==
    LET rows == Reconcile(LocalRows(sessions, all, now), sessions, ParseHosts(instances), now)
    IN  ByRank(rows, {i \in DOMAIN rows : waiting => Waiting(rows[i].rank)})

----------------------------------------------------------------------------
\* What the interview of Remote looks like from a machine.

Seed == "the interview"
Now == 2

\* Of its host the states of an instance that describeHosts asks for; stopping is as stopped.
InstanceStates == {"pending", "running", "stopped"}
Instance(h, state) ==
    [seed |-> Seed, state |-> state, launched |-> IF h \in late THEN 0 ELSE Now, ttl |-> 1]

Instances(state) ==
    LET hosts == SetToSeq(Of("host"))
    IN  [i \in DOMAIN hosts |-> Instance(hosts[i], state)]

Records(m) ==
    IF rec[m] = "none" THEN <<>>
    ELSE << [seed |-> Seed, mode |-> "aws", ended |-> rec[m] = "ended",
             host |-> IF rec[m] = "up" THEN "address" ELSE "",
             created |-> 1, provisioned |-> IF rec[m] = "up" THEN Now ELSE 0, ttl |-> 1] >>

\* A session of another interview as its record has it, and its state file if it is local.
OtherSessions ==
    [seed : STRING, mode : {"offline"}, ended : BOOLEAN, stage : STRING, due : Nat]
    \union [seed : STRING, mode : {"local"}, ended : BOOLEAN,
            local : {"no workdir", "no state", "torn down", "healthy", "broken"}]
    \union [seed : STRING, mode : {"aws"}, ended : BOOLEAN, host : STRING,
            created : Nat, provisioned : Nat, ttl : Nat]

OtherInstances ==
    [seed : STRING, state : {"pending", "running", "stopping", "stopped"}, launched : Nat, ttl : Nat]

ASSUME BesideAssumption ==
    \A other \in Beside :
        /\ other.sessions \in Seq(OtherSessions) /\ other.instances \in Seq(OtherInstances)
        /\ \A i \in DOMAIN other.sessions : other.sessions[i].seed # Seed
        /\ \A i \in DOMAIN other.instances : other.instances[i].seed # Seed

Screen(m, state, other, all, waiting) ==
    CmdSessions(Records(m) \o other.sessions, Instances(state) \o other.instances,
                all, waiting, Now)

----------------------------------------------------------------------------
\* Properties.

\* Trouble with the interview's host, as machine m can know of it; whether it is past its
\* ttl is another matter for each, when several starts have left one.
Trouble(m, state, past) ==
    \/ Of("host") = {} /\ rec[m] = "up"
    \/ Of("host") # {} /\ (rec[m] = "ended" \/ state = "stopped" \/ (state = "running" /\ past))

\* Whatever was killed or failed, on whichever machine the interviewer looks: an interview
\* whose host is stopped, past its ttl, gone without an end or there after one is listed,
\* once by its record or once for each host, before all that is not stranded, and under
\* --waiting, with --all and without; an interview that has no trouble is never called
\* stranded; one not recorded here is said to be elsewhere; and an instance that names no
\* interview is listed too.
TroubleIsInView ==
    \A m \in Machines, state \in InstanceStates, other \in Beside, all \in BOOLEAN :
        LET rows == Screen(m, state, other, all, FALSE)
            waiting == Screen(m, state, other, all, TRUE)
            mine == {i \in DOMAIN rows : rows[i].seed = Seed}
        IN  /\ Cardinality(mine) =
                IF rec[m] # "none" /\ (all \/ rec[m] # "ended") THEN 1
                ELSE Cardinality(Of("host"))
            /\ \A i \in mine :
                /\ Trouble(m, state, Of("host") \subseteq late) => rows[i].rank = Rank.stranded
                /\ rows[i].rank = Rank.stranded =>
                    /\ Trouble(m, state, Of("host") \intersect late # {})
                    /\ \A j \in 1..i : rows[j].rank = Rank.stranded
                    /\ \E j \in DOMAIN waiting : waiting[j] = rows[i]
                /\ rows[i].elsewhere <=> rec[m] = "none"
            /\ \A i \in DOMAIN other.instances :
                \/ other.instances[i].seed \in Seeds(rows)
                \/ other.instances[i].seed = "" /\ Untagged \in Seeds(rows)
=============================================================================
