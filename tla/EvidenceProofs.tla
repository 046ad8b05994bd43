--------------------------- MODULE EvidenceProofs ---------------------------
(***************************************************************************)
(* For any faults, inodes, starts, segments, failures and kills.  The      *)
(* types hold whatever processes run; the rest is about one command at a   *)
(* time, for two passes at once do write into one archive.                 *)
(***************************************************************************)
EXTENDS Evidence, TLAPS

\* No command begins before another has ended, or was killed.
OneAtATime == \A p, q \in Procs : p = q

Labels == {"idle", "append"} \union Refreshing \union Bundling \union Ending
PassRecords == [pc : Labels, doing : AllCommands, read : Readings, failed : BOOLEAN,
                fd : Inodes \union {None}]

\* A descriptor is open from Open to Close, and what is written or appended was read whole.
Proper == {r \in PassRecords :
    /\ r.fd # None => r.pc \in Members \union {"close", "remove"}
    /\ r.pc \in Members \union {"close"} => r.fd # None
    /\ r.pc \in {"write", "append"} => r.read \in [Faults -> Verdicts]}

Types ==
    /\ RecorderTypeOK
    /\ supervisor # "off" => starts # 0
    /\ {env, live, ended, scoreError} \subseteq BOOLEAN
    /\ fixed \subseteq Faults
    /\ score \in [Faults -> Verdicts] \union {NoReading}
    /\ disk \in [Inodes -> Archives]
    /\ {tmp, bundle} \subseteq Inodes \union {None}
    /\ bucket \in [whole : BOOLEAN, cast : [Segments -> 0..MaxStarts]]
    /\ pass \in [Procs -> Proper]
    /\ \A p \in Procs : pass[p].pc = "upload" => bundle # None
    /\ mishaps \in 0..MaxFaults

\* A segment that was begun has its line, and none before it is missing.
Begun(k) ==
    /\ k # 0 => \E s \in 1..MaxStarts : <<s, k>> \in log
    /\ \A j \in Segments : j < k => cast[j] # 0
LoggedInv ==
    /\ supervisor # "off" => Begun(n)
    /\ \A k \in Segments : cast[k] # 0 => Begun(k)

Accounted(archive) ==
    \A k \in Segments \ {0} : archive.cast[k] # 0 =>
        \E s \in 1..MaxStarts : <<s, k>> \in archive.log

\* A pass whose refresh failed writes that down before it bundles.
NotedInv == \A p \in Procs : pass[p].failed => pass[p].pc = "note" \/ scoreError

\* What is so of the archive a process builds, step by step.
Copying(p) ==
    /\ pass[p].pc \in Members \union {"close"} => pass[p].fd = tmp
    /\ pass[p].pc \in Members \union {"close", "rename"} => tmp # None /\ disk[tmp].writer = p
    /\ pass[p].pc \in {"score.json", "session.cast", "segments"} =>
        \A k \in Segments \ {0} : disk[tmp].cast[k] = 0
    /\ pass[p].pc = "recorder.log" =>
        \A k \in Segments \ {0} : disk[tmp].cast[k] # 0 => cast[k] # 0
    /\ pass[p].pc \in {"score-error.txt", "close", "rename"} => Accounted(disk[tmp])
    /\ pass[p].pc \in {"close", "rename"} /\ pass[p].failed => disk[tmp].error
    /\ pass[p].pc = "rename" => disk[tmp].whole

ArchivesInv ==
    /\ tmp # None => tmp # bundle
    /\ bundle # None => Whole(disk[bundle]) /\ Accounted(disk[bundle])
    /\ \A p \in Procs : Copying(p)

\* Nothing reads an environment once it is stamped.
StampedInv ==
    \A p \in Procs :
        /\ pass[p].pc = "record" => ~live
        /\ ended => ~live /\ pass[p].pc \notin {"check", "write", "append"}

Truth == [f \in Faults |-> IF f \in fixed THEN "fixed" ELSE "broken"]

\* From the moment its processes are stopped, nothing is recorded or repaired.
Sealed(p) == ~env \/ (pass[p].doing = "end" /\ pass[p].pc \notin {"idle", "signal", "kill-session"})

\* One end with nothing going wrong, from its first step to whatever follows it: nothing is
\* recorded or repaired any more, the environment lives until it is stamped,
Stopped(p) ==
    /\ pass[p].doing = "end" /\ pass[p].pc = "kill-session" => supervisor = "off"
    /\ Sealed(p) => supervisor = "off" /\ (env => ~session)

Lives(p) ==
    /\ env => live
    /\ live /\ ~env => pass[p].pc = "stamp"
    /\ ended => ~env
    /\ pass[p].pc \in {"check", "write"} => env
    /\ pass[p].pc \in {"stamp", "record"} => ~env
    /\ pass[p].pc \in {"destroy", "stamp", "record"} => pass[p].doing = "end"
    /\ pass[p].pc = "upload" => pass[p].doing = "sync"
    /\ pass[p].pc # "remove"

\* the score is the truth once it is written,
Scored(p) ==
    /\ pass[p].pc \in {"signal", "kill-session", "load", "status"} => pass[p].read = NoReading
    /\ Sealed(p) =>
        /\ pass[p].pc = "check" => \A f \in Faults : pass[p].read[f] \in {"none", Truth[f]}
        /\ pass[p].pc = "write" => pass[p].read = Truth
        /\ ~env \/ pass[p].pc \in {"note", "destroy"} \union Bundling => score = Truth

\* and the archive is the recording once that is copied.
Copied(p) ==
    Sealed(p) =>
        /\ pass[p].pc \in {"segments", "recorder.log", "score-error.txt", "close", "rename"} =>
            disk[tmp].cast[0] = cast[0]
        /\ pass[p].pc \in {"recorder.log", "score-error.txt", "close", "rename"} =>
            disk[tmp].cast = cast
        /\ ~env \/ pass[p].pc = "destroy" => bundle # None /\ disk[bundle].cast = cast

EndingInv ==
    mishaps = 0 =>
        /\ ended => Procs # {}
        /\ \A p \in Procs : Stopped(p) /\ Lives(p) /\ Scored(p) /\ Copied(p)

\* What the bundle has of a segment, and what is so of the archive that is to replace it:
\* each segment it was given lies between the bundle's and the recording's.
Kept(k) == IF bundle = None THEN 0 ELSE disk[bundle].cast[k]
Between(k) == Kept(k) <= disk[tmp].cast[k] /\ disk[tmp].cast[k] <= cast[k]
Advance(p) ==
    /\ pass[p].pc \in {"segments", "recorder.log", "score-error.txt", "close", "rename"} =>
        Between(0)
    /\ pass[p].pc \in {"recorder.log", "score-error.txt", "close", "rename"} =>
        \A k \in Segments : Between(k)

AgedInv ==
    /\ \A k \in Segments : cast[k] <= starts /\ Kept(k) <= cast[k]
    /\ \A p \in Procs : Advance(p)

-----------------------------------------------------------------------------
\* The recorder.
LEMMA RecorderStepIsTyped ==
    ASSUME RecorderTypeOK, supervisor # "off" => starts # 0,
           \/ Start \/ KillClient \/ KillServer \/ Supervise
           \/ supervisor' \in {supervisor, "off"} /\ session' \in {session, FALSE}
              /\ UNCHANGED <<starts, n, cast, log>>
    PROVE  RecorderTypeOK' /\ (supervisor # "off" => starts # 0)'
<1> USE RecorderAssumption DEF RecorderTypeOK, Segments
<1>1. CASE Start
  BY <1>1 DEF Start
<1>2. CASE KillClient \/ KillServer
  BY <1>2 DEF KillClient, KillServer
<1>3. CASE Launch
  BY <1>3 DEF Launch
<1>4. CASE ClientEnds \/ Probe
  BY <1>4 DEF ClientEnds, Probe
<1>5. CASE NextSegment
  <2>1. CASE UNCHANGED <<n, log>> /\ supervisor' = "off"
    BY <1>5, <2>1 DEF NextSegment
  <2>2. CASE n < MaxSegments /\ n' = n + 1 /\ log' = log \union {<<starts, n + 1>>}
             /\ supervisor' = "launch"
    <3>1. starts \in 1..MaxStarts /\ n + 1 \in 1..MaxSegments
      BY <1>5, <2>2 DEF NextSegment
    <3> QED
      BY <1>5, <2>2, <3>1 DEF NextSegment
  <2> QED
    BY <1>5, <2>1, <2>2 DEF NextSegment
<1> QED
  BY <1>1, <1>2, <1>3, <1>4, <1>5 DEF Supervise

\* A process that moves, moves alone.
LEMMA Moved ==
    ASSUME Types, NEW p \in Procs, NEW r \in Proper, pass' = [pass EXCEPT ![p] = r]
    PROVE  /\ pass' \in [Procs -> Proper] /\ pass'[p] = r
           /\ \A q \in Procs : q # p => pass'[q] = pass[q]
BY DEF Types

LEMMA IdleIsProper == Idle \in Proper /\ Idle.pc = "idle"
BY DEF Idle, Proper, PassRecords, Labels, Readings, NoReading, AllCommands, Bundling, Members

\* What a process becomes when a step returns or the refresh fails.
LEMMA ReturnIs ==
    ASSUME Types, NEW p \in Procs, Return(p)
    PROVE  \E r \in Proper : /\ pass' = [pass EXCEPT ![p] = r] /\ r.fd = None /\ ~r.failed
                             /\ IF pass[p].doing = "end" THEN r.pc = "destroy" /\ r.doing = "end"
                                                         ELSE r = Idle
<1> DEFINE d == [Idle EXCEPT !.pc = "destroy", !.doing = "end"]
<1>1. d \in Proper /\ d.fd = None /\ ~d.failed /\ d.pc = "destroy" /\ d.doing = "end"
  BY DEF Idle, Proper, PassRecords, Labels, Readings, NoReading, AllCommands, Bundling, Members, Ending
<1>2. Idle.fd = None /\ ~Idle.failed
  BY DEF Idle
<1>3. pass' = [pass EXCEPT ![p] = IF pass[p].doing = "end" THEN d ELSE Idle]
  BY DEF Return, AfterEvidence
<1> HIDE DEF d
<1> QED
  BY <1>1, <1>2, <1>3, IdleIsProper

LEMMA RefreshFailsIs ==
    ASSUME Types, NEW p \in Procs, RefreshFails(p), pass[p].pc \in {"status", "write"}
    PROVE  \E r \in Proper : /\ pass' = [pass EXCEPT ![p] = r] /\ r.fd = None
                             /\ IF pass[p].doing \in {"score", "tick"} THEN r = Idle
                                ELSE r.pc = "note" /\ r.doing = pass[p].doing
<1> DEFINE d == [pass[p] EXCEPT !.pc = "note", !.failed = TRUE, !.read = NoReading]
<1>1. pass[p] \in Proper /\ pass[p].fd = None
  BY DEF Types, Proper, Bundling, Members
<1>2. d \in Proper /\ d.fd = None /\ d.pc = "note" /\ d.doing = pass[p].doing
  BY <1>1 DEF Proper, PassRecords, Labels, Refreshing, Readings, NoReading, Bundling, Members
<1>3. Idle.fd = None
  BY DEF Idle
<1>4. pass' = [pass EXCEPT ![p] = IF pass[p].doing \in {"score", "tick"} THEN Idle ELSE d]
  BY DEF RefreshFails
<1> HIDE DEF d
<1> QED
  BY <1>2, <1>3, <1>4, IdleIsProper

\* Every step of a process leaves it in a proper state.
LEMMA ProcessIsProper ==
    ASSUME Types, NEW p \in Procs,
           PassStep(p) \/ Killed(p) \/ \E c \in Commands : Begin(p, c)
    PROVE  \E r \in Proper : pass' = [pass EXCEPT ![p] = r] /\ (r.pc = "upload" => bundle' # None)
<1> DEFINE Well == \E r \in Proper : pass' = [pass EXCEPT ![p] = r] /\ (r.pc = "upload" => bundle' # None)
<1> USE DEF At
<1>0. pass[p] \in Proper /\ pass \in [Procs -> Proper]
  BY DEF Types
<1>1. ASSUME Return(p) PROVE Well
  <2>1. PICK r \in Proper : pass' = [pass EXCEPT ![p] = r] /\ (r.pc = "destroy" \/ r = Idle)
    BY <1>1, ReturnIs
  <2> QED
    BY <2>1, IdleIsProper
<1>2. ASSUME pass' = [pass EXCEPT ![p] = Idle] PROVE Well
  BY <1>2, IdleIsProper
<1>3. ASSUME RefreshFails(p), pass[p].pc \in {"status", "write"} PROVE Well
  <2>1. PICK r \in Proper : pass' = [pass EXCEPT ![p] = r] /\ (r.pc = "note" \/ r = Idle)
    BY <1>3, RefreshFailsIs
  <2> QED
    BY <2>1, IdleIsProper
<1>4. ASSUME NEW label \in Labels, Goto(p, label), label \notin {"write", "append", "upload"},
             pass[p].pc \in Members => label \in Members \union {"close", "remove"},
             pass[p].pc = "close" => label = "remove",
             pass[p].pc \notin Members \union {"close"} => label \notin Members \union {"close"},
             pass[p].fd # None => label \in Members \union {"close", "remove"}
      PROVE  Well
  <2> DEFINE r == [pass[p] EXCEPT !.pc = label]
  <2>1. r \in Proper /\ r.pc = label
    BY <1>0, <1>4 DEF Proper, PassRecords, Bundling
  <2>2. pass' = [pass EXCEPT ![p] = r]
    BY <1>4 DEF Goto
  <2> HIDE DEF r
  <2> QED
    BY <1>4, <2>1, <2>2
<1>5. CASE \E c \in Commands : Begin(p, c)
  <2>1. PICK c \in Commands : Begin(p, c)
    BY <1>5
  <2> DEFINE label == CASE c = "sync" -> "load" [] c \in {"score", "tick"} -> "status"
                        [] c \in {"stop", "end"} -> "signal"
             r == [Idle EXCEPT !.doing = c, !.pc = label]
  <2>2. c \in AllCommands
    BY EvidenceAssumption
  <2>3. label \in {"load", "status", "signal"}
    BY <2>2 DEF AllCommands
  <2>4. pass' = [pass EXCEPT ![p] = r]
    BY <2>1 DEF Begin
  <2> HIDE DEF label
  <2>5. r \in Proper /\ r.pc = label
    BY <2>2, <2>3, IdleIsProper DEF Proper, PassRecords, Labels, Refreshing, Ending, Bundling, Members, Idle
  <2> HIDE DEF r
  <2> QED
    BY <2>3, <2>4, <2>5
<1>6. CASE Load(p)
  BY <1>0, <1>4, <1>6 DEF Load, Labels, Refreshing, Bundling, Members, Proper
<1>7. CASE Status(p)
  <2>1. CASE live
    BY <1>0, <1>4, <1>7, <2>1 DEF Status, Labels, Refreshing, Bundling, Members, Proper
  <2>2. CASE ~live
    BY <1>3, <1>7, <2>2 DEF Status
  <2> QED
    BY <2>1, <2>2
<1>8. CASE Check(p)
  <2>1. PICK f \in Faults, v \in Verdicts :
            LET read == [pass[p].read EXCEPT ![f] = v] IN
            pass' = [pass EXCEPT ![p].read = read, ![p].pc = Reads(p, read)]
    BY <1>8 DEF Check
  <2> DEFINE read == [pass[p].read EXCEPT ![f] = v]
             label == Reads(p, read)
             r == [pass[p] EXCEPT !.read = read, !.pc = label]
  <2>2. pass[p].read \in Readings /\ pass[p].fd = None /\ pass[p].pc = "check"
    BY <1>0, <1>8 DEF Check, Proper, PassRecords, Bundling, Members
  <2>3. read \in Readings
    BY <2>2 DEF Readings
  <2>4. /\ label \in {"check", "append", "write"}
        /\ label # "check" => \A g \in Faults : read[g] # "none"
    BY DEF Reads
  <2>5. label # "check" => read \in [Faults -> Verdicts]
    BY <2>3, <2>4 DEF Readings
  <2>6. pass' = [pass EXCEPT ![p] = r]
    BY <1>0, <2>1
  <2> HIDE DEF read, label
  <2>7. r \in Proper /\ r.pc = label
    BY <1>0, <2>2, <2>3, <2>4, <2>5 DEF Proper, PassRecords, Labels, Refreshing, Bundling, Members
  <2> HIDE DEF r
  <2> QED
    BY <2>4, <2>6, <2>7
<1>9. CASE WriteScore(p)
  <2>1. CASE RefreshFails(p)
    BY <1>3, <1>9, <2>1 DEF WriteScore
  <2>2. CASE pass' = [pass EXCEPT ![p] = IF @.doing = "score" THEN Idle
                                         ELSE [@ EXCEPT !.pc = "open", !.read = NoReading]]
    <3> DEFINE r == [pass[p] EXCEPT !.pc = "open", !.read = NoReading]
    <3>1. r \in Proper /\ r.pc = "open"
      BY <1>0, <1>9 DEF WriteScore, Proper, PassRecords, Labels, Readings, NoReading, Bundling, Members
    <3>2. pass' = [pass EXCEPT ![p] = IF pass[p].doing = "score" THEN Idle ELSE r]
      BY <2>2
    <3> HIDE DEF r
    <3> QED
      BY <1>2, <3>1, <3>2
  <2> QED
    BY <1>9, <2>1, <2>2 DEF WriteScore
<1>10. CASE NoteError(p)
  <2>1. CASE Return(p)
    BY <1>1, <2>1
  <2>2. CASE Goto(p, "open")
    BY <1>0, <1>4, <1>10, <2>2 DEF NoteError, Labels, Bundling, Members, Proper
  <2> QED
    BY <1>10, <2>1, <2>2 DEF NoteError
<1>11. CASE Append(p)
  BY <1>2, <1>11 DEF Append
<1>12. CASE Open(p)
  <2>1. CASE Return(p)
    BY <1>1, <2>1
  <2>2. CASE \E i \in Inodes : pass' = [pass EXCEPT ![p].pc = "score.json", ![p].fd = i]
    <3>1. PICK i \in Inodes : pass' = [pass EXCEPT ![p].pc = "score.json", ![p].fd = i]
      BY <2>2
    <3> DEFINE r == [pass[p] EXCEPT !.pc = "score.json", !.fd = i]
    <3>2. r \in Proper /\ r.pc = "score.json"
      BY <1>0, EvidenceAssumption DEF Proper, PassRecords, Labels, Bundling, Members
    <3>3. pass' = [pass EXCEPT ![p] = r]
      BY <1>0, <3>1
    <3> HIDE DEF r
    <3> QED
      BY <3>2, <3>3
  <2> QED
    BY <1>12, <2>1, <2>2 DEF Open
<1>13. CASE AddMember(p)
  <2>1. PICK name \in Members : pass[p].pc = name /\ (Goto(p, After[name]) \/ Goto(p, "remove"))
    BY <1>13 DEF AddMember, AddScore, AddCast, AddSegments, AddRecorderLog, AddScoreError, Member, Members
  <2>2. After[name] \in Members \union {"close"}
    BY DEF After, Members
  <2>3. CASE Goto(p, After[name])
    BY <1>4, <2>1, <2>2, <2>3 DEF Labels, Bundling, Members
  <2>4. CASE Goto(p, "remove")
    BY <1>4, <2>1, <2>4 DEF Labels, Bundling, Members
  <2> QED
    BY <2>1, <2>3, <2>4
<1>14. CASE Close(p)
  <2>1. CASE pass' = [pass EXCEPT ![p].pc = "rename", ![p].fd = None]
    <3> DEFINE r == [pass[p] EXCEPT !.pc = "rename", !.fd = None]
    <3>1. r \in Proper /\ r.pc = "rename"
      BY <1>0 DEF Proper, PassRecords, Labels, Bundling, Members
    <3>2. pass' = [pass EXCEPT ![p] = r]
      BY <1>0, <2>1
    <3> HIDE DEF r
    <3> QED
      BY <3>1, <3>2
  <2>2. CASE Goto(p, "remove")
    BY <1>4, <1>14, <2>2 DEF Close, Labels, Bundling, Members
  <2> QED
    BY <1>14, <2>1, <2>2 DEF Close
<1>15. CASE Rename(p)
  <2>1. CASE Return(p)
    BY <1>1, <2>1
  <2>2. CASE tmp # None /\ bundle' = tmp /\ Goto(p, "upload")
    <3> DEFINE r == [pass[p] EXCEPT !.pc = "upload"]
    <3>1. r \in Proper
      BY <1>0, <1>15 DEF Rename, Proper, PassRecords, Labels, Bundling, Members
    <3>2. pass' = [pass EXCEPT ![p] = r]
      BY <2>2 DEF Goto
    <3> HIDE DEF r
    <3> QED
      BY <2>2, <3>1, <3>2
  <2>3. CASE Goto(p, "remove")
    BY <1>0, <1>4, <1>15, <2>3 DEF Rename, Labels, Bundling, Members, Proper
  <2> QED
    BY <1>15, <2>1, <2>2, <2>3 DEF Rename
<1>16. CASE Remove(p) \/ Upload(p)
  BY <1>1, <1>16 DEF Remove, Upload
<1>17. CASE Signal(p)
  <2>1. CASE Return(p)
    BY <1>1, <2>1
  <2>2. CASE Goto(p, "kill-session")
    BY <1>0, <1>4, <1>17, <2>2 DEF Signal, Labels, Ending, Bundling, Members, Proper
  <2> QED
    BY <1>17, <2>1, <2>2 DEF Signal
<1>18. CASE KillSession(p)
  BY <1>0, <1>4, <1>18 DEF KillSession, Labels, Refreshing, Bundling, Members, Proper
<1>19. CASE Destroy(p)
  <2>1. CASE Goto(p, "stamp")
    BY <1>0, <1>4, <1>19, <2>1 DEF Destroy, Labels, Ending, Bundling, Members, Proper
  <2> QED
    BY <1>2, <1>19, <2>1 DEF Destroy
<1>20. CASE Stamp(p)
  <2>1. CASE Goto(p, "record")
    BY <1>0, <1>4, <1>20, <2>1 DEF Stamp, Labels, Ending, Bundling, Members, Proper
  <2> QED
    BY <1>2, <1>20, <2>1 DEF Stamp
<1>21. CASE Record(p) \/ Killed(p)
  BY <1>2, <1>21 DEF Record, Killed
<1> HIDE DEF Well
<1> QED
  BY <1>5, <1>6, <1>7, <1>8, <1>9, <1>10, <1>11, <1>12, <1>13, <1>14, <1>15, <1>16, <1>17,
     <1>18, <1>19, <1>20, <1>21 DEF PassStep

\* Nothing is stored but archives, and only what is stored is uploaded.
ArchivesTyped ==
    /\ disk \in [Inodes -> Archives]
    /\ {tmp, bundle} \subseteq Inodes \union {None}
    /\ bucket \in [whole : BOOLEAN, cast : [Segments -> 0..MaxStarts]]

LEMMA NoArchiveIsTyped ==
    \A p \in Procs \union {None} : Empty(p) \in Archives /\ Empty(p).writer = p
        /\ Empty(p).cast = NoCast
BY RecorderAssumption DEF Empty, Archives, Readings, NoReading, NoCast

\* What a process adds to its archive.
LEMMA AddedIs ==
    ASSUME Types, NEW p \in Procs, NEW name, NEW archive \in Archives, Member(p, name, archive),
           name \in Members
    PROVE  /\ pass[p].fd \in Inodes /\ pass[p].pc = name
           /\ UNCHANGED <<recording, environment, workdir, tmp, bundle, bucket>>
           /\ \/ /\ disk' = [disk EXCEPT ![pass[p].fd] =
                                [archive EXCEPT !.writer = IF archive.writer = p THEN p ELSE None]]
                 /\ disk' \in [Inodes -> Archives]
                 /\ pass' = [pass EXCEPT ![p].pc = After[name]] /\ UNCHANGED mishaps
              \/ /\ UNCHANGED disk /\ pass' = [pass EXCEPT ![p].pc = "remove"] /\ mishaps' # 0
<1>1. pass[p].fd \in Inodes /\ pass[p].pc = name
  BY DEF Types, Proper, PassRecords, Member, At
<1>2. [archive EXCEPT !.writer = IF archive.writer = p THEN p ELSE None] \in Archives
  BY DEF Archives
<1>3. mishaps \in Nat
  BY EvidenceAssumption DEF Types
<1>4. CASE Works /\ Put(p, archive) /\ Goto(p, After[name])
  BY <1>1, <1>2, <1>4 DEF Works, Put, Goto, Types, Member
<1>5. CASE Fails /\ UNCHANGED disk /\ Goto(p, "remove")
  BY <1>1, <1>3, <1>5 DEF Fails, Goto, Member
<1> QED
  BY <1>4, <1>5 DEF Member

LEMMA MemberIs ==
    ASSUME Types, NEW p \in Procs, AddMember(p)
    PROVE  \E archive \in Archives :
            \/ Member(p, "score.json", archive) /\ archive = [Archive(p) EXCEPT !.score = score]
            \/ Member(p, "session.cast", archive) /\ archive = [Archive(p) EXCEPT !.cast[0] = cast[0]]
            \/ /\ Member(p, "segments", archive)
               /\ archive = [Archive(p) EXCEPT !.cast =
                               [k \in Segments |-> IF k \in Contiguous THEN cast[k] ELSE @[k]]]
            \/ Member(p, "recorder.log", archive) /\ archive = [Archive(p) EXCEPT !.log = log]
            \/ Member(p, "score-error.txt", archive) /\ archive = [Archive(p) EXCEPT !.error = scoreError]
<1>0. /\ pass[p].pc \in Members => Archive(p) \in Archives
      /\ cast \in [Segments -> 0..MaxStarts] /\ 0 \in Segments /\ scoreError \in BOOLEAN
      /\ log \in SUBSET ((1..MaxStarts) \X (1..MaxSegments)) /\ score \in Readings
  BY RecorderAssumption DEF Types, Proper, PassRecords, Archive, RecorderTypeOK, Segments, Readings,
     NoReading
<1> USE DEF Member, At, Members
<1>1. CASE AddScore(p)
  BY <1>0, <1>1 DEF AddScore, Archives
<1>2. CASE AddCast(p)
  BY <1>0, <1>2 DEF AddCast, Archives
<1>3. CASE AddSegments(p)
  BY <1>0, <1>3 DEF AddSegments, Archives
<1>4. CASE AddRecorderLog(p)
  BY <1>0, <1>4 DEF AddRecorderLog, Archives
<1>5. CASE AddScoreError(p)
  BY <1>0, <1>5 DEF AddScoreError, Archives
<1> QED
  BY <1>1, <1>2, <1>3, <1>4, <1>5 DEF AddMember

LEMMA ArchivesStep ==
    ASSUME Types, NEW p \in Procs, PassStep(p)
    PROVE  ArchivesTyped' /\ mishaps' \in 0..MaxFaults
<1>0. /\ disk \in [Inodes -> Archives] /\ {tmp, bundle} \subseteq Inodes \union {None}
      /\ bucket \in [whole : BOOLEAN, cast : [Segments -> 0..MaxStarts]]
      /\ pass[p] \in Proper /\ mishaps \in 0..MaxFaults /\ MaxFaults \in Nat
  BY EvidenceAssumption DEF Types
<1>n. NoArchive \in Archives /\ Empty(p) \in Archives
  BY NoArchiveIsTyped DEF NoArchive
<1>u. \A i : [j \in Inodes |-> IF j = i THEN NoArchive ELSE disk[j]] \in [Inodes -> Archives]
  BY <1>0, <1>n
<1>f. (Works \/ Fails \/ UNCHANGED mishaps) => mishaps' \in 0..MaxFaults
  BY <1>0 DEF Works, Fails
<1>1. CASE UNCHANGED archives
  <2>1. Works \/ Fails \/ UNCHANGED mishaps
    <3>1. CASE Load(p) \/ Status(p) \/ WriteScore(p) \/ NoteError(p) \/ Append(p) \/ Open(p)
               \/ Close(p) \/ Rename(p) \/ Remove(p) \/ Upload(p)
      BY <3>1 DEF Load, Status, WriteScore, NoteError, Append, Open, Close, Rename, Remove, Upload, Works
    <3>2. CASE Check(p)
      BY <3>2 DEF Check
    <3>3. CASE AddMember(p)
      BY <3>3 DEF AddMember, AddScore, AddCast, AddSegments, AddRecorderLog, AddScoreError, Member
    <3>4. CASE Signal(p) \/ KillSession(p) \/ Destroy(p) \/ Stamp(p) \/ Record(p)
      BY <3>4 DEF Signal, KillSession, Destroy, Stamp, Record
    <3> QED
      BY <3>1, <3>2, <3>3, <3>4 DEF PassStep
  <2> QED
    BY <1>0, <1>1, <1>f, <2>1 DEF archives, ArchivesTyped
<1>2. CASE Open(p)
  <2>1. CASE UNCHANGED <<disk, tmp>>
    BY <1>0, <1>2, <1>f, <2>1 DEF Open, ArchivesTyped
  <2>2. CASE \E i \in Inodes : tmp' = i /\ disk' = [disk EXCEPT ![i] = Empty(p)]
    BY <1>0, <1>2, <1>f, <1>n, <2>2 DEF Open, ArchivesTyped
  <2> QED
    BY <1>2, <2>1, <2>2 DEF Open
<1>3. CASE AddMember(p)
  <2>1. PICK archive \in Archives, name \in Members : Member(p, name, archive)
    BY <1>3, MemberIs DEF Members
  <2>2. UNCHANGED <<tmp, bundle, bucket>> /\ disk' \in [Inodes -> Archives]
    BY <1>0, <2>1, AddedIs
  <2> QED
    BY <1>0, <1>f, <2>1, <2>2 DEF ArchivesTyped, Member
<1>4. CASE Close(p)
  <2>1. pass[p].fd \in Inodes
    BY <1>0, <1>4 DEF Close, At, Proper, PassRecords
  <2> DEFINE a == [Archive(p) EXCEPT !.whole = TRUE]
  <2>2. a \in Archives
    <3>1. Archive(p) \in Archives
      BY <1>0, <2>1 DEF Archive
    <3> QED
      BY <3>1 DEF Archives
  <2>3. [a EXCEPT !.writer = IF a.writer = p THEN p ELSE None] \in Archives
    BY <2>2 DEF Archives
  <2>4. disk' = disk \/ disk' = [disk EXCEPT ![pass[p].fd] = [a EXCEPT !.writer = IF a.writer = p THEN p ELSE None]]
    BY <1>4 DEF Close, Put
  <2> HIDE DEF a
  <2> QED
    BY <1>0, <1>4, <1>f, <2>1, <2>3, <2>4 DEF ArchivesTyped, Close
<1>5. CASE Rename(p) \/ Remove(p)
  <2>1. /\ disk' = disk \/ \E i : disk' = [j \in Inodes |-> IF j = i THEN NoArchive ELSE disk[j]]
        /\ {tmp', bundle'} \subseteq {tmp, bundle, None}
        /\ UNCHANGED bucket
    BY <1>5 DEF Rename, Remove, Unlink
  <2> QED
    BY <1>0, <1>5, <1>f, <1>u, <2>1 DEF ArchivesTyped, Rename, Remove
<1>6. CASE Upload(p)
  <2>1. bundle \in Inodes
    BY <1>0, <1>6 DEF Upload, At, Types
  <2>2. Uploaded(disk[bundle]) \in [whole : BOOLEAN, cast : [Segments -> 0..MaxStarts]]
    BY <1>0, <2>1 DEF Uploaded, Whole, Archives
  <2> QED
    BY <1>0, <1>6, <1>f, <2>2 DEF ArchivesTyped, Upload
<1> QED
  BY <1>1, <1>2, <1>3, <1>4, <1>5, <1>6
     DEF PassStep, Load, Status, Check, WriteScore, NoteError, Append, Signal, KillSession,
         Destroy, Stamp, Record

\* The types.
LEMMA TypesStep == Types /\ [Next]_vars => Types'
<1> SUFFICES ASSUME Types, [Next]_vars PROVE Types'
  OBVIOUS
<1> DEFINE Rest == /\ {env, live, ended, scoreError} \subseteq BOOLEAN
                   /\ fixed \subseteq Faults
                   /\ score \in [Faults -> Verdicts] \union {NoReading}
           Recording == RecorderTypeOK /\ (supervisor # "off" => starts # 0)
           Passes == /\ pass \in [Procs -> Proper]
                     /\ \A p \in Procs : pass[p].pc = "upload" => bundle # None
<1>0. Rest /\ Recording /\ Passes /\ ArchivesTyped /\ mishaps \in 0..MaxFaults
  BY DEF Types, ArchivesTyped
<1>j. Rest' /\ Recording' /\ Passes' /\ ArchivesTyped' /\ mishaps' \in 0..MaxFaults => Types'
  BY DEF Types, ArchivesTyped
<1>r. UNCHANGED recording => Recording'
  BY <1>0 DEF recording, RecorderTypeOK
<1>a. UNCHANGED archives => ArchivesTyped'
  BY <1>0 DEF archives, ArchivesTyped
<1>e. UNCHANGED <<environment, workdir>> => Rest'
  BY <1>0 DEF environment, workdir
<1>p. UNCHANGED <<pass, bundle>> => Passes'
  BY <1>0
<1>1. CASE UNCHANGED vars
  BY <1>0, <1>1, <1>a, <1>e, <1>j, <1>p, <1>r DEF vars, archives
<1>2. CASE StartSession \/ Interfere \/ RecorderStep
  <2>1. Start \/ KillClient \/ KillServer \/ Supervise
    BY <1>2 DEF StartSession, Interfere, RecorderStep
  <2>2. Recording'
    BY <1>0, <2>1, RecorderStepIsTyped
  <2>3. UNCHANGED <<environment, workdir, archives, pass>> /\ (Works \/ Fails)
    BY <1>2 DEF StartSession, Interfere, RecorderStep, Works
  <2>4. mishaps' \in 0..MaxFaults
    BY <1>0, <2>3, EvidenceAssumption DEF Works, Fails
  <2> QED
    BY <1>a, <1>e, <1>j, <1>p, <2>2, <2>3, <2>4 DEF archives
<1>3. CASE \E f \in Faults : Repair(f)
  <2>1. UNCHANGED <<recording, env, live, ended, workdir, archives, pass, mishaps>>
        /\ fixed' \subseteq Faults
    BY <1>0, <1>3 DEF Repair
  <2>2. Rest'
    BY <1>0, <2>1 DEF workdir
  <2> QED
    BY <1>0, <1>a, <1>j, <1>p, <1>r, <2>1, <2>2 DEF archives
<1>4. ASSUME NEW p \in Procs, Killed(p) \/ \E c \in Commands : Begin(p, c) PROVE Types'
  <2>1. PICK r \in Proper : pass' = [pass EXCEPT ![p] = r] /\ (r.pc = "upload" => bundle' # None)
    BY <1>4, ProcessIsProper
  <2>2. UNCHANGED <<recording, environment, workdir, archives>> /\ mishaps' \in 0..MaxFaults
    <3>1. CASE Killed(p)
      BY <1>0, <3>1, EvidenceAssumption DEF Killed, Fails
    <3>2. ASSUME NEW c \in Commands, Begin(p, c)
          PROVE  UNCHANGED <<recording, environment, workdir, archives, mishaps>>
      BY <3>2 DEF Begin
    <3> QED
      BY <1>0, <1>4, <3>1, <3>2
  <2>3. Passes'
    <3>1. bundle' = bundle
      BY <2>2 DEF archives
    <3> QED
      BY <1>0, <2>1, <3>1, Moved
  <2> QED
    BY <1>0, <1>a, <1>e, <1>j, <1>r, <2>2, <2>3
<1>5. ASSUME NEW p \in Procs, PassStep(p) PROVE Types'
  <2>1. PICK r \in Proper : pass' = [pass EXCEPT ![p] = r] /\ (r.pc = "upload" => bundle' # None)
    BY <1>5, ProcessIsProper
  <2>2. ArchivesTyped' /\ mishaps' \in 0..MaxFaults
    BY <1>5, ArchivesStep
  <2>3. bundle # None => bundle' # None
    <3>1. \/ UNCHANGED bundle
          \/ bundle' = tmp /\ tmp # None
      <4>1. CASE AddMember(p)
        BY <4>1, MemberIs DEF Member
      <4>2. CASE ~AddMember(p)
        BY <1>5, <4>2 DEF PassStep, Load, Status, Check, WriteScore, NoteError, Append, Open, Close,
           Rename, Remove, Upload, Signal, KillSession, Destroy, Stamp, Record, archives
      <4> QED
        BY <4>1, <4>2
    <3> QED
      BY <3>1
  <2>4. Passes'
    BY <1>0, <2>1, <2>3, Moved
  <2>5. CASE UNCHANGED <<recording, environment, workdir>>
    BY <1>j, <1>e, <1>r, <2>2, <2>4, <2>5
  <2>6. CASE WriteScore(p) \/ NoteError(p)
    <3>1. UNCHANGED <<recording, environment>> /\ scoreError' \in {scoreError, TRUE}
          /\ score' \in {score, pass[p].read}
      BY <2>6 DEF WriteScore, NoteError
    <3>2. WriteScore(p) => pass[p].read \in [Faults -> Verdicts]
      BY <1>0 DEF WriteScore, At, Proper
    <3>3. NoteError(p) => score' = score
      BY DEF NoteError
    <3>4. Rest'
      BY <1>0, <2>6, <3>1, <3>2, <3>3 DEF environment
    <3> QED
      BY <1>j, <1>r, <2>2, <2>4, <3>1, <3>4
  <2>7. CASE Signal(p) \/ KillSession(p)
    <3>1. /\ supervisor' \in {supervisor, "off"} /\ session' \in {session, FALSE}
          /\ UNCHANGED <<starts, n, cast, log>> /\ UNCHANGED <<environment, workdir>>
      BY <2>7 DEF Signal, KillSession
    <3>2. Recording'
      BY <1>0, <3>1, RecorderStepIsTyped
    <3> QED
      BY <1>e, <1>j, <2>2, <2>4, <3>1, <3>2
  <2>8. CASE Destroy(p) \/ Stamp(p) \/ Record(p)
    <3>1. UNCHANGED <<recording, workdir, fixed>> /\ env' \in {env, FALSE}
          /\ live' \in {live, FALSE} /\ ended' \in {ended, TRUE}
      BY <2>8 DEF Destroy, Stamp, Record
    <3>2. Rest'
      BY <1>0, <3>1 DEF workdir
    <3> QED
      BY <1>j, <1>r, <2>2, <2>4, <3>1, <3>2
  <2>9. AddMember(p) => UNCHANGED <<recording, environment, workdir>>
    BY MemberIs DEF Member
  <2> QED
    BY <1>5, <2>5, <2>6, <2>7, <2>8, <2>9 DEF PassStep, Load, Status, Check, Append, Open, Close,
       Rename, Remove, Upload
<1> QED
  BY <1>1, <1>2, <1>3, <1>4, <1>5 DEF Next

\* What each process leaves alone of what the recorder writes.
LEMMA RecordingFrame ==
    ASSUME NEW p \in Procs, Types, PassStep(p)
    PROVE  UNCHANGED <<starts, n, cast, log>> /\ supervisor' \in {supervisor, "off"}
<1>1. CASE AddMember(p)
  BY <1>1, MemberIs DEF Member, recording
<1>2. CASE ~AddMember(p)
  BY <1>2 DEF PassStep, Load, Status, Check, WriteScore, NoteError, Append, Open, Close,
     Rename, Remove, Upload, Signal, KillSession, Destroy, Stamp, Record, recording
<1> QED
  BY <1>1, <1>2

\* The recorder logs before it writes, and counts one by one.
LEMMA LoggedStep == Types /\ LoggedInv /\ [Next]_vars => LoggedInv'
<1> SUFFICES ASSUME Types, LoggedInv, [Next]_vars PROVE LoggedInv'
  OBVIOUS
<1> USE RecorderAssumption DEF Segments
<1>0. /\ cast \in [Segments -> 0..MaxStarts] /\ n \in Segments /\ starts \in 0..MaxStarts
      /\ supervisor # "off" => starts \in 1..MaxStarts
  BY DEF Types, RecorderTypeOK
<1>m. ASSUME NEW k, Begun(k), \A j \in Segments : cast[j] # 0 => cast'[j] # 0, log \subseteq log'
      PROVE  Begun(k)'
  BY <1>m DEF Begun
<1>q. ASSUME UNCHANGED <<n, cast, log>>, supervisor' # "off" => supervisor # "off" PROVE LoggedInv'
  BY <1>m, <1>q DEF LoggedInv
<1>1. CASE Start
  <2>1. Begun(0)'
    BY DEF Begun
  <2>2. n' = 0 /\ UNCHANGED <<cast, log>>
    BY <1>1 DEF Start
  <2>3. \A k \in Segments : cast'[k] # 0 => Begun(k)'
    BY <1>m, <2>2 DEF LoggedInv
  <2> QED
    BY <2>1, <2>2, <2>3 DEF LoggedInv
<1>2. CASE Launch
  <2>1. UNCHANGED <<n, log>> /\ supervisor # "off" /\ cast' \in {cast, [cast EXCEPT ![n] = starts]}
    BY <1>2 DEF Launch
  <2>2. \A j \in Segments : /\ cast[j] # 0 => cast'[j] # 0
                            /\ cast'[j] # 0 => cast[j] # 0 \/ j = n
    BY <1>0, <2>1
  <2>3. \A k \in Segments : cast'[k] # 0 => Begun(k)'
    BY <1>m, <2>1, <2>2 DEF LoggedInv
  <2>4. Begun(n)'
    BY <1>m, <2>1, <2>2 DEF LoggedInv
  <2> QED
    BY <2>3, <2>4 DEF LoggedInv
<1>3. CASE KillClient \/ KillServer \/ ClientEnds \/ Probe
  BY <1>3, <1>q DEF KillClient, KillServer, ClientEnds, Probe
<1>4. CASE NextSegment
  <2>1. CASE UNCHANGED <<n, log>> /\ supervisor' = "off"
    BY <1>4, <1>q, <2>1 DEF NextSegment
  <2>2. CASE cast[n] # 0 /\ n < MaxSegments /\ n' = n + 1 /\ log' = log \union {<<starts, n + 1>>}
    <3>1. UNCHANGED cast /\ Begun(n) /\ starts \in 1..MaxStarts
      BY <1>0, <1>4 DEF NextSegment, LoggedInv
    <3>2. \A k \in Segments : cast'[k] # 0 => Begun(k)'
      BY <1>m, <2>2, <3>1 DEF LoggedInv
    <3>3. \A j \in Segments : j < n' => cast'[j] # 0
      BY <1>0, <2>2, <3>1 DEF Begun
    <3>4. Begun(n)'
      BY <2>2, <3>1, <3>3 DEF Begun
    <3> QED
      BY <3>2, <3>4 DEF LoggedInv
  <2> QED
    BY <1>4, <2>1, <2>2 DEF NextSegment
<1>5. ASSUME NEW p \in Procs, PassStep(p) PROVE LoggedInv'
  BY <1>5, <1>q, RecordingFrame
<1>6. CASE UNCHANGED recording
  BY <1>6, <1>q DEF recording
<1>7. ASSUME NEW p \in Procs, Killed(p) \/ \E c \in Commands : Begin(p, c) PROVE UNCHANGED recording
  BY <1>7 DEF Killed, Begin
<1>8. ASSUME NEW f \in Faults, Repair(f) PROVE UNCHANGED recording
  BY <1>8 DEF Repair
<1> QED
  BY <1>1, <1>2, <1>3, <1>4, <1>5, <1>6, <1>7, <1>8
     DEF Next, StartSession, Interfere, RecorderStep, Supervise, vars

\* Nothing that was recorded goes away.
LEMMA CastGrows ==
    ASSUME Types, [Next]_vars
    PROVE  \A k \in Segments : cast[k] # 0 => cast'[k] # 0
<1>0. /\ cast \in [Segments -> 0..MaxStarts] /\ starts \in Nat
      /\ supervisor # "off" => starts # 0
  BY RecorderAssumption DEF Types, RecorderTypeOK
<1>1. CASE UNCHANGED cast
  BY <1>1
<1>2. CASE Launch
  <2>1. cast' \in {cast, [cast EXCEPT ![n] = starts]} /\ starts # 0
    BY <1>0, <1>2 DEF Launch
  <2> QED
    BY <1>0, <2>1
<1>3. ASSUME NEW p \in Procs, PassStep(p) \/ Killed(p) \/ \E c \in Commands : Begin(p, c)
      PROVE  UNCHANGED cast
  <2>1. ASSUME NEW c \in Commands, Begin(p, c) PROVE UNCHANGED cast
    BY <2>1 DEF Begin, recording
  <2>2. Killed(p) => UNCHANGED cast
    BY DEF Killed, recording
  <2> QED
    BY <1>3, <2>1, <2>2, RecordingFrame
<1> QED
  BY <1>1, <1>2, <1>3 DEF Next, StartSession, Start, Interfere, KillClient, KillServer, RecorderStep,
     Supervise, ClientEnds, Probe, NextSegment, Repair, recording, vars

\* The error is noted.
LEMMA NotedStep == Types /\ NotedInv /\ [Next]_vars => NotedInv'
<1> SUFFICES ASSUME Types, NotedInv, [Next]_vars PROVE NotedInv'
  OBVIOUS
<1> USE DEF At
<1>0. pass \in [Procs -> Proper] /\ \A p \in Procs : pass[p] \in Proper
  BY DEF Types
<1>1. CASE UNCHANGED <<pass, scoreError>>
  BY <1>1 DEF NotedInv
<1>2. ASSUME NEW p \in Procs, PassStep(p) \/ Killed(p) \/ \E c \in Commands : Begin(p, c)
      PROVE  NotedInv'
  <2> DEFINE Noted == \E r : /\ pass' = [pass EXCEPT ![p] = r]
                             /\ r.failed => r.pc = "note" \/ scoreError'
  <2>0. pass[p] \in PassRecords /\ (pass[p].failed => pass[p].pc = "note" \/ scoreError)
    BY <1>0 DEF NotedInv, Proper
  <2>1. ASSUME Noted, scoreError => scoreError' PROVE NotedInv'
    BY <1>0, <2>1 DEF NotedInv
  <2>2. ASSUME Return(p) PROVE Noted
    BY <2>2, ReturnIs
  <2>3. ASSUME RefreshFails(p), pass[p].pc \in {"status", "write"} PROVE Noted
    <3>1. PICK r \in Proper : pass' = [pass EXCEPT ![p] = r] /\ (r.pc = "note" \/ r = Idle)
      BY <2>3, RefreshFailsIs
    <3>2. ~Idle.failed
      BY DEF Idle
    <3> QED
      BY <3>1, <3>2
  <2>4. ASSUME pass' = [pass EXCEPT ![p] = Idle] PROVE Noted
    <3>1. ~Idle.failed
      BY DEF Idle
    <3> QED
      BY <2>4, <3>1
  <2>5. ASSUME NEW label, Goto(p, label), UNCHANGED scoreError, pass[p].pc # "note" PROVE Noted
    <3> DEFINE r == [pass[p] EXCEPT !.pc = label]
    <3>1. pass' = [pass EXCEPT ![p] = r] /\ r.failed = pass[p].failed
      BY <2>0, <2>5 DEF Goto, PassRecords
    <3> HIDE DEF r
    <3> QED
      BY <2>0, <2>5, <3>1
  <2>6. CASE \E c \in Commands : Begin(p, c)
    <3>1. PICK c \in Commands : Begin(p, c)
      BY <2>6
    <3>2. UNCHANGED scoreError
      BY <3>1 DEF Begin, workdir
    <3>3. pass'[p].failed = FALSE
      <4> DEFINE label == CASE c = "sync" -> "load" [] c \in {"score", "tick"} -> "status"
                            [] c \in {"stop", "end"} -> "signal"
      <4>1. pass' = [pass EXCEPT ![p] = [Idle EXCEPT !.doing = c, !.pc = label]]
        BY <3>1 DEF Begin
      <4> HIDE DEF label
      <4> QED
        BY <1>0, <4>1 DEF Idle
    <3>4. \A q \in Procs : q # p => pass'[q] = pass[q]
      BY <1>0, <3>1 DEF Begin
    <3> QED
      BY <3>2, <3>3, <3>4 DEF NotedInv
  <2>7. CASE Load(p) \/ Status(p) \/ Append(p)
    BY <2>1, <2>3, <2>4, <2>5, <2>7 DEF Load, Status, Append, workdir
  <2>8. CASE Check(p)
    <3>1. PICK f \in Faults, v \in Verdicts :
              LET read == [pass[p].read EXCEPT ![f] = v] IN
              pass' = [pass EXCEPT ![p].read = read, ![p].pc = Reads(p, read)]
      BY <2>8 DEF Check
    <3> DEFINE read == [pass[p].read EXCEPT ![f] = v]
               label == Reads(p, read)
               r == [pass[p] EXCEPT !.read = read, !.pc = label]
    <3>2. pass' = [pass EXCEPT ![p] = r]
      BY <1>0, <3>1
    <3> HIDE DEF read, label
    <3>3. r.failed = pass[p].failed
      BY <2>0 DEF PassRecords
    <3>4. UNCHANGED scoreError /\ pass[p].pc = "check"
      BY <2>8 DEF Check, workdir
    <3> HIDE DEF r
    <3> QED
      BY <2>0, <2>1, <3>2, <3>3, <3>4
  <2>9. CASE WriteScore(p)
    <3>1. UNCHANGED scoreError /\ pass[p].pc = "write"
      BY <2>9 DEF WriteScore
    <3>2. CASE RefreshFails(p)
      BY <2>1, <2>3, <3>1, <3>2
    <3>3. CASE pass' = [pass EXCEPT ![p] = IF @.doing = "score" THEN Idle
                                           ELSE [@ EXCEPT !.pc = "open", !.read = NoReading]]
      <4> DEFINE r == [pass[p] EXCEPT !.pc = "open", !.read = NoReading]
      <4>1. r.failed = pass[p].failed /\ ~Idle.failed
        BY <2>0 DEF PassRecords, Idle
      <4>2. pass' = [pass EXCEPT ![p] = IF pass[p].doing = "score" THEN Idle ELSE r]
        BY <3>3
      <4> HIDE DEF r
      <4> QED
        BY <2>0, <2>1, <3>1, <4>1, <4>2
    <3> QED
      BY <2>9, <3>2, <3>3 DEF WriteScore
  <2>10. CASE NoteError(p)
    <3>1. CASE Return(p) /\ UNCHANGED scoreError
      BY <2>1, <2>2, <3>1
    <3>2. CASE Goto(p, "open") /\ scoreError'
      BY <1>0, <3>2 DEF Goto, NotedInv
    <3> QED
      BY <2>10, <3>1, <3>2 DEF NoteError
  <2>11. CASE Open(p)
    <3>1. CASE Return(p)
      BY <2>1, <2>2, <2>11, <3>1 DEF Open, workdir
    <3>2. CASE \E i \in Inodes : pass' = [pass EXCEPT ![p].pc = "score.json", ![p].fd = i]
      <4>1. PICK i \in Inodes : pass' = [pass EXCEPT ![p].pc = "score.json", ![p].fd = i]
        BY <3>2
      <4> DEFINE r == [pass[p] EXCEPT !.pc = "score.json", !.fd = i]
      <4>2. pass' = [pass EXCEPT ![p] = r] /\ r.failed = pass[p].failed
        BY <1>0, <2>0, <4>1 DEF PassRecords
      <4> HIDE DEF r
      <4> QED
        BY <2>0, <2>1, <2>11, <4>2 DEF Open, workdir
    <3> QED
      BY <2>11, <3>1, <3>2 DEF Open
  <2>12. CASE AddMember(p)
    <3>1. PICK name \in Members : pass[p].pc = name /\ (Goto(p, After[name]) \/ Goto(p, "remove"))
      BY <2>12 DEF AddMember, AddScore, AddCast, AddSegments, AddRecorderLog, AddScoreError, Member, Members
    <3>2. UNCHANGED scoreError /\ pass[p].pc # "note"
      BY <2>12, <3>1, MemberIs DEF Member, workdir, Members
    <3> QED
      BY <2>1, <2>5, <3>1, <3>2
  <2>13. CASE Close(p)
    <3>1. CASE pass' = [pass EXCEPT ![p].pc = "rename", ![p].fd = None]
      <4> DEFINE r == [pass[p] EXCEPT !.pc = "rename", !.fd = None]
      <4>1. pass' = [pass EXCEPT ![p] = r] /\ r.failed = pass[p].failed
        BY <1>0, <2>0, <3>1 DEF PassRecords
      <4> HIDE DEF r
      <4> QED
        BY <2>0, <2>1, <2>13, <4>1 DEF Close, workdir
    <3>2. CASE Goto(p, "remove")
      BY <2>1, <2>5, <2>13, <3>2 DEF Close, workdir
    <3> QED
      BY <2>13, <3>1, <3>2 DEF Close
  <2>14. CASE Rename(p) \/ Remove(p) \/ Upload(p)
    BY <2>1, <2>2, <2>5, <2>14 DEF Rename, Remove, Upload, workdir
  <2>15. CASE Signal(p) \/ KillSession(p)
    BY <2>1, <2>2, <2>5, <2>15 DEF Signal, KillSession, workdir
  <2>16. CASE Destroy(p) \/ Stamp(p) \/ Record(p) \/ Killed(p)
    <3>1. UNCHANGED scoreError
      BY <2>16 DEF Destroy, Stamp, Record, Killed, workdir
    <3>2. CASE pass' = [pass EXCEPT ![p] = Idle]
      BY <2>1, <2>4, <3>1, <3>2
    <3>3. CASE Goto(p, "stamp") /\ pass[p].pc = "destroy"
      BY <2>1, <2>5, <3>1, <3>3
    <3>4. CASE Goto(p, "record") /\ pass[p].pc = "stamp"
      BY <2>1, <2>5, <3>1, <3>4
    <3> QED
      BY <2>16, <3>2, <3>3, <3>4 DEF Destroy, Stamp, Record, Killed
  <2> QED
    BY <1>2, <2>6, <2>7, <2>8, <2>9, <2>10, <2>11, <2>12, <2>13, <2>14, <2>15, <2>16 DEF PassStep
<1> QED
  BY <1>1, <1>2 DEF Next, StartSession, Interfere, RecorderStep, Repair, workdir, vars

\* The steps that touch no archive leave their process at none.
LEMMA QuietStep ==
    ASSUME Types, NEW p \in Procs,
           \/ Killed(p) \/ \E c \in Commands : Begin(p, c)
           \/ Load(p) \/ Status(p) \/ Check(p) \/ WriteScore(p) \/ NoteError(p) \/ Append(p)
           \/ Upload(p) \/ Signal(p) \/ KillSession(p) \/ Destroy(p) \/ Stamp(p) \/ Record(p)
    PROVE  /\ UNCHANGED <<disk, tmp, bundle>>
           /\ pass'[p].pc \notin Members \union {"close", "rename"}
<1> DEFINE Quiet == pass'[p].pc \notin Members \union {"close", "rename"}
<1> USE DEF At
<1>0. pass \in [Procs -> Proper] /\ pass[p] \in PassRecords
  BY DEF Types, Proper
<1>1. CASE Killed(p)
  <2>1. pass'[p].pc = "idle"
    BY <1>0, <1>1, IdleIsProper DEF Killed
  <2> QED
    BY <1>1, <2>1 DEF Killed, Members, archives
<1>2. ASSUME NEW c \in Commands, Begin(p, c) PROVE UNCHANGED <<disk, tmp, bundle>> /\ Quiet
  <2> DEFINE label == CASE c = "sync" -> "load" [] c \in {"score", "tick"} -> "status"
                        [] c \in {"stop", "end"} -> "signal"
  <2>1. label \in {"load", "status", "signal"}
    BY EvidenceAssumption DEF AllCommands
  <2>2. pass' = [pass EXCEPT ![p] = [Idle EXCEPT !.doing = c, !.pc = label]]
    BY <1>2 DEF Begin
  <2> HIDE DEF label
  <2>3. pass'[p].pc = label
    BY <1>0, <2>2 DEF Idle
  <2>4. UNCHANGED <<disk, tmp, bundle>>
    BY <1>2 DEF Begin, archives
  <2> QED
    BY <2>1, <2>3, <2>4 DEF Members
<1>3. ASSUME \/ Load(p) \/ Status(p) \/ Check(p) \/ WriteScore(p) \/ NoteError(p) \/ Append(p)
             \/ Upload(p) \/ Signal(p) \/ KillSession(p) \/ Destroy(p) \/ Stamp(p) \/ Record(p)
      PROVE  UNCHANGED <<disk, tmp, bundle>> /\ Quiet
  <2>1. UNCHANGED <<disk, tmp, bundle>>
    BY <1>3 DEF Load, Status, Check, WriteScore, NoteError, Append, Upload, Signal, KillSession,
       Destroy, Stamp, Record, archives
  <2>2. ASSUME NEW label, Goto(p, label), label \notin Members \union {"close", "rename"}
        PROVE  Quiet
    <3>1. pass'[p].pc = label
      BY <1>0, <2>2 DEF Goto, PassRecords
    <3> QED
      BY <2>2, <3>1
  <2>3. ASSUME Return(p) PROVE Quiet
    <3>1. pass'[p].pc \in {"idle", "destroy"}
      BY <1>0, <2>3, ReturnIs, IdleIsProper
    <3> QED
      BY <3>1 DEF Members
  <2>4. ASSUME RefreshFails(p), pass[p].pc \in {"status", "write"} PROVE Quiet
    <3>1. pass'[p].pc \in {"note", "idle"}
      BY <1>0, <2>4, RefreshFailsIs, IdleIsProper
    <3> QED
      BY <3>1 DEF Members
  <2>5. ASSUME pass' = [pass EXCEPT ![p] = Idle] PROVE Quiet
    <3>1. pass'[p].pc = "idle"
      BY <1>0, <2>5, IdleIsProper
    <3> QED
      BY <3>1 DEF Members
  <2>6. CASE Load(p) \/ Status(p) \/ NoteError(p) \/ Signal(p) \/ KillSession(p)
    BY <2>1, <2>2, <2>3, <2>4, <2>6 DEF Load, Status, NoteError, Signal, KillSession, Members
  <2>7. CASE Append(p) \/ Upload(p) \/ Destroy(p) \/ Stamp(p) \/ Record(p)
    BY <2>1, <2>2, <2>3, <2>5, <2>7 DEF Append, Upload, Destroy, Stamp, Record, Members
  <2>8. CASE Check(p)
    <3>1. PICK read : pass' = [pass EXCEPT ![p].read = read, ![p].pc = Reads(p, read)]
      BY <2>8 DEF Check
    <3>2. Reads(p, read) \in {"check", "append", "write"}
      BY DEF Reads
    <3>3. pass'[p].pc = Reads(p, read)
      BY <1>0, <3>1 DEF PassRecords
    <3> QED
      BY <2>1, <3>2, <3>3 DEF Members
  <2>9. CASE WriteScore(p)
    <3>1. CASE RefreshFails(p)
      BY <2>1, <2>4, <2>9, <3>1 DEF WriteScore
    <3>2. CASE pass' = [pass EXCEPT ![p] = IF @.doing = "score" THEN Idle
                                           ELSE [@ EXCEPT !.pc = "open", !.read = NoReading]]
      <4>1. pass'[p].pc \in {"idle", "open"}
        BY <1>0, <3>2, IdleIsProper DEF PassRecords
      <4> QED
        BY <2>1, <4>1 DEF Members
    <3> QED
      BY <2>9, <3>1, <3>2 DEF WriteScore
  <2> QED
    BY <1>3, <2>6, <2>7, <2>8, <2>9
<1> QED
  BY <1>1, <1>2, <1>3

\* One process builds one archive, under the temporary name, and the last good one stays.
LEMMA CopyingStep ==
    ASSUME OneAtATime, Types, LoggedInv, NotedInv, ArchivesInv, NotedInv', [Next]_vars
    PROVE  ArchivesInv'
<1> USE DEF At
<1>0. /\ pass \in [Procs -> Proper] /\ disk \in [Inodes -> Archives]
      /\ {tmp, bundle} \subseteq Inodes \union {None}
  BY DEF Types
<1>c. \A k \in Segments : cast[k] # 0 => cast'[k] # 0
  BY CastGrows
\* Where the last good archive stays.
<1>b. ASSUME UNCHANGED bundle, bundle # None => disk'[bundle] = disk[bundle]
      PROVE  (bundle # None => Whole(disk[bundle]) /\ Accounted(disk[bundle]))'
  BY <1>b DEF ArchivesInv, Accounted, Whole
<1>1. CASE UNCHANGED <<disk, tmp, bundle, pass>>
  <2>1. ASSUME NEW p \in Procs PROVE Copying(p)'
    <3>1. Copying(p)
      BY DEF ArchivesInv
    <3>2. (Accounted(disk[tmp]))' <=> Accounted(disk[tmp])
      BY <1>1 DEF Accounted
    <3> QED
      BY <1>1, <1>c, <3>1, <3>2 DEF Copying
  <2> QED
    BY <1>1, <1>b, <2>1 DEF ArchivesInv
\* Where a process is not at it.
<1>2. ASSUME NEW p \in Procs, NEW r \in Proper, pass' = [pass EXCEPT ![p] = r],
             r.pc \notin Members \union {"close", "rename"},
             tmp' # None => tmp' # bundle', (bundle # None => Whole(disk[bundle]) /\ Accounted(disk[bundle]))'
      PROVE  ArchivesInv'
  <2>1. Copying(p)'
    BY <1>0, <1>2 DEF Copying, Members
  <2> QED
    BY <1>2, <2>1 DEF ArchivesInv, OneAtATime
<1>3. ASSUME NEW p \in Procs, PassStep(p) \/ Killed(p) \/ \E c \in Commands : Begin(p, c),
             UNCHANGED <<disk, tmp, bundle>>,
             pass'[p].pc \notin Members \union {"close", "rename"}
      PROVE  ArchivesInv'
  <2>1. PICK r \in Proper : pass' = [pass EXCEPT ![p] = r]
    BY <1>3, ProcessIsProper
  <2>2. pass'[p] = r
    BY <1>0, <2>1
  <2> QED
    BY <1>2, <1>3, <1>b, <2>1, <2>2 DEF ArchivesInv
<1>4. ASSUME NEW p \in Procs, Return(p), UNCHANGED <<disk, tmp, bundle>>,
             PassStep(p) \/ Killed(p) \/ \E c \in Commands : Begin(p, c)
      PROVE  ArchivesInv'
  <2>1. PICK r \in Proper : pass' = [pass EXCEPT ![p] = r] /\ (r = Idle \/ r.pc = "destroy")
    BY <1>4, ReturnIs
  <2>2. pass'[p] = r /\ r.pc \in {"idle", "destroy"}
    BY <1>0, <2>1, IdleIsProper
  <2> QED
    BY <1>3, <1>4, <2>2 DEF Members
\* The steps that touch no archive.
<1>5. ASSUME NEW p \in Procs, Killed(p) \/ \E c \in Commands : Begin(p, c) PROVE ArchivesInv'
  BY <1>3, <1>5, QuietStep
<1>6. ASSUME NEW p \in Procs, Load(p) \/ Status(p) \/ Check(p) \/ WriteScore(p) \/ NoteError(p)
                 \/ Append(p) \/ Upload(p) \/ Signal(p) \/ KillSession(p) \/ Destroy(p)
                 \/ Stamp(p) \/ Record(p)
      PROVE  ArchivesInv'
  <2>1. PassStep(p)
    BY <1>6 DEF PassStep
  <2> QED
    BY <1>3, <1>6, <2>1, QuietStep
\* The steps of the copy.
<1>7. ASSUME NEW p \in Procs, Open(p) PROVE ArchivesInv'
  <2>1. CASE Return(p) /\ UNCHANGED <<disk, tmp>>
    BY <1>4, <1>7, <2>1 DEF Open, PassStep
  <2>2. CASE \E i \in Inodes :
                /\ IF tmp # None THEN i = tmp ELSE i # bundle
                /\ tmp' = i /\ disk' = [disk EXCEPT ![i] = Empty(p)]
                /\ pass' = [pass EXCEPT ![p].pc = "score.json", ![p].fd = i]
    <3>1. PICK i \in Inodes :
                /\ IF tmp # None THEN i = tmp ELSE i # bundle
                /\ tmp' = i /\ disk' = [disk EXCEPT ![i] = Empty(p)]
                /\ pass' = [pass EXCEPT ![p].pc = "score.json", ![p].fd = i]
      BY <2>2
    <3>2. i # bundle /\ i # None /\ UNCHANGED bundle
      BY <1>7, <3>1, EvidenceAssumption DEF ArchivesInv, Open
    <3>3. disk'[tmp'] = Empty(p) /\ (bundle # None => disk'[bundle] = disk[bundle])
      BY <1>0, <3>1, <3>2
    <3>4. pass'[p].pc = "score.json" /\ pass'[p].fd = i
      BY <1>0, <3>1 DEF Proper, PassRecords
    <3>5. disk'[tmp'].writer = p /\ disk'[tmp'].cast = NoCast
      BY <3>3, NoArchiveIsTyped
    <3>6. Copying(p)'
      BY <3>1, <3>2, <3>4, <3>5 DEF Copying, Members, NoCast
    <3>7. (bundle # None => Whole(disk[bundle]) /\ Accounted(disk[bundle]))'
      BY <1>b, <3>2, <3>3
    <3> QED
      BY <3>1, <3>2, <3>6, <3>7 DEF ArchivesInv, OneAtATime
  <2> QED
    BY <1>7, <2>1, <2>2 DEF Open
<1>8. ASSUME NEW p \in Procs, AddMember(p) PROVE ArchivesInv'
  <2>1. pass[p].fd = tmp /\ tmp # None /\ tmp \in Inodes /\ Archive(p) = disk[tmp]
        /\ disk[tmp].writer = p /\ disk[tmp] \in Archives /\ Copying(p) /\ tmp # bundle
    <3>1. pass[p].pc \in Members
      BY <1>8, MemberIs DEF Member, Members
    <3> QED
      BY <1>0, <3>1 DEF ArchivesInv, Copying, Archive
  <2>2. ASSUME NEW name \in Members, NEW archive \in Archives, Member(p, name, archive),
               archive.writer = p,
               name \in {"score.json", "session.cast"} =>
                   \A k \in Segments \ {0} : archive.cast[k] = disk[tmp].cast[k],
               name = "segments" =>
                   \A k \in Segments \ {0} : archive.cast[k] # 0 => cast[k] # 0,
               name \in {"recorder.log", "score-error.txt"} => Accounted(archive),
               name = "score-error.txt" => archive.error = scoreError
        PROVE  ArchivesInv'
    <3>1. UNCHANGED <<recording, scoreError, tmp, bundle>> /\ pass[p].pc = name
      BY <2>2, AddedIs DEF workdir
    <3>2. CASE UNCHANGED disk /\ pass' = [pass EXCEPT ![p].pc = "remove"]
      <4>1. pass'[p].pc = "remove"
        BY <1>0, <3>2 DEF Proper, PassRecords
      <4> QED
        BY <1>3, <1>8, <3>1, <3>2, <4>1 DEF PassStep, Members
    <3> DEFINE a == [archive EXCEPT !.writer = IF archive.writer = p THEN p ELSE None]
    <3>3. CASE /\ disk' = [disk EXCEPT ![tmp] = a]
               /\ pass' = [pass EXCEPT ![p].pc = After[name]]
      <4>1. a = archive
        BY <2>2 DEF Archives
      <4>2. disk'[tmp] = archive /\ (bundle # None => disk'[bundle] = disk[bundle])
        BY <1>0, <2>1, <3>3, <4>1
      <4>3. pass'[p].pc = After[name] /\ pass'[p].fd = pass[p].fd /\ pass'[p].failed = pass[p].failed
        BY <1>0, <3>3 DEF Proper, PassRecords
      <4>4. tmp' = tmp /\ cast' = cast /\ scoreError' = scoreError
        BY <3>1 DEF recording
      <4> HIDE DEF a
      <4>5. Copying(p)'
        <5>1. CASE name \in {"score.json", "session.cast"}
          <6>1. After[name] \in {"session.cast", "segments"}
            BY <5>1 DEF After, Members
          <6> QED
            BY <2>1, <2>2, <3>1, <4>2, <4>3, <4>4, <5>1, <6>1 DEF Copying, Members
        <5>2. CASE name = "segments"
          <6>1. After[name] = "recorder.log"
            BY <5>2 DEF After, Members
          <6> QED
            BY <2>1, <2>2, <3>1, <4>2, <4>3, <4>4, <5>2, <6>1 DEF Copying, Members
        <5>3. CASE name = "recorder.log"
          <6>1. After[name] = "score-error.txt"
            BY <5>3 DEF After, Members
          <6>2. Accounted(disk[tmp])'
            BY <2>2, <4>2, <4>4, <5>3 DEF Accounted
          <6> QED
            BY <2>1, <2>2, <3>1, <4>2, <4>3, <4>4, <5>3, <6>1, <6>2 DEF Copying, Members
        <5>4. CASE name = "score-error.txt"
          <6>1. After[name] = "close"
            BY <5>4 DEF After, Members
          <6>2. Accounted(disk[tmp])'
            BY <2>2, <4>2, <4>4, <5>4 DEF Accounted
          <6>3. pass[p].failed => disk'[tmp'].error
            BY <2>2, <3>1, <4>2, <4>4, <5>4 DEF NotedInv
          <6> QED
            BY <2>1, <2>2, <3>1, <4>2, <4>3, <4>4, <5>4, <6>1, <6>2, <6>3 DEF Copying, Members
        <5> QED
          BY <2>2, <5>1, <5>2, <5>3, <5>4 DEF Members
      <4>6. (bundle # None => Whole(disk[bundle]) /\ Accounted(disk[bundle]))'
        BY <1>b, <3>1, <4>2
      <4> QED
        BY <2>1, <3>1, <4>5, <4>6 DEF ArchivesInv, OneAtATime
    <3>4. \/ /\ disk' = [disk EXCEPT ![tmp] = a]
             /\ pass' = [pass EXCEPT ![p].pc = After[name]]
          \/ UNCHANGED disk /\ pass' = [pass EXCEPT ![p].pc = "remove"]
      <4>1. \/ /\ disk' = [disk EXCEPT ![pass[p].fd] = a]
               /\ pass' = [pass EXCEPT ![p].pc = After[name]]
            \/ UNCHANGED disk /\ pass' = [pass EXCEPT ![p].pc = "remove"]
        BY <2>2, AddedIs
      <4> HIDE DEF a
      <4> QED
        BY <2>1, <4>1
    <3> QED
      BY <3>2, <3>3, <3>4
  <2> USE DEF Members
  <2>3. PICK archive \in Archives :
            \/ Member(p, "score.json", archive) /\ archive = [Archive(p) EXCEPT !.score = score]
            \/ Member(p, "session.cast", archive) /\ archive = [Archive(p) EXCEPT !.cast[0] = cast[0]]
            \/ /\ Member(p, "segments", archive)
               /\ archive = [Archive(p) EXCEPT !.cast =
                               [k \in Segments |-> IF k \in Contiguous THEN cast[k] ELSE @[k]]]
            \/ Member(p, "recorder.log", archive) /\ archive = [Archive(p) EXCEPT !.log = log]
            \/ Member(p, "score-error.txt", archive) /\ archive = [Archive(p) EXCEPT !.error = scoreError]
    BY <1>8, MemberIs
  <2>4. CASE Member(p, "score.json", archive) /\ archive = [Archive(p) EXCEPT !.score = score]
    <3>1. archive.writer = p /\ archive.cast = disk[tmp].cast
      BY <2>1, <2>4 DEF Archives
    <3> QED
      BY <2>2, <2>4, <3>1
  <2>5. CASE Member(p, "session.cast", archive) /\ archive = [Archive(p) EXCEPT !.cast[0] = cast[0]]
    <3>1. archive.writer = p /\ \A k \in Segments \ {0} : archive.cast[k] = disk[tmp].cast[k]
      BY <2>1, <2>5 DEF Archives
    <3> QED
      BY <2>2, <2>5, <3>1
  <2>6. CASE /\ Member(p, "segments", archive)
             /\ archive = [Archive(p) EXCEPT !.cast =
                               [k \in Segments |-> IF k \in Contiguous THEN cast[k] ELSE @[k]]]
    <3>0. pass[p].pc = "segments"
      BY <2>6, AddedIs
    <3>1. ASSUME NEW k \in Contiguous PROVE cast[k] # 0
      <4>1. k \in 1..k
        BY RecorderAssumption DEF Contiguous, Segments
      <4> QED
        BY <4>1 DEF Contiguous
    <3>2. archive.writer = p /\ \A k \in Segments :
              archive.cast[k] = IF k \in Contiguous THEN cast[k] ELSE disk[tmp].cast[k]
      BY <2>1, <2>6 DEF Archives
    <3>3. \A k \in Segments \ {0} : archive.cast[k] # 0 => cast[k] # 0
      BY <2>1, <3>0, <3>1, <3>2 DEF Copying
    <3> QED
      BY <2>2, <2>6, <3>2, <3>3
  <2>7. CASE Member(p, "recorder.log", archive) /\ archive = [Archive(p) EXCEPT !.log = log]
    <3>0. pass[p].pc = "recorder.log"
      BY <2>7, AddedIs
    <3>1. archive.writer = p /\ archive.log = log /\ archive.cast = disk[tmp].cast
      BY <2>1, <2>7 DEF Archives
    <3>2. Accounted(archive)
      BY <2>1, <3>0, <3>1 DEF Accounted, Copying, LoggedInv, Begun
    <3> QED
      BY <2>2, <2>7, <3>1, <3>2
  <2>8. CASE Member(p, "score-error.txt", archive) /\ archive = [Archive(p) EXCEPT !.error = scoreError]
    <3>0. pass[p].pc = "score-error.txt"
      BY <2>8, AddedIs
    <3>1. /\ archive.writer = p /\ archive.log = disk[tmp].log /\ archive.cast = disk[tmp].cast
          /\ archive.error = scoreError
      BY <2>1, <2>8 DEF Archives
    <3>2. Accounted(archive)
      BY <2>1, <3>0, <3>1 DEF Accounted, Copying
    <3> QED
      BY <2>2, <2>8, <3>1, <3>2
  <2> QED
    BY <2>3, <2>4, <2>5, <2>6, <2>7, <2>8
<1>9. ASSUME NEW p \in Procs, Close(p) PROVE ArchivesInv'
  <2>1. pass[p].pc = "close" /\ pass[p].fd = tmp /\ tmp # None /\ tmp \in Inodes /\ Copying(p)
        /\ disk[tmp].writer = p /\ disk[tmp] \in Archives /\ tmp # bundle /\ UNCHANGED <<tmp, bundle>>
    BY <1>0, <1>9 DEF Close, ArchivesInv, Copying
  <2>2. CASE UNCHANGED disk /\ Goto(p, "remove")
    <3>1. pass'[p].pc = "remove"
      BY <1>0, <2>2 DEF Goto, Proper, PassRecords
    <3> QED
      BY <1>3, <1>9, <2>1, <2>2, <3>1 DEF PassStep, Members
  <2>3. CASE /\ Put(p, [Archive(p) EXCEPT !.whole = TRUE])
             /\ pass' = [pass EXCEPT ![p].pc = "rename", ![p].fd = None]
    <3> DEFINE a == [disk[tmp] EXCEPT !.whole = TRUE]
               b == [a EXCEPT !.writer = IF a.writer = p THEN p ELSE None]
    <3>1. /\ b.writer = p /\ b.whole /\ b.cast = disk[tmp].cast /\ b.log = disk[tmp].log
          /\ b.error = disk[tmp].error
      BY <2>1 DEF Archives
    <3>2. disk' = [disk EXCEPT ![tmp] = b]
      BY <2>1, <2>3 DEF Put, Archive
    <3> HIDE DEF b
    <3>3. disk'[tmp] = b /\ (bundle # None => disk'[bundle] = disk[bundle])
      BY <1>0, <2>1, <3>2
    <3>4. pass'[p].pc = "rename" /\ pass'[p].failed = pass[p].failed
      BY <1>0, <2>3 DEF Proper, PassRecords
    <3>5. Accounted(disk[tmp])'
      BY <2>1, <3>1, <3>3 DEF Accounted, Copying
    <3>6. Copying(p)'
      BY <2>1, <3>1, <3>3, <3>4, <3>5 DEF Copying, Members
    <3>7. (bundle # None => Whole(disk[bundle]) /\ Accounted(disk[bundle]))'
      BY <1>b, <2>1, <3>3
    <3> QED
      BY <2>1, <3>6, <3>7 DEF ArchivesInv, OneAtATime
  <2> QED
    BY <1>9, <2>2, <2>3 DEF Close
<1>10. ASSUME NEW p \in Procs, Rename(p) PROVE ArchivesInv'
  <2>1. pass[p].pc = "rename" /\ tmp # None /\ tmp \in Inodes /\ Copying(p) /\ tmp # bundle
        /\ disk[tmp].writer = p
    BY <1>0, <1>10 DEF Rename, ArchivesInv, Copying
  <2>2. CASE UNCHANGED <<disk, tmp, bundle>> /\ Goto(p, "remove")
    <3>1. pass'[p].pc = "remove"
      BY <1>0, <2>2 DEF Goto, Proper, PassRecords
    <3> QED
      BY <1>3, <1>10, <2>2, <3>1 DEF PassStep, Members
  <2>3. CASE bundle' = tmp /\ tmp' = None /\ Unlink(bundle) /\ (Goto(p, "upload") \/ Return(p))
    <3>1. disk'[bundle'] = disk[tmp]
      BY <1>0, <2>1, <2>3 DEF Unlink
    <3>2. Whole(disk[tmp]) /\ Accounted(disk[tmp])
      BY <2>1, EvidenceAssumption DEF Copying, Whole
    <3>3. (bundle # None => Whole(disk[bundle]) /\ Accounted(disk[bundle]))'
      BY <3>1, <3>2 DEF Whole, Accounted
    <3>4. PICK r \in Proper : pass' = [pass EXCEPT ![p] = r]
      BY <1>10, ProcessIsProper DEF PassStep
    <3>5. pass'[p] = r
      BY <1>0, <3>4
    <3>6. CASE Goto(p, "upload")
      <4>1. r.pc = "upload"
        BY <1>0, <3>5, <3>6 DEF Goto, Proper, PassRecords
      <4> QED
        BY <1>2, <2>3, <3>3, <3>4, <4>1 DEF Members
    <3>7. CASE Return(p)
      <4>1. r.pc \in {"idle", "destroy"}
        BY <1>0, <3>5, <3>7, ReturnIs, IdleIsProper
      <4> QED
        BY <1>2, <2>3, <3>3, <3>4, <4>1 DEF Members
    <3> QED
      BY <2>3, <3>6, <3>7
  <2> QED
    BY <1>10, <2>2, <2>3 DEF Rename
<1>11. ASSUME NEW p \in Procs, Remove(p) PROVE ArchivesInv'
  <2>1. tmp' = None /\ Unlink(tmp) /\ Return(p) /\ UNCHANGED bundle
    BY <1>11 DEF Remove
  <2>2. bundle # None => bundle # tmp /\ bundle \in Inodes
    BY <1>0 DEF ArchivesInv
  <2>3. bundle # None => disk'[bundle] = disk[bundle]
    BY <2>1, <2>2 DEF Unlink
  <2>4. PICK r \in Proper : pass' = [pass EXCEPT ![p] = r] /\ (r = Idle \/ r.pc = "destroy")
    BY <2>1, ReturnIs
  <2>5. r.pc \in {"idle", "destroy"}
    BY <2>4, IdleIsProper
  <2> QED
    BY <1>2, <1>b, <2>1, <2>3, <2>4, <2>5 DEF Members
<1> QED
  BY <1>1, <1>5, <1>6, <1>7, <1>8, <1>9, <1>10, <1>11
     DEF Next, PassStep, StartSession, Interfere, RecorderStep, Repair, archives, vars

\* Once the state is stamped nobody reads the environment.
LEMMA StampedStep ==
    ASSUME OneAtATime, Types, StampedInv, [Next]_vars
    PROVE  StampedInv'
<1> USE DEF At
<1>0. pass \in [Procs -> Proper] /\ \A p \in Procs : pass[p] \in PassRecords
  BY DEF Types, Proper
<1>1. CASE UNCHANGED <<live, ended, pass>>
  BY <1>1 DEF StampedInv
<1>2. ASSUME NEW p \in Procs, UNCHANGED <<live, ended>>, pass'[p].pc # "record",
             pass'[p].pc \in {"check", "write", "append"} =>
                pass[p].pc \in {"check", "write", "append"} \/ live
      PROVE  StampedInv'
  BY <1>2 DEF StampedInv, OneAtATime
<1>3. ASSUME NEW p \in Procs, Return(p) PROVE pass'[p].pc \in {"idle", "destroy"}
  BY <1>0, <1>3, ReturnIs, IdleIsProper
<1>4. ASSUME NEW p \in Procs, NEW label, Goto(p, label) PROVE pass'[p].pc = label
  BY <1>0, <1>4 DEF Goto, PassRecords
<1>5. ASSUME NEW p \in Procs, RefreshFails(p), pass[p].pc \in {"status", "write"}
      PROVE  pass'[p].pc \in {"idle", "note"}
  BY <1>0, <1>5, RefreshFailsIs, IdleIsProper
<1>6. ASSUME NEW p \in Procs, pass' = [pass EXCEPT ![p] = Idle] PROVE pass'[p].pc = "idle"
  BY <1>0, <1>6, IdleIsProper
<1>7. ASSUME NEW p \in Procs, NEW c \in Commands, Begin(p, c) PROVE StampedInv'
  <2> DEFINE label == CASE c = "sync" -> "load" [] c \in {"score", "tick"} -> "status"
                        [] c \in {"stop", "end"} -> "signal"
  <2>1. label \in {"load", "status", "signal"}
    BY EvidenceAssumption DEF AllCommands
  <2>2. pass' = [pass EXCEPT ![p] = [Idle EXCEPT !.doing = c, !.pc = label]]
    BY <1>7 DEF Begin
  <2> HIDE DEF label
  <2>3. pass'[p].pc = label
    BY <1>0, <2>2 DEF Idle
  <2> QED
    BY <1>2, <1>7, <2>1, <2>3 DEF Begin, environment
<1>8. ASSUME NEW p \in Procs, Killed(p) PROVE StampedInv'
  BY <1>2, <1>6, <1>8 DEF Killed, environment
<1>9. ASSUME NEW p \in Procs, Load(p) \/ Status(p) \/ NoteError(p) \/ Append(p) PROVE StampedInv'
  <2>1. UNCHANGED <<live, ended>>
    BY <1>9 DEF Load, Status, NoteError, Append, environment
  <2>2. pass'[p].pc \in {"status", "open", "check", "idle", "note", "destroy"}
        /\ (pass'[p].pc = "check" => live)
    BY <1>3, <1>4, <1>5, <1>6, <1>9 DEF Load, Status, NoteError, Append
  <2> QED
    BY <1>2, <2>1, <2>2
<1>10. ASSUME NEW p \in Procs, Check(p) \/ WriteScore(p) PROVE StampedInv'
  <2>1. UNCHANGED <<live, ended>> /\ pass[p].pc \in {"check", "write"}
    BY <1>10 DEF Check, WriteScore, environment
  <2>2. pass'[p].pc # "record"
    <3>1. CASE Check(p)
      <4>1. PICK read : pass' = [pass EXCEPT ![p].read = read, ![p].pc = Reads(p, read)]
        BY <3>1 DEF Check
      <4>2. Reads(p, read) \in {"check", "append", "write"}
        BY DEF Reads
      <4>3. pass'[p].pc = Reads(p, read)
        BY <1>0, <4>1 DEF PassRecords
      <4> QED
        BY <4>2, <4>3
    <3>2. CASE WriteScore(p)
      <4>1. CASE RefreshFails(p)
        BY <1>5, <3>2, <4>1 DEF WriteScore
      <4>2. CASE pass' = [pass EXCEPT ![p] = IF @.doing = "score" THEN Idle
                                             ELSE [@ EXCEPT !.pc = "open", !.read = NoReading]]
        <5> DEFINE r == [pass[p] EXCEPT !.pc = "open", !.read = NoReading]
        <5>1. r.pc = "open"
          BY <1>0 DEF PassRecords
        <5>2. pass' = [pass EXCEPT ![p] = IF pass[p].doing = "score" THEN Idle ELSE r]
          BY <4>2
        <5> HIDE DEF r
        <5> QED
          BY <1>0, <5>1, <5>2, IdleIsProper
      <4> QED
        BY <3>2, <4>1, <4>2 DEF WriteScore
    <3> QED
      BY <1>10, <3>1, <3>2
  <2> QED
    BY <1>2, <2>1, <2>2
<1>11. ASSUME NEW p \in Procs, Open(p) \/ AddMember(p) \/ Close(p) \/ Rename(p) \/ Remove(p) \/ Upload(p)
       PROVE  StampedInv'
  <2>1. UNCHANGED <<live, ended>>
    BY <1>11, MemberIs DEF Open, Member, Close, Rename, Remove, Upload, environment
  <2>2. pass'[p].pc \in {"idle", "destroy"} \union Bundling
    <3>1. CASE Open(p)
      <4>1. CASE Return(p)
        BY <1>3, <4>1
      <4>2. CASE \E i \in Inodes : pass' = [pass EXCEPT ![p].pc = "score.json", ![p].fd = i]
        <5>1. pass'[p].pc = "score.json"
          BY <1>0, <4>2 DEF PassRecords
        <5> QED
          BY <5>1 DEF Bundling, Members
      <4> QED
        BY <3>1, <4>1, <4>2 DEF Open
    <3>2. CASE AddMember(p)
      <4>1. PICK name \in Members : Goto(p, After[name]) \/ Goto(p, "remove")
        BY <3>2 DEF AddMember, AddScore, AddCast, AddSegments, AddRecorderLog, AddScoreError, Member, Members
      <4>2. After[name] \in Members \union {"close"}
        BY DEF After, Members
      <4> QED
        BY <1>4, <4>1, <4>2 DEF Bundling
    <3>3. CASE Close(p) \/ Rename(p) \/ Remove(p) \/ Upload(p)
      BY <1>0, <1>3, <1>4, <3>3 DEF Close, Rename, Remove, Upload, PassRecords, Bundling
    <3> QED
      BY <1>11, <3>1, <3>2, <3>3
  <2> QED
    BY <1>2, <2>1, <2>2 DEF Bundling, Members
<1>12. ASSUME NEW p \in Procs, Signal(p) \/ KillSession(p) PROVE StampedInv'
  <2>1. UNCHANGED <<live, ended>> /\ pass'[p].pc \in {"kill-session", "load", "idle", "destroy"}
    BY <1>3, <1>4, <1>12 DEF Signal, KillSession, environment
  <2> QED
    BY <1>2, <2>1
<1>13. ASSUME NEW p \in Procs, Destroy(p) PROVE StampedInv'
  <2>1. UNCHANGED <<live, ended>> /\ pass'[p].pc \in {"stamp", "idle"}
    BY <1>4, <1>6, <1>13 DEF Destroy
  <2> QED
    BY <1>2, <2>1
<1>14. ASSUME NEW p \in Procs, Stamp(p) PROVE StampedInv'
  <2>1. pass'[p].pc \in {"record", "idle"} /\ UNCHANGED ended
    BY <1>4, <1>6, <1>14 DEF Stamp
  <2>2. pass'[p].pc = "record" => ~live'
    BY <1>0, <1>6, <1>14 DEF Stamp
  <2>3. live' => live
    BY <1>14 DEF Stamp
  <2> QED
    BY <2>1, <2>2, <2>3 DEF StampedInv, OneAtATime
<1>15. ASSUME NEW p \in Procs, Record(p) PROVE StampedInv'
  <2>1. pass[p].pc = "record" /\ UNCHANGED live /\ pass'[p].pc = "idle"
    BY <1>6, <1>15 DEF Record
  <2> QED
    BY <2>1 DEF StampedInv, OneAtATime
<1> QED
  BY <1>1, <1>7, <1>8, <1>9, <1>10, <1>11, <1>12, <1>13, <1>14, <1>15
     DEF Next, PassStep, StartSession, Interfere, RecorderStep, Repair, environment, vars

\* While nothing goes wrong, a session ends with the truth in its score and every segment in
\* its bundle.
LEMMA EndingStep ==
    ASSUME OneAtATime, Types, LoggedInv, ArchivesInv, EndingInv, [Next]_vars
    PROVE  EndingInv'
<1> SUFFICES ASSUME mishaps' = 0 PROVE EndingInv'
  BY DEF EndingInv
<1> USE DEF At
<1>0. /\ pass \in [Procs -> Proper] /\ \A p \in Procs : pass[p] \in PassRecords
      /\ disk \in [Inodes -> Archives] /\ {tmp, bundle} \subseteq Inodes \union {None}
      /\ mishaps \in Nat /\ cast \in [Segments -> 0..MaxStarts]
  BY EvidenceAssumption DEF Types, Proper, RecorderTypeOK
<1>m. ~Fails
  BY <1>0 DEF Fails
\* Everybody but the processes.
<1>1. ASSUME UNCHANGED <<live, ended, score, disk, tmp, bundle, pass, mishaps, env>>,
             \A p \in Procs : Sealed(p) => supervisor' = "off" /\ (env => ~session')
                                           /\ UNCHANGED <<cast, fixed>>,
             \A p \in Procs : pass[p].doing = "end" /\ pass[p].pc = "kill-session" => supervisor' = "off"
      PROVE  EndingInv'
  <2>1. ASSUME NEW p \in Procs PROVE Stopped(p)' /\ Lives(p)' /\ Scored(p)' /\ Copied(p)'
    <3>0. Stopped(p) /\ Lives(p) /\ Scored(p) /\ Copied(p)
      BY <1>1 DEF EndingInv
    <3>1. Sealed(p)' <=> Sealed(p)
      BY <1>1 DEF Sealed
    <3>2. Sealed(p) => Truth' = Truth
      BY <1>1 DEF Truth
    <3>3. Stopped(p)' /\ Lives(p)'
      BY <1>1, <3>0, <3>1 DEF Stopped, Lives
    <3>4. Scored(p)'
      BY <1>1, <3>0, <3>1, <3>2 DEF Scored
    <3>5. Copied(p)'
      BY <1>1, <3>0, <3>1 DEF Copied
    <3> QED
      BY <3>3, <3>4, <3>5
  <2> QED
    BY <1>1, <2>1 DEF EndingInv
<1>2. CASE UNCHANGED vars
  <2>1. mishaps = 0
    BY <1>2 DEF vars
  <2> QED
    BY <1>1, <1>2, <2>1 DEF vars, recording, environment, workdir, archives, EndingInv, Stopped
<1>3. CASE StartSession
  <2>1. UNCHANGED <<live, ended, score, disk, tmp, bundle, pass, mishaps, env>> /\ env
    BY <1>3, <1>m DEF StartSession, Works, environment, workdir, archives
  <2>2. ASSUME NEW p \in Procs
        PROVE  ~Sealed(p) /\ ~(pass[p].doing = "end" /\ pass[p].pc = "kill-session")
    BY <1>3, <2>1 DEF StartSession, Sealed
  <2> QED
    BY <1>1, <2>1, <2>2
<1>4. CASE Interfere \/ RecorderStep
  <2>1. UNCHANGED <<live, ended, score, disk, tmp, bundle, pass, mishaps, env, fixed>>
        /\ (KillClient \/ KillServer \/ Supervise)
    BY <1>4 DEF Interfere, RecorderStep, environment, workdir, archives
  <2>2. supervisor = "off" => supervisor' = "off" /\ UNCHANGED cast /\ session' \in {session, FALSE}
    BY <2>1 DEF KillClient, KillServer, Supervise, Launch, ClientEnds, Probe, NextSegment
  <2>3. ASSUME NEW p \in Procs PROVE Stopped(p)
    BY <2>1 DEF EndingInv
  <2> QED
    BY <1>1, <2>1, <2>2, <2>3 DEF Stopped
<1>5. ASSUME NEW f \in Faults, Repair(f) PROVE EndingInv'
  <2>1. UNCHANGED <<live, ended, score, disk, tmp, bundle, pass, mishaps, env, cast, session, supervisor>>
        /\ session /\ env
    BY <1>5 DEF Repair, recording, workdir, archives
  <2>2. ASSUME NEW p \in Procs PROVE Stopped(p)
    BY <2>1 DEF EndingInv
  <2> QED
    BY <1>1, <2>1, <2>2 DEF Stopped
<1>6. ASSUME NEW p \in Procs, Killed(p) PROVE EndingInv'
  BY <1>6, <1>m DEF Killed
\* The process.
<1>a. ASSUME NEW p \in Procs, PassStep(p) \/ \E c \in Commands : Begin(p, c)
      PROVE  /\ mishaps = 0 /\ UNCHANGED <<cast, fixed>> /\ supervisor' \in {supervisor, "off"}
             /\ Stopped(p) /\ Lives(p) /\ Scored(p) /\ Copied(p)
             /\ Truth' = Truth /\ (ended => Procs # {})
  <2>1. ASSUME NEW c \in Commands, Begin(p, c)
        PROVE  UNCHANGED <<cast, fixed, mishaps, supervisor>>
    BY <2>1 DEF Begin, recording, environment
  <2>2. CASE PassStep(p)
    <3>1. UNCHANGED fixed
      <4>1. CASE AddMember(p)
        BY <4>1, MemberIs DEF Member, environment
      <4>2. CASE ~AddMember(p)
        BY <2>2, <4>2 DEF PassStep, Load, Status, Check, WriteScore, NoteError, Append, Open,
           Close, Rename, Remove, Upload, Signal, KillSession, Destroy, Stamp, Record, environment
      <4> QED
        BY <4>1, <4>2
    <3>2. mishaps = 0
      <4>1. CASE AddMember(p)
        BY <1>m, <4>1, MemberIs DEF Member, Works
      <4>2. CASE ~AddMember(p)
        BY <1>m, <2>2, <4>2 DEF PassStep, Load, Status, Check, WriteScore, NoteError, Append, Open,
           Close, Rename, Remove, Upload, Signal, KillSession, Destroy, Stamp, Record, Works
      <4> QED
        BY <4>1, <4>2
    <3> QED
      BY <2>2, <3>1, <3>2, RecordingFrame DEF EndingInv, Truth
  <2> QED
    BY <1>a, <2>1, <2>2 DEF EndingInv, Truth
<1>b. ASSUME NEW p \in Procs, ended' => ended \/ p \in Procs, mishaps = 0,
             Stopped(p)' /\ Lives(p)' /\ Scored(p)' /\ Copied(p)'
      PROVE  EndingInv'
  BY <1>b DEF EndingInv, OneAtATime
<1>g. ASSUME NEW p \in Procs, NEW label, Goto(p, label)
      PROVE  pass'[p].pc = label /\ pass'[p].doing = pass[p].doing /\ pass'[p].read = pass[p].read
  BY <1>0, <1>g DEF Goto, PassRecords
<1>i. Idle.pc = "idle" /\ Idle.doing = "sync" /\ Idle.read = NoReading
  BY DEF Idle
<1>r. ASSUME NEW p \in Procs, Return(p)
      PROVE  IF pass[p].doing = "end" THEN pass'[p].pc = "destroy" /\ pass'[p].doing = "end"
                                      ELSE pass'[p] = Idle
  <2>1. PICK r \in Proper : pass' = [pass EXCEPT ![p] = r] /\
            IF pass[p].doing = "end" THEN r.pc = "destroy" /\ r.doing = "end" ELSE r = Idle
    BY <1>r, ReturnIs
  <2> QED
    BY <1>0, <2>1
\* Where a process comes to rest, or begins.
<1>s. ASSUME NEW p \in Procs, PassStep(p) \/ \E c \in Commands : Begin(p, c),
             UNCHANGED <<live, ended, env, score, disk, tmp, bundle>>, pass[p].pc # "stamp",
             pass'[p].read = NoReading, session' \in {session, FALSE},
             \/ pass'[p].pc = "idle"
             \/ pass'[p].pc = "signal"
             \/ pass'[p].pc \in {"load", "status"} /\ pass'[p].doing # "end"
      PROVE  EndingInv'
  <2>1. /\ mishaps = 0 /\ UNCHANGED <<cast, fixed>> /\ supervisor' \in {supervisor, "off"}
        /\ Stopped(p) /\ Lives(p) /\ Scored(p) /\ Copied(p) /\ Truth' = Truth
        /\ ended => Procs # {}
    BY <1>a, <1>s
  <2>2. Sealed(p)' <=> ~env
    BY <1>s DEF Sealed
  <2>3. ~env => Sealed(p)
    BY DEF Sealed
  <2>4. Stopped(p)'
    BY <1>s, <2>1, <2>2, <2>3 DEF Stopped
  <2>5. Lives(p)'
    BY <1>s, <2>1 DEF Lives
  <2>6. Scored(p)'
    BY <1>s, <2>1, <2>2, <2>3 DEF Scored
  <2>7. Copied(p)'
    BY <1>s, <2>1, <2>2, <2>3 DEF Copied
  <2> QED
    BY <1>b, <1>s, <2>1, <2>4, <2>5, <2>6, <2>7
<1>7. ASSUME NEW p \in Procs, NEW c \in Commands, Begin(p, c) PROVE EndingInv'
  <2> DEFINE label == CASE c = "sync" -> "load" [] c \in {"score", "tick"} -> "status"
                        [] c \in {"stop", "end"} -> "signal"
  <2>1. /\ label \in {"load", "status", "signal"} /\ (label # "signal" => c # "end")
        /\ pass[p].pc = "idle"
    BY <1>7, EvidenceAssumption DEF AllCommands, Begin
  <2>2. pass' = [pass EXCEPT ![p] = [Idle EXCEPT !.doing = c, !.pc = label]]
    BY <1>7 DEF Begin
  <2> HIDE DEF label
  <2>3. pass'[p].pc = label /\ pass'[p].doing = c /\ pass'[p].read = NoReading
    BY <1>0, <2>2 DEF Idle
  <2>4. UNCHANGED <<live, ended, env, score, disk, tmp, bundle, session>>
    BY <1>7 DEF Begin, environment, workdir, archives, recording
  <2> QED
    BY <1>7, <1>s, <2>1, <2>3, <2>4
\* Where it goes on, in what it does.
<1>t. ASSUME NEW p \in Procs, PassStep(p), pass'[p].doing = pass[p].doing,
             UNCHANGED <<live, ended, env, session, bundle>>,
             bundle # None => disk'[bundle] = disk[bundle],
             pass[p].pc \notin {"idle", "signal", "kill-session", "stamp", "destroy"},
             pass'[p].pc \notin {"idle", "signal", "kill-session", "destroy", "stamp", "record",
                                 "remove", "upload"},
             Scored(p)',
             pass'[p].pc \in {"check", "write"} => env,
             Sealed(p) /\ pass'[p].pc \in {"segments", "recorder.log", "score-error.txt", "close", "rename"}
                => disk'[tmp'].cast[0] = cast[0],
             Sealed(p) /\ pass'[p].pc \in {"recorder.log", "score-error.txt", "close", "rename"}
                => disk'[tmp'].cast = cast
      PROVE  EndingInv'
  <2>1. /\ mishaps = 0 /\ UNCHANGED <<cast, fixed>> /\ supervisor' \in {supervisor, "off"}
        /\ Stopped(p) /\ Lives(p) /\ Scored(p) /\ Copied(p) /\ Truth' = Truth
    BY <1>a, <1>t
  <2>2. Sealed(p)' <=> Sealed(p)
    BY <1>t DEF Sealed
  <2>3. Stopped(p)'
    BY <1>t, <2>1, <2>2 DEF Stopped
  <2>4. Lives(p)'
    BY <1>t, <2>1 DEF Lives
  <2>5. Copied(p)'
    BY <1>t, <2>1, <2>2 DEF Copied
  <2> QED
    BY <1>b, <1>t, <2>1, <2>3, <2>4, <2>5
\* Refreshing.
<1>8. ASSUME NEW p \in Procs, Load(p) \/ Append(p) \/ NoteError(p) PROVE EndingInv'
  <2>1. PassStep(p) /\ UNCHANGED <<live, ended, env, session, bundle, disk, tmp, score>>
    BY <1>8 DEF PassStep, Load, Append, NoteError, environment, archives, recording, workdir
  <2>2. Scored(p) /\ Lives(p) /\ Truth' = Truth
    BY <1>a, <2>1
  <2>3. CASE Append(p)
    BY <1>0, <1>i, <1>s, <2>1, <2>3 DEF Append
  <2>4. CASE Load(p)
    <3>1. /\ pass[p].pc = "load" /\ pass'[p].pc = (IF live THEN "status" ELSE "open")
          /\ pass'[p].doing = pass[p].doing /\ pass'[p].read = pass[p].read
      BY <1>g, <2>4 DEF Load
    <3>2. Scored(p)'
      BY <2>1, <2>2, <3>1 DEF Scored, Sealed, Lives, Bundling, Members
    <3> QED
      BY <1>t, <2>1, <3>1, <3>2
  <2>5. CASE NoteError(p)
    <3>1. /\ pass[p].pc = "note" /\ pass'[p].pc = "open"
          /\ pass'[p].doing = pass[p].doing /\ pass'[p].read = pass[p].read
      BY <1>g, <1>m, <2>5 DEF NoteError
    <3>2. Scored(p)'
      BY <2>1, <2>2, <3>1 DEF Scored, Sealed, Bundling
    <3> QED
      BY <1>t, <2>1, <3>1, <3>2
  <2> QED
    BY <1>8, <2>3, <2>4, <2>5
<1>9. ASSUME NEW p \in Procs, Status(p) PROVE EndingInv'
  <2>1. PassStep(p) /\ UNCHANGED <<live, ended, env, session, bundle, disk, tmp, score>>
        /\ pass[p].pc = "status"
    BY <1>9 DEF PassStep, Status, environment, archives, recording, workdir
  <2>2. Scored(p) /\ Lives(p) /\ Truth' = Truth
    BY <1>a, <2>1
  <2>3. CASE live
    <3>1. /\ pass'[p].pc = "check"
          /\ pass'[p].doing = pass[p].doing /\ pass'[p].read = pass[p].read
      BY <1>9, <1>g, <2>3 DEF Status
    <3>2. Scored(p)' /\ env
      BY <2>1, <2>2, <2>3, <3>1 DEF Scored, Sealed, Lives, NoReading, Bundling, Members
    <3> QED
      BY <1>t, <2>1, <3>1, <3>2
  <2>4. CASE ~live
    <3>1. PICK r \in Proper : pass' = [pass EXCEPT ![p] = r] /\
              IF pass[p].doing \in {"score", "tick"} THEN r = Idle
              ELSE r.pc = "note" /\ r.doing = pass[p].doing
      BY <1>9, <2>1, <2>4, RefreshFailsIs DEF Status
    <3>2. pass'[p] = r
      BY <1>0, <3>1
    <3>3. CASE r = Idle
      BY <1>i, <1>s, <2>1, <3>2, <3>3
    <3>4. CASE r.pc = "note" /\ r.doing = pass[p].doing
      <4>1. Scored(p)'
        BY <2>1, <2>2, <2>4, <3>2, <3>4 DEF Scored, Sealed, Lives
      <4> QED
        BY <1>t, <2>1, <3>2, <3>4, <4>1
    <3> QED
      BY <3>1, <3>3, <3>4
  <2> QED
    BY <2>3, <2>4
\* Where nothing is sealed.
<1>f. ASSUME NEW p \in Procs, PassStep(p), env, UNCHANGED <<live, ended, env>>,
             pass'[p].pc \notin {"signal", "kill-session", "load", "status", "destroy", "stamp",
                                 "record", "remove", "upload"},
             pass'[p].pc = "idle" \/ pass'[p].doing # "end"
      PROVE  EndingInv'
  <2>1. mishaps = 0 /\ Lives(p)
    BY <1>a, <1>f
  <2>2. ~Sealed(p)'
    BY <1>f DEF Sealed
  <2>3. Stopped(p)' /\ Lives(p)'
    BY <1>f, <2>1, <2>2 DEF Stopped, Lives
  <2>4. Scored(p)' /\ Copied(p)'
    BY <1>f, <2>2 DEF Scored, Copied
  <2> QED
    BY <1>b, <1>f, <2>1, <2>3, <2>4
<1>10. ASSUME NEW p \in Procs, Check(p) PROVE EndingInv'
  <2>0. PassStep(p) /\ pass[p].pc = "check" /\ UNCHANGED <<live, ended, env, session, bundle, disk, tmp, score>>
    BY <1>10 DEF PassStep, Check, environment, recording, archives, workdir
  <2>1. PICK f \in Faults, v \in Verdicts :
            /\ v \in Says(f)
            /\ LET read == [pass[p].read EXCEPT ![f] = v] IN
               pass' = [pass EXCEPT ![p].read = read, ![p].pc = Reads(p, read)]
    BY <1>10, <1>m DEF Check
  <2>2. Scored(p) /\ Lives(p) /\ Truth' = Truth /\ env
    BY <1>a, <2>0 DEF Lives
  <2>3. v = Truth[f]
    BY <2>1, <2>2 DEF Says, Truth
  <2> DEFINE read == [pass[p].read EXCEPT ![f] = v]
             label == Reads(p, read)
  <2>4. label \in {"check", "append", "write"} /\ (label = "write" => \A g \in Faults : read[g] # "none")
    BY DEF Reads
  <2>5. pass' = [pass EXCEPT ![p].read = read, ![p].pc = label]
    BY <2>1
  <2>6. pass[p].read \in Readings /\ read \in Readings /\ \A g \in Faults : read[g] \in {pass[p].read[g], Truth[g]}
    BY <1>0, <2>3 DEF PassRecords, Readings
  <2> HIDE DEF read, label
  <2>7. pass'[p].pc = label /\ pass'[p].read = read /\ pass'[p].doing = pass[p].doing
    BY <1>0, <2>5 DEF PassRecords
  <2>8. label = "write" /\ Sealed(p) => read = Truth
    <3> SUFFICES ASSUME label = "write", Sealed(p) PROVE read = Truth
      OBVIOUS
    <3>1. \A g \in Faults : read[g] = Truth[g]
      BY <2>0, <2>2, <2>4, <2>6 DEF Scored
    <3> QED
      BY <2>6, <3>1 DEF Readings, Truth
  <2>9. Scored(p)'
    <3>1. Sealed(p)' <=> Sealed(p)
      BY <2>0, <2>4, <2>7 DEF Sealed
    <3>2. Sealed(p) => \A g \in Faults : read[g] \in {"none", Truth[g]}
      BY <2>0, <2>2, <2>6 DEF Scored
    <3> QED
      BY <2>0, <2>2, <2>4, <2>7, <2>8, <3>1, <3>2 DEF Scored, Bundling, Members
  <2> QED
    BY <1>t, <2>0, <2>2, <2>4, <2>7, <2>9
<1>11. ASSUME NEW p \in Procs, WriteScore(p) PROVE EndingInv'
  <2>0. PassStep(p) /\ pass[p].pc = "write" /\ UNCHANGED <<live, ended, env, session, bundle, disk, tmp>>
    BY <1>11 DEF PassStep, WriteScore, environment, recording, archives
  <2>1. /\ score' = pass[p].read
        /\ pass' = [pass EXCEPT ![p] = IF pass[p].doing = "score" THEN Idle
                                       ELSE [pass[p] EXCEPT !.pc = "open", !.read = NoReading]]
    BY <1>11, <1>m DEF WriteScore
  <2>2. Scored(p) /\ Lives(p) /\ Truth' = Truth /\ env
    BY <1>a, <2>0 DEF Lives
  <2>3. CASE pass[p].doing = "score"
    <3>1. pass'[p] = Idle
      BY <1>0, <2>1, <2>3
    <3> QED
      BY <1>f, <1>i, <2>0, <2>2, <3>1
  <2>4. CASE pass[p].doing # "score"
    <3>1. pass'[p].pc = "open" /\ pass'[p].doing = pass[p].doing
      BY <1>0, <2>1, <2>4 DEF PassRecords
    <3>2. Scored(p)'
      BY <2>0, <2>1, <2>2, <3>1 DEF Scored, Sealed
    <3> QED
      BY <1>t, <2>0, <2>2, <3>1, <3>2
  <2> QED
    BY <2>3, <2>4
\* Bundling.
<1>12. ASSUME NEW p \in Procs, Open(p) PROVE EndingInv'
  <2>0. PassStep(p) /\ pass[p].pc = "open" /\ UNCHANGED <<live, ended, env, session, bundle, score>>
    BY <1>12 DEF PassStep, Open, environment, recording, workdir
  <2>1. PICK i \in Inodes :
            /\ IF tmp # None THEN i = tmp ELSE i # bundle
            /\ disk' = [disk EXCEPT ![i] = Empty(p)]
            /\ pass' = [pass EXCEPT ![p].pc = "score.json", ![p].fd = i]
    BY <1>12, <1>m DEF Open
  <2>2. Scored(p) /\ Truth' = Truth
    BY <1>a, <2>0
  <2>3. pass'[p].pc = "score.json" /\ pass'[p].doing = pass[p].doing
    BY <1>0, <2>1 DEF PassRecords
  <2>4. bundle # None => disk'[bundle] = disk[bundle]
    BY <1>0, <2>1 DEF ArchivesInv
  <2>5. Scored(p)'
    BY <2>0, <2>2, <2>3 DEF Scored, Sealed, Bundling, Members
  <2> QED
    BY <1>t, <2>0, <2>3, <2>4, <2>5
<1>13. ASSUME NEW p \in Procs, AddMember(p) PROVE EndingInv'
  <2>0. PassStep(p)
    BY <1>13 DEF PassStep
  <2>1. Scored(p) /\ Copied(p) /\ Copying(p) /\ Truth' = Truth
    BY <1>a, <2>0 DEF ArchivesInv
  \* One member, and what it makes of the recording in the archive.
  <2>2. ASSUME NEW archive \in Archives, NEW name \in Members, Member(p, name, archive),
               name = "session.cast" => archive.cast[0] = cast[0],
               name = "segments" /\ Sealed(p) => archive.cast = cast,
               name \in {"recorder.log", "score-error.txt"} => archive.cast = Archive(p).cast
        PROVE  EndingInv'
    <3>1. /\ pass[p].fd \in Inodes /\ pass[p].pc = name
          /\ UNCHANGED <<recording, environment, workdir, tmp, bundle, bucket>>
          /\ disk' = [disk EXCEPT ![pass[p].fd] =
                         [archive EXCEPT !.writer = IF archive.writer = p THEN p ELSE None]]
          /\ pass' = [pass EXCEPT ![p].pc = After[name]]
      BY <2>2, AddedIs
    <3>2. UNCHANGED <<live, ended, env, session, bundle, score, tmp>>
      BY <3>1 DEF recording, environment, workdir
    <3>3. pass[p].fd = tmp /\ tmp # None /\ tmp # bundle
      BY <2>1, <3>1 DEF Copying, ArchivesInv
    <3>4. disk'[tmp'].cast = archive.cast /\ (bundle # None => disk'[bundle] = disk[bundle])
      BY <1>0, <3>1, <3>2, <3>3 DEF Archives
    <3>5. pass'[p].pc = After[name] /\ pass'[p].doing = pass[p].doing
      BY <1>0, <3>1 DEF PassRecords
    <3>6. After[name] \in Members \union {"close"}
      BY DEF After, Members
    <3>7. Scored(p)'
      BY <2>1, <3>1, <3>2, <3>5, <3>6 DEF Scored, Sealed, Bundling, Members
    <3>8. Sealed(p) /\ After[name] \in {"recorder.log", "score-error.txt", "close"} => archive.cast = cast
      BY <2>1, <2>2, <3>1, <3>3 DEF Copied, Archive, After, Members
    <3>9. After[name] = "segments" => archive.cast[0] = cast[0]
      BY <2>2 DEF After, Members
    <3> QED
      BY <1>t, <2>0, <3>1, <3>2, <3>4, <3>5, <3>6, <3>7, <3>8, <3>9 DEF Members
  <2>3. PICK archive \in Archives :
            \/ Member(p, "score.json", archive) /\ archive = [Archive(p) EXCEPT !.score = score]
            \/ Member(p, "session.cast", archive) /\ archive = [Archive(p) EXCEPT !.cast[0] = cast[0]]
            \/ /\ Member(p, "segments", archive)
               /\ archive = [Archive(p) EXCEPT !.cast =
                               [k \in Segments |-> IF k \in Contiguous THEN cast[k] ELSE @[k]]]
            \/ Member(p, "recorder.log", archive) /\ archive = [Archive(p) EXCEPT !.log = log]
            \/ Member(p, "score-error.txt", archive) /\ archive = [Archive(p) EXCEPT !.error = scoreError]
    BY <1>13, MemberIs
  <2>4. pass[p].pc \in Members /\ tmp \in Inodes /\ Archive(p) \in Archives /\ Archive(p) = disk[tmp]
    BY <1>0, <1>13, <2>1 DEF AddMember, AddScore, AddCast, AddSegments, AddRecorderLog, AddScoreError,
       Member, Members, Copying, Archive
  <2>5. CASE Member(p, "score.json", archive)
    BY <2>2, <2>5 DEF Members
  <2>6. CASE Member(p, "session.cast", archive)
    <3>1. archive = [Archive(p) EXCEPT !.cast[0] = cast[0]]
      BY <2>3, <2>6 DEF Member
    <3>2. archive.cast[0] = cast[0]
      BY <2>4, <3>1, RecorderAssumption DEF Archives, Segments
    <3> QED
      BY <2>2, <2>6, <3>2 DEF Members
  <2>7. CASE Member(p, "segments", archive)
    <3>1. /\ pass[p].pc = "segments"
          /\ archive = [Archive(p) EXCEPT !.cast =
                          [k \in Segments |-> IF k \in Contiguous THEN cast[k] ELSE Archive(p).cast[k]]]
      BY <2>3, <2>7 DEF Member
    <3>2. archive.cast = [k \in Segments |-> IF k \in Contiguous THEN cast[k] ELSE Archive(p).cast[k]]
      BY <2>4, <3>1 DEF Archives
    <3>3. ASSUME Sealed(p), NEW k \in Segments PROVE archive.cast[k] = cast[k]
      <4>1. CASE k \in Contiguous
        BY <3>2, <4>1
      <4>2. CASE k = 0
        BY <2>1, <2>4, <3>1, <3>2, <3>3, <4>2 DEF Copied, Contiguous
      <4>3. CASE k # 0 /\ k \notin Contiguous
        <5>1. Archive(p).cast[k] = 0
          BY <2>1, <2>4, <3>1, <4>3 DEF Copying
        <5>2. ASSUME cast[k] # 0 PROVE k \in Contiguous
          <6>1. \A j \in 1..k : j \in Segments /\ cast[j] # 0
            BY <5>2, RecorderAssumption DEF LoggedInv, Begun, Segments
          <6> QED
            BY <4>3, <6>1 DEF Contiguous
        <5> QED
          BY <3>2, <4>3, <5>1, <5>2
      <4> QED
        BY <4>1, <4>2, <4>3
    <3>4. Sealed(p) => archive.cast = cast
      BY <1>0, <3>2, <3>3
    <3> QED
      BY <2>2, <2>7, <3>4 DEF Members
  <2>8. CASE Member(p, "recorder.log", archive) \/ Member(p, "score-error.txt", archive)
    <3>1. archive.cast = Archive(p).cast
      BY <2>3, <2>4, <2>8 DEF Member, Archives
    <3> QED
      BY <2>2, <2>8, <3>1 DEF Members
  <2> QED
    BY <2>3, <2>5, <2>6, <2>7, <2>8
<1>14. ASSUME NEW p \in Procs, Close(p) PROVE EndingInv'
  <2>0. PassStep(p) /\ pass[p].pc = "close" /\ UNCHANGED <<live, ended, env, session, bundle, tmp, score>>
    BY <1>14 DEF PassStep, Close, environment, recording, workdir
  <2>1. Scored(p) /\ Copied(p) /\ Copying(p) /\ Truth' = Truth
    BY <1>a, <2>0 DEF ArchivesInv
  <2>2. pass[p].fd = tmp /\ tmp \in Inodes /\ tmp # bundle
    BY <1>0, <2>0, <2>1 DEF Copying, ArchivesInv
  <2>3. /\ Put(p, [Archive(p) EXCEPT !.whole = TRUE])
        /\ pass' = [pass EXCEPT ![p].pc = "rename", ![p].fd = None]
    BY <1>14, <1>m DEF Close
  <2>4. disk'[tmp].cast = disk[tmp].cast /\ (bundle # None => disk'[bundle] = disk[bundle])
    BY <1>0, <2>2, <2>3 DEF Put, Archive, Archives
  <2>5. pass'[p].pc = "rename" /\ pass'[p].doing = pass[p].doing
    BY <1>0, <2>3 DEF PassRecords
  <2>6. Scored(p)'
    BY <2>0, <2>1, <2>5 DEF Scored, Sealed, Bundling, Members
  <2>7. Sealed(p) => disk'[tmp'].cast[0] = cast[0] /\ disk'[tmp'].cast = cast
    BY <2>0, <2>1, <2>4 DEF Copied
  <2> QED
    BY <1>t, <2>0, <2>4, <2>5, <2>6, <2>7
<1>15. ASSUME NEW p \in Procs, Rename(p) PROVE EndingInv'
  <2>0. PassStep(p) /\ pass[p].pc = "rename" /\ UNCHANGED <<live, ended, env, session, score>>
    BY <1>15 DEF PassStep, Rename, environment, recording, workdir
  <2>1. /\ mishaps = 0 /\ UNCHANGED <<cast, fixed>> /\ supervisor' \in {supervisor, "off"}
        /\ Stopped(p) /\ Lives(p) /\ Scored(p) /\ Copied(p) /\ Truth' = Truth
    BY <1>a, <2>0
  <2>2. tmp \in Inodes /\ tmp # None /\ tmp # bundle
    BY <1>0, <2>0 DEF Copying, ArchivesInv
  <2>3. /\ bundle' = tmp /\ Unlink(bundle)
        /\ IF pass[p].doing = "sync" THEN Goto(p, "upload") ELSE Return(p)
    BY <1>15, <1>m, <2>2 DEF Rename
  <2>4. disk'[bundle'] = disk[tmp]
    BY <2>2, <2>3 DEF Unlink
  <2>5. \/ pass'[p].pc = "upload" /\ pass'[p].doing = "sync" /\ pass[p].doing = "sync"
        \/ pass'[p].pc = "destroy" /\ pass'[p].doing = "end" /\ pass[p].doing = "end"
        \/ pass'[p].pc = "idle"
    BY <1>g, <1>i, <1>r, <2>3
  <2>6. Sealed(p)' => Sealed(p)
    BY <2>0, <2>5 DEF Sealed
  <2>7. Stopped(p)' /\ Lives(p)'
    BY <2>0, <2>1, <2>5, <2>6 DEF Stopped, Lives
  <2>8. Scored(p)'
    BY <2>0, <2>1, <2>5, <2>6 DEF Scored, Bundling
  <2>9. Copied(p)'
    BY <2>0, <2>1, <2>2, <2>3, <2>4, <2>5, <2>6 DEF Copied
  <2> QED
    BY <1>b, <2>0, <2>1, <2>7, <2>8, <2>9
<1>16. ASSUME NEW p \in Procs, Remove(p) \/ Upload(p) PROVE EndingInv'
  <2>0. PassStep(p) /\ UNCHANGED <<live, ended, env, session, score>> /\ pass[p].pc \in {"remove", "upload"}
    BY <1>16 DEF PassStep, Remove, Upload, environment, recording, workdir
  <2>1. Lives(p)
    BY <1>a, <2>0
  <2>2. UNCHANGED <<disk, tmp, bundle>> /\ Return(p) /\ pass[p].doing # "end"
    BY <1>16, <2>0, <2>1 DEF Remove, Upload, Lives
  <2> QED
    BY <1>i, <1>r, <1>s, <2>0, <2>2
\* Ending.
<1>17. ASSUME NEW p \in Procs, Signal(p) \/ KillSession(p) PROVE EndingInv'
  <2>0. PassStep(p) /\ UNCHANGED <<live, ended, env, score, disk, tmp, bundle>>
    BY <1>17 DEF PassStep, Signal, KillSession, environment, archives, workdir
  <2>1. /\ mishaps = 0 /\ UNCHANGED <<cast, fixed>> /\ supervisor' \in {supervisor, "off"}
        /\ Stopped(p) /\ Lives(p) /\ Scored(p) /\ Copied(p) /\ Truth' = Truth
    BY <1>a, <2>0
  <2>2. \/ pass[p].pc = "signal" /\ pass'[p].pc = "kill-session" /\ supervisor' = "off" /\ session' = session
        \/ pass[p].pc = "kill-session" /\ pass'[p].pc = "load" /\ session' = FALSE /\ supervisor' = supervisor
    BY <1>17, <1>g, <1>m DEF Signal, KillSession
  <2>3. pass'[p].doing = pass[p].doing /\ pass'[p].read = NoReading
    BY <1>17, <1>g, <1>m, <2>1, <2>2 DEF Signal, KillSession, Scored
  <2>4. Sealed(p)' => supervisor' = "off" /\ (env => ~session')
    BY <2>0, <2>1, <2>2, <2>3 DEF Sealed, Stopped
  <2>5. Stopped(p)' /\ Lives(p)'
    BY <2>0, <2>1, <2>2, <2>3, <2>4 DEF Stopped, Lives
  <2>6. ~env => Sealed(p)
    BY DEF Sealed
  <2>7. Scored(p)' /\ Copied(p)'
    BY <2>0, <2>1, <2>2, <2>3, <2>6 DEF Scored, Copied, Bundling, Members
  <2> QED
    BY <1>b, <2>0, <2>1, <2>5, <2>7
<1>18. ASSUME NEW p \in Procs, Destroy(p) \/ Stamp(p) \/ Record(p) PROVE EndingInv'
  <2>0. PassStep(p) /\ UNCHANGED <<score, disk, tmp, bundle, session>>
    BY <1>18 DEF PassStep, Destroy, Stamp, Record, archives, workdir, recording
  <2>1. /\ mishaps = 0 /\ UNCHANGED <<cast, fixed>> /\ supervisor' \in {supervisor, "off"}
        /\ Stopped(p) /\ Lives(p) /\ Scored(p) /\ Copied(p) /\ Truth' = Truth
    BY <1>a, <2>0
  <2>2. /\ pass[p].pc \in {"destroy", "stamp", "record"} /\ ~env'
        /\ live' => pass'[p].pc = "stamp" /\ live
        /\ pass'[p].pc \in {"stamp", "record"} => pass'[p].doing = "end"
        /\ pass'[p].pc \in {"stamp", "record", "idle"}
    <3>1. pass[p].pc \in {"destroy", "stamp", "record"}
      BY <1>18 DEF Destroy, Stamp, Record
    <3>2. pass[p].doing = "end" /\ (pass[p].pc \in {"stamp", "record"} => ~env)
      BY <2>1, <3>1 DEF Lives
    <3>3. CASE Destroy(p)
      BY <1>g, <1>m, <3>1, <3>2, <3>3 DEF Destroy
    <3>4. CASE Stamp(p)
      BY <1>g, <1>m, <3>1, <3>2, <3>4 DEF Stamp
    <3>5. CASE Record(p)
      <4>1. pass'[p].pc = "idle" /\ UNCHANGED <<env, live>> /\ pass[p].pc = "record"
        BY <1>0, <1>i, <3>5 DEF Record
      <4> QED
        BY <2>1, <3>2, <4>1 DEF Lives
    <3> QED
      BY <1>18, <3>3, <3>4, <3>5
  <2>3. Sealed(p) /\ supervisor = "off"
    BY <2>1, <2>2 DEF Sealed, Lives, Stopped
  <2>4. score = Truth /\ bundle # None /\ disk[bundle].cast = cast
    BY <2>1, <2>2, <2>3 DEF Scored, Copied, Lives
  <2>5. Stopped(p)' /\ Lives(p)'
    BY <2>1, <2>2, <2>3 DEF Stopped, Lives
  <2>6. Scored(p)'
    BY <2>0, <2>1, <2>2, <2>4 DEF Scored
  <2>7. Copied(p)'
    BY <2>0, <2>1, <2>2, <2>4 DEF Copied
  <2> QED
    BY <1>b, <2>1, <2>5, <2>6, <2>7
<1> QED
  BY <1>2, <1>3, <1>4, <1>5, <1>6, <1>7, <1>8, <1>9, <1>10, <1>11, <1>12, <1>13, <1>14, <1>15,
     <1>16, <1>17, <1>18 DEF Next, PassStep

-----------------------------------------------------------------------------
\* A segment is only recorded again by a later start.
LEMMA CastRises ==
    ASSUME Types, \A k \in Segments : cast[k] <= starts, [Next]_vars
    PROVE  \A k \in Segments : cast[k] <= cast'[k] /\ cast'[k] <= starts'
<1>0. cast \in [Segments -> 0..MaxStarts] /\ starts \in 0..MaxStarts /\ MaxStarts \in Nat
  BY RecorderAssumption DEF Types, RecorderTypeOK
<1>1. CASE UNCHANGED <<starts, cast>>
  BY <1>0, <1>1
<1>2. CASE Launch
  <2>1. cast' \in {cast, [cast EXCEPT ![n] = starts]} /\ UNCHANGED starts
    BY <1>2 DEF Launch
  <2> QED
    BY <1>0, <2>1
<1>3. CASE Start
  BY <1>0, <1>3 DEF Start
<1>4. ASSUME NEW p \in Procs, PassStep(p) \/ Killed(p) \/ \E c \in Commands : Begin(p, c)
      PROVE  UNCHANGED <<starts, cast>>
  <2>1. ASSUME NEW c \in Commands, Begin(p, c) PROVE UNCHANGED <<starts, cast>>
    BY <2>1 DEF Begin, recording
  <2>2. Killed(p) => UNCHANGED <<starts, cast>>
    BY DEF Killed, recording
  <2> QED
    BY <1>4, <2>1, <2>2, RecordingFrame
<1> QED
  BY <1>1, <1>2, <1>3, <1>4 DEF Next, StartSession, Interfere, KillClient, KillServer, RecorderStep,
     Supervise, ClientEnds, Probe, NextSegment, Repair, recording, vars

\* Only a rename replaces the bundle, and nothing writes into it.
LEMMA BundleStays ==
    ASSUME Types, ArchivesInv, NEW p \in Procs, PassStep(p), ~Rename(p)
    PROVE  UNCHANGED bundle /\ (bundle # None => disk'[bundle] = disk[bundle])
<1>0. disk \in [Inodes -> Archives] /\ {tmp, bundle} \subseteq Inodes \union {None}
  BY DEF Types
<1>1. CASE Open(p)
  <2>1. CASE UNCHANGED disk
    BY <1>1, <2>1 DEF Open
  <2>2. CASE \E i \in Inodes : /\ IF tmp # None THEN i = tmp ELSE i # bundle
                               /\ disk' = [disk EXCEPT ![i] = Empty(p)]
    <3>1. PICK i \in Inodes : /\ IF tmp # None THEN i = tmp ELSE i # bundle
                              /\ disk' = [disk EXCEPT ![i] = Empty(p)]
      BY <2>2
    <3>2. i # bundle /\ UNCHANGED bundle
      BY <1>1, <3>1 DEF ArchivesInv, Open
    <3> QED
      BY <1>0, <3>1, <3>2
  <2> QED
    BY <1>1, <2>1, <2>2 DEF Open
<1>2. CASE AddMember(p)
  <2>1. PICK name \in Members, archive \in Archives : Member(p, name, archive)
    BY <1>2, MemberIs DEF Members
  <2>2. pass[p].fd = tmp /\ tmp # None /\ tmp # bundle /\ UNCHANGED bundle
    BY <2>1 DEF Member, At, ArchivesInv, Copying
  <2>3. UNCHANGED disk \/ \E a : disk' = [disk EXCEPT ![tmp] = a]
    BY <2>1, <2>2 DEF Member, Put
  <2> QED
    BY <1>0, <2>2, <2>3
<1>3. CASE Close(p)
  <2>1. pass[p].fd = tmp /\ tmp # None /\ tmp # bundle /\ UNCHANGED bundle
    BY <1>3 DEF Close, At, ArchivesInv, Copying
  <2>2. UNCHANGED disk \/ \E a : disk' = [disk EXCEPT ![tmp] = a]
    BY <1>3, <2>1 DEF Close, Put
  <2> QED
    BY <1>0, <2>1, <2>2
<1>4. CASE Remove(p)
  <2>1. Unlink(tmp) /\ UNCHANGED bundle
    BY <1>4 DEF Remove
  <2>2. bundle # None => bundle # tmp /\ bundle \in Inodes
    BY <1>0 DEF ArchivesInv
  <2> QED
    BY <2>1, <2>2 DEF Unlink
<1>5. CASE ~Open(p) /\ ~AddMember(p) /\ ~Close(p) /\ ~Remove(p)
  BY <1>5, QuietStep DEF PassStep
<1> QED
  BY <1>1, <1>2, <1>3, <1>4, <1>5

\* The archive a process builds gets ahead of the bundle before it replaces it.
LEMMA AgedStep ==
    ASSUME OneAtATime, Types, Types', LoggedInv, ArchivesInv, AgedInv, [Next]_vars
    PROVE  AgedInv'
<1> USE DEF At
<1>0. /\ pass \in [Procs -> Proper] /\ disk \in [Inodes -> Archives]
      /\ {tmp, bundle} \subseteq Inodes \union {None}
      /\ cast \in [Segments -> 0..MaxStarts] /\ cast' \in [Segments -> 0..MaxStarts]
      /\ MaxStarts \in Nat /\ 0 \in Segments
  BY RecorderAssumption DEF Types, RecorderTypeOK, Segments
<1>c. \A k \in Segments : cast[k] <= cast'[k] /\ cast'[k] <= starts' /\ Kept(k) <= cast[k]
  BY CastRises DEF AgedInv
<1>n. /\ \A k \in Segments : Kept(k) \in Nat /\ cast[k] \in Nat /\ cast'[k] \in Nat
      /\ tmp # None => \A k \in Segments : disk[tmp].cast[k] \in Nat
  BY <1>0 DEF Kept, Archives
\* Where the bundle stays.
<1>b. ASSUME UNCHANGED bundle, bundle # None => disk'[bundle] = disk[bundle]
      PROVE  \A k \in Segments : /\ Kept(k)' = Kept(k)
                                 /\ cast'[k] <= starts' /\ Kept(k)' <= cast'[k]
  <2>1. \A k \in Segments : Kept(k)' = Kept(k)
    BY <1>b DEF Kept
  <2> QED
    BY <1>c, <1>n, <2>1
<1>1. CASE UNCHANGED <<disk, tmp, bundle, pass>>
  <2>1. \A k \in Segments : Kept(k)' = Kept(k) /\ cast'[k] <= starts' /\ Kept(k)' <= cast'[k]
    BY <1>1, <1>b
  <2>2. ASSUME NEW k \in Segments, tmp # None, Between(k) PROVE Between(k)'
    BY <1>1, <1>c, <1>n, <2>1, <2>2 DEF Between
  <2>3. ASSUME NEW p \in Procs PROVE Advance(p)'
    <3>1. Advance(p) /\ (pass[p].pc \in Members \union {"close", "rename"} => tmp # None)
      BY DEF AgedInv, ArchivesInv, Copying
    <3> QED
      BY <1>0, <1>1, <2>2, <3>1 DEF Advance, Members
  <2> QED
    BY <2>1, <2>3 DEF AgedInv
\* One process, and the bundle stays.
<1>2. ASSUME NEW p \in Procs, Advance(p)',
             UNCHANGED bundle, bundle # None => disk'[bundle] = disk[bundle]
      PROVE  AgedInv'
  BY <1>2, <1>b DEF AgedInv, OneAtATime
<1>3. ASSUME NEW p \in Procs, pass'[p].pc \notin Members \union {"close", "rename"} PROVE Advance(p)'
  BY <1>3 DEF Advance, Members
\* The steps that touch no archive.
<1>4. ASSUME NEW p \in Procs, Killed(p) \/ \E c \in Commands : Begin(p, c) PROVE AgedInv'
  <2>1. UNCHANGED <<disk, bundle>> /\ pass'[p].pc \notin Members \union {"close", "rename"}
    BY <1>4, QuietStep
  <2> QED
    BY <1>2, <1>3, <2>1
<1>5. ASSUME NEW p \in Procs, PassStep(p), ~Open(p), ~AddMember(p), ~Close(p), ~Rename(p), ~Remove(p)
      PROVE  AgedInv'
  <2>1. UNCHANGED <<disk, bundle>> /\ pass'[p].pc \notin Members \union {"close", "rename"}
    BY <1>5, QuietStep DEF PassStep
  <2> QED
    BY <1>2, <1>3, <2>1
<1>6. ASSUME NEW p \in Procs, Return(p) PROVE pass'[p].pc \notin Members \union {"close", "rename"}
  <2>1. PICK r \in Proper : pass' = [pass EXCEPT ![p] = r] /\ (r = Idle \/ r.pc = "destroy")
    BY <1>6, ReturnIs
  <2> QED
    BY <1>0, <2>1, IdleIsProper DEF Members
<1>7. ASSUME NEW p \in Procs, Open(p) PROVE AgedInv'
  <2>1. UNCHANGED bundle /\ (bundle # None => disk'[bundle] = disk[bundle])
    BY <1>7, BundleStays DEF PassStep, Open, Rename
  <2>2. CASE Return(p)
    BY <1>2, <1>3, <1>6, <2>1, <2>2
  <2>3. CASE \E i \in Inodes : pass' = [pass EXCEPT ![p].pc = "score.json", ![p].fd = i]
    <3>1. pass'[p].pc = "score.json"
      BY <1>0, <2>3 DEF Proper, PassRecords
    <3> QED
      BY <1>2, <2>1, <3>1 DEF Advance
  <2> QED
    BY <1>7, <2>2, <2>3 DEF Open
<1>8. ASSUME NEW p \in Procs, Remove(p) PROVE AgedInv'
  <2>1. UNCHANGED bundle /\ (bundle # None => disk'[bundle] = disk[bundle])
    BY <1>8, BundleStays DEF PassStep, Remove, Rename
  <2> QED
    BY <1>2, <1>3, <1>6, <1>8, <2>1 DEF Remove
\* The steps of the copy.
<1>9. ASSUME NEW p \in Procs, AddMember(p) PROVE AgedInv'
  <2>0. pass[p].pc \in Members /\ ~Rename(p)
    BY <1>9, MemberIs DEF Member, Members, Rename
  <2>1. UNCHANGED bundle /\ (bundle # None => disk'[bundle] = disk[bundle])
    BY <1>9, <2>0, BundleStays DEF PassStep
  <2>2. /\ pass[p].fd = tmp /\ tmp # None /\ tmp \in Inodes /\ Archive(p) = disk[tmp]
        /\ disk[tmp].writer = p /\ disk[tmp] \in Archives /\ Copying(p) /\ Advance(p)
    BY <1>0, <2>0 DEF ArchivesInv, Copying, Archive, AgedInv
  <2>3. ASSUME NEW name \in Members, NEW archive \in Archives, Member(p, name, archive),
               name # "score.json" => Kept(0) <= archive.cast[0] /\ archive.cast[0] <= cast[0],
               name \notin {"score.json", "session.cast"} =>
                   \A k \in Segments : Kept(k) <= archive.cast[k] /\ archive.cast[k] <= cast[k]
        PROVE  AgedInv'
    <3>1. UNCHANGED <<cast, tmp>> /\ pass[p].pc = name
      BY <2>3, AddedIs DEF recording
    <3> DEFINE a == [archive EXCEPT !.writer = IF archive.writer = p THEN p ELSE None]
    <3>2. \/ disk' = [disk EXCEPT ![tmp] = a] /\ pass' = [pass EXCEPT ![p].pc = After[name]]
          \/ UNCHANGED disk /\ pass' = [pass EXCEPT ![p].pc = "remove"]
      <4>1. \/ /\ disk' = [disk EXCEPT ![pass[p].fd] = a]
               /\ pass' = [pass EXCEPT ![p].pc = After[name]]
            \/ UNCHANGED disk /\ pass' = [pass EXCEPT ![p].pc = "remove"]
        BY <2>3, AddedIs
      <4> HIDE DEF a
      <4> QED
        BY <2>2, <4>1
    <3>3. a.cast = archive.cast
      BY DEF Archives
    <3> HIDE DEF a
    <3>4. CASE UNCHANGED disk /\ pass' = [pass EXCEPT ![p].pc = "remove"]
      <4>1. pass'[p].pc = "remove"
        BY <1>0, <3>4 DEF Proper, PassRecords
      <4> QED
        BY <1>2, <1>3, <2>1, <4>1 DEF Members
    <3>5. CASE disk' = [disk EXCEPT ![tmp] = a] /\ pass' = [pass EXCEPT ![p].pc = After[name]]
      <4>1. disk'[tmp'].cast = archive.cast /\ pass'[p].pc = After[name]
        BY <1>0, <2>2, <3>1, <3>3, <3>5 DEF Proper, PassRecords
      <4>2. \A k \in Segments : Between(k)' <=> Kept(k) <= archive.cast[k] /\ archive.cast[k] <= cast[k]
        BY <1>b, <2>1, <3>1, <4>1 DEF Between
      <4>3. /\ name = "score.json" => After[name] = "session.cast"
            /\ name = "session.cast" => After[name] = "segments"
        BY DEF After, Members
      <4>4. Advance(p)'
        BY <1>0, <2>3, <4>1, <4>2, <4>3 DEF Advance, Members
      <4> QED
        BY <1>2, <2>1, <4>4
    <3> QED
      BY <3>2, <3>4, <3>5
  <2> USE DEF Members
  <2>4. PICK archive \in Archives :
            \/ Member(p, "score.json", archive) /\ archive = [Archive(p) EXCEPT !.score = score]
            \/ Member(p, "session.cast", archive) /\ archive = [Archive(p) EXCEPT !.cast[0] = cast[0]]
            \/ /\ Member(p, "segments", archive)
               /\ archive = [Archive(p) EXCEPT !.cast =
                               [k \in Segments |-> IF k \in Contiguous THEN cast[k] ELSE @[k]]]
            \/ Member(p, "recorder.log", archive) /\ archive = [Archive(p) EXCEPT !.log = log]
            \/ Member(p, "score-error.txt", archive) /\ archive = [Archive(p) EXCEPT !.error = scoreError]
    BY <1>9, MemberIs
  <2>5. CASE Member(p, "score.json", archive)
    BY <2>3, <2>5
  <2>6. CASE Member(p, "session.cast", archive) /\ archive = [Archive(p) EXCEPT !.cast[0] = cast[0]]
    <3>1. archive.cast[0] = cast[0]
      BY <1>0, <2>2, <2>6 DEF Archives
    <3>2. Kept(0) <= archive.cast[0] /\ archive.cast[0] <= cast[0]
      BY <1>0, <1>c, <1>n, <3>1
    <3> QED
      BY <2>3, <2>6, <3>2
  <2>7. CASE /\ Member(p, "segments", archive)
             /\ archive = [Archive(p) EXCEPT !.cast =
                               [k \in Segments |-> IF k \in Contiguous THEN cast[k] ELSE @[k]]]
    <3>1. pass[p].pc = "segments"
      BY <2>7 DEF Member
    <3>2. \A k \in Segments :
              archive.cast[k] = IF k \in Contiguous THEN cast[k] ELSE disk[tmp].cast[k]
      BY <2>2, <2>7 DEF Archives
    <3>3. 0 \notin Contiguous /\ Between(0)
      BY <2>2, <3>1 DEF Contiguous, Advance
    <3>4. ASSUME NEW k \in Segments, k # 0, k \notin Contiguous PROVE cast[k] = 0
      <4>1. ASSUME cast[k] # 0 PROVE \A j \in 1..k : cast[j] # 0
        <5>1. \A j \in Segments : j < k => cast[j] # 0
          BY <4>1 DEF LoggedInv, Begun
        <5>2. \A j \in 1..k : j \in Segments /\ (j < k \/ j = k)
          BY RecorderAssumption DEF Segments
        <5> QED
          BY <4>1, <5>1, <5>2
      <4> QED
        BY <3>4, <4>1 DEF Contiguous
    <3>5. ASSUME NEW k \in Segments
          PROVE  Kept(k) <= archive.cast[k] /\ archive.cast[k] <= cast[k]
      <4>1. CASE k = 0
        BY <3>2, <3>3, <4>1 DEF Between
      <4>2. CASE k # 0 /\ k \in Contiguous
        BY <1>c, <1>n, <3>2, <4>2
      <4>3. CASE k # 0 /\ k \notin Contiguous
        <5>1. cast[k] = 0 /\ archive.cast[k] = 0
          BY <2>2, <3>1, <3>2, <3>4, <4>3 DEF Copying
        <5> QED
          BY <1>c, <1>n, <5>1
      <4> QED
        BY <4>1, <4>2, <4>3
    <3> QED
      BY <1>0, <2>3, <2>7, <3>5
  <2>8. ASSUME NEW name \in {"recorder.log", "score-error.txt"}, Member(p, name, archive),
               archive.cast = disk[tmp].cast
        PROVE  AgedInv'
    <3>1. pass[p].pc = name
      BY <2>8 DEF Member
    <3>2. \A k \in Segments : Between(k)
      BY <2>2, <2>8, <3>1 DEF Advance
    <3> QED
      BY <1>0, <2>3, <2>8, <3>2 DEF Between
  <2>9. CASE Member(p, "recorder.log", archive) /\ archive = [Archive(p) EXCEPT !.log = log]
    <3>1. archive.cast = disk[tmp].cast
      BY <2>2, <2>9 DEF Archives
    <3> QED
      BY <2>8, <2>9, <3>1
  <2>10. CASE Member(p, "score-error.txt", archive) /\ archive = [Archive(p) EXCEPT !.error = scoreError]
    <3>1. archive.cast = disk[tmp].cast
      BY <2>2, <2>10 DEF Archives
    <3> QED
      BY <2>8, <2>10, <3>1
  <2> QED
    BY <2>4, <2>5, <2>6, <2>7, <2>9, <2>10
<1>10. ASSUME NEW p \in Procs, Close(p) PROVE AgedInv'
  <2>1. UNCHANGED bundle /\ (bundle # None => disk'[bundle] = disk[bundle])
    BY <1>10, BundleStays DEF PassStep, Close, Rename
  <2>2. /\ pass[p].pc = "close" /\ pass[p].fd = tmp /\ tmp \in Inodes /\ disk[tmp] \in Archives
        /\ Archive(p) = disk[tmp] /\ UNCHANGED <<tmp, cast>> /\ Advance(p)
    BY <1>0, <1>10 DEF Close, ArchivesInv, Copying, Archive, AgedInv, recording
  <2>3. CASE UNCHANGED disk /\ Goto(p, "remove")
    <3>1. pass'[p].pc = "remove"
      BY <1>0, <2>3 DEF Goto, Proper, PassRecords
    <3> QED
      BY <1>2, <1>3, <2>1, <3>1 DEF Members
  <2>4. CASE Put(p, [Archive(p) EXCEPT !.whole = TRUE])
    <3>1. disk'[tmp'].cast = disk[tmp].cast
      BY <1>0, <2>2, <2>4 DEF Put, Archives
    <3>2. \A k \in Segments : Between(k)' <=> Between(k)
      BY <1>b, <2>1, <2>2, <3>1 DEF Between
    <3>3. Advance(p)'
      BY <1>0, <2>2, <3>2 DEF Advance
    <3> QED
      BY <1>2, <2>1, <3>3
  <2> QED
    BY <1>10, <2>3, <2>4 DEF Close
<1>11. ASSUME NEW p \in Procs, Rename(p) PROVE AgedInv'
  <2>1. /\ pass[p].pc = "rename" /\ tmp # None /\ tmp \in Inodes /\ tmp # bundle
        /\ Advance(p) /\ UNCHANGED cast
    BY <1>0, <1>11 DEF Rename, ArchivesInv, Copying, AgedInv, recording
  <2>2. CASE UNCHANGED <<disk, tmp, bundle>> /\ Goto(p, "remove")
    <3>1. pass'[p].pc = "remove"
      BY <1>0, <2>2 DEF Goto, Proper, PassRecords
    <3> QED
      BY <1>2, <1>3, <2>2, <3>1 DEF Members
  <2>3. CASE bundle' = tmp /\ Unlink(bundle) /\ (Goto(p, "upload") \/ Return(p))
    <3>1. \A k \in Segments : Kept(k)' = disk[tmp].cast[k]
      BY <2>1, <2>3 DEF Unlink, Kept
    <3>2. \A k \in Segments : Kept(k)' <= cast'[k] /\ cast'[k] <= starts'
      BY <1>c, <2>1, <3>1 DEF Advance, Between
    <3>3. pass'[p].pc \notin Members \union {"close", "rename"}
      BY <1>0, <1>6, <2>3 DEF Goto, Proper, PassRecords, Members
    <3>4. Advance(p)'
      BY <1>3, <3>3
    <3> QED
      BY <3>2, <3>4 DEF AgedInv, OneAtATime
  <2> QED
    BY <1>11, <2>2, <2>3 DEF Rename
<1>12. ASSUME NEW p \in Procs, PassStep(p) PROVE AgedInv'
  BY <1>5, <1>7, <1>8, <1>9, <1>10, <1>11, <1>12
<1> QED
  BY <1>1, <1>4, <1>12 DEF Next, StartSession, Interfere, RecorderStep, Repair, archives, vars

-----------------------------------------------------------------------------
LEMMA InitHolds ==
    ASSUME Init
    PROVE  Types /\ LoggedInv /\ NotedInv /\ ArchivesInv /\ StampedInv /\ EndingInv
<1>0. /\ pass = [p \in Procs |-> Idle] /\ tmp = None /\ bundle = None /\ mishaps = 0
      /\ env = TRUE /\ live = TRUE /\ ended = FALSE /\ score = NoReading
  BY DEF Init
<1>1. Idle \in Proper /\ \A p \in Procs : pass[p] = Idle
  BY <1>0, IdleIsProper
<1>2. Idle.pc = "idle" /\ Idle.doing = "sync" /\ ~Idle.failed
  BY DEF Idle
<1>3. Types
  <2>0. 0 \in 0..MaxStarts /\ 0 \in Segments /\ 0 \in 0..MaxFaults
    BY RecorderAssumption, EvidenceAssumption DEF Segments
  <2>1. RecorderTypeOK /\ supervisor = "off"
    BY <2>0 DEF Init, RecorderInit, RecorderTypeOK, NoCast
  <2>2. NoArchive \in Archives
    BY NoArchiveIsTyped DEF NoArchive
  <2>3. bucket \in [whole : BOOLEAN, cast : [Segments -> 0..MaxStarts]]
    BY <2>2 DEF Init, Uploaded, Whole, Archives
  <2>4. pass \in [Procs -> Proper] /\ \A p \in Procs : pass[p].pc # "upload"
    BY <1>0, <1>1, <1>2
  <2> QED
    BY <1>0, <2>0, <2>1, <2>2, <2>3, <2>4 DEF Init, Types
<1>4. LoggedInv
  BY DEF Init, RecorderInit, LoggedInv, NoCast
<1>5. NotedInv
  BY <1>1, <1>2 DEF NotedInv
<1>6. ArchivesInv
  BY <1>0, <1>1, <1>2 DEF ArchivesInv, Copying, Members
<1>7. StampedInv
  BY <1>0, <1>1, <1>2 DEF StampedInv
<1>8. EndingInv
  <2>1. ASSUME NEW p \in Procs PROVE Stopped(p) /\ Lives(p) /\ Scored(p) /\ Copied(p)
    BY <1>0, <1>1, <1>2 DEF Stopped, Lives, Scored, Copied, Sealed
  <2> QED
    BY <1>0, <2>1 DEF EndingInv
<1> QED
  BY <1>3, <1>4, <1>5, <1>6, <1>7, <1>8

LEMMA TypesHold == Spec => []Types
<1>1. Init => Types
  BY InitHolds
<1> QED
  BY <1>1, TypesStep, PTL DEF Spec

LEMMA EvidenceInvHolds ==
    ASSUME OneAtATime
    PROVE  Spec => [](Types /\ LoggedInv /\ NotedInv /\ ArchivesInv /\ StampedInv /\ EndingInv)
<1> DEFINE Inv == Types /\ LoggedInv /\ NotedInv /\ ArchivesInv /\ StampedInv /\ EndingInv
<1>1. Init => Inv
  BY InitHolds
<1>2. Inv /\ [Next]_vars => Inv'
  <2> SUFFICES ASSUME Inv, [Next]_vars PROVE Inv'
    OBVIOUS
  <2>1. Types' /\ LoggedInv' /\ NotedInv'
    BY TypesStep, LoggedStep, NotedStep
  <2>2. ArchivesInv'
    BY <2>1, CopyingStep
  <2>3. StampedInv'
    BY StampedStep
  <2>4. EndingInv'
    BY EndingStep
  <2> QED
    BY <2>1, <2>2, <2>3, <2>4
<1> HIDE DEF Inv
<1>3. Spec => []Inv
  BY <1>1, <1>2, PTL DEF Spec
<1> QED
  BY <1>3 DEF Inv

\* Whatever passes, ticks, stops and ends run, fail or are killed, at once or not: a
\* descriptor is open only while its process bundles, and everything stays in its range.
THEOREM EvidenceTypeCorrect == Spec => []TypeOK
<1>1. Types => TypeOK
  <2> SUFFICES ASSUME Types PROVE TypeOK
    OBVIOUS
  <2>1. \A p \in Procs : pass[p] \in Proper
    BY DEF Types
  <2>2. Proper \subseteq PassRecords /\ \A r \in Proper : r.fd # None => r.pc \in Bundling
    BY DEF Proper, Bundling
  <2>3. pass \in [Procs -> PassRecords]
    BY <2>2 DEF Types
  <2> QED
    BY <2>1, <2>2, <2>3 DEF Types, TypeOK, PassRecords, Labels
<1> QED
  BY <1>1, TypesHold, PTL

\* The last good bundle stands: with one command at a time, for any number of failures and
\* kills at any step, evidence.tar.gz is never missing or partial once it was there, nothing
\* partial is uploaded, and an older score does not go out without its score-error.txt.
THEOREM LastBundleStands ==
    ASSUME OneAtATime
    PROVE  Spec => LastGoodBundleStands
<1> DEFINE Inv == Types /\ ArchivesInv
<1>1. Inv /\ Inv' /\ [Next]_vars
      => [bundle # None \/ bundle' # None =>
             /\ bundle' # None /\ Whole(disk'[bundle'])
             /\ bucket' # bucket => bucket'.whole
             /\ \A p \in Procs : bundle' # bundle /\ At(p, "rename") /\ pass[p].failed =>
                    disk'[bundle'].error]_vars
  <2> SUFFICES ASSUME Types, ArchivesInv, ArchivesInv', [Next]_vars
               PROVE  /\ bundle # None => bundle' # None
                      /\ bundle' # None => Whole(disk'[bundle'])
                      /\ bucket' # bucket => bucket'.whole
                      /\ \A p \in Procs : bundle' # bundle /\ At(p, "rename") /\ pass[p].failed =>
                             disk'[bundle'].error
    OBVIOUS
  <2>1. bundle' # None => Whole(disk'[bundle'])
    BY DEF ArchivesInv, Whole
  <2>2. CASE UNCHANGED <<bundle, bucket>>
    BY <2>1, <2>2
  <2>3. ASSUME NEW p \in Procs, Rename(p), bundle' # bundle
        PROVE  bundle' # None /\ UNCHANGED bucket
               /\ \A q \in Procs : At(q, "rename") /\ pass[q].failed => disk'[bundle'].error
    <3>1. tmp # None /\ bundle' = tmp /\ Unlink(bundle) /\ UNCHANGED bucket
      BY <2>3 DEF Rename
    <3>2. tmp \in Inodes /\ tmp # bundle
      BY <3>1 DEF Types, ArchivesInv
    <3>3. disk'[bundle'] = disk[tmp]
      BY <3>1, <3>2 DEF Unlink
    <3> QED
      BY <3>1, <3>3 DEF ArchivesInv, Copying, At
  <2>4. ASSUME NEW p \in Procs, Upload(p) PROVE UNCHANGED bundle /\ (bucket' # bucket => bucket'.whole)
    <3>1. UNCHANGED bundle /\ bundle # None
      BY <2>4 DEF Upload, At, Types
    <3> QED
      BY <2>4, <3>1 DEF Upload, Uploaded, ArchivesInv
  <2>5. ASSUME NEW p \in Procs, PassStep(p), ~Rename(p), ~Upload(p) PROVE UNCHANGED <<bundle, bucket>>
    <3>1. CASE AddMember(p)
      BY <3>1, MemberIs DEF Member
    <3>2. CASE ~AddMember(p)
      BY <2>5, <3>2 DEF PassStep, Load, Status, Check, WriteScore, NoteError, Append, Open, Close,
         Remove, Signal, KillSession, Destroy, Stamp, Record, archives
    <3> QED
      BY <3>1, <3>2
  <2>6. CASE \E p \in Procs : Rename(p)
    BY <2>1, <2>2, <2>3, <2>6 DEF Rename
  <2>7. CASE \E p \in Procs : Upload(p)
    BY <2>1, <2>4, <2>7
  <2>8. CASE ~\E p \in Procs : Rename(p) \/ Upload(p)
    <3>1. UNCHANGED <<bundle, bucket>>
      BY <2>5, <2>8 DEF Next, Killed, Begin, StartSession, Interfere, RecorderStep, Repair, archives, vars
    <3> QED
      BY <2>2, <3>1
  <2> QED
    BY <2>6, <2>7, <2>8
<1>2. Spec => [](Types /\ LoggedInv /\ NotedInv /\ ArchivesInv /\ StampedInv /\ EndingInv)
  BY EvidenceInvHolds
<1> HIDE DEF Inv
<1>3. Types /\ LoggedInv /\ NotedInv /\ ArchivesInv /\ StampedInv /\ EndingInv => Inv
  BY DEF Inv
<1> QED
  BY <1>1, <1>2, <1>3, PTL DEF Spec, LastGoodBundleStands

\* With one command at a time, however the recorder restarts meanwhile and however many
\* segments it begins: each in the bundle has its line, and a clean end's bundle has them all.
THEOREM SegmentsAccounted ==
    ASSUME OneAtATime
    PROVE  Spec => []SegmentsAreAccountedFor
<1>1. ArchivesInv /\ EndingInv => SegmentsAreAccountedFor
  <2> SUFFICES ASSUME ArchivesInv, EndingInv PROVE SegmentsAreAccountedFor
    OBVIOUS
  <2>1. ASSUME ended, mishaps = 0
        PROVE  bundle # None /\ disk[bundle].cast = cast /\ supervisor = "off"
    <3>1. PICK p \in Procs : Stopped(p) /\ Lives(p) /\ Copied(p)
      BY <2>1 DEF EndingInv
    <3> QED
      BY <2>1, <3>1 DEF Stopped, Lives, Copied, Sealed
  <2> QED
    BY <2>1 DEF SegmentsAreAccountedFor, ArchivesInv, Accounted
<1> QED
  BY <1>1, EvidenceInvHolds, PTL

\* With one command at a time and nothing going wrong, for any faults and whatever the
\* candidate repairs until the session is stopped: the score is what the environment was.
THEOREM FinalScoreIsTrue ==
    ASSUME OneAtATime
    PROVE  Spec => []FinalScoreStands
<1>1. EndingInv => FinalScoreStands
  <2> SUFFICES ASSUME EndingInv, ended, mishaps = 0 PROVE score = Truth
    BY DEF FinalScoreStands, Truth
  <2>1. PICK p \in Procs : Lives(p) /\ Scored(p)
    BY DEF EndingInv
  <2> QED
    BY <2>1 DEF Lives, Scored, Sealed
<1> QED
  BY <1>1, EvidenceInvHolds, PTL

\* With one command at a time, whatever failed or was killed on the way to the end.
THEOREM EndedIsFrozen ==
    ASSUME OneAtATime
    PROVE  Spec => EndedSessionIsFrozen
<1> DEFINE Inv == Types /\ StampedInv
<1>1. Inv /\ Inv' /\ [Next]_vars
      => [ended => UNCHANGED score /\ \A p \in Procs : pass'[p].pc # "append"]_vars
  <2> SUFFICES ASSUME Types, StampedInv, StampedInv', Next, ended
               PROVE  UNCHANGED score /\ ended'
    BY DEF StampedInv
  <2>1. ASSUME NEW p \in Procs, PassStep(p) PROVE UNCHANGED score /\ ended'
    <3>1. ~WriteScore(p)
      BY DEF WriteScore, At, StampedInv
    <3>2. CASE AddMember(p)
      BY <3>2, MemberIs DEF Member, workdir, environment
    <3>3. CASE ~AddMember(p)
      BY <2>1, <3>1, <3>3 DEF PassStep, Load, Status, Check, NoteError, Append, Open, Close, Rename,
         Remove, Upload, Signal, KillSession, Destroy, Stamp, Record, workdir, environment
    <3> QED
      BY <3>2, <3>3
  <2> QED
    BY <2>1 DEF Next, Killed, Begin, StartSession, Interfere, RecorderStep, Repair, workdir, environment
<1>2. Spec => [](Types /\ LoggedInv /\ NotedInv /\ ArchivesInv /\ StampedInv /\ EndingInv)
  BY EvidenceInvHolds
<1> HIDE DEF Inv
<1>3. Types /\ LoggedInv /\ NotedInv /\ ArchivesInv /\ StampedInv /\ EndingInv => Inv
  BY DEF Inv
<1> QED
  BY <1>1, <1>2, <1>3, PTL DEF Spec, EndedSessionIsFrozen
-----------------------------------------------------------------------------
\* What is bundled is what the bundle has.
BundledKept ==
    /\ bundled \in [Segments -> Nat]
    /\ \A k \in Segments : bundled[k] = Kept(k)
    /\ bundle # None => bundled = disk[bundle].cast

LEMMA BundledIs == Types /\ ArchivesInv => BundledKept
<1> SUFFICES ASSUME Types, ArchivesInv PROVE BundledKept
  OBVIOUS
<1> USE DEF BundledKept
<1>1. MaxStarts \in Nat
  BY RecorderAssumption
<1>2. CASE bundle = None
  BY <1>2 DEF bundled, Kept, NoCast
<1>3. CASE bundle # None
  <2>1. bundle \in Inodes /\ Whole(disk[bundle])
    BY <1>3 DEF Types, ArchivesInv
  <2>2. disk[bundle].cast \in [Segments -> 0..MaxStarts]
    BY <2>1 DEF Types, Archives
  <2> QED
    BY <1>1, <1>3, <2>1, <2>2 DEF bundled, Kept
<1> QED
  BY <1>2, <1>3

\* Every step is one of Delivery's, or none.
LEMMA DeliveryStep ==
    ASSUME Types, Types', ArchivesInv, ArchivesInv', AgedInv, AgedInv', [Next]_vars
    PROVE  [Promised!Next]_(Promised!vars)
<1>0. /\ cast \in [Segments -> Nat] /\ cast' \in [Segments -> Nat]
      /\ starts \in Nat /\ n \in Segments
  BY RecorderAssumption DEF Types, RecorderTypeOK
<1>b. /\ bundled \in [Segments -> Nat] /\ bundled' \in [Segments -> Nat]
      /\ \A k \in Segments : bundled[k] = Kept(k) /\ bundled'[k] = Kept(k)'
      /\ bundle # None => bundled = disk[bundle].cast
  <2>1. BundledKept /\ BundledKept'
    BY BundledIs, PTL
  <2> QED
    BY <2>1 DEF BundledKept
\* Where the bundle stays.
<1>s. ASSUME UNCHANGED bundle, bundle # None => disk'[bundle] = disk[bundle] PROVE UNCHANGED bundled
  BY <1>s DEF bundled
<1>1. CASE UNCHANGED <<cast, disk, bundle, bucket>>
  <2>1. UNCHANGED bundled
    BY <1>1, <1>s
  <2> QED
    BY <1>1, <2>1 DEF Promised!vars
<1>2. CASE Launch /\ UNCHANGED <<disk, bundle, bucket>>
  <2>1. UNCHANGED bundled
    BY <1>2, <1>s
  <2>2. CASE UNCHANGED cast
    BY <1>1, <1>2, <2>2
  <2>3. CASE cast' = [cast EXCEPT ![n] = starts] /\ cast' # cast
    <3>1. cast'[n] = starts /\ cast[n] # starts /\ cast[n] <= starts
      BY <1>0, <2>3 DEF AgedInv
    <3>2. cast[n] < cast'[n] /\ cast' = [cast EXCEPT ![n] = cast'[n]]
      BY <1>0, <2>3, <3>1
    <3>3. Promised!Record(n)
      BY <1>0, <1>2, <2>1, <3>2 DEF Promised!Record, Promised!Recordings
    <3> QED
      BY <1>0, <3>3 DEF Promised!Next
  <2> QED
    BY <1>2, <2>2, <2>3 DEF Launch
<1>3. ASSUME NEW p \in Procs, Rename(p) PROVE [Promised!Next]_(Promised!vars)
  <2>1. UNCHANGED <<cast, bucket>>
    BY <1>3 DEF Rename, recording
  <2>2. CASE UNCHANGED <<disk, bundle>>
    BY <1>1, <2>1, <2>2
  <2>3. CASE tmp # None /\ bundle' = tmp /\ Unlink(bundle)
    <3>1. At(p, "rename") /\ tmp \in Inodes /\ tmp # bundle
      BY <1>3, <2>3 DEF Rename, Types, ArchivesInv
    <3>2. \A k \in Segments : Between(k)
      BY <3>1 DEF At, AgedInv, Advance
    <3>3. \A k \in Segments : Kept(k)' = disk[tmp].cast[k]
      BY <2>3, <3>1, EvidenceAssumption DEF Kept, Unlink
    <3>4. Promised!UpTo(bundled, bundled') /\ Promised!UpTo(bundled', cast)
      BY <1>b, <3>2, <3>3 DEF Promised!UpTo, Between
    <3>5. Promised!Bundle
      BY <1>b, <2>1, <3>4 DEF Promised!Bundle, Promised!Recordings
    <3> QED
      BY <3>5 DEF Promised!Next
  <2> QED
    BY <1>3, <2>2, <2>3 DEF Rename
<1>4. ASSUME NEW p \in Procs, Upload(p) PROVE [Promised!Next]_(Promised!vars)
  <2>1. UNCHANGED <<cast, disk, bundle>> /\ bundle # None
    BY <1>4 DEF Upload, At, Types, recording
  <2>2. UNCHANGED bundled
    BY <1>s, <2>1
  <2>3. CASE UNCHANGED bucket
    BY <1>1, <2>1, <2>3
  <2>4. CASE bucket' = Uploaded(disk[bundle])
    <3>1. bucket'.cast = bundled
      BY <1>b, <2>1, <2>4 DEF Uploaded
    <3>2. Promised!Deliver
      BY <2>1, <2>2, <3>1 DEF Promised!Deliver
    <3> QED
      BY <3>2 DEF Promised!Next
  <2> QED
    BY <1>4, <2>3, <2>4 DEF Upload
<1>5. ASSUME NEW p \in Procs, PassStep(p), ~Rename(p), ~Upload(p) PROVE UNCHANGED Promised!vars
  <2>1. UNCHANGED bundled
    BY <1>5, <1>s, BundleStays
  <2>2. UNCHANGED bucket
    <3>1. CASE AddMember(p)
      BY <3>1, MemberIs DEF Member
    <3>2. CASE ~AddMember(p)
      BY <1>5, <3>2 DEF PassStep, Load, Status, Check, WriteScore, NoteError, Append, Open, Close,
         Remove, Signal, KillSession, Destroy, Stamp, Record, archives
    <3> QED
      BY <3>1, <3>2
  <2>3. UNCHANGED cast
    BY <1>5, RecordingFrame
  <2> QED
    BY <2>1, <2>2, <2>3 DEF Promised!vars
<1>6. ASSUME NEW p \in Procs, Killed(p) \/ \E c \in Commands : Begin(p, c)
      PROVE  UNCHANGED <<cast, disk, bundle, bucket>>
  BY <1>6 DEF Killed, Begin, recording, archives
<1>7. CASE StartSession \/ Interfere \/ RecorderStep
  <2>1. UNCHANGED <<disk, bundle, bucket>> /\ (Launch \/ UNCHANGED cast)
    BY <1>7 DEF StartSession, Start, Interfere, KillClient, KillServer, RecorderStep, Supervise,
       ClientEnds, Probe, NextSegment, archives
  <2> QED
    BY <1>1, <1>2, <2>1
<1>8. CASE UNCHANGED vars \/ \E f \in Faults : Repair(f)
  BY <1>1, <1>8 DEF vars, Repair, recording, archives
<1> QED
  BY <1>1, <1>3, <1>4, <1>5, <1>6, <1>7, <1>8 DEF Next

\* With one command at a time, for any number of starts, segments, failures and kills: the
\* bundle and the object in S3 never go back to less of the recording than they had.
THEOREM EvidenceDelivers ==
    ASSUME OneAtATime
    PROVE  Spec => ImplementsDelivery
<1> DEFINE Inv == Types /\ LoggedInv /\ NotedInv /\ ArchivesInv /\ StampedInv /\ EndingInv
           Safe == Types /\ LoggedInv /\ ArchivesInv
<1>1. Spec => []Inv
  BY EvidenceInvHolds
<1>2. Inv => Safe
  OBVIOUS
<1>3. Init => AgedInv /\ Promised!Init
  <2> SUFFICES ASSUME Init PROVE AgedInv /\ Promised!Init
    OBVIOUS
  <2>1. cast = NoCast /\ bundle = None /\ starts = 0 /\ bucket.cast = NoCast
    BY DEF Init, RecorderInit, Uploaded, NoArchive, Empty
  <2>2. \A p \in Procs : pass[p] = Idle
    BY DEF Init
  <2>3. AgedInv
    BY <2>1, <2>2, IdleIsProper DEF AgedInv, Advance, Kept, NoCast
  <2>4. Promised!Init
    BY <2>1 DEF Promised!Init, Promised!Nothing, NoCast, bundled
  <2> QED
    BY <2>3, <2>4
<1>4. Safe /\ Safe' /\ AgedInv /\ [Next]_vars => AgedInv'
  BY AgedStep
<1>5. Safe /\ Safe' /\ AgedInv /\ AgedInv' /\ [Next]_vars => [Promised!Next]_(Promised!vars)
  BY DeliveryStep
<1> HIDE DEF Inv, Safe
<1> QED
  BY <1>1, <1>2, <1>3, <1>4, <1>5, PTL DEF Spec, ImplementsDelivery, Promised!Spec
=============================================================================
