------------------------------ MODULE Recorder ------------------------------
(***************************************************************************)
(* The recording of a session: recorderScript of                           *)
(* internal/session/session.go.                                            *)
(*                                                                         *)
(* A shell loop runs asciinema into session.cast.  When asciinema exits    *)
(* with the tmux session still up, the loop writes a line to recorder.log  *)
(* and runs it again into session.cast.1, and so on.  The files outlive    *)
(* the loop: a later start of the same workdir begins at session.cast      *)
(* again and finds the segments of the earlier one.                        *)
(***************************************************************************)
EXTENDS Naturals

CONSTANTS
    MaxStarts,      \* bound on the starts of the session
    MaxSegments     \* bound on the numbered segments of one recording

ASSUME RecorderAssumption == {MaxStarts, MaxSegments} \subseteq Nat

VARIABLES
    session,        \* whether the tmux session is up
    starts,         \* how many times it was started
    supervisor,     \* where the shell loop is; "off" when there is none
    n,              \* its counter: the segment being written, 0 for session.cast
    cast,           \* each segment's file: the start that wrote it, 0 for no file
    log             \* the restarts in recorder.log: of which start, into which segment

recording == <<session, starts, supervisor, n, cast, log>>

Segments == 0..MaxSegments
NoCast == [k \in Segments |-> 0]

RecorderTypeOK ==
    /\ session \in BOOLEAN
    /\ starts \in 0..MaxStarts
    /\ supervisor \in {"off", "launch", "record", "probe", "sized"}
    /\ n \in Segments
    /\ cast \in [Segments -> 0..MaxStarts]
    /\ log \subseteq (1..MaxStarts) \X (1..MaxSegments)

RecorderInit ==
    /\ session = FALSE
    /\ starts = 0
    /\ supervisor = "off"
    /\ n = 0
    /\ cast = NoCast
    /\ log = {}

----------------------------------------------------------------------------
\* `session start`, which refuses while its predecessor's processes run: a tmux
\* session, and the loop with its counter at zero.
Start ==
    /\ ~session /\ supervisor = "off" /\ starts < MaxStarts
    /\ session' = TRUE
    /\ starts' = starts + 1
    /\ supervisor' = "launch"
    /\ n' = 0
    /\ UNCHANGED <<cast, log>>

\* asciinema rec --overwrite "$cast" opens its file, or exits before it does.
Launch ==
    /\ supervisor = "launch"
    /\ \/ cast' = [cast EXCEPT ![n] = starts] /\ supervisor' = "record"
       \/ UNCHANGED cast /\ supervisor' = "probe"
    /\ UNCHANGED <<session, starts, n, log>>

\* The candidate ends the client it records through.
KillClient ==
    /\ supervisor = "record" /\ session
    /\ supervisor' = "probe"
    /\ UNCHANGED <<session, starts, n, cast, log>>

\* The candidate ends the tmux server.
KillServer ==
    /\ session
    /\ session' = FALSE
    /\ UNCHANGED <<starts, supervisor, n, cast, log>>

\* Without its session asciinema exits by itself.
ClientEnds ==
    /\ supervisor = "record" /\ ~session
    /\ supervisor' = "probe"
    /\ UNCHANGED <<session, starts, n, cast, log>>

\* has-session: the loop ends with the session.
Probe ==
    /\ supervisor = "probe"
    /\ supervisor' = IF session THEN "sized" ELSE "off"
    /\ UNCHANGED <<session, starts, n, cast, log>>

\* [ -s "$cast" ] || exit 1, or the next segment: counted, logged, and launched.
NextSegment ==
    /\ supervisor = "sized"
    /\ \/ cast[n] = 0 /\ supervisor' = "off" /\ UNCHANGED <<n, log>>
       \/ /\ cast[n] # 0 /\ n < MaxSegments
          /\ n' = n + 1
          /\ log' = log \union {<<starts, n + 1>>}
          /\ supervisor' = "launch"
    /\ UNCHANGED <<session, starts, cast>>

Supervise == Launch \/ ClientEnds \/ Probe \/ NextSegment
=============================================================================
