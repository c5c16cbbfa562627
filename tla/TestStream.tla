------------------------------ MODULE TestStream ------------------------------
(***************************************************************************)
(* The test stream of normal driving: once started, it sends a snapshot at *)
(* once and then every second, whether or not the one before has been      *)
(* stored, until it is stopped.  Snapshots of one source are stored in     *)
(* order; each start may name a source of its own.                         *)
(***************************************************************************)
EXTENDS Naturals, Sequences, FiniteSets

CONSTANTS MaxRuns, MaxTicks    \* bounds on the starts and on the snapshots of all

ASSUME StreamAssumption == {MaxRuns, MaxTicks} \subseteq Nat \ {0}

VARIABLES stream,       \* normalStreamState: [running, sentCount]
          timer,        \* normalStreamTimer: the run it belongs to, or 0
          ticks,        \* the snapshots under way: [run, sequence]
          runs, sent,   \* how many runs and snapshots there were
          stored,       \* how many snapshots of the last run were stored
          late,         \* a snapshot of an earlier run was under way when the last one started
          outrun        \* in the last run, one was sent while another was under way

streamVars == <<stream, timer, ticks, runs, sent, stored, late, outrun>>

StreamInit ==
    /\ stream = [running |-> FALSE, sentCount |-> 0]
    /\ timer = 0 /\ ticks = <<>> /\ runs = 0 /\ sent = 0 /\ stored = 0
    /\ late = FALSE /\ outrun = FALSE

\* tickNormalDrivingStream, up to where it waits: the count is read.
Tick(run, count) ==
    /\ sent < MaxTicks /\ sent' = sent + 1
    /\ ticks' = Append(ticks, [run |-> run, sequence |-> count + 1])

\* Refused, with the status, while a stream runs.
StartNormalDrivingStream ==
    /\ timer = 0 /\ runs < MaxRuns
    /\ runs' = runs + 1 /\ timer' = runs + 1
    /\ stream' = [running |-> TRUE, sentCount |-> 0]
    /\ Tick(runs + 1, 0)
    /\ stored' = 0 /\ late' = (ticks # <<>>) /\ outrun' = FALSE

IntervalFires ==
    /\ timer # 0
    /\ Tick(timer, stream.sentCount)
    /\ outrun' = (outrun \/ ticks # <<>>)
    /\ UNCHANGED <<stream, timer, runs, stored, late>>

\* Also when none runs.
StopNormalDrivingStream ==
    /\ timer' = 0 /\ stream' = [stream EXCEPT !.running = FALSE]
    /\ UNCHANGED <<ticks, runs, sent, stored, late, outrun>>

\* Mutant: the state from before the wait is written back.
CountedBefore(t) == [running |-> TRUE, sentCount |-> t.sequence]

\* The count that was read takes effect; everything else is left as it is by now.
Counted(t) == [stream EXCEPT !.sentCount = t.sequence]

\* A snapshot is stored, or fails; those of one run in the order they were sent.
TickSettles ==
    /\ \E i \in DOMAIN ticks :
          LET t == ticks[i] IN
          /\ \A j \in 1..(i - 1) : ticks[j].run # t.run
          /\ ticks' = SubSeq(ticks, 1, i - 1) \o SubSeq(ticks, i + 1, Len(ticks))
          /\ \/ stream' = Counted(t) /\ stored' = stored + (IF t.run = runs THEN 1 ELSE 0)
             \/ UNCHANGED <<stream, stored>>
    /\ UNCHANGED <<timer, runs, sent, late, outrun>>

StreamNext ==
    StartNormalDrivingStream \/ IntervalFires \/ StopNormalDrivingStream \/ TickSettles

StreamSpec == StreamInit /\ [][StreamNext]_streamVars

\* The status says that the stream runs as long as its timer does, though snapshots of a run
\* that was stopped settle later.  It never counts more snapshots of the run than were stored,
\* even when they outrun each other: two that overlap have read the same count, so it can only
\* fall behind.  Only a snapshot of an earlier run that settles in this one can make it too high.
\* As long as each is stored before the next is sent, it counts every one that was stored and
\* none that failed.
StreamStatusIsTrue ==
    /\ stream.running <=> timer # 0
    /\ late \/ stream.sentCount <= stored
    /\ late \/ outrun \/ stream.sentCount = stored
=============================================================================
