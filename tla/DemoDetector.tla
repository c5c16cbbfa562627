---------------------------- MODULE DemoDetector ----------------------------
(***************************************************************************)
(* The camera detector of the demo: a loop in a thread of its own judges   *)
(* the vehicles it tracks, warns the dashboard and drives the control      *)
(* board over a serial line, while the threads of Flask start, stop and    *)
(* reset the demo.  They share dictionaries without a lock: one that a     *)
(* request clears reads as empty to the loop from then on.                 *)
(***************************************************************************)
EXTENDS Naturals, Sequences

CONSTANTS Tracks, Delay,            \* Delay: the 3 seconds of the code
          MaxTime                   \* bound

ASSUME DetectorAssumption == {Delay, MaxTime} \subseteq Nat \ {0}

VARIABLES now,
          demoActive,    \* demo_active
          alertedStages, \* track_alerted_stages
          stage1Time,    \* track_stage1_time, 0 where there is no entry
          boxes,         \* the tracks in track_last_box
          loop,          \* where the detection loop is, with its local variables
          clearing,      \* the dictionaries a request has still to clear
          alerted,       \* when a stage of a track was first sent to the dashboard, or 0
          board,         \* the last command the control board got
          timers,        \* commands that are still to be sent: [at, command]
          torn,          \* the tracks whose entry was gone at its second look
          lostReset      \* no command arrived since one that ends the alarms was lost

detectorVars == <<now, demoActive, alertedStages, stage1Time, boxes, loop,
                  clearing, alerted, board, timers, torn, lostReset>>

seen == <<alertedStages, stage1Time, boxes>>
outside == <<alerted, board, timers, lostReset>>

Dictionaries == <<"alertedStages", "stage1Time", "boxes">>
Between == [step |-> "between", track |-> "", stage |-> 0]

DetectorInit ==
    /\ now = Delay
    /\ demoActive = FALSE
    /\ stage1Time = [t \in Tracks |-> 0]
    /\ alertedStages = [t \in Tracks |-> {}] /\ boxes = {}
    /\ loop = Between /\ clearing = <<>>
    /\ alerted = [t \in Tracks |-> <<0, 0>>] /\ board = "SYSTEM_RESET" /\ timers = {}
    /\ torn = {} /\ lostReset = FALSE

(* --- detection_loop --------------------------------------------------------- *)

At(step) == loop' = [loop EXCEPT !.step = step]

\* A frame is read; the end of the film stops the demo instead.
ReadFrame ==
    /\ loop.step = "between" /\ demoActive
    /\ \/ At("tracking") /\ UNCHANGED <<demoActive, seen>>
       \/ At("drawing") /\ UNCHANGED <<demoActive, seen>>
       \/ /\ demoActive' = FALSE
          /\ stage1Time' = [t \in Tracks |-> 0]
          /\ alertedStages' = [t \in Tracks |-> {}] /\ boxes' = {}
          /\ UNCHANGED loop
    /\ UNCHANGED <<now, clearing, outside, torn>>

\* Two frames of three are not judged: the loop goes through track_last_box.
DrawBoxes ==
    /\ loop.step = "drawing" /\ loop' = Between
    /\ UNCHANGED <<now, demoActive, seen, clearing, outside, torn>>

\* A tracked vehicle has moved: the sum of its cross products is below none, one or both
\* of the limits.
Judge ==
    /\ loop.step = "tracking"
    /\ \E t \in Tracks, limits \in 0..2 :
          /\ IF limits = 0
             THEN /\ boxes' = boxes \ {t}
                  /\ UNCHANGED <<stage1Time, loop>>
             ELSE /\ boxes' = boxes \cup {t}
                  /\ stage1Time' = [stage1Time EXCEPT ![t] = IF @ = 0 THEN now ELSE @]
                  /\ loop' = [step |-> IF limits = 2 THEN "elapsed" ELSE "alert",
                              track |-> t, stage |-> 1]
    /\ UNCHANGED <<now, demoActive, alertedStages, clearing, outside, torn>>

\* Whether the entry that was there at the first look is gone at the second.
Torn == IF stage1Time[loop.track] = 0 THEN torn \cup {loop.track} ELSE torn

\* Mutant: the second stage does not wait.
LookAtLimits ==
    /\ loop.step = "elapsed"
    /\ loop' = [loop EXCEPT !.step = "alert", !.stage = 2]
    /\ torn' = Torn
    /\ UNCHANGED <<now, demoActive, seen, clearing, outside>>

\* The second stage wants three seconds since the first; a missing entry reads as 0.
LookAtElapsed ==
    /\ loop.step = "elapsed"
    /\ loop' = [loop EXCEPT !.step = "alert",
                            !.stage = IF now - stage1Time[loop.track] >= Delay THEN 2 ELSE 1]
    /\ torn' = Torn
    /\ UNCHANGED <<now, demoActive, seen, clearing, outside>>

\* send_serial prints what goes wrong and goes on.
Serial(command) ==
    \/ board' = command /\ lostReset' = FALSE
    \/ lostReset' = (lostReset \/ command = "SYSTEM_RESET") /\ UNCHANGED board

\* A stage is alerted once per track: dashboard, board and the timers that end it.
Alert ==
    /\ loop.step = "alert" /\ At("tracking")
    /\ IF loop.stage \in alertedStages[loop.track]
       THEN UNCHANGED <<alertedStages, outside>>
       ELSE /\ alertedStages' = [alertedStages EXCEPT ![loop.track] = @ \cup {loop.stage}]
            /\ alerted' = [alerted EXCEPT ![loop.track][loop.stage] = IF @ = 0 THEN now ELSE @]
            /\ Serial(IF loop.stage = 1 THEN "STAGE_1_ON" ELSE "STAGE_2_ON")
            /\ timers' = timers \cup
                 {[at |-> now + Delay, command |-> c] :
                    c \in {"SYSTEM_RESET"} \cup (IF loop.stage = 2 THEN {"STAGE_2_RETURN"} ELSE {})}
    /\ UNCHANGED <<now, demoActive, stage1Time, boxes, clearing, torn>>

EndFrame ==
    /\ loop.step = "tracking" /\ loop' = Between
    /\ UNCHANGED <<now, demoActive, seen, clearing, outside, torn>>

TimerFires ==
    /\ \E timer \in timers :
          /\ timer.at <= now
          /\ timers' = timers \ {timer}
          /\ Serial(timer.command)
    /\ UNCHANGED <<now, demoActive, seen, loop, clearing, alerted, torn>>

(* --- the endpoints ------------------------------------------------------------ *)

\* demo_start, demo_stop and demo_reset begin reset_tracking_state.
DemoRequest ==
    /\ clearing = <<>>
    /\ demoActive' \in BOOLEAN
    /\ clearing' = Dictionaries
    /\ UNCHANGED <<now, seen, loop, outside, torn>>

\* It clears one after the other. Clearing what the loop iterates over
\* ends its thread.
ClearNext ==
    /\ clearing # <<>>
    /\ clearing' = Tail(clearing)
    /\ stage1Time' = IF Head(clearing) = "stage1Time" THEN [t \in Tracks |-> 0] ELSE stage1Time
    /\ alertedStages' =
          IF Head(clearing) = "alertedStages" THEN [t \in Tracks |-> {}] ELSE alertedStages
    /\ boxes' = IF Head(clearing) = "boxes" THEN {} ELSE boxes
    /\ \/ UNCHANGED loop
       \/ Head(clearing) = "boxes" /\ boxes # {} /\ loop.step = "drawing" /\ At("dead")
    /\ UNCHANGED <<now, demoActive, outside, torn>>

\* The few statements of one judgement take less than a unit of time.
DetectorTick ==
    /\ loop.step \notin {"elapsed", "alert"}
    /\ now < MaxTime /\ now' = now + 1
    /\ UNCHANGED <<demoActive, seen, loop, clearing, outside, torn>>

DetectorNext ==
    \/ ReadFrame \/ DrawBoxes \/ Judge \/ LookAtElapsed \/ Alert \/ EndFrame
    \/ TimerFires \/ DemoRequest \/ ClearNext \/ DetectorTick

DetectorSpec == DetectorInit /\ [][DetectorNext]_detectorVars

\* Requests clear the tracking state under the eyes of the loop, but a danger is announced only
\* three seconds after a warning of the same vehicle.  The one exception is a vehicle whose entry
\* a request cleared between the two looks of a judgement: the missing time reads as 0, and the
\* danger is announced at once.  And the board is never left in an alarm: while one is on, the
\* command that ends it is still to come, or was lost with nothing written since.
AlarmsEscalateAndEnd ==
    /\ \A t \in Tracks \ torn :
          alerted[t][2] # 0 => alerted[t][1] # 0 /\ alerted[t][1] + Delay <= alerted[t][2]
    /\ board \in {"STAGE_1_ON", "STAGE_2_ON"} =>
          lostReset \/ \E timer \in timers : timer.command = "SYSTEM_RESET"
=============================================================================
