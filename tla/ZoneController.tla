--------------------------- MODULE ZoneController ---------------------------
(***************************************************************************)
(* The gate of one camera zone: ZoneController.step of                     *)
(* vision_worker/core.py, called by VisionWorker.process of worker.py for  *)
(* every camera frame.                                                     *)
(*                                                                         *)
(* A time that the code stores is kept here as its age at the last frame,  *)
(* and counted no further than the threshold it is compared with.  A       *)
(* detection is reduced to how it moved since its track was last seen.     *)
(* The gate is not modelled: the board may report any state at any frame,  *)
(* since operators move it too and its answers may be late.  A frame whose *)
(* time does not increase, or with a track twice, raises ValueError before *)
(* anything changes, and is no step.                                       *)
(***************************************************************************)
EXTENDS Integers

CONSTANTS
    Ids,              \* the ids the tracker gives
    MaxGap,           \* bound: time between two frames
    ConfirmSeconds,   \* confirm_seconds
    RecoverySeconds,  \* recovery_seconds
    ClearSeconds,     \* clear_seconds
    LostSeconds,      \* lost_seconds
    CommandTimeout    \* command_timeout

ASSUME ZoneAssumption ==
    {MaxGap, ConfirmSeconds, RecoverySeconds, ClearSeconds, LostSeconds, CommandTimeout}
        \subseteq Nat \ {0}

Never == -1
Ages(bound) == {Never} \cup (0..bound)

\* An age after d more seconds; the bound is all that its comparisons need.
Older(age, d, bound) ==
    IF age = Never THEN Never ELSE IF age + d < bound THEN age + d ELSE bound

Track == [seen: 0..LostSeconds + 1, reverse: Ages(ConfirmSeconds),
          normal: Ages(RecoverySeconds), hazardous: BOOLEAN]
NewTrack == [seen |-> 0, reverse |-> Never, normal |-> Never, hazardous |-> FALSE]
NoTrack == [gone |-> TRUE]

Commands == {"close", "open"}
\* A gate that is unknown or moving is neither open nor closed, and step asks
\* for nothing more.
Reports == {"open", "closed", "neither"}
\* "unclear": less than min_pixels, or across the direction.
Motions == {"unseen", "unclear", "reverse", "normal"}

VARIABLES
    tracks,        \* [id -> its track, or NoTrack]
    clearFor,      \* age of clear_since
    pending,       \* the command the board has not completed, or "none"
    pendingFor,    \* age of pending_since
    commandFault,  \* command_fault
    incident,
    intent,        \* the intent of the last frame, or "none"
    left,          \* the tracks that were confirmed to have left with it
    quietFor,      \* since when each frame saw the zone clear (below)
    last,          \* the last intent of all, or "none"
    confirmed,     \* the gate was reported where last wanted it
    overlapped     \* an opening was completed while a track was hazardous

stateVars == <<tracks, clearFor, pending, pendingFor, commandFault, incident>>
historyVars == <<intent, left, quietFor, last, confirmed, overlapped>>
vars == <<stateVars, historyVars>>

TypeOK ==
    /\ tracks \in [Ids -> Track \cup {NoTrack}]
    /\ clearFor \in Ages(ClearSeconds)
    /\ pending \in Commands \cup {"none"}
    /\ pendingFor \in Ages(CommandTimeout)
    /\ pending = "none" <=> pendingFor = Never
    /\ commandFault \in BOOLEAN
    /\ incident \in BOOLEAN
    /\ intent \in Commands \cup {"none"}
    /\ left \subseteq Ids
    /\ quietFor \in Ages(ClearSeconds)
    /\ last \in Commands \cup {"none"}
    /\ confirmed \in BOOLEAN
    /\ overlapped \in BOOLEAN

Init ==
    /\ tracks = [id \in Ids |-> NoTrack]
    /\ clearFor = Never
    /\ pending = "none"
    /\ pendingFor = Never
    /\ commandFault = FALSE
    /\ incident = FALSE
    /\ intent = "none"
    /\ left = {}
    /\ quietFor = Never
    /\ last = "none"
    /\ confirmed = FALSE
    /\ overlapped = FALSE

-----------------------------------------------------------------------------
(* Feedback of the board, before anything else in step.                    *)

Reaches(command, report) ==
    \/ command = "close" /\ report = "closed"
    \/ command = "open" /\ report = "open"

\* Mutant of PendingAfter: a command that timed out may be sent again.
PendingAfter_TimedOut(d, report) ==
    IF Reaches(pending, report) \/ Older(pendingFor, d, CommandTimeout) = CommandTimeout
    THEN "none" ELSE pending

PendingAfter(d, report) == IF Reaches(pending, report) THEN "none" ELSE pending

PendingForAfter(d, report) ==
    IF PendingAfter(d, report) = "none" THEN Never ELSE Older(pendingFor, d, CommandTimeout)

FaultAfter(d, report) ==
    commandFault \/ PendingForAfter(d, report) = CommandTimeout

\* Mutant of IncidentAfter: a completed closing ends the incident too.
IncidentAfter_AnyCommand(report) == incident /\ ~Reaches(pending, report)

\* A completed opening ends the incident.
IncidentAfter(report) == incident /\ ~(pending = "open" /\ report = "open")

-----------------------------------------------------------------------------
(* The tracks.                                                             *)

Unsure(t) == [seen |-> t.seen, reverse |-> Never, normal |-> Never, hazardous |-> t.hazardous]
Seen(t) == [t EXCEPT !.seen = 0]

Aged(t, d) ==
    IF t = NoTrack THEN t
    ELSE [seen |-> Older(t.seen, d, LostSeconds + 1),
          reverse |-> Older(t.reverse, d, ConfirmSeconds),
          normal |-> Older(t.normal, d, RecoverySeconds),
          hazardous |-> t.hazardous]

Lost(t) == t.seen > LostSeconds

Since(age) == IF age = Never THEN 0 ELSE age

\* Motion against the direction, for ConfirmSeconds without interruption.
Reversing(t) ==
    LET since == Since(t.reverse)
    IN  [seen |-> 0, reverse |-> since, normal |-> Never,
         hazardous |-> t.hazardous \/ since = ConfirmSeconds]

\* Motion along the direction, for RecoverySeconds without interruption.
Normal(t) ==
    LET since == Since(t.normal)
    IN  [seen |-> 0, reverse |-> Never, normal |-> since,
         hazardous |-> t.hazardous /\ since < RecoverySeconds]

\* What one detection does to its track.
Observed(t, motion) ==
    IF motion = "unseen" THEN t
    ELSE IF t = NoTrack THEN NewTrack
    ELSE IF Lost(t) \/ motion = "unclear" THEN Seen(Unsure(t))
    ELSE IF motion = "reverse" THEN Reversing(t)
    ELSE Normal(t)

\* Mutant of Kept: every lost track is forgotten.
Kept_UntilLost(t) == IF t # NoTrack /\ Lost(t) THEN NoTrack ELSE t

\* A lost track is forgotten, unless it is hazardous.
Kept(t) ==
    IF t = NoTrack \/ ~Lost(t) THEN t ELSE IF t.hazardous THEN Unsure(t) ELSE NoTrack

Hazardous(t) == t # NoTrack /\ t.hazardous
Candidate(t) == t # NoTrack /\ t.reverse # Never

TracksAfter(d, motion, exited) ==
    [id \in Ids |-> IF id \in exited THEN NoTrack
                    ELSE Kept(Observed(Aged(tracks[id], d), motion[id]))]

\* A reverse motion of this frame confirms a hazard, new or known.
Confirms(d, motion) ==
    \E id \in Ids :
        LET t == Aged(tracks[id], d)
        IN  /\ motion[id] = "reverse"
            /\ t # NoTrack /\ ~Lost(t)
            /\ Since(t.reverse) = ConfirmSeconds

-----------------------------------------------------------------------------
\* The intents of a frame, from the tracks and the feedback after it.
MustClose(danger, report, command, fault) ==
    danger /\ report # "closed" /\ command # "close" /\ ~fault

MayClear(danger, candidates, open, report, safe) ==
    ~danger /\ open /\ ~candidates /\ safe /\ report = "closed"

MayOpen(since, command, fault) == since = ClearSeconds /\ command = "none" /\ ~fault

\* Mutant of ClearWhenBlind: the clear period runs on without pictures.
ClearWhenBlind_RunsOn(d) == Older(clearFor, d, ClearSeconds)

\* clear_since when the frame is missing.
ClearWhenBlind(d) == Never

\* The history variables.
Records(what, exited, report) ==
    /\ intent' = what
    /\ left' = exited
    /\ last' = IF what = "none" THEN last ELSE what
    /\ confirmed' = (what = "none" /\ (confirmed \/ Reaches(last, report)))
    /\ overlapped' = \/ overlapped
                     \/ /\ pending = "open" /\ report = "open"
                        /\ \E id \in Ids : Hazardous(tracks'[id])

\* A frame that the camera or the tracker failed to deliver.
Blind(d, report) ==
    /\ pending' = PendingAfter(d, report)
    /\ pendingFor' = PendingForAfter(d, report)
    /\ commandFault' = FaultAfter(d, report)
    /\ incident' = IncidentAfter(report)
    /\ clearFor' = ClearWhenBlind(d)
    /\ tracks' = [id \in Ids |-> IF tracks[id] = NoTrack THEN NoTrack
                                 ELSE Unsure(Aged(tracks[id], d))]
    /\ quietFor' = Never
    /\ Records("none", {}, report)

\* What step decides from the tracks after the frame and the feedback of the
\* board.  When board.request fails, process latches command_fault.
Decide(d, report, safe, confirms, exited) ==
    LET command == PendingAfter(d, report)
        fault == FaultAfter(d, report)
        open == IncidentAfter(report) \/ confirms
        danger == \E id \in Ids : Hazardous(tracks'[id])
        candidates == \E id \in Ids : Candidate(tracks'[id])
        clear == MayClear(danger, candidates, open, report, safe)
        since == IF clear THEN Since(Older(clearFor, d, ClearSeconds)) ELSE Never
        what == CASE MustClose(danger, report, command, fault) -> "close"
                  [] clear /\ MayOpen(since, command, fault) -> "open"
                  [] OTHER -> "none"
    IN  /\ incident' = open
        /\ clearFor' = since
        /\ pending' = IF what # "none" THEN what ELSE command
        /\ pendingFor' = IF what # "none" THEN 0 ELSE PendingForAfter(d, report)
        /\ commandFault' \in IF what = "none" THEN {fault} ELSE {fault, TRUE}
        /\ quietFor' = IF ~danger /\ ~candidates /\ safe /\ report = "closed"
                       THEN Since(Older(quietFor, d, ClearSeconds)) ELSE Never
        /\ Records(what, exited, report)

\* safety_clear is read with a closed gate only.  When board.status() fails the
\* gate is unknown and safety is not confirmed.
Feedback(report, safe) == safe => report = "closed"

\* The first detection of a track has no motion.
Detected(motion) ==
    \A id \in Ids : tracks[id] = NoTrack => motion[id] \in {"unseen", "unclear"}

\* The tracks that can leave; to report any other does nothing.
Present(motion) == {id \in Ids : tracks[id] # NoTrack \/ motion[id] # "unseen"}

\* A frame with its detections and the tracks confirmed to have left.
Frame(d, motion, exited) ==
    /\ Detected(motion)
    /\ exited \subseteq Present(motion)
    /\ tracks' = TracksAfter(d, motion, exited)
    /\ \E report \in Reports, safe \in BOOLEAN :
         /\ Feedback(report, safe)
         /\ Decide(d, report, safe, Confirms(d, motion), exited)

Next ==
    \E d \in 1..MaxGap :
        \/ \E report \in Reports : Blind(d, report)
        \/ \E motion \in [Ids -> Motions], exited \in SUBSET Ids :
             Frame(d, motion, exited)

Spec == Init /\ [][Next]_vars

-----------------------------------------------------------------------------
\* The gate is opened only if every frame of the last ClearSeconds came, had
\* no hazardous track and no candidate, and was confirmed safe by the board
\* with the gate closed (core.py 77-81 and 128-135; test_core.py 28 and 46).
OpensOnlyWhenClear ==
    intent = "open" =>
        /\ quietFor = ClearSeconds
        /\ \A id \in Ids : ~Hazardous(tracks[id]) /\ ~Candidate(tracks[id])

\* No command is given twice in a row before the gate has been where the
\* first one wanted it, however often frames fail or time out (comment at
\* core.py 68; test_core.py 18).
NoRepeatedCommand ==
    [][intent' # "none" /\ intent' = last => confirmed]_vars

\* A hazard ends only when its track has left the zone or has driven in the
\* right direction for RecoverySeconds, never by being lost from view or by
\* missing frames (comment at core.py 112; test_core.py 22).
HazardsAreNotForgotten ==
    [][\A id \in Ids : Hazardous(tracks[id]) /\ ~Hazardous(tracks'[id]) =>
           \/ id \in left'
           \/ tracks'[id] # NoTrack /\ tracks'[id].normal = RecoverySeconds]_vars

\* A gate that was closed for a hazard is opened again when the zone has been
\* clear for ClearSeconds, whatever happened in between.  "confirmed exit
\* requires safety and delay" (test_core.py 28-33): with them, it opens.
ClosedGateIsReopened ==
    last = "close" /\ quietFor = ClearSeconds => commandFault

\* The same, unless an opening was completed with a hazard in the zone.
ReopenedUnlessOverlapped ==
    last = "close" /\ quietFor = ClearSeconds => commandFault \/ overlapped
=============================================================================
