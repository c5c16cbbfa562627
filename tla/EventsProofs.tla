---------------------------- MODULE EventsProofs ----------------------------
(***************************************************************************)
(* Proofs about what becomes of events, each for its own specification and *)
(* for any constants: the audit log of an event explains its status        *)
(* (EventReview), the history is read to its end (EventHistory), the       *)
(* buckets of a chart are a partition of its range (Statistics), no        *)
(* garbled frame is taken for a packet (ControlBoardPacket) and what is    *)
(* counted is at the head of the history (ExternalIngest), the status of   *)
(* the test stream is true (TestStream), the alarms of the demo escalate   *)
(* and end (DemoDetector), the vision test service shows what is set       *)
(* (VisionTest), here with the page and the analysis at once, which the    *)
(* runs look at one by one, and the pages with lists, details, charts and  *)
(* alarm cards show what was asked for last (EventPages).                  *)
(***************************************************************************)
EXTENDS EventReview, EventHistory, Statistics, ExternalIngest, TestStream, DemoDetector,
        VisionTest, EventPages, SequenceTheorems, FiniteSetTheorems, WellFoundedInduction, TLAPS

-----------------------------------------------------------------------------
(* The review of an event.                                                 *)

Entries == [previous : Statuses, next : Statuses,
            action : {"EVENT_STATUS_CHANGED", "EVENT_MEMO_ADDED"}]
Saves == [step : {"off", "sent", "write", "done"}, read : Statuses, next : Statuses,
          memo : BOOLEAN, stale : BOOLEAN]

ReviewTypes ==
    /\ status \in Statuses
    /\ eventLogs \in Seq(Entries)
    /\ pages \in [Operators -> [shown : Statuses, draft : Statuses, memo : BOOLEAN]]
    /\ saves \in [Operators -> Saves]
    /\ unseen \in BOOLEAN

\* What a transaction is about to log as the status before is that of the event,
\* unless another one has changed it since.
ReadIsCurrent ==
    \A o \in Operators : saves[o].step = "write" /\ ~saves[o].stale => saves[o].read = status

\* The last entry, of whatever kind, ends where the event is.
LogIsCurrent == ~unseen => status = Ended(Len(eventLogs))

\* The entries that say the status changed have a last one, if there are any.
Changes == {i \in 1..Len(eventLogs) : eventLogs[i].action = "EVENT_STATUS_CHANGED"}
IsLast(m, S) == m \in S /\ \A j \in S : j <= m
ChangesHaveLast == Changes # {} => \E m \in Changes : IsLast(m, Changes)

ReviewInv ==
    /\ ReviewTypes
    /\ ReadIsCurrent
    /\ LogIsCurrent
    /\ ChangesHaveLast
    /\ AuditExplainsStatus

-----------------------------------------------------------------------------
(* The test stream.                                                        *)

StreamTypes ==
    /\ stream \in [running : BOOLEAN, sentCount : Nat]
    /\ timer \in Nat
    /\ ticks \in Seq([run : Nat, sequence : Nat])
    /\ runs \in Nat
    /\ stored \in Nat
    /\ late \in BOOLEAN
    /\ outrun \in BOOLEAN

\* Unless an earlier run left some, the snapshots under way are of the last run, and the
\* count each has read is at most that of the snapshots stored.
OwnAreUnderWay ==
    late \/ \A i \in DOMAIN ticks : ticks[i].run = runs /\ ticks[i].sequence <= stored + 1

\* If, besides, none was sent before another was stored, only the next is under way.
NextIsUnderWay ==
    late \/ outrun \/ ticks = <<>> \/ ticks = <<[run |-> runs, sequence |-> stored + 1]>>

StreamInv ==
    /\ StreamTypes
    /\ timer \in {0, runs}
    /\ OwnAreUnderWay
    /\ NextIsUnderWay
    /\ StreamStatusIsTrue

-----------------------------------------------------------------------------
(* The detector of the demo.                                               *)

DetectorTypes ==
    /\ now \in Nat /\ now > 0
    /\ alertedStages \in [Tracks -> SUBSET {1, 2}]
    /\ stage1Time \in [Tracks -> Nat]
    /\ torn \subseteq Tracks
    /\ lostReset \in BOOLEAN
    /\ DOMAIN loop = {"step", "track", "stage"}
    /\ loop.step \in {"between", "tracking", "drawing", "elapsed", "alert", "dead"}
    /\ loop.step \in {"elapsed", "alert"} => loop.track \in Tracks
    /\ loop.step = "elapsed" => loop.stage = 1
    /\ loop.step = "alert" => loop.stage \in {1, 2}

AlertedTypes == alerted \in [Tracks -> Nat \X Nat]

Warned(t) == alerted[t][1] # 0 /\ alerted[t][1] <= stage1Time[t]

\* A stage that was alerted has a time.
StagesHaveTimes ==
    \A t \in Tracks, s \in {1, 2} :
        /\ s \in alertedStages[t] => alerted[t][s] # 0
        /\ alerted[t][s] <= now

\* The time of the first stage of a vehicle is not before its first warning, which
\* is only to come while the vehicle is being judged for the first time.
WarningsComeFirst ==
    \A t \in Tracks :
        stage1Time[t] # 0 =>
            Warned(t) \/ (loop.step \in {"elapsed", "alert"} /\ loop.stage = 1
                            /\ loop.track = t /\ stage1Time[t] = now)

\* A second stage that is about to be alerted is due, or the vehicle is an exception.
SecondStageIsDue ==
    loop.step = "alert" /\ loop.stage = 2 /\ loop.track \notin torn =>
        alerted[loop.track][1] # 0 /\ alerted[loop.track][1] + Delay <= now

\* No timer sets off an alarm.
TimersEnd == \A t \in timers : t.command \in {"SYSTEM_RESET", "STAGE_2_RETURN"}

\* The two parts of the property.
AlarmsEscalate ==
    \A t \in Tracks \ torn :
        alerted[t][2] # 0 => alerted[t][1] # 0 /\ alerted[t][1] + Delay <= alerted[t][2]
AlarmsEnd ==
    board \in {"STAGE_1_ON", "STAGE_2_ON"} =>
        lostReset \/ \E t \in timers : t.command = "SYSTEM_RESET"

DetectorInv ==
    /\ DetectorTypes
    /\ AlertedTypes
    /\ StagesHaveTimes
    /\ WarningsComeFirst
    /\ SecondStageIsDue
    /\ AlarmsEscalate
    /\ TimersEnd
    /\ AlarmsEnd

-----------------------------------------------------------------------------
(* The test service of the vision worker.                                  *)

\* A file of the selected camera was replaced, and the analysis does not know yet.
Disturbed == ~Unlocked /\ replacing.camera = camera

\* The worker has a session; between the steps of an analysis it is the one of the
\* settings the loop looked at.
Inside == {"open", "frame", "detect", "publish"}
HasSession == session # Nothing \/ worker.step \in Inside

VehicleStates == {"NORMAL", "WRONG_WAY_CANDIDATE", "WRONG_WAY"}
VehicleOf == [state : VehicleStates, frames : Nat, drive : Nat]
SessionFields == {"generation", "rois", "source", "vehicles", "tracks", "drives", "events"}
WorkerSteps == {"top", "load", "open", "frame", "detect", "publish"}

Directions == {"normal", "reverse"}

ServiceTypes ==
    /\ camera \in Cameras /\ direction \in Directions /\ generation \in Nat
    /\ DOMAIN view = {"of", "tracks", "events", "picture", "error"}
    /\ DOMAIN rois = Cameras /\ DOMAIN sources = Cameras
    /\ replacing \in {Nothing} \cup [camera : Cameras, kind : {"source", "rois"}]
    /\ worker \in [step : WorkerSteps, current : Nat,
                   camera : Cameras, direction : Directions]
    /\ worker.current <= generation
    /\ HasSession =>
          /\ DOMAIN session = SessionFields
          /\ session.generation \in Nat /\ session.generation <= generation

\* What the loop looked at is what is set, until the settings change.
LookIsCurrent ==
    worker.current = generation => worker.camera = camera /\ worker.direction = direction

\* The files the session read are those of the selected camera, until it is told that
\* they were replaced.
SessionIsCurrent ==
    /\ worker.step \in Inside => session.generation = worker.current
    /\ HasSession /\ session.generation = generation /\ ~Disturbed =>
          session.rois = rois[camera].save /\ session.source.save = sources[camera].save

\* The list of a session: its newest drives, with a number each, in descending order.
ListTypesOf(s) ==
    /\ s.vehicles \in [Vehicles -> VehicleOf]
    /\ s.drives \in Nat
    /\ s.events \in Seq([id : Vehicles, drive : Nat])
    /\ Len(s.events) = IF s.drives < MaxEvents THEN s.drives ELSE MaxEvents

EntriesAreDrives(s) ==
    \A i \in 1..Len(s.events) :
        /\ s.events[i].drive = (s.drives - i) + 1
        /\ s.vehicles[s.events[i].id].drive = s.events[i].drive

\* A vehicle has a drive as soon as it drives the wrong way, and if it is new enough it is in
\* the list.
DrivesAreEntries(s) ==
    \A v \in Vehicles :
        /\ s.vehicles[v].state = "WRONG_WAY" => s.vehicles[v].drive > 0
        /\ s.vehicles[v].drive <= s.drives
        /\ s.vehicles[v].drive > s.drives - Len(s.events) =>
              \E i \in 1..Len(s.events) : s.events[i].id = v

\* What was tracked are vehicles as they were judged.
TracksAreVehicles(s) ==
    \A t \in s.tracks :
        t.id \in Vehicles /\ t.state = s.vehicles[t.id].state /\ t.drive = s.vehicles[t.id].drive

ListOf(s) ==
    ListTypesOf(s) /\ EntriesAreDrives(s) /\ DrivesAreEntries(s) /\ TracksAreVehicles(s)

DrivesAreLogged == HasSession => ListOf(session)

\* The service shows what was found with its settings, also while a file of another
\* camera is being replaced.
ViewIsOfTheSettings == view.of # Nothing /\ ~Disturbed => view.of = Settings

Shows(tracks, logged) ==
    /\ \A i, j \in 1..Len(logged) : logged[i].id = logged[j].id => i = j
    /\ \A t \in tracks, i \in 1..Len(logged) : logged[i].id = t.id => logged[i].drive = t.drive
    /\ \A t \in tracks : t.state = "WRONG_WAY" =>
          \/ \E i \in 1..Len(logged) : logged[i].id = t.id
          \/ Len(logged) = MaxEvents /\ \A i \in 1..MaxEvents : logged[i].drive > t.drive

DrivesAreShown == Shows(view.tracks, view.events)

ServiceInv ==
    /\ ServiceTypes
    /\ LookIsCurrent
    /\ SessionIsCurrent
    /\ DrivesAreLogged
    /\ ViewIsOfTheSettings
    /\ DrivesAreShown

OwnRois(c) == {c, "example"}

PageTypes ==
    /\ data.camera \in Cameras
    /\ poll # Nothing => poll.camera \in Cameras
    /\ post # Nothing => DOMAIN post = {"camera", "step"} /\ post.camera \in Cameras
    /\ DOMAIN editor = {"open", "loads", "failed", "ready", "draft", "saving"}
    /\ editor.saving # Nothing =>
          DOMAIN editor.saving = {"camera", "of", "step"} /\ editor.saving.camera \in Cameras

\* Only those of the selected camera are loaded, for an editor that is open.
LoadsAreForThePage ==
    /\ editor.loads \subseteq {data.camera}
    /\ ~editor.open => editor.loads = {} /\ ~editor.ready

\* The ROIs in the editor, and those it saves, are drawn for their camera, unless some
\* were saved before those of the camera had come.
RoisAreOfTheirCamera ==
    unloaded \/
        /\ \A c \in Cameras : rois[c].of \in OwnRois(c)
        /\ editor.ready /\ editor.loads = {} /\ ~editor.failed =>
              editor.draft \in OwnRois(data.camera)
        /\ editor.saving # Nothing => editor.saving.of \in OwnRois(editor.saving.camera)

EditorInv == PageTypes /\ LoadsAreForThePage /\ RoisAreOfTheirCamera

VisionInv == ServiceInv /\ EditorInv

-----------------------------------------------------------------------------
(* The review: proof.                                                      *)

\* What the property says, with names for its parts.
LastOf(S) == CHOOSE i \in S : \A j \in S : j <= i
LoggedStatus == IF Changes = {} THEN InitialStatus ELSE Ended(LastOf(Changes))
EntriesFollow == \A i \in 1..Len(eventLogs) : eventLogs[i].previous = Ended(i - 1)

LEMMA AuditSays ==
    AuditExplainsStatus <=> (status = LoggedStatus /\ (~unseen => EntriesFollow))
  BY DEF AuditExplainsStatus, LoggedStatus, EntriesFollow, Changes, LastOf

LEMMA LastOfIsLast ==
    ASSUME NEW S, \E m \in S : IsLast(m, S)
    PROVE  IsLast(LastOf(S), S)
  BY DEF IsLast, LastOf

\* The first page of a review: everything is the initial status.
LEMMA ReviewStarts == ReviewInit => ReviewInv
<1> SUFFICES ASSUME ReviewInit PROVE ReviewInv
  OBVIOUS
<1> USE ReviewAssumption DEF ReviewInit
<1>1. ReviewTypes
  <2>1. eventLogs \in Seq(Entries)
    BY EmptySeq
  <2>2. status \in Statuses /\ unseen \in BOOLEAN
    BY Zenon
  <2>3. pages \in [Operators -> [shown : Statuses, draft : Statuses, memo : BOOLEAN]]
    BY DEF Showing
  <2>4. saves \in [Operators -> Saves]
    BY DEF NoSave, Saves
  <2> QED
    BY <2>1, <2>2, <2>3, <2>4 DEF ReviewTypes
<1>2. ReadIsCurrent
  BY DEF ReadIsCurrent, NoSave
<1>3. LogIsCurrent
  BY DEF LogIsCurrent, Ended
<1>4. Changes = {} /\ EntriesFollow
  BY DEF Changes, EntriesFollow
<1> QED
  BY <1>1, <1>2, <1>3, <1>4, AuditSays DEF ReviewInv, ChangesHaveLast, LoggedStatus

\* Only a commit writes the event and its log.
LEMMA ReviewWritesOnce ==
    ASSUME ReviewTypes, NEW o \in Operators,
           \/ ReloadPage(o) \/ DraftStatus(o) \/ DraftMemo(o) \/ SaveEventStatus(o)
           \/ ReadEvent(o) \/ StatusSaved(o) \/ SaveFails(o)
    PROVE  /\ ReviewTypes'
           /\ UNCHANGED <<status, eventLogs, unseen>>
           /\ \A p \in Operators : saves'[p].step = "write" =>
                 \/ saves'[p] = saves[p]
                 \/ saves'[p].read = status
<1> USE ReviewAssumption DEF ReviewTypes, Saves
<1>1. UNCHANGED <<status, eventLogs, unseen>>
  BY DEF ReloadPage, DraftStatus, DraftMemo, SaveEventStatus, ReadEvent, StatusSaved, SaveFails
<1>2. CASE ReloadPage(o)
  BY <1>1, <1>2 DEF ReloadPage, Showing
<1>3. CASE DraftStatus(o)
  BY <1>1, <1>3 DEF DraftStatus
<1>4. CASE DraftMemo(o)
  <2>1. pages' \in [Operators -> [shown : Statuses, draft : Statuses, memo : BOOLEAN]]
    BY <1>4, ZenonT(40) DEF DraftMemo
  <2>2. saves' = saves
    BY <1>4 DEF DraftMemo
  <2> QED
    BY <1>1, <2>1, <2>2
<1>5. CASE SaveEventStatus(o)
  BY <1>1, <1>5 DEF SaveEventStatus, NoSave
<1>6. CASE ReadEvent(o)
  <2> DEFINE step == IF status # saves[o].next \/ saves[o].memo THEN "write" ELSE "done"
             new == [saves[o] EXCEPT !.read = status, !.step = step]
  <2>1. saves[o] \in Saves /\ saves \in [Operators -> Saves]
    OBVIOUS
  <2>2. saves' = [saves EXCEPT ![o] = new]
    BY <1>6, <2>1 DEF ReadEvent
  <2>3. step \in {"write", "done"}
    OBVIOUS
  <2> HIDE DEF step
  <2>4. new \in Saves /\ new.read = status
    BY <2>1, <2>3
  <2> HIDE DEF new
  <2>5. pages' = pages
    BY <1>6 DEF ReadEvent
  <2> QED
    BY <1>1, <2>1, <2>2, <2>4, <2>5
<1>7. CASE StatusSaved(o)
  BY <1>1, <1>7 DEF StatusSaved, NoSave, Showing
<1>8. CASE SaveFails(o)
  BY <1>1, <1>8 DEF SaveFails, NoSave
<1> QED
  BY <1>2, <1>3, <1>4, <1>5, <1>6, <1>7, <1>8

\* What a commit appends, and what it does to the transactions of others.
LEMMA CommitAppends ==
    ASSUME ReviewTypes, NEW o \in Operators, CommitStatus(o)
    PROVE  /\ ReviewTypes'
           /\ Len(eventLogs') = Len(eventLogs) + 1
           /\ \A i \in 1..Len(eventLogs) : eventLogs'[i] = eventLogs[i]
           /\ LET last == eventLogs'[Len(eventLogs')]
                  changed == saves[o].read # saves[o].next
              IN /\ last.previous = saves[o].read
                 /\ last.next = saves[o].next
                 /\ last.action = "EVENT_STATUS_CHANGED" <=> changed
                 /\ status' = IF changed THEN saves[o].next ELSE status
           /\ unseen' = (unseen \/ saves[o].stale)
           /\ \A p \in Operators : saves'[p].step = "write" /\ ~saves'[p].stale =>
                 /\ saves[p].step = "write" /\ ~saves[p].stale
                 /\ saves'[p].read = saves[p].read
                 /\ status' = status
<1> DEFINE changed == saves[o].read # saves[o].next
           entry == [previous |-> saves[o].read, next |-> saves[o].next,
                     action |-> IF changed THEN "EVENT_STATUS_CHANGED" ELSE "EVENT_MEMO_ADDED"]
<1> USE DEF ReviewTypes
<1>1. eventLogs' = Append(eventLogs, entry) /\ entry \in Entries
  BY DEF CommitStatus, Entries, Saves
<1>2. status' = IF changed THEN saves[o].next ELSE status
  BY DEF CommitStatus
<1>3. unseen' = (unseen \/ saves[o].stale) /\ saves[o].stale \in BOOLEAN /\ UNCHANGED pages
  BY DEF CommitStatus, Saves
<1>4. /\ saves' \in [Operators -> Saves]
      /\ \A p \in Operators : saves'[p].step = "write" /\ ~saves'[p].stale =>
            /\ saves[p].step = "write" /\ ~saves[p].stale
            /\ saves'[p].read = saves[p].read
            /\ status' = status
  <2>1. \A p \in Operators : saves'[p] =
          IF p = o THEN [saves[p] EXCEPT !.step = "done"]
          ELSE [saves[p] EXCEPT !.stale =
                   saves[p].stale \/ (saves[p].step = "write" /\ status' # status)]
    BY DEF CommitStatus
  <2>2. ASSUME NEW p \in Operators
        PROVE  /\ saves'[p] \in Saves
               /\ saves'[p].step = "write" /\ ~saves'[p].stale =>
                     /\ saves[p].step = "write" /\ ~saves[p].stale
                     /\ saves'[p].read = saves[p].read
                     /\ status' = status
    <3>1. saves[p] \in Saves
      OBVIOUS
    <3>2. CASE p = o
      BY <2>1, <3>1, <3>2 DEF Saves
    <3>3. CASE p # o
      <4>1. (saves[p].stale \/ (saves[p].step = "write" /\ status' # status)) \in BOOLEAN
        BY <3>1 DEF Saves
      <4>2. saves'[p] \in Saves
        BY <2>1, <3>1, <3>3, <4>1 DEF Saves
      <4>3. saves'[p].step = saves[p].step /\ saves'[p].read = saves[p].read
        BY <2>1, <3>1, <3>3 DEF Saves
      <4>4. saves'[p].stale = (saves[p].stale \/ (saves[p].step = "write" /\ status' # status))
        BY <2>1, <3>1, <3>3 DEF Saves
      <4> QED
        BY <4>2, <4>3, <4>4, Zenon
    <3> QED
      BY <3>2, <3>3
  <2>3. DOMAIN saves' = Operators /\ saves' = [p \in Operators |-> saves'[p]]
    BY DEF CommitStatus
  <2> QED
    BY <2>2, <2>3
<1>5. /\ Len(eventLogs') = Len(eventLogs) + 1
      /\ \A i \in 1..Len(eventLogs) : eventLogs'[i] = eventLogs[i]
      /\ eventLogs'[Len(eventLogs')] = entry
      /\ eventLogs' \in Seq(Entries)
  BY <1>1
<1>6. status' \in Statuses
  BY <1>2 DEF Saves
<1> QED
  BY <1>2, <1>3, <1>4, <1>5, <1>6

LEMMA CommitKeepsReviewInv ==
    ASSUME ReviewInv, NEW o \in Operators, CommitStatus(o)
    PROVE  ReviewInv'
<1> DEFINE n == Len(eventLogs)
           changed == saves[o].read # saves[o].next
           entry == eventLogs'[n + 1]
<1>1. ReviewTypes /\ ReadIsCurrent /\ LogIsCurrent /\ ChangesHaveLast /\ status = LoggedStatus
  BY AuditSays DEF ReviewInv
<1>2. ~unseen => EntriesFollow
  BY AuditSays DEF ReviewInv
<1>3. n \in Nat /\ saves[o].step = "write" /\ saves[o] \in Saves
  BY <1>1 DEF ReviewTypes, CommitStatus
<1>4. /\ ReviewTypes'
      /\ Len(eventLogs') = n + 1
      /\ \A i \in 1..n : eventLogs'[i] = eventLogs[i]
      /\ unseen' = (unseen \/ saves[o].stale)
  BY <1>1, CommitAppends
<1>5. /\ entry.previous = saves[o].read
      /\ entry.next = saves[o].next
      /\ entry.action = "EVENT_STATUS_CHANGED" <=> changed
      /\ status' = IF changed THEN saves[o].next ELSE status
  BY <1>1, <1>4, CommitAppends
<1>6. ReadIsCurrent'
  BY <1>1, CommitAppends DEF ReadIsCurrent
<1>7. ~unseen' => saves[o].read = status
  BY <1>1, <1>3, <1>4 DEF ReadIsCurrent
<1>8. LogIsCurrent'
  BY <1>3, <1>4, <1>5, <1>7 DEF LogIsCurrent, Ended
<1>9. ~unseen' => EntriesFollow'
  <2> SUFFICES ASSUME ~unseen', NEW i \in 1..(n + 1)
               PROVE  eventLogs'[i].previous = (IF i - 1 = 0 THEN InitialStatus
                                                ELSE eventLogs'[i - 1].next)
    BY <1>4 DEF EntriesFollow, Ended
  <2>1. CASE i = n + 1
    <3>1. n = 0 \/ n \in 1..n
      BY <1>3
    <3>2. status = IF n = 0 THEN InitialStatus ELSE eventLogs[n].next
      BY <1>1, <1>4 DEF LogIsCurrent, Ended
    <3> QED
      BY <1>3, <1>4, <1>5, <1>7, <2>1, <3>1, <3>2
  <2>2. CASE i # n + 1
    <3>1. i \in 1..n /\ (i - 1 = 0 \/ i - 1 \in 1..n)
      BY <1>3, <2>2
    <3>2. eventLogs[i].previous = IF i - 1 = 0 THEN InitialStatus ELSE eventLogs[i - 1].next
      BY <1>2, <1>4, <3>1 DEF EntriesFollow, Ended
    <3> QED
      BY <1>4, <3>1, <3>2
  <2> QED
    BY <2>1, <2>2
<1>10. status' = LoggedStatus' /\ ChangesHaveLast'
  <2>1. CASE changed
    <3>1. Changes' = Changes \cup {n + 1}
      BY <1>3, <1>4, <1>5, <2>1 DEF Changes
    <3>2. \A j \in Changes' : j <= n + 1
      BY <1>3, <1>4 DEF Changes
    <3>3. IsLast(n + 1, Changes')
      BY <3>1, <3>2 DEF IsLast
    <3>4. IsLast(LastOf(Changes'), Changes')
      BY <3>1, <3>3, LastOfIsLast
    <3>5. LastOf(Changes') = n + 1
      <4>1. /\ n + 1 <= LastOf(Changes') /\ LastOf(Changes') <= n + 1
            /\ LastOf(Changes') \in 1..(n + 1)
        BY <1>3, <1>4, <3>1, <3>2, <3>4 DEF IsLast, Changes
      <4> QED
        BY <1>3, <4>1
    <3>6. LoggedStatus' = entry.next
      BY <1>3, <3>1, <3>5 DEF LoggedStatus, Ended
    <3> QED
      BY <1>5, <2>1, <3>1, <3>3, <3>6 DEF ChangesHaveLast
  <2>2. CASE ~changed
    <3>1. Changes' = Changes
      BY <1>3, <1>4, <1>5, <2>2 DEF Changes
    <3>2. CASE Changes = {}
      BY <1>1, <1>5, <2>2, <3>1, <3>2 DEF LoggedStatus, ChangesHaveLast
    <3>3. CASE Changes # {}
      <4>1. LastOf(Changes) \in 1..n
        BY <1>1, <3>3, LastOfIsLast DEF ChangesHaveLast, IsLast, Changes
      <4>2. Ended(LastOf(Changes))' = Ended(LastOf(Changes))
        BY <1>3, <1>4, <4>1, <3>1 DEF Ended
      <4>3. status' = LoggedStatus'
        BY <1>1, <1>5, <2>2, <3>1, <3>3, <4>2 DEF LoggedStatus
      <4>4. ChangesHaveLast'
        BY <1>1, <3>1 DEF ChangesHaveLast
      <4> QED
        BY <4>3, <4>4
    <3> QED
      BY <3>2, <3>3
  <2> QED
    BY <2>1, <2>2
<1>11. AuditExplainsStatus'
  BY <1>9, <1>10
     DEF AuditExplainsStatus, LoggedStatus, EntriesFollow, Changes, LastOf
<1> QED
  BY <1>4, <1>6, <1>8, <1>10, <1>11 DEF ReviewInv

LEMMA ReviewStepKeepsInv == ReviewInv /\ [ReviewNext]_reviewVars => ReviewInv'
<1> SUFFICES ASSUME ReviewInv, [ReviewNext]_reviewVars PROVE ReviewInv'
  OBVIOUS
<1>1. ASSUME NEW o \in Operators, CommitStatus(o)
      PROVE  ReviewInv'
  BY <1>1, CommitKeepsReviewInv
<1>2. ASSUME ReviewTypes',
             UNCHANGED <<status, eventLogs, unseen>>,
             \A p \in Operators : saves'[p].step = "write" =>
                saves'[p] = saves[p] \/ saves'[p].read = status
      PROVE  ReviewInv'
  <2>1. ReadIsCurrent'
    BY <1>2 DEF ReviewInv, ReadIsCurrent
  <2>2. LogIsCurrent' /\ ChangesHaveLast' /\ AuditExplainsStatus'
    BY <1>2 DEF ReviewInv, LogIsCurrent, Ended, ChangesHaveLast, Changes, IsLast,
                AuditExplainsStatus
  <2> QED
    BY <1>2, <2>1, <2>2 DEF ReviewInv
<1>3. ASSUME NEW o \in Operators,
             \/ ReloadPage(o) \/ DraftStatus(o) \/ DraftMemo(o) \/ SaveEventStatus(o)
             \/ ReadEvent(o) \/ StatusSaved(o) \/ SaveFails(o)
      PROVE  ReviewInv'
  BY <1>2, <1>3, ReviewWritesOnce DEF ReviewInv
<1>4. CASE UNCHANGED reviewVars
  BY <1>2, <1>4 DEF ReviewInv, reviewVars, ReviewTypes
<1> QED
  BY <1>1, <1>3, <1>4 DEF ReviewNext

\* However many operators save at the same time, the status of an event is what the last
\* change in its log says, and the log has no gap that its authors had not seen coming
\* (updateEventStatus).
THEOREM AuditIsTrue == ReviewSpec => []AuditExplainsStatus
<1>1. ReviewInv => AuditExplainsStatus
  BY DEF ReviewInv
<1> QED
  BY <1>1, ReviewStarts, ReviewStepKeepsInv, PTL DEF ReviewSpec

-----------------------------------------------------------------------------
(* The test stream: proof.                                                 *)

Snapshots == [run : Nat, sequence : Nat]

LEMMA StreamStarts == StreamInit => StreamInv
<1> SUFFICES ASSUME StreamInit PROVE StreamInv
  OBVIOUS
<1>1. ticks \in Seq([run : Nat, sequence : Nat])
  BY EmptySeq DEF StreamInit
<1>2. OwnAreUnderWay
  BY DEF StreamInit, OwnAreUnderWay
<1>3. /\ stream = [running |-> FALSE, sentCount |-> 0] /\ timer = 0 /\ runs = 0 /\ stored = 0
      /\ late = FALSE /\ outrun = FALSE /\ ticks = <<>>
  BY DEF StreamInit
<1>4. StreamTypes
  BY <1>1, <1>3 DEF StreamTypes
<1>5. NextIsUnderWay /\ StreamStatusIsTrue
  BY <1>3 DEF NextIsUnderWay, StreamStatusIsTrue
<1> QED
  BY <1>2, <1>3, <1>4, <1>5 DEF StreamInv

\* A snapshot that is sent comes last; while none is under way it is the only one.
LEMMA TickAppends ==
    ASSUME ticks \in Seq(Snapshots), NEW run \in Nat, NEW count \in Nat, Tick(run, count)
    PROVE  /\ ticks' \in Seq(Snapshots)
           /\ ticks = <<>> => ticks' = <<[run |-> run, sequence |-> count + 1]>>
           /\ \A i \in DOMAIN ticks' :
                 \/ i \in DOMAIN ticks /\ ticks'[i] = ticks[i]
                 \/ ticks'[i] = [run |-> run, sequence |-> count + 1]
<1> DEFINE snapshot == [run |-> run, sequence |-> count + 1]
<1>1. ticks' = Append(ticks, snapshot) /\ snapshot \in Snapshots
  BY DEF Tick, Snapshots
<1>2. Append(ticks, snapshot) \in Seq(Snapshots)
  BY <1>1
<1>3. ticks = <<>> => Append(ticks, snapshot) = <<snapshot>>
  OBVIOUS
<1>4. \A i \in DOMAIN Append(ticks, snapshot) :
         \/ i \in DOMAIN ticks /\ Append(ticks, snapshot)[i] = ticks[i]
         \/ Append(ticks, snapshot)[i] = snapshot
  OBVIOUS
<1> QED
  BY <1>1, <1>2, <1>3, <1>4

\* Of the snapshots under way one settles, and the others stay; with only one there was,
\* none is left.
LEMMA SettlingRemoves ==
    ASSUME NEW Item, NEW s \in Seq(Item), NEW i \in DOMAIN s
    PROVE  LET left == SubSeq(s, 1, i - 1) \o SubSeq(s, i + 1, Len(s)) IN
           /\ left \in Seq(Item)
           /\ Len(s) = 1 => left = <<>>
           /\ \A k \in DOMAIN left : \E j \in DOMAIN s : left[k] = s[j]
<1>1. PICK n \in Nat : n = Len(s)
  OBVIOUS
<1>2. i \in 1..n
  BY <1>1
<1> DEFINE before == SubSeq(s, 1, i - 1)
           after == SubSeq(s, i + 1, n)
<1>3. /\ before \in Seq(Item) /\ Len(before) = i - 1
      /\ \A k \in 1..(i - 1) : before[k] = s[k]
  BY <1>1, <1>2
<1>4. /\ after \in Seq(Item) /\ Len(after) = n - i
      /\ \A k \in 1..(n - i) : after[k] = s[i + k]
  BY <1>1, <1>2
<1>5. n = 1 => before = <<>> /\ after = <<>>
  BY <1>1, <1>2
<1>6. \A k \in DOMAIN (before \o after) : \E j \in DOMAIN s : (before \o after)[k] = s[j]
  <2> SUFFICES ASSUME NEW k \in DOMAIN (before \o after)
               PROVE  \E j \in DOMAIN s : (before \o after)[k] = s[j]
    OBVIOUS
  <2> HIDE DEF before, after
  <2>1. k \in 1..(n - 1)
    BY <1>2, <1>3, <1>4
  <2>2. CASE k <= i - 1
    <3>1. (before \o after)[k] = before[k]
      BY <1>2, <1>3, <1>4, <2>1, <2>2
    <3> QED
      BY <1>1, <1>2, <1>3, <2>1, <2>2, <3>1
  <2>3. CASE k > i - 1
    <3>1. k - (i - 1) \in 1..(n - i) /\ k > Len(before)
      BY <1>2, <1>3, <2>1, <2>3
    <3>2. (before \o after)[k] = after[k - Len(before)]
      BY <1>3, <1>4, <3>1
    <3>3. (before \o after)[k] = s[i + (k - (i - 1))]
      BY <1>3, <1>4, <3>1, <3>2
    <3>4. i + (k - (i - 1)) \in 1..n
      BY <1>2, <3>1
    <3> QED
      BY <1>1, <3>3, <3>4
  <2> QED
    BY <1>2, <2>1, <2>2, <2>3
<1>7. before \o after \in Seq(Item) /\ (n = 1 => before \o after = <<>>)
  <2> HIDE DEF before, after
  <2> QED
    BY <1>3, <1>4, <1>5
<1> QED
  BY <1>1, <1>6, <1>7

LEMMA StreamStepKeepsInv == StreamInv /\ [StreamNext]_streamVars => StreamInv'
<1> SUFFICES ASSUME StreamInv, [StreamNext]_streamVars PROVE StreamInv'
  OBVIOUS
<1>1. ticks \in Seq(Snapshots) /\ runs \in Nat /\ timer \in Nat /\ stored \in Nat
  BY DEF StreamInv, StreamTypes, Snapshots
<1>2. /\ stream \in [running : BOOLEAN, sentCount : Nat]
      /\ late \in BOOLEAN /\ outrun \in BOOLEAN
  BY DEF StreamInv, StreamTypes
<1>3. CASE StartNormalDrivingStream
  <2>1. /\ ticks' \in Seq(Snapshots)
        /\ late' = (ticks # <<>>) /\ outrun' = FALSE
        /\ ~late' => ticks' = <<[run |-> runs + 1, sequence |-> 1]>>
    <3>1. Tick(runs + 1, 0) /\ late' = (ticks # <<>>) /\ outrun' = FALSE
      BY <1>3 DEF StartNormalDrivingStream
    <3>2. runs + 1 \in Nat /\ 0 \in Nat /\ 0 + 1 = 1
      BY <1>1
    <3>3. /\ ticks' \in Seq(Snapshots)
          /\ ticks = <<>> => ticks' = <<[run |-> runs + 1, sequence |-> 0 + 1]>>
      BY <1>1, <3>1, <3>2, TickAppends
    <3> QED
      BY <3>1, <3>2, <3>3
  <2>2. OwnAreUnderWay' /\ NextIsUnderWay'
    <3>1. runs' = runs + 1 /\ stored' = 0 /\ 0 + 1 = 1
      BY <1>3 DEF StartNormalDrivingStream
    <3>2. \A run \in Nat : LET one == <<[run |-> run, sequence |-> 1]>> IN
             \A i \in DOMAIN one : one[i].run = run /\ one[i].sequence = 1
      OBVIOUS
    <3> QED
      BY <1>1, <2>1, <3>1, <3>2 DEF OwnAreUnderWay, NextIsUnderWay
  <2>3. /\ stream' = [running |-> TRUE, sentCount |-> 0]
        /\ runs' = runs + 1 /\ timer' = runs + 1 /\ stored' = 0
    BY <1>3 DEF StartNormalDrivingStream
  <2>4. StreamTypes'
    <3>1. stream' \in [running : BOOLEAN, sentCount : Nat] /\ timer' \in Nat
          /\ runs' \in Nat /\ stored' \in Nat
      BY <1>1, <2>3
    <3>2. late' \in BOOLEAN /\ outrun' \in BOOLEAN
      BY <2>1
    <3> QED
      BY <2>1, <3>1, <3>2 DEF StreamTypes, Snapshots
  <2>5. StreamStatusIsTrue'
    BY <1>1, <2>1, <2>3 DEF StreamStatusIsTrue
  <2> QED
    BY <2>2, <2>3, <2>4, <2>5 DEF StreamInv
<1>4. CASE IntervalFires
  <2>1. /\ Tick(timer, stream.sentCount) /\ timer = runs
        /\ outrun' = (outrun \/ ticks # <<>>)
        /\ UNCHANGED <<stream, timer, runs, stored, late>>
    BY <1>4 DEF IntervalFires, StreamInv
  <2> DEFINE next == [run |-> runs, sequence |-> stream.sentCount + 1]
  <2>2. /\ ticks' \in Seq(Snapshots)
        /\ ticks = <<>> => ticks' = <<next>>
        /\ \A i \in DOMAIN ticks' : (i \in DOMAIN ticks /\ ticks'[i] = ticks[i]) \/ ticks'[i] = next
    BY <1>1, <1>2, <2>1, TickAppends
  <2>3. OwnAreUnderWay'
    <3>1. next.run = runs /\ (~late => next.sequence <= stored + 1)
      BY <1>1, <1>2 DEF StreamInv, StreamStatusIsTrue
    <3> QED
      BY <2>1, <2>2, <3>1 DEF StreamInv, OwnAreUnderWay
  <2>4. NextIsUnderWay'
    BY <2>1, <2>2 DEF StreamInv, StreamStatusIsTrue, NextIsUnderWay
  <2> QED
    BY <1>2, <2>1, <2>2, <2>3, <2>4 DEF StreamInv, StreamTypes, StreamStatusIsTrue, Snapshots
<1>5. CASE StopNormalDrivingStream
  BY <1>5 DEF StopNormalDrivingStream, StreamInv, StreamTypes, OwnAreUnderWay, NextIsUnderWay,
              StreamStatusIsTrue
<1>6. CASE TickSettles
  <2>1. PICK i \in DOMAIN ticks :
          /\ ticks' = SubSeq(ticks, 1, i - 1) \o SubSeq(ticks, i + 1, Len(ticks))
          /\ \/ /\ stream' = Counted(ticks[i])
                /\ stored' = stored + (IF ticks[i].run = runs THEN 1 ELSE 0)
             \/ UNCHANGED <<stream, stored>>
    BY <1>6 DEF TickSettles
  <2>2. /\ ticks' \in Seq(Snapshots) /\ (Len(ticks) = 1 => ticks' = <<>>)
        /\ \A k \in DOMAIN ticks' : \E j \in DOMAIN ticks : ticks'[k] = ticks[j]
    BY <1>1, <2>1, SettlingRemoves
  <2>3. ticks[i] \in Snapshots /\ UNCHANGED <<timer, runs, late, outrun>>
    BY <1>1, <1>6 DEF TickSettles
  <2>4. ~late /\ ~outrun => ticks' = <<>> /\ ticks[i].sequence = stored + 1
    <3> SUFFICES ASSUME ~late, ~outrun
                 PROVE  ticks' = <<>> /\ ticks[i].sequence = stored + 1
      OBVIOUS
    <3>1. ticks = <<[run |-> runs, sequence |-> stored + 1]>>
      BY <1>1 DEF StreamInv, NextIsUnderWay
    <3>2. Len(ticks) = 1 /\ ticks[i] = [run |-> runs, sequence |-> stored + 1]
      BY <3>1
    <3> QED
      BY <2>2, <3>2
  <2>5. ~late => /\ ticks[i].run = runs /\ ticks[i].sequence <= stored + 1
                 /\ \A k \in DOMAIN ticks' :
                       ticks'[k].run = runs /\ ticks'[k].sequence <= stored + 1
    BY <2>1, <2>2 DEF StreamInv, OwnAreUnderWay
  <2>6. \A k \in DOMAIN ticks' : ticks'[k] \in Snapshots
    BY <2>2
  <2>7. CASE /\ stream' = Counted(ticks[i])
             /\ stored' = stored + (IF ticks[i].run = runs THEN 1 ELSE 0)
    <3>1. /\ stream' \in [running : BOOLEAN, sentCount : Nat]
          /\ stream'.running = stream.running
          /\ stream'.sentCount = ticks[i].sequence
      BY <1>2, <2>3, <2>7 DEF Counted, Snapshots
    <3>2. stored' \in Nat /\ (~late => stored' = stored + 1)
      BY <1>1, <2>5, <2>7
    <3>3. OwnAreUnderWay'
      <4> SUFFICES ASSUME ~late, NEW k \in DOMAIN ticks'
                   PROVE  ticks'[k].run = runs /\ ticks'[k].sequence <= stored' + 1
        BY <2>3 DEF OwnAreUnderWay
      <4>1. /\ ticks'[k].run = runs /\ ticks'[k].sequence <= stored + 1
            /\ ticks'[k].sequence \in Nat
        BY <2>5, <2>6 DEF Snapshots
      <4> QED
        BY <1>1, <3>2, <4>1
    <3> QED
      BY <1>1, <1>2, <2>2, <2>3, <2>4, <2>5, <3>1, <3>2, <3>3
      DEF StreamInv, StreamTypes, NextIsUnderWay, StreamStatusIsTrue, Snapshots
  <2>8. CASE UNCHANGED <<stream, stored>>
    BY <2>2, <2>3, <2>4, <2>5, <2>8 DEF StreamInv, StreamTypes, OwnAreUnderWay,
                                        NextIsUnderWay, StreamStatusIsTrue, Snapshots
  <2> QED
    BY <2>1, <2>7, <2>8
<1>7. CASE UNCHANGED streamVars
  BY <1>7 DEF streamVars, StreamInv, StreamTypes, OwnAreUnderWay, NextIsUnderWay,
              StreamStatusIsTrue
<1> QED
  BY <1>3, <1>4, <1>5, <1>6, <1>7 DEF StreamNext

\* Whenever the test stream is started and stopped and however late its snapshots are
\* stored, its status says whether it runs.  It counts no more snapshots of the run than were
\* stored, and no fewer if each was stored before the next was sent, provided that none of an
\* earlier run was under way when the run started (tickNormalDrivingStream).
THEOREM StreamStatusCanBeTrusted == StreamSpec => []StreamStatusIsTrue
<1>1. StreamInv => StreamStatusIsTrue
  BY DEF StreamInv
<1> QED
  BY <1>1, StreamStarts, StreamStepKeepsInv, PTL DEF StreamSpec

-----------------------------------------------------------------------------
(* The detector: proof.                                                    *)

LEMMA DetectorStarts == DetectorInit => DetectorInv
<1> SUFFICES ASSUME DetectorInit PROVE DetectorInv
  OBVIOUS
<1> USE DetectorAssumption DEF DetectorInit
<1>1. DetectorTypes
  <2>1. now \in Nat /\ now > 0
    OBVIOUS
  <2>2. /\ DOMAIN loop = {"step", "track", "stage"}
        /\ loop.step = "between"
    BY DEF Between
  <2>3. alertedStages \in [Tracks -> SUBSET {1, 2}] /\ stage1Time \in [Tracks -> Nat]
    OBVIOUS
  <2> QED
    BY <2>1, <2>2, <2>3 DEF DetectorTypes
<1>2. AlertedTypes /\ \A t \in Tracks : alerted[t][1] = 0 /\ alerted[t][2] = 0
  BY DEF AlertedTypes
<1>3. StagesHaveTimes
  <2>1. \A t \in Tracks, k \in {1, 2} : alerted[t][k] = 0 /\ k \notin alertedStages[t]
    BY <1>2
  <2> QED
    BY <2>1 DEF StagesHaveTimes
<1>4. WarningsComeFirst /\ SecondStageIsDue
  BY DEF WarningsComeFirst, SecondStageIsDue, Between
<1>5. AlarmsEscalate /\ TimersEnd /\ AlarmsEnd
  BY <1>2 DEF AlarmsEscalate, TimersEnd, AlarmsEnd
<1> QED
  BY <1>1, <1>2, <1>3, <1>4, <1>5 DEF DetectorInv

\* The board gets an alarm together with a timer that ends it, and loses the timer only
\* to the command that ends it, which arrives or is lost.
LEMMA DetectorStepKeepsEnd ==
    TimersEnd /\ AlarmsEnd /\ [DetectorNext]_detectorVars => TimersEnd' /\ AlarmsEnd'
<1> SUFFICES ASSUME TimersEnd, AlarmsEnd, [DetectorNext]_detectorVars
             PROVE  TimersEnd' /\ AlarmsEnd'
  OBVIOUS
<1>1. CASE Alert
  <2>1. CASE UNCHANGED outside
    BY <2>1 DEF AlarmsEnd, TimersEnd, outside
  <2>2. CASE timers' = timers \cup
               {[at |-> now + Delay, command |-> c] :
                  c \in {"SYSTEM_RESET"} \cup (IF loop.stage = 2 THEN {"STAGE_2_RETURN"} ELSE {})}
    <3>1. [at |-> now + Delay, command |-> "SYSTEM_RESET"] \in timers'
      BY <2>2
    <3> QED
      BY <2>2, <3>1 DEF AlarmsEnd, TimersEnd
  <2> QED
    BY <1>1, <2>1, <2>2 DEF Alert
<1>2. CASE TimerFires
  <2>1. PICK t \in timers : timers' = timers \ {t} /\ Serial(t.command)
    BY <1>2 DEF TimerFires
  <2>2. CASE t.command = "SYSTEM_RESET"
    BY <2>1, <2>2 DEF Serial, AlarmsEnd, TimersEnd
  <2>3. CASE t.command # "SYSTEM_RESET"
    <3>1. CASE board' = t.command
      BY <2>1, <2>3, <3>1 DEF AlarmsEnd, TimersEnd
    <3>2. CASE (lostReset => lostReset') /\ board' = board
      BY <2>1, <2>3, <3>2 DEF AlarmsEnd, TimersEnd
    <3> QED
      BY <2>1, <2>3, <3>1, <3>2 DEF Serial
  <2> QED
    BY <2>2, <2>3
<1>3. CASE UNCHANGED outside
  BY <1>3 DEF AlarmsEnd, TimersEnd, outside
<1>4. CASE UNCHANGED detectorVars
  BY <1>4 DEF AlarmsEnd, TimersEnd, detectorVars
<1> QED
  BY <1>1, <1>2, <1>3, <1>4 DEF DetectorNext, ReadFrame, DrawBoxes, Judge, LookAtElapsed, EndFrame,
        DemoRequest, ClearNext, DetectorTick, seen

\* What the clock, the loop and the requests can do to the times.
DetectorTimes ==
    /\ DetectorTypes
    /\ AlertedTypes
    /\ StagesHaveTimes
    /\ WarningsComeFirst
    /\ SecondStageIsDue
    /\ AlarmsEscalate

LEMMA AlertedHasTimes ==
    ASSUME AlertedTypes
    PROVE  \A t \in Tracks, k \in {1, 2} : alerted[t][k] \in Nat
<1> SUFFICES ASSUME NEW t \in Tracks PROVE alerted[t][1] \in Nat /\ alerted[t][2] \in Nat
  OBVIOUS
<1>1. alerted[t] \in Nat \X Nat
  BY DEF AlertedTypes
<1> QED
  BY <1>1

\* A step of the loop outside a judgement, a request or a timer: entries may vanish.
LEMMA VanishingKeepsTimes ==
    ASSUME DetectorTimes,
           DetectorTypes',
           UNCHANGED alerted,
           now' = now \/ (now' >= now /\ loop.step \notin {"elapsed", "alert"}),
           \/ UNCHANGED loop
           \/ {loop.step, loop'.step} \cap {"elapsed", "alert"} = {},
           \A t \in Tracks : alertedStages'[t] \subseteq alertedStages[t],
           \A t \in Tracks : stage1Time'[t] \in {0, stage1Time[t]},
           UNCHANGED torn
    PROVE  DetectorTimes'
<1> USE DEF DetectorTimes, DetectorTypes
<1>1. now \in Nat /\ now' \in Nat /\ now <= now'
  OBVIOUS
<1>2. alerted' = alerted /\ \A t \in Tracks, k \in {1, 2} : alerted[t][k] \in Nat
  BY AlertedHasTimes, Zenon
<1>3. StagesHaveTimes'
  <2> SUFFICES ASSUME NEW t \in Tracks, NEW k \in {1, 2}
               PROVE  (k \in alertedStages'[t] => alerted[t][k] # 0) /\ alerted[t][k] <= now'
    BY <1>2 DEF StagesHaveTimes
  <2>1. (k \in alertedStages[t] => alerted[t][k] # 0) /\ alerted[t][k] <= now
    BY DEF StagesHaveTimes
  <2> QED
    BY <1>1, <1>2, <2>1
<1>4. WarningsComeFirst'
  <2> SUFFICES ASSUME NEW t \in Tracks, stage1Time'[t] # 0
               PROVE  Warned(t)' \/ (loop'.step \in {"elapsed", "alert"} /\ loop'.stage = 1
                                       /\ loop'.track = t /\ stage1Time'[t] = now')
    BY DEF WarningsComeFirst
  <2>1. stage1Time'[t] = stage1Time[t]
    OBVIOUS
  <2>2. CASE Warned(t)
    BY <2>1, <2>2, <1>2 DEF Warned
  <2>3. CASE ~Warned(t)
    <3>1. /\ loop.step \in {"elapsed", "alert"} /\ loop.stage = 1
          /\ loop.track = t /\ stage1Time[t] = now
      BY <2>1, <2>3 DEF WarningsComeFirst
    <3>2. loop' = loop /\ now' = now
      BY <3>1
    <3> QED
      BY <2>1, <3>1, <3>2
  <2> QED
    BY <2>2, <2>3
<1>5. SecondStageIsDue'
  BY <1>1, <1>2 DEF SecondStageIsDue
<1>6. AlarmsEscalate'
  BY <1>1, <1>2 DEF AlarmsEscalate
<1> QED
  BY <1>2, <1>3, <1>4, <1>5, <1>6 DEF AlertedTypes

LEMMA DetectorTypesHold ==
    DetectorTypes /\ [DetectorNext]_detectorVars => DetectorTypes'
<1> SUFFICES ASSUME DetectorTypes, [DetectorNext]_detectorVars PROVE DetectorTypes'
  OBVIOUS
<1> USE DEF DetectorTypes
<1>1. CASE ReadFrame
  <2>1. /\ UNCHANGED <<now, torn, lostReset>>
        /\ loop.step = "between"
        /\ \/ UNCHANGED loop
           \/ loop' = [loop EXCEPT !.step = "tracking"]
           \/ loop' = [loop EXCEPT !.step = "drawing"]
    BY <1>1 DEF ReadFrame, At, outside
  <2>2. \/ UNCHANGED <<alertedStages, stage1Time>>
        \/ alertedStages' = [t \in Tracks |-> {}] /\ stage1Time' = [t \in Tracks |-> 0]
    BY <1>1 DEF ReadFrame, seen
  <2> QED
    BY <2>1, <2>2
<1>2. CASE DrawBoxes
  BY <1>2 DEF DrawBoxes, Between, outside, seen
<1>3. CASE Judge
  BY <1>3 DEF Judge, outside
<1>4. CASE LookAtElapsed
  BY <1>4 DEF LookAtElapsed, Torn, outside, seen
<1>5. CASE Alert
  <2>1. /\ loop' = [loop EXCEPT !.step = "tracking"]
        /\ UNCHANGED <<now, stage1Time, torn>>
    BY <1>5 DEF Alert, At
  <2>2. alertedStages' \in [Tracks -> SUBSET {1, 2}]
    BY <1>5 DEF Alert
  <2>3. lostReset' \in BOOLEAN
    BY <1>5 DEF Alert, Serial, outside
  <2> QED
    BY <2>1, <2>2, <2>3
<1>6. CASE EndFrame
  BY <1>6 DEF EndFrame, Between, outside, seen
<1>7. CASE TimerFires
  BY <1>7 DEF TimerFires, Serial, seen
<1>8. CASE DemoRequest
  BY <1>8 DEF DemoRequest, outside, seen
<1>9. CASE ClearNext
  BY <1>9 DEF ClearNext, At, outside
<1>10. CASE DetectorTick
  BY <1>10 DEF DetectorTick, outside, seen
<1>11. CASE UNCHANGED detectorVars
  BY <1>11 DEF detectorVars
<1> QED
  BY <1>1, <1>2, <1>3, <1>4, <1>5, <1>6, <1>7, <1>8, <1>9, <1>10, <1>11 DEF DetectorNext

\* What an alert does to the times: the first of each stage is kept.
LEMMA AlertTakesTime ==
    ASSUME DetectorTypes, AlertedTypes, Alert
    PROVE  /\ AlertedTypes'
           /\ \A t \in Tracks, k \in {1, 2} :
                 alerted'[t][k] =
                    IF /\ t = loop.track /\ k = loop.stage /\ alerted[t][k] = 0
                       /\ k \notin alertedStages[t]
                    THEN now ELSE alerted[t][k]
           /\ alertedStages' =
                 [alertedStages EXCEPT ![loop.track] = alertedStages[loop.track] \cup {loop.stage}]
<1> DEFINE t0 == loop.track
           k0 == loop.stage
<1>1. t0 \in Tracks /\ k0 \in {1, 2} /\ now \in Nat
  BY DEF Alert, DetectorTypes
<1>2. alerted[t0] \in Nat \X Nat /\ DOMAIN alerted = Tracks
  BY <1>1 DEF AlertedTypes
<1>3. CASE k0 \in alertedStages[t0]
  <2>1. UNCHANGED <<alerted, alertedStages>>
    BY <1>3 DEF Alert, outside
  <2>2. [alertedStages EXCEPT ![t0] = alertedStages[t0] \cup {k0}] = alertedStages
    BY <1>1, <1>3 DEF DetectorTypes
  <2> QED
    BY <1>3, <2>1, <2>2 DEF AlertedTypes
<1>4. CASE k0 \notin alertedStages[t0]
  <2> DEFINE new == IF alerted[t0][k0] = 0 THEN now ELSE alerted[t0][k0]
             pair == [alerted[t0] EXCEPT ![k0] = new]
  <2>1. alerted' = [alerted EXCEPT ![t0] = pair]
    BY <1>4 DEF Alert
  <2>2. alertedStages' = [alertedStages EXCEPT ![t0] = alertedStages[t0] \cup {k0}]
    BY <1>4 DEF Alert
  <2>3. new \in Nat
    BY <1>1, <1>2
  <2>4. pair = IF k0 = 1 THEN <<new, alerted[t0][2]>> ELSE <<alerted[t0][1], new>>
    <3> HIDE DEF new
    <3> QED
      BY <1>1, <1>2
  <2>5. pair \in Nat \X Nat
    <3>1. alerted[t0][1] \in Nat /\ alerted[t0][2] \in Nat
      BY <1>2
    <3> HIDE DEF new, pair
    <3> QED
      BY <2>3, <2>4, <3>1
  <2>6. AlertedTypes'
    <3> HIDE DEF pair
    <3> QED
      BY <1>1, <2>1, <2>5 DEF AlertedTypes
  <2>7. ASSUME NEW t \in Tracks, NEW k \in {1, 2}
        PROVE  alerted'[t][k] = IF t = t0 /\ k = k0 THEN new ELSE alerted[t][k]
    <3>1. alerted'[t] = IF t = t0 THEN pair ELSE alerted[t]
      <4> HIDE DEF pair
      <4> QED
        BY <1>2, <2>1
    <3>2. pair[k] = IF k = k0 THEN new ELSE alerted[t0][k]
      <4> HIDE DEF new, pair
      <4> QED
        BY <1>1, <2>4
    <3> HIDE DEF new, pair
    <3> QED
      BY <3>1, <3>2
  <2> QED
    BY <1>4, <2>2, <2>6, <2>7
<1> QED
  BY <1>3, <1>4

LEMMA DetectorStepKeepsTimes ==
    DetectorTimes /\ [DetectorNext]_detectorVars => DetectorTimes'
<1> SUFFICES ASSUME DetectorTimes, [DetectorNext]_detectorVars PROVE DetectorTimes'
  OBVIOUS
<1>1. DetectorTypes /\ AlertedTypes /\ DetectorTypes'
  BY DetectorTypesHold DEF DetectorTimes
<1>2. \A t \in Tracks, k \in {1, 2} : alerted[t][k] \in Nat
  BY <1>1, AlertedHasTimes
<1>3. now \in Nat /\ now > 0 /\ stage1Time \in [Tracks -> Nat] /\ Delay \in Nat /\ Delay > 0
  BY <1>1, DetectorAssumption DEF DetectorTypes
<1>4. ASSUME UNCHANGED alerted,
             now' = now \/ (now' >= now /\ loop.step \notin {"elapsed", "alert"}),
             \/ UNCHANGED loop
             \/ {loop.step, loop'.step} \cap {"elapsed", "alert"} = {},
             \A t \in Tracks : alertedStages'[t] \subseteq alertedStages[t],
             \A t \in Tracks : stage1Time'[t] \in {0, stage1Time[t]},
             UNCHANGED torn
      PROVE  DetectorTimes'
  BY <1>1, <1>4, VanishingKeepsTimes
<1>5. ASSUME Alert
      PROVE  DetectorTimes'
  <2> DEFINE t0 == loop.track
             k0 == loop.stage
  <2>1. t0 \in Tracks /\ k0 \in {1, 2} /\ DOMAIN loop = {"step", "track", "stage"}
    BY <1>1, <1>5 DEF Alert, DetectorTypes
  <2>2. loop.step = "alert" /\ loop'.step = "tracking" /\ UNCHANGED <<now, stage1Time, torn>>
    BY <1>5, <2>1 DEF Alert, At
  <2>3. /\ AlertedTypes'
        /\ \A t \in Tracks, k \in {1, 2} :
              alerted'[t][k] = IF t = t0 /\ k = k0 /\ alerted[t][k] = 0 /\ k \notin alertedStages[t]
                               THEN now ELSE alerted[t][k]
        /\ alertedStages' = [alertedStages EXCEPT ![t0] = alertedStages[t0] \cup {k0}]
    BY <1>1, <1>5, AlertTakesTime
  <2>4. \A t \in Tracks, k \in {1, 2} :
          (k \in alertedStages'[t] => alerted'[t][k] # 0) /\ alerted'[t][k] <= now
    <3> SUFFICES ASSUME NEW t \in Tracks, NEW k \in {1, 2}
                 PROVE  (k \in alertedStages'[t] => alerted'[t][k] # 0) /\ alerted'[t][k] <= now
      OBVIOUS
    <3>1. (k \in alertedStages[t] => alerted[t][k] # 0) /\ alerted[t][k] <= now
      BY DEF DetectorTimes, StagesHaveTimes
    <3>2. k \in alertedStages'[t] => k \in alertedStages[t] \/ (t = t0 /\ k = k0)
      BY <1>1, <2>1, <2>3 DEF DetectorTypes
    <3> QED
      BY <1>2, <1>3, <2>3, <3>1, <3>2
  <2>5. \A t \in Tracks : alerted[t][1] # 0 => alerted'[t][1] = alerted[t][1]
    BY <2>3
  <2>6. WarningsComeFirst'
    <3> SUFFICES ASSUME NEW t \in Tracks, stage1Time[t] # 0
                 PROVE  alerted'[t][1] # 0 /\ alerted'[t][1] <= stage1Time[t]
      BY <2>2 DEF WarningsComeFirst, Warned
    <3>1. CASE Warned(t)
      BY <2>5, <3>1 DEF Warned
    <3>2. CASE loop.stage = 1 /\ loop.track = t /\ stage1Time[t] = now
      <4>1. 1 \in alertedStages'[t]
        BY <1>1, <2>3, <3>2 DEF DetectorTypes
      <4> QED
        BY <2>4, <3>2, <4>1
    <3> QED
      BY <3>1, <3>2 DEF DetectorTimes, WarningsComeFirst
  <2>7. AlarmsEscalate'
    <3> SUFFICES ASSUME NEW t \in Tracks \ torn, alerted'[t][2] # 0
                 PROVE  alerted'[t][1] # 0 /\ alerted'[t][1] + Delay <= alerted'[t][2]
      BY <2>2 DEF AlarmsEscalate
    <3>1. CASE alerted[t][2] # 0
      <4>1. alerted[t][1] # 0 /\ alerted[t][1] + Delay <= alerted[t][2]
        BY <3>1 DEF DetectorTimes, AlarmsEscalate
      <4> QED
        BY <2>3, <2>5, <3>1, <4>1
    <3>2. CASE alerted[t][2] = 0
      <4>1. alerted'[t][2] = now /\ t = t0 /\ k0 = 2
        BY <2>3, <3>2
      <4>2. alerted[t][1] # 0 /\ alerted[t][1] + Delay <= now
        BY <2>2, <4>1 DEF DetectorTimes, SecondStageIsDue
      <4> QED
        BY <2>5, <4>1, <4>2
    <3> QED
      BY <3>1, <3>2
  <2>8. StagesHaveTimes' /\ SecondStageIsDue'
    BY <2>2, <2>4 DEF StagesHaveTimes, SecondStageIsDue
  <2> QED
    BY <1>1, <2>3, <2>6, <2>7, <2>8 DEF DetectorTimes
<1>6. ASSUME LookAtElapsed
      PROVE  DetectorTimes'
  <2> DEFINE t0 == loop.track
  <2>1. /\ UNCHANGED <<now, alertedStages, stage1Time, alerted>>
        /\ torn' = IF stage1Time[t0] = 0 THEN torn \cup {t0} ELSE torn
        /\ loop.step = "elapsed" /\ loop.stage = 1 /\ t0 \in Tracks
        /\ loop'.step = "alert" /\ loop'.track = t0
        /\ loop'.stage = IF now - stage1Time[t0] >= Delay THEN 2 ELSE 1
    BY <1>1, <1>6 DEF LookAtElapsed, Torn, DetectorTypes, seen, outside
  <2>2. ASSUME loop'.stage = 2, stage1Time[t0] # 0
        PROVE  Warned(t0) /\ stage1Time[t0] + Delay <= now
    <3>1. now - stage1Time[t0] >= Delay
      BY <2>1, <2>2
    <3>2. stage1Time[t0] \in Nat /\ stage1Time[t0] # now
      BY <1>3, <2>1, <3>1
    <3>3. Warned(t0)
      BY <2>1, <2>2, <3>2 DEF DetectorTimes, WarningsComeFirst
    <3> QED
      BY <1>3, <3>1, <3>2, <3>3
  <2>3. SecondStageIsDue'
    <3> SUFFICES ASSUME loop'.stage = 2, t0 \notin torn'
                 PROVE  alerted[t0][1] # 0 /\ alerted[t0][1] + Delay <= now
      BY <2>1 DEF SecondStageIsDue
    <3>1. stage1Time[t0] # 0
      BY <2>1
    <3> QED
      BY <1>2, <1>3, <2>1, <2>2, <3>1 DEF Warned
  <2>4. WarningsComeFirst'
    <3> SUFFICES ASSUME NEW t \in Tracks, stage1Time[t] # 0
                 PROVE  Warned(t) \/ (loop'.stage = 1 /\ t0 = t /\ stage1Time[t] = now)
      BY <2>1 DEF WarningsComeFirst, Warned
    <3> QED
      BY <2>1, <2>2 DEF DetectorTimes, WarningsComeFirst
  <2>5. StagesHaveTimes' /\ AlarmsEscalate'
    BY <2>1 DEF DetectorTimes, StagesHaveTimes, AlarmsEscalate
  <2> QED
    BY <1>1, <2>1, <2>3, <2>4, <2>5 DEF DetectorTimes, AlertedTypes
<1>7. ASSUME Judge
      PROVE  DetectorTimes'
  <2>1. PICK t0 \in Tracks :
          \/ UNCHANGED <<stage1Time, loop>>
          \/ /\ stage1Time' = [stage1Time EXCEPT ![t0] = IF @ = 0 THEN now ELSE @]
             /\ loop'.step \in {"elapsed", "alert"} /\ loop'.track = t0 /\ loop'.stage = 1
    BY <1>7 DEF Judge
  <2>2. loop.step = "tracking" /\ UNCHANGED <<now, alertedStages, alerted, torn>>
    BY <1>7 DEF Judge, outside
  <2>3. CASE UNCHANGED <<stage1Time, loop>>
    BY <1>4, <2>2, <2>3
  <2>4. CASE /\ stage1Time' = [stage1Time EXCEPT ![t0] = IF @ = 0 THEN now ELSE @]
             /\ loop'.step \in {"elapsed", "alert"} /\ loop'.track = t0 /\ loop'.stage = 1
    <3>1. \A t \in Tracks : stage1Time'[t] =
            IF t = t0 /\ stage1Time[t] = 0 THEN now ELSE stage1Time[t]
      BY <1>3, <2>4
    <3>2. WarningsComeFirst'
      <4> SUFFICES ASSUME NEW t \in Tracks, stage1Time'[t] # 0
                   PROVE  \/ alerted[t][1] # 0 /\ alerted[t][1] <= stage1Time'[t]
                          \/ t0 = t /\ stage1Time'[t] = now
        BY <2>2, <2>4 DEF WarningsComeFirst, Warned
      <4>1. stage1Time[t] # 0 => Warned(t)
        BY <2>2 DEF DetectorTimes, WarningsComeFirst
      <4> QED
        BY <3>1, <4>1 DEF Warned
    <3>3. StagesHaveTimes' /\ SecondStageIsDue' /\ AlarmsEscalate'
      BY <2>2, <2>4 DEF DetectorTimes, StagesHaveTimes, SecondStageIsDue, AlarmsEscalate
    <3> QED
      BY <1>1, <2>2, <3>2, <3>3 DEF DetectorTimes, AlertedTypes
  <2> QED
    BY <2>1, <2>3, <2>4
<1>8. CASE ReadFrame
  <2>1. /\ UNCHANGED <<now, alerted, torn>>
        /\ loop.step = "between"
        /\ \/ UNCHANGED loop
           \/ loop' = [loop EXCEPT !.step = "tracking"]
           \/ loop' = [loop EXCEPT !.step = "drawing"]
        /\ \/ UNCHANGED <<alertedStages, stage1Time>>
           \/ /\ alertedStages' = [t \in Tracks |-> {}]
              /\ stage1Time' = [t \in Tracks |-> 0]
    BY <1>8 DEF ReadFrame, At, outside, seen
  <2>2. UNCHANGED loop \/ loop'.step \in {"tracking", "drawing"}
    BY <1>1, <2>1 DEF DetectorTypes
  <2> QED
    BY <1>4, <2>1, <2>2
<1>9. CASE DrawBoxes \/ EndFrame
  <2>1. loop.step \in {"drawing", "tracking"} /\ loop'.step = "between"
    <3>1. loop' = Between /\ (loop.step = "drawing" \/ loop.step = "tracking")
      BY <1>9 DEF DrawBoxes, EndFrame
    <3>2. Between.step = "between"
      BY DEF Between
    <3> QED
      BY <3>1, <3>2
  <2>2. UNCHANGED <<now, alertedStages, stage1Time, alerted, torn>>
    BY <1>9 DEF DrawBoxes, EndFrame, outside, seen
  <2> QED
    BY <1>1, <1>4, <2>1, <2>2 DEF DetectorTypes
<1>10. CASE ClearNext
  <2>1. /\ UNCHANGED <<now, alerted, torn>>
        /\ stage1Time' = stage1Time \/ stage1Time' = [t \in Tracks |-> 0]
        /\ alertedStages' = alertedStages \/ alertedStages' = [t \in Tracks |-> {}]
    BY <1>10 DEF ClearNext, outside
  <2>2. loop' = loop \/ (loop.step = "drawing" /\ loop'.step = "dead")
    BY <1>1, <1>10 DEF ClearNext, At, DetectorTypes
  <2> QED
    BY <1>4, <2>1, <2>2
<1>11. CASE DetectorTick
  BY <1>3, <1>4, <1>11 DEF DetectorTick, outside, seen
<1>12. CASE TimerFires \/ DemoRequest
  BY <1>4, <1>12 DEF TimerFires, DemoRequest, outside, seen
<1>13. CASE UNCHANGED detectorVars
  BY <1>4, <1>13 DEF detectorVars
<1> QED
  BY <1>5, <1>6, <1>7, <1>8, <1>9, <1>10, <1>11, <1>12, <1>13 DEF DetectorNext

\* Whatever the requests clear under its eyes, the detector announces a danger only after a
\* warning of the same vehicle has lasted its time, except for a vehicle whose entry vanished
\* between the two looks of one judgement; and it leaves no alarm on whose end is not still to
\* come, unless that end was the last command to be lost (detection_loop, reset_tracking_state).
THEOREM DetectorEscalatesAndEnds == DetectorSpec => []AlarmsEscalateAndEnd
<1>1. DetectorInv => AlarmsEscalateAndEnd
  BY DEF DetectorInv, AlarmsEscalateAndEnd, AlarmsEscalate, AlarmsEnd
<1>2. DetectorInv /\ [DetectorNext]_detectorVars => DetectorInv'
  BY DetectorStepKeepsTimes, DetectorStepKeepsEnd DEF DetectorInv, DetectorTimes
<1> QED
  BY <1>1, <1>2, DetectorStarts, PTL DEF DetectorSpec

-----------------------------------------------------------------------------
(* The vision test service: proof.                                         *)

LEMMA VisionStarts == VisionInit => VisionInv
<1> SUFFICES ASSUME VisionInit PROVE VisionInv
  OBVIOUS
<1> USE VisionAssumption DEF VisionInit
<1>1. ~HasSession /\ Unlocked /\ ~Disturbed
  BY DEF HasSession, Inside, Unlocked, Disturbed
<1>2. ServiceTypes
  BY <1>1 DEF ServiceTypes, NoView, Directions, WorkerSteps
<1>3. LookIsCurrent /\ SessionIsCurrent /\ DrivesAreLogged
  BY <1>1 DEF LookIsCurrent, SessionIsCurrent, DrivesAreLogged, Inside
<1>4. ViewIsOfTheSettings /\ DrivesAreShown
  BY DEF ViewIsOfTheSettings, DrivesAreShown, Shows, NoView
<1>5. PageTypes /\ LoadsAreForThePage /\ RoisAreOfTheirCamera
  BY DEF PageTypes, LoadsAreForThePage, RoisAreOfTheirCamera, OwnRois, Closed
<1> QED
  BY <1>2, <1>3, <1>4, <1>5 DEF VisionInv, ServiceInv, EditorInv

analysis == <<worker, session>>

\* Settings that change begin another generation, which shows nothing yet.
LEMMA SettlingKeepsService ==
    ASSUME ServiceInv, NEW c \in Cameras, NEW d \in Directions, Settle(c, d),
           UNCHANGED <<rois, sources, replacing, analysis>>
    PROVE  ServiceInv'
<1> USE DEF analysis
<1>1. /\ generation \in Nat /\ generation' = generation + 1
      /\ camera' = c /\ direction' = d /\ view' = NoView /\ Unlocked
  BY DEF Settle, ServiceInv, ServiceTypes
<1>2. (HasSession' <=> HasSession) /\ worker.current <= generation /\ worker.current \in Nat
  BY DEF HasSession, ServiceInv, ServiceTypes
<1>3. HasSession => session.generation \in Nat /\ session.generation <= generation
  BY DEF ServiceInv, ServiceTypes
<1>4. ServiceTypes'
  <2>1. DOMAIN view' = {"of", "tracks", "events", "picture", "error"}
    BY <1>1 DEF NoView
  <2> QED
    BY <1>1, <1>2, <1>3, <2>1 DEF ServiceInv, ServiceTypes
<1>5. LookIsCurrent' /\ SessionIsCurrent'
  BY <1>1, <1>2, <1>3 DEF ServiceInv, LookIsCurrent, SessionIsCurrent
<1>6. DrivesAreLogged'
  BY <1>2 DEF ServiceInv, DrivesAreLogged
<1>7. ViewIsOfTheSettings' /\ DrivesAreShown'
  BY <1>1 DEF ViewIsOfTheSettings, DrivesAreShown, Shows, NoView
<1> QED
  BY <1>4, <1>5, <1>6, <1>7 DEF ServiceInv

\* A file that is replaced disturbs the analysis of its camera only.
LEMMA ReplacingKeepsService ==
    ASSUME ServiceInv, NEW c \in Cameras,
           \/ (\E mode \in {"test", "rtsp"} : ReplaceSource(c, mode)) /\ UNCHANGED rois
           \/ (\E of : ReplaceRois(c, of)) /\ UNCHANGED sources,
           UNCHANGED <<server, analysis>>
    PROVE  ServiceInv'
<1> USE DEF analysis, server
<1>1. PICK k \in {"source", "rois"} : replacing' = [camera |-> c, kind |-> k] /\ Unlocked
  BY DEF ReplaceSource, ReplaceRois
<1>2. /\ DOMAIN rois = Cameras /\ DOMAIN rois' = Cameras
      /\ DOMAIN sources = Cameras /\ DOMAIN sources' = Cameras
      /\ \A e \in Cameras \ {c} : rois'[e] = rois[e] /\ sources'[e] = sources[e]
  BY DEF ServiceInv, ServiceTypes, ReplaceSource, ReplaceRois
<1>3. replacing' # Nothing /\ replacing'.camera = c /\ (~Disturbed' => c # camera) /\ ~Disturbed
  BY <1>1, VisionAssumption DEF Disturbed, Unlocked
<1>4. HasSession' <=> HasSession
  BY DEF HasSession
<1>5. ServiceTypes'
  BY <1>1, <1>2, <1>4 DEF ServiceInv, ServiceTypes
<1>6. ~Disturbed' => rois'[camera] = rois[camera] /\ sources'[camera] = sources[camera]
  BY <1>2, <1>3 DEF ServiceInv, ServiceTypes
<1>7. LookIsCurrent' /\ DrivesAreLogged' /\ DrivesAreShown'
  BY <1>4 DEF ServiceInv, LookIsCurrent, DrivesAreLogged, DrivesAreShown
<1>8. SessionIsCurrent'
  BY <1>3, <1>4, <1>6 DEF ServiceInv, SessionIsCurrent
<1>9. ViewIsOfTheSettings'
  BY <1>3, <1>6 DEF ServiceInv, ViewIsOfTheSettings, Settings
<1> QED
  BY <1>5, <1>7, <1>8, <1>9 DEF ServiceInv

\* Then the analysis is told, if it is its camera.
LEMMA TellingKeepsService ==
    ASSUME ServiceInv, TellAnalysis
    PROVE  ServiceInv'
<1>1. /\ ~Unlocked /\ replacing' = Nothing /\ ~Disturbed'
      /\ UNCHANGED <<camera, direction, rois, sources, worker, session>>
  BY DEF TellAnalysis, Disturbed, Unlocked, files
<1>2. (HasSession' <=> HasSession) /\ generation \in Nat
  BY <1>1 DEF HasSession, ServiceInv, ServiceTypes
<1>3. CASE Disturbed
  <2>1. /\ generation' = generation + 1
        /\ view' = [NoView EXCEPT !.error = view.error /\ replacing.kind = "rois"]
    BY <1>3 DEF TellAnalysis, Disturbed
  <2>2. /\ DOMAIN view' = {"of", "tracks", "events", "picture", "error"}
        /\ view'.of = Nothing /\ view'.tracks = {} /\ view'.events = <<>>
    BY <2>1 DEF NoView
  <2>3. worker.current \in Nat /\ worker.current <= generation
    BY DEF ServiceInv, ServiceTypes
  <2>4. HasSession => session.generation \in Nat /\ session.generation <= generation
    BY DEF ServiceInv, ServiceTypes
  <2>5. ServiceTypes'
    BY <1>1, <1>2, <2>1, <2>2, <2>3, <2>4 DEF ServiceInv, ServiceTypes
  <2>6. LookIsCurrent' /\ SessionIsCurrent' /\ DrivesAreLogged'
    BY <1>1, <1>2, <2>1, <2>3, <2>4
       DEF ServiceInv, LookIsCurrent, SessionIsCurrent, DrivesAreLogged
  <2>7. ViewIsOfTheSettings' /\ DrivesAreShown'
    BY <2>2 DEF ViewIsOfTheSettings, DrivesAreShown, Shows
  <2> QED
    BY <2>5, <2>6, <2>7 DEF ServiceInv
<1>4. CASE ~Disturbed
  <2>1. UNCHANGED <<generation, view>>
    BY <1>1, <1>4 DEF TellAnalysis, Disturbed
  <2>2. ServiceTypes'
    BY <1>1, <1>2, <2>1 DEF ServiceInv, ServiceTypes
  <2>3. LookIsCurrent' /\ SessionIsCurrent' /\ DrivesAreLogged'
    BY <1>1, <1>2, <1>4, <2>1
       DEF ServiceInv, LookIsCurrent, SessionIsCurrent, DrivesAreLogged
  <2>4. ViewIsOfTheSettings' /\ DrivesAreShown'
    BY <1>1, <1>4, <2>1 DEF ServiceInv, ViewIsOfTheSettings, DrivesAreShown, Settings
  <2> QED
    BY <2>2, <2>3, <2>4 DEF ServiceInv
<1> QED
  BY <1>3, <1>4

\* A vehicle that is judged keeps its drive.
LEMMA JudgedKeepsDrive ==
    ASSUME NEW v \in VehicleOf, NEW look \in {"still", "reverse", "along"}
    PROVE  Judged(v, look) \in VehicleOf /\ Judged(v, look).drive = v.drive
<1>1. Confirm \in Nat /\ v.frames \in Nat
  BY VisionAssumption DEF VehicleOf
<1>2. CASE look = "reverse"
  <2> DEFINE frames == IF v.frames < Confirm THEN v.frames + 1 ELSE Confirm
             state == IF v.frames + 1 >= Confirm THEN "WRONG_WAY" ELSE "WRONG_WAY_CANDIDATE"
  <2>1. Judged(v, look) = [v EXCEPT !.frames = frames, !.state = state]
    BY <1>2 DEF Judged, Reversed
  <2>2. frames \in Nat /\ state \in VehicleStates
    BY <1>1 DEF VehicleStates
  <2> HIDE DEF frames, state
  <2> QED
    BY <2>1, <2>2 DEF VehicleOf
<1>3. CASE look # "reverse"
  <2> DEFINE state == IF v.state = "WRONG_WAY" THEN v.state ELSE "NORMAL"
  <2>1. Judged(v, look) = [v EXCEPT !.frames = 0, !.state = state]
    BY <1>3 DEF Judged
  <2>2. state \in VehicleStates /\ 0 \in Nat
    BY DEF VehicleStates
  <2>3. v = [state |-> v.state, frames |-> v.frames, drive |-> v.drive]
    BY DEF VehicleOf
  <2> HIDE DEF state
  <2>4. Judged(v, look) = [state |-> state, frames |-> 0, drive |-> v.drive]
    BY <2>1, <2>3
  <2> QED
    BY <2>2, <2>4 DEF VehicleOf
<1> QED
  BY <1>2, <1>3

\* A list to which an entry is added, the oldest falling out.
LEMMA ListedIs ==
    ASSUME NEW S, NEW older \in Seq(S), Len(older) <= MaxEvents, NEW entry \in S
    PROVE  LET more == Listed(older, entry)
               kept == IF Len(older) < MaxEvents THEN Len(older) ELSE MaxEvents - 1
           IN  /\ more \in Seq(S) /\ Len(more) = kept + 1
               /\ more[1] = entry
               /\ \A i \in 1..kept : more[i + 1] = older[i]
<1> DEFINE kept == IF Len(older) < MaxEvents THEN Len(older) ELSE MaxEvents - 1
           rest == SubSeq(older, 1, kept)
           more == Listed(older, entry)
<1>1. Len(older) \in Nat /\ MaxEvents \in Nat /\ MaxEvents > 0
  BY VisionAssumption, LenProperties
<1>2. kept \in Nat /\ kept <= Len(older)
  BY <1>1
<1>3. more = <<entry>> \o rest
  BY DEF Listed
<1> HIDE DEF kept
<1>4. rest \in Seq(S) /\ Len(rest) = kept /\ \A i \in 1..kept : rest[i] = older[i]
  <2>1. \A i \in 1..kept : i \in 1..Len(older)
    BY <1>1, <1>2
  <2>2. /\ rest \in Seq(S)
        /\ Len(rest) = IF 1 <= kept THEN (kept - 1) + 1 ELSE 0
        /\ \A i \in 1..((kept - 1) + 1) : rest[i] = older[(1 + i) - 1]
    BY <1>1, <1>2, <2>1, SubSeqProperties
  <2>3. (kept - 1) + 1 = kept /\ \A i \in 1..kept : (1 + i) - 1 = i
    BY <1>2
  <2> HIDE DEF rest
  <2> QED
    BY <1>2, <2>2, <2>3
<1> HIDE DEF rest, more
<1>5. /\ more \in Seq(S) /\ Len(more) = 1 + kept /\ more[1] = entry
      /\ \A i \in 2..(kept + 1) : more[i] = rest[i - 1]
  <2> DEFINE one == <<entry>>
             both == one \o rest
  <2>1. one \in Seq(S) /\ Len(one) = 1 /\ one[1] = entry
    OBVIOUS
  <2> HIDE DEF one
  <2>2. /\ both \in Seq(S) /\ Len(both) = Len(one) + Len(rest)
        /\ \A i \in 1..(Len(one) + Len(rest)) :
              both[i] = IF i <= Len(one) THEN one[i] ELSE rest[i - Len(one)]
    BY <1>4, <2>1, ConcatProperties
  <2>3. more = both
    BY <1>3 DEF one
  <2> HIDE DEF both
  <2> QED
    BY <1>2, <1>4, <2>1, <2>2, <2>3
<1>6. \A i \in 1..kept : i + 1 \in 2..(kept + 1) /\ (i + 1) - 1 = i
  BY <1>2
<1>7. \A i \in 1..kept : more[i + 1] = older[i]
  BY <1>4, <1>5, <1>6
<1> QED
  BY <1>2, <1>5, <1>7 DEF kept, more

\* What a session has in its list and tracks may be shown.
LEMMA ListShows ==
    ASSUME NEW s, ListOf(s)
    PROVE  Shows(s.tracks, s.events)
<1> DEFINE logged == s.events
           n == Len(logged)
<1>1. /\ n \in Nat /\ s.drives \in Nat /\ MaxEvents \in Nat
      /\ n = IF s.drives < MaxEvents THEN s.drives ELSE MaxEvents
  BY VisionAssumption, LenProperties DEF ListOf, ListTypesOf
<1>2. \A i \in 1..n : /\ logged[i].drive = (s.drives - i) + 1
                     /\ s.vehicles[logged[i].id].drive = logged[i].drive
  BY DEF ListOf, EntriesAreDrives
<1>3. ASSUME NEW i \in 1..n, NEW j \in 1..n, logged[i].id = logged[j].id PROVE i = j
  <2>1. (s.drives - i) + 1 = (s.drives - j) + 1
    BY <1>2, <1>3
  <2> HIDE DEF n
  <2> QED
    BY <1>1, <2>1
<1>4. ASSUME NEW t \in s.tracks, t.state = "WRONG_WAY",
             ~\E i \in 1..n : logged[i].id = t.id
      PROVE  n = MaxEvents /\ \A i \in 1..MaxEvents : logged[i].drive > t.drive
  <2>1. t.id \in Vehicles /\ t.state = s.vehicles[t.id].state /\ t.drive = s.vehicles[t.id].drive
    BY DEF ListOf, TracksAreVehicles
  <2>2. /\ t.drive > 0 /\ ~(t.drive > s.drives - n)
    BY <1>4, <2>1 DEF ListOf, DrivesAreEntries
  <2>3. t.drive \in Nat
    BY <2>1 DEF ListOf, ListTypesOf, VehicleOf
  <2> HIDE DEF n
  <2>4. n = MaxEvents
    BY <1>1, <2>2, <2>3
  <2>5. ASSUME NEW i \in 1..MaxEvents PROVE logged[i].drive > t.drive
    <3>1. logged[i].drive = (s.drives - i) + 1
      BY <1>2, <2>4
    <3> HIDE DEF logged
    <3> QED
      BY <1>1, <2>2, <2>3, <2>4, <3>1
  <2> QED
    BY <2>4, <2>5
<1>5. ASSUME NEW t \in s.tracks, NEW i \in 1..n, logged[i].id = t.id
      PROVE  logged[i].drive = t.drive
  BY <1>2, <1>5 DEF ListOf, TracksAreVehicles
<1> QED
  BY <1>3, <1>4, <1>5 DEF Shows

\* A vehicle that is detected: another drive comes first in the list.
LEMMA DetectKeepsList ==
    ASSUME ListOf(session), DOMAIN session = SessionFields, Detect
    PROVE  /\ ListOf(session') /\ DOMAIN session' = SessionFields
           /\ session'.generation = session.generation /\ session'.rois = session.rois
           /\ session'.source = session.source
<1> DEFINE drives == session.drives
           logged == session.events
           new == drives + 1
<1>1. PICK v \in Vehicles \ {t.id : t \in session.tracks}, look \in Sightings :
         LET judged == Judged(session.vehicles[v], look)
             known == IF Starts(judged) THEN [judged EXCEPT !.drive = IF @ = 0 THEN new ELSE @]
                      ELSE judged
             track == [id |-> v, state |-> known.state, drive |-> known.drive]
         IN session' = [session EXCEPT !.vehicles[v] = known, !.tracks = @ \cup {track},
               !.drives = IF Starts(judged) THEN new ELSE @,
               !.events = IF Starts(judged) THEN Listed(@, [id |-> v, drive |-> new]) ELSE @]
  BY DEF Detect
<1> DEFINE judged == Judged(session.vehicles[v], look)
           known == IF Starts(judged) THEN [judged EXCEPT !.drive = IF @ = 0 THEN new ELSE @]
                    ELSE judged
           track == [id |-> v, state |-> known.state, drive |-> known.drive]
           entry == [id |-> v, drive |-> new]
<1>2. /\ session.vehicles \in [Vehicles -> VehicleOf] /\ drives \in Nat
      /\ logged \in Seq([id : Vehicles, drive : Nat])
      /\ Len(logged) = IF drives < MaxEvents THEN drives ELSE MaxEvents
      /\ MaxEvents \in Nat /\ MaxEvents > 0 /\ Len(logged) \in Nat
  BY VisionAssumption, LenProperties DEF ListOf, ListTypesOf
<1>3. /\ DOMAIN session' = SessionFields
      /\ session'.generation = session.generation /\ session'.rois = session.rois
      /\ session'.source = session.source
      /\ session'.vehicles = [session.vehicles EXCEPT ![v] = known]
      /\ session'.tracks = session.tracks \cup {track}
      /\ session'.drives = IF Starts(judged) THEN new ELSE drives
      /\ session'.events = IF Starts(judged) THEN Listed(logged, entry) ELSE logged
  <2> HIDE DEF judged, known, track, entry
  <2>1. session' = [session EXCEPT !.vehicles[v] = known, !.tracks = @ \cup {track},
               !.drives = IF Starts(judged) THEN new ELSE @,
               !.events = IF Starts(judged) THEN Listed(@, entry) ELSE @]
    BY <1>1 DEF judged, known, track, entry
  <2> QED
    BY <2>1 DEF SessionFields
<1>4. judged \in VehicleOf /\ judged.drive = session.vehicles[v].drive
  <2>1. look \in {"still", "reverse", "along"} /\ session.vehicles[v] \in VehicleOf
    BY <1>2 DEF Sightings
  <2> QED
    BY <2>1, JudgedKeepsDrive
<1> HIDE DEF judged
<1>5. /\ known \in VehicleOf /\ known.state = judged.state
      /\ known.drive = IF Starts(judged) THEN new ELSE judged.drive
  <2>1. new \in Nat
    BY <1>2
  <2> HIDE DEF new
  <2>2. CASE Starts(judged)
    <3>1. known = [judged EXCEPT !.drive = new]
      BY <1>4, <2>2 DEF Starts
    <3> HIDE DEF known
    <3> QED
      BY <1>4, <2>1, <2>2, <3>1 DEF VehicleOf
  <2>3. CASE ~Starts(judged)
    BY <1>4, <2>3
  <2> QED
    BY <2>2, <2>3
<1> HIDE DEF known
<1>6. /\ session'.vehicles \in [Vehicles -> VehicleOf] /\ session'.vehicles[v] = known
      /\ \A u \in Vehicles : u # v => session'.vehicles[u] = session.vehicles[u]
  BY <1>2, <1>3, <1>5
<1>7. TracksAreVehicles(session')
  <2>1. /\ track.id = v /\ track.state = known.state /\ track.drive = known.drive
    OBVIOUS
  <2> HIDE DEF track
  <2>2. ASSUME NEW t \in session.tracks
        PROVE  t.id \in Vehicles /\ t.id # v
    BY DEF ListOf, TracksAreVehicles
  <2> QED
    BY <1>3, <1>6, <2>1, <2>2 DEF ListOf, TracksAreVehicles
<1> HIDE DEF track
<1>8. \A u \in Vehicles : /\ session.vehicles[u].drive \in Nat
                          /\ session.vehicles[u].drive <= drives
  BY <1>2 DEF ListOf, DrivesAreEntries, VehicleOf
<1>9. \A i \in 1..Len(logged) : /\ logged[i].drive = (drives - i) + 1
                                /\ logged[i].id \in Vehicles
                                /\ session.vehicles[logged[i].id].drive = logged[i].drive
  <2>1. \A i \in 1..Len(logged) : logged[i] \in [id : Vehicles, drive : Nat]
    BY <1>2, ElementOfSeq
  <2> QED
    BY <2>1 DEF ListOf, EntriesAreDrives
<1>10. CASE ~Starts(judged)
  <2>1. session'.events = logged /\ session'.drives = drives /\ known.drive = session.vehicles[v].drive
    BY <1>3, <1>4, <1>5, <1>10
  <2>2. ListTypesOf(session')
    BY <1>2, <1>6, <2>1 DEF ListTypesOf
  <2>3. \A u \in Vehicles : session'.vehicles[u].drive = session.vehicles[u].drive
    BY <1>6, <2>1
  <2>4. EntriesAreDrives(session')
    BY <1>9, <2>1, <2>3 DEF EntriesAreDrives
  <2>5. DrivesAreEntries(session')
    <3>1. \A u \in Vehicles : session'.vehicles[u].state = "WRONG_WAY" =>
                                session'.vehicles[u].drive > 0
      <4>1. known.state = "WRONG_WAY" => known.drive > 0
        BY <1>4, <1>5, <1>10 DEF Starts, VehicleOf
      <4> QED
        BY <1>6, <4>1 DEF ListOf, DrivesAreEntries
    <3> QED
      BY <2>1, <2>3, <3>1 DEF ListOf, DrivesAreEntries
  <2> QED
    BY <1>3, <1>7, <2>2, <2>4, <2>5 DEF ListOf
<1>11. CASE Starts(judged)
  <2> DEFINE more == session'.events
             kept == IF Len(logged) < MaxEvents THEN Len(logged) ELSE MaxEvents - 1
  <2>1. /\ session'.drives = new /\ more = Listed(logged, entry)
        /\ known.drive = new /\ session.vehicles[v].drive = 0
    BY <1>3, <1>4, <1>5, <1>11 DEF Starts
  <2>2. entry \in [id : Vehicles, drive : Nat] /\ entry.id = v /\ entry.drive = new
    BY <1>2
  <2> HIDE DEF entry
  <2>3. /\ more \in Seq([id : Vehicles, drive : Nat]) /\ Len(more) = kept + 1
        /\ more[1] = entry
        /\ \A i \in 1..kept : more[i + 1] = logged[i]
    <3>1. Len(logged) <= MaxEvents
      BY <1>2
    <3> DEFINE S == [id : Vehicles, drive : Nat]
    <3>2. logged \in Seq(S) /\ entry \in S
      BY <1>2, <2>2
    <3> HIDE DEF S, logged
    <3>3. LET all == Listed(logged, entry)
          IN  /\ all \in Seq(S) /\ Len(all) = kept + 1
              /\ all[1] = entry
              /\ \A i \in 1..kept : all[i + 1] = logged[i]
      BY <3>1, <3>2, ListedIs
    <3> QED
      BY <2>1, <3>3 DEF S
  <2> HIDE DEF more
  <2>4. /\ kept \in Nat /\ kept <= Len(logged) /\ kept <= drives
        /\ kept + 1 = IF new < MaxEvents THEN new ELSE MaxEvents
    BY <1>2
  <2> HIDE DEF kept
  <2>5. \A i \in 1..Len(more) : i = 1 \/ \E j \in 1..kept : i = j + 1
    <3>1. \A i \in 2..(kept + 1) : i - 1 \in 1..kept /\ i = (i - 1) + 1
      BY <2>4
    <3>2. \A i \in 1..(kept + 1) : i = 1 \/ i \in 2..(kept + 1)
      BY <2>4
    <3> QED
      BY <2>3, <3>1, <3>2
  <2>6. \A j \in 1..kept : j \in 1..Len(logged)
    BY <1>2, <2>4
  <2>7. ListTypesOf(session')
    BY <1>2, <1>6, <2>1, <2>3, <2>4 DEF ListTypesOf, more
  <2>8. EntriesAreDrives(session')
    <3>1. ASSUME NEW i \in 1..Len(more)
          PROVE  /\ more[i].drive = (new - i) + 1
                 /\ session'.vehicles[more[i].id].drive = more[i].drive
      <4>1. CASE i = 1
        BY <1>2, <1>6, <2>1, <2>2, <2>3, <4>1
      <4>2. ASSUME NEW j \in 1..kept, i = j + 1
            PROVE  /\ more[i].drive = (new - i) + 1
                   /\ session'.vehicles[more[i].id].drive = more[i].drive
        <5>1. /\ more[i] = logged[j] /\ logged[j].drive = (drives - j) + 1
              /\ logged[j].id \in Vehicles
              /\ session.vehicles[logged[j].id].drive = logged[j].drive
          BY <1>9, <2>3, <2>6, <4>2
        <5>2. (drives - j) + 1 = (new - i) + 1 /\ (drives - j) + 1 > 0
          <6> HIDE DEF drives
          <6>1. drives \in Nat /\ kept \in Nat /\ kept <= drives /\ i = j + 1
            BY <1>2, <2>4, <4>2
          <6> QED
            BY <6>1
        <5>3. logged[j].id # v
          BY <2>1, <5>1, <5>2
        <5> QED
          BY <1>6, <5>1, <5>2, <5>3
      <4> QED
        BY <2>5, <4>1, <4>2
    <3> QED
      BY <2>1, <3>1 DEF EntriesAreDrives, more
  <2>9. DrivesAreEntries(session')
    <3>1. ASSUME NEW u \in Vehicles, u # v
          PROVE  /\ session'.vehicles[u].state = "WRONG_WAY" => session'.vehicles[u].drive > 0
                 /\ session'.vehicles[u].drive <= new
                 /\ session'.vehicles[u].drive > new - Len(more) =>
                       \E i \in 1..Len(more) : more[i].id = u
      <4>1. session'.vehicles[u] = session.vehicles[u]
        BY <1>6, <3>1
      <4>2. /\ session.vehicles[u].state = "WRONG_WAY" => session.vehicles[u].drive > 0
            /\ session.vehicles[u].drive > drives - Len(logged) =>
                  \E j \in 1..Len(logged) : logged[j].id = u
        BY DEF ListOf, DrivesAreEntries
      <4>3. session.vehicles[u].drive \in Nat /\ session.vehicles[u].drive <= new
        BY <1>2, <1>8
      <4>4. ASSUME session.vehicles[u].drive > new - Len(more)
            PROVE  \E i \in 1..Len(more) : more[i].id = u
        <5>1. session.vehicles[u].drive > drives - kept
          BY <1>2, <2>3, <2>4, <4>3, <4>4
        <5>2. session.vehicles[u].drive > drives - Len(logged)
          BY <1>2, <2>4, <4>3, <5>1
        <5>3. PICK j \in 1..Len(logged) : logged[j].id = u
          BY <4>2, <5>2
        <5>4. session.vehicles[u].drive = (drives - j) + 1
          BY <1>9, <5>3
        <5>5. j \in 1..kept /\ j + 1 \in 1..Len(more)
          BY <1>2, <2>3, <2>4, <5>1, <5>4
        <5>6. more[j + 1].id = u
          BY <2>3, <5>3, <5>5
        <5> QED
          BY <5>5, <5>6
      <4> QED
        BY <4>1, <4>2, <4>3, <4>4
    <3>2. /\ session'.vehicles[v].drive = new /\ new > 0 /\ new <= new
          /\ 1 \in 1..Len(more) /\ more[1].id = v
      BY <1>2, <1>6, <2>1, <2>2, <2>3, <2>4
    <3> QED
      BY <2>1, <3>1, <3>2 DEF DrivesAreEntries, more
  <2> QED
    BY <1>3, <1>7, <2>7, <2>8, <2>9 DEF ListOf
<1> QED
  BY <1>10, <1>11

\* What the analysing thread leaves alone.
LEMMA AnalysisLeaves ==
    Analysis => UNCHANGED <<camera, direction, generation, rois, sources, replacing, page>>
  BY DEF Analysis, Look, LoadRois, OpenSource, NextFrame, Detect, FrameIsDone, EndOfFilm, Publish,
         InputFails,
         server, files, page

LEMMA AnalysisKeepsService ==
    ASSUME ServiceInv, Analysis
    PROVE  ServiceInv'
<1>1. /\ UNCHANGED <<camera, direction, generation, rois, sources, replacing>>
      /\ (Disturbed' <=> Disturbed) /\ Settings' = Settings
  BY AnalysisLeaves DEF Disturbed, Unlocked, Settings
<1>2. /\ ServiceTypes /\ LookIsCurrent /\ SessionIsCurrent /\ DrivesAreLogged
      /\ ViewIsOfTheSettings /\ DrivesAreShown
  BY DEF ServiceInv
<1>3. generation \in Nat /\ DOMAIN view = {"of", "tracks", "events", "picture", "error"}
  BY <1>2 DEF ServiceTypes
<1>4. ASSUME UNCHANGED view
      PROVE  ViewIsOfTheSettings' /\ DrivesAreShown'
  BY <1>1, <1>2, <1>4 DEF ViewIsOfTheSettings, DrivesAreShown
<1>5. CASE Look
  <2>1. UNCHANGED <<session, view>> /\ Unlocked
    BY <1>5 DEF Look, server
  <2>2. worker'.current = generation /\ worker'.camera = camera /\ worker'.direction = direction
    BY <1>5 DEF Look
  <2>3. /\ worker'.step \in {"load", "frame"}
        /\ worker'.step = "frame" => session # Nothing /\ session.generation = generation
    BY <1>5 DEF Look
  <2>4. worker' \in [step : WorkerSteps, current : Nat,
                     camera : Cameras, direction : Directions]
    BY <1>2, <1>5 DEF Look, ServiceTypes, WorkerSteps
  <2>5. HasSession' => HasSession
    BY <2>1, <2>3 DEF HasSession, Inside
  <2>6. ServiceTypes'
    BY <1>1, <1>2, <2>1, <2>2, <2>4, <2>5 DEF ServiceTypes
  <2>7. LookIsCurrent' /\ SessionIsCurrent' /\ DrivesAreLogged'
    BY <1>1, <1>2, <2>1, <2>2, <2>3, <2>5
       DEF LookIsCurrent, SessionIsCurrent, DrivesAreLogged, Inside
  <2> QED
    BY <1>4, <2>1, <2>6, <2>7 DEF ServiceInv
<1>6. CASE LoadRois
  <2>1. UNCHANGED view /\ worker' = [worker EXCEPT !.step = "open"]
    BY <1>6 DEF LoadRois, Goes, server
  <2>2. session' = [generation |-> worker.current, rois |-> rois[worker.camera].save,
                    source |-> sources[worker.camera],
                    vehicles |-> [v \in Vehicles |-> NewVehicle], tracks |-> {},
                    drives |-> 0, events |-> <<>>]
    BY <1>6 DEF LoadRois
  <2>3. /\ worker' \in [step : WorkerSteps, current : Nat,
                        camera : Cameras, direction : Directions]
        /\ worker'.current = worker.current /\ worker'.camera = worker.camera
        /\ worker'.direction = worker.direction /\ worker'.step = "open"
    BY <1>2, <2>1 DEF ServiceTypes, WorkerSteps
  <2>4. NewVehicle \in VehicleOf /\ NewVehicle.drive = 0 /\ NewVehicle.state = "NORMAL"
    BY DEF NewVehicle, VehicleOf, VehicleStates
  <2>5. ServiceTypes'
    <3>1. worker.current \in Nat /\ worker.current <= generation
      BY <1>2 DEF ServiceTypes
    <3>3. DOMAIN session' = SessionFields
      BY <2>2 DEF SessionFields
    <3>4. session'.generation = worker.current
      BY <2>2
    <3> QED
      BY <1>1, <1>2, <2>1, <2>3, <3>1, <3>3, <3>4 DEF ServiceTypes
  <2>6. LookIsCurrent' /\ SessionIsCurrent'
    BY <1>1, <1>2, <2>2, <2>3 DEF LookIsCurrent, SessionIsCurrent
  <2>7. DrivesAreLogged'
    <3>1. /\ session'.vehicles = [v \in Vehicles |-> NewVehicle] /\ session'.tracks = {}
          /\ session'.drives = 0 /\ session'.events = <<>>
      BY <2>2
    <3>2. ListTypesOf(session')
      BY <2>4, <3>1, VisionAssumption DEF ListTypesOf
    <3>3. EntriesAreDrives(session') /\ TracksAreVehicles(session')
      BY <3>1 DEF EntriesAreDrives, TracksAreVehicles
    <3>4. DrivesAreEntries(session')
      BY <2>4, <3>1 DEF DrivesAreEntries
    <3> QED
      BY <3>2, <3>3, <3>4 DEF DrivesAreLogged, ListOf
  <2> QED
    BY <1>4, <2>1, <2>5, <2>6, <2>7 DEF ServiceInv
<1>7. CASE OpenSource
  <2>1. UNCHANGED view /\ worker.step = "open" /\ worker' = [worker EXCEPT !.step = "frame"]
    BY <1>7 DEF OpenSource, Goes, server
  <2>2. session' = [session EXCEPT !.source = sources[worker.camera]]
    BY <1>7 DEF OpenSource
  <2>3. HasSession /\ session.generation = worker.current
    BY <1>2, <2>1 DEF HasSession, SessionIsCurrent, Inside
  <2>4. /\ DOMAIN session' = SessionFields
        /\ session'.generation = session.generation /\ session'.rois = session.rois
        /\ session'.vehicles = session.vehicles /\ session'.tracks = session.tracks
        /\ session'.drives = session.drives /\ session'.events = session.events
        /\ session'.source = sources[worker.camera]
    BY <1>2, <2>2, <2>3 DEF ServiceTypes, SessionFields
  <2>5. /\ worker' \in [step : WorkerSteps, current : Nat,
                        camera : Cameras, direction : Directions]
        /\ worker'.current = worker.current /\ worker'.camera = worker.camera
        /\ worker'.direction = worker.direction /\ worker'.step = "frame"
    BY <1>2, <2>1 DEF ServiceTypes, WorkerSteps
  <2>6. ServiceTypes'
    BY <1>1, <1>2, <2>1, <2>3, <2>4, <2>5 DEF ServiceTypes
  <2>7. LookIsCurrent' /\ SessionIsCurrent'
    BY <1>1, <1>2, <2>3, <2>4, <2>5 DEF LookIsCurrent, SessionIsCurrent
  <2>8. DrivesAreLogged'
    BY <1>2, <2>3, <2>4 DEF DrivesAreLogged, ListOf, ListTypesOf, EntriesAreDrives,
                            DrivesAreEntries, TracksAreVehicles
  <2> QED
    BY <1>4, <2>1, <2>6, <2>7, <2>8 DEF ServiceInv
<1>8. CASE NextFrame
  <2>1. UNCHANGED view /\ worker.step = "frame" /\ worker' = [worker EXCEPT !.step = "detect"]
    BY <1>8, SMTT(30) DEF NextFrame, Goes, server
  <2>2. session' = [session EXCEPT !.tracks = {}]
    BY <1>8 DEF NextFrame
  <2>3. HasSession /\ session.generation = worker.current
    BY <1>2, <2>1 DEF HasSession, SessionIsCurrent, Inside
  <2>4. /\ DOMAIN session' = SessionFields
        /\ session'.generation = session.generation /\ session'.rois = session.rois
        /\ session'.source = session.source
        /\ session'.vehicles = session.vehicles /\ session'.tracks = {}
        /\ session'.drives = session.drives /\ session'.events = session.events
    BY <1>2, <2>2, <2>3 DEF ServiceTypes, SessionFields
  <2>5. /\ worker' \in [step : WorkerSteps, current : Nat,
                        camera : Cameras, direction : Directions]
        /\ worker'.current = worker.current /\ worker'.camera = worker.camera
        /\ worker'.direction = worker.direction /\ worker'.step = "detect"
    BY <1>2, <2>1 DEF ServiceTypes, WorkerSteps
  <2>6. ServiceTypes'
    BY <1>1, <1>2, <2>1, <2>3, <2>4, <2>5 DEF ServiceTypes
  <2>7. LookIsCurrent' /\ SessionIsCurrent'
    BY <1>1, <1>2, <2>3, <2>4, <2>5 DEF LookIsCurrent, SessionIsCurrent
  <2>8. DrivesAreLogged'
    BY <1>2, <2>3, <2>4 DEF DrivesAreLogged, ListOf, ListTypesOf, EntriesAreDrives,
                            DrivesAreEntries, TracksAreVehicles
  <2> QED
    BY <1>4, <2>1, <2>6, <2>7, <2>8 DEF ServiceInv
<1>13. CASE Detect
  <2>1. UNCHANGED <<view, worker>> /\ worker.step = "detect"
    BY <1>13 DEF Detect, server
  <2>2. HasSession /\ session.generation = worker.current
    BY <1>2, <2>1 DEF HasSession, SessionIsCurrent, Inside
  <2>3. /\ ListOf(session') /\ DOMAIN session' = SessionFields
        /\ session'.generation = session.generation /\ session'.rois = session.rois
        /\ session'.source = session.source
    BY <1>2, <1>13, <2>2, DetectKeepsList DEF DrivesAreLogged, ServiceTypes
  <2>4. ServiceTypes'
    BY <1>1, <1>2, <2>1, <2>2, <2>3 DEF ServiceTypes
  <2>5. LookIsCurrent' /\ SessionIsCurrent' /\ DrivesAreLogged'
    BY <1>1, <1>2, <2>1, <2>2, <2>3 DEF LookIsCurrent, SessionIsCurrent, DrivesAreLogged
  <2> QED
    BY <1>4, <2>1, <2>4, <2>5 DEF ServiceInv
<1>14. CASE FrameIsDone
  <2>1. /\ UNCHANGED <<view, session>> /\ worker.step = "detect"
        /\ worker' = [worker EXCEPT !.step = "publish"]
    BY <1>14 DEF FrameIsDone, Goes, server
  <2>2. HasSession
    BY <2>1 DEF HasSession, Inside
  <2>3. /\ worker' \in [step : WorkerSteps, current : Nat,
                        camera : Cameras, direction : Directions]
        /\ worker'.current = worker.current /\ worker'.camera = worker.camera
        /\ worker'.direction = worker.direction /\ worker'.step = "publish"
    BY <1>2, <2>1 DEF ServiceTypes, WorkerSteps
  <2>4. ServiceTypes'
    BY <1>1, <1>2, <2>1, <2>2, <2>3 DEF ServiceTypes
  <2>5. LookIsCurrent' /\ SessionIsCurrent' /\ DrivesAreLogged'
    BY <1>1, <1>2, <2>1, <2>2, <2>3 DEF LookIsCurrent, SessionIsCurrent, DrivesAreLogged, Inside
  <2> QED
    BY <1>4, <2>1, <2>4, <2>5 DEF ServiceInv
<1>9. ASSUME session' \in {Nothing, session},
             worker' = [worker EXCEPT !.step = "top"],
             DOMAIN view' = {"of", "tracks", "events", "picture", "error"}
      PROVE  ServiceTypes' /\ LookIsCurrent' /\ SessionIsCurrent' /\ DrivesAreLogged'
  <2>1. /\ worker' \in [step : WorkerSteps, current : Nat,
                        camera : Cameras, direction : Directions]
        /\ worker'.current = worker.current /\ worker'.camera = worker.camera
        /\ worker'.direction = worker.direction /\ worker'.step = "top"
    BY <1>2, <1>9 DEF ServiceTypes, WorkerSteps
  <2>2. HasSession' => session' = session /\ HasSession
    BY <1>9, <2>1 DEF HasSession, Inside
  <2>3. ServiceTypes'
    BY <1>1, <1>2, <1>9, <2>1, <2>2 DEF ServiceTypes
  <2>4. LookIsCurrent' /\ SessionIsCurrent' /\ DrivesAreLogged'
    BY <1>1, <1>2, <2>1, <2>2 DEF LookIsCurrent, SessionIsCurrent, DrivesAreLogged, Inside
  <2> QED
    BY <2>3, <2>4
<1>10. CASE EndOfFilm
  BY <1>3, <1>4, <1>9, <1>10 DEF EndOfFilm, Goes, server, ServiceInv
<1>11. CASE InputFails
  <2>1. session' = Nothing /\ worker' = [worker EXCEPT !.step = "top"]
    BY <1>11 DEF InputFails, Goes
  <2>2. /\ view'.of = view.of /\ view'.tracks = view.tracks /\ view'.events = view.events
        /\ DOMAIN view' = {"of", "tracks", "events", "picture", "error"}
    BY <1>3, <1>11 DEF InputFails
  <2>3. ViewIsOfTheSettings' /\ DrivesAreShown'
    BY <1>1, <1>2, <2>2 DEF ViewIsOfTheSettings, DrivesAreShown
  <2> QED
    BY <1>9, <2>1, <2>2, <2>3 DEF ServiceInv
<1>12. CASE Publish
  <2>1. session' = session /\ worker' = [worker EXCEPT !.step = "top"]
    BY <1>12 DEF Publish, Goes
  <2>2. worker.step = "publish" /\ HasSession /\ session.generation = worker.current /\ ~Disturbed
    BY <1>2, <1>12 DEF Publish, HasSession, SessionIsCurrent, Inside, Disturbed
  <2>3. CASE worker.current # generation
    <3>1. view' = view
      BY <1>12, <2>3 DEF Publish
    <3> QED
      BY <1>3, <1>4, <1>9, <2>1, <3>1 DEF ServiceInv
  <2>4. CASE worker.current = generation
    <3>1. view' = [of |-> [camera |-> worker.camera, direction |-> worker.direction,
                           rois |-> session.rois, source |-> session.source.save],
                   tracks |-> session.tracks, picture |-> TRUE, error |-> FALSE,
                   events |-> session.events]
      BY <1>12, <2>4 DEF Publish
    <3>2. /\ DOMAIN view' = {"of", "tracks", "events", "picture", "error"}
          /\ view'.tracks = session.tracks
          /\ view'.events = session.events
          /\ view'.of = [camera |-> worker.camera, direction |-> worker.direction,
                         rois |-> session.rois, source |-> session.source.save]
      BY <3>1
    <3>3. view'.of = Settings
      BY <1>2, <2>2, <2>4, <3>2 DEF LookIsCurrent, SessionIsCurrent, Settings
    <3>4. ViewIsOfTheSettings'
      BY <1>1, <3>3 DEF ViewIsOfTheSettings
    <3>5. DrivesAreShown'
      BY <1>2, <2>2, <3>2, ListShows DEF DrivesAreLogged, DrivesAreShown
    <3> QED
      BY <1>9, <2>1, <3>2, <3>4, <3>5 DEF ServiceInv
  <2> QED
    BY <2>3, <2>4
<1> QED
  BY <1>5, <1>6, <1>7, <1>8, <1>10, <1>11, <1>12, <1>13, <1>14 DEF Analysis

\* The page changes the service through the requests any client makes.
LEMMA PageReachesService ==
    ASSUME ServiceInv, PageTypes, EditingPage
    PROVE  \/ UNCHANGED <<server, files, replacing, analysis>>
           \/ /\ \E c \in Cameras, d \in Directions : Settle(c, d)
              /\ UNCHANGED <<rois, sources, replacing, analysis>>
           \/ /\ \E c \in Cameras : \E of : ReplaceRois(c, of)
              /\ UNCHANGED <<server, sources, analysis>>
<1>1. CASE RestartArrives
  <2>1. post.camera \in Cameras
    BY <1>1 DEF RestartArrives, PageTypes
  <2> QED
    BY <1>1, <2>1 DEF RestartArrives, files, analysis, Directions
<1>2. CASE SaveArrives
  <2>1. editor.saving.camera \in Cameras
    BY <1>2 DEF SaveArrives, PageTypes
  <2> QED
    BY <1>2, <2>1 DEF SaveArrives, analysis
<1>3. CASE Poll \/ PollAnswered \/ PollFails \/ Restart \/ RestartAnswered
  BY <1>3 DEF Poll, PollAnswered, PollFails, Restart, RestartAnswered, analysis
<1>4. CASE EditRois \/ RoisLoaded \/ LoadDefaults \/ CloseEditor \/ SaveRois \/ SaveAnswered
  BY <1>4 DEF EditRois, RoisLoaded, LoadDefaults, CloseEditor, SaveRois, SaveAnswered, Edits,
              analysis
<1> QED
  BY <1>1, <1>2, <1>3, <1>4 DEF EditingPage

LEMMA VisionKeepsService ==
    ASSUME ServiceInv, PageTypes, [VisionNext]_visionVars
    PROVE  ServiceInv'
<1>1. ASSUME UNCHANGED <<server, files, replacing, analysis>>
      PROVE  ServiceInv'
  BY <1>1 DEF server, files, analysis, ServiceInv, ServiceTypes, LookIsCurrent, SessionIsCurrent,
              DrivesAreLogged, ViewIsOfTheSettings, DrivesAreShown, HasSession, Disturbed,
              Unlocked, Settings
<1>2. CASE PostSettings
  <2>1. PICK c \in Cameras, d \in Directions : Settle(c, d)
    BY <1>2 DEF PostSettings, Directions
  <2> QED
    BY <1>2, <2>1, SettlingKeepsService DEF PostSettings, files, analysis
<1>3. CASE PutSource
  BY <1>3, ReplacingKeepsService DEF PutSource, analysis
<1>4. CASE PutRois
  BY <1>4, ReplacingKeepsService DEF PutRois, analysis
<1>5. CASE EditingPage
  BY <1>1, <1>5, PageReachesService, SettlingKeepsService, ReplacingKeepsService
<1>6. CASE UNCHANGED visionVars
  BY <1>1, <1>6 DEF visionVars, server, files, analysis
<1> QED
  BY <1>2, <1>3, <1>4, <1>5, <1>6, TellingKeepsService, AnalysisKeepsService DEF VisionNext, Clients

\* The page is told which camera is selected: an open editor starts to load its ROIs.
LEMMA LearningKeepsEditor ==
    ASSUME EditorInv, NEW c \in Cameras, NEW frame, Learns(c, frame), UNCHANGED <<rois, unloaded>>,
           poll' \in {poll, Nothing}, post' \in {post, Nothing}
    PROVE  EditorInv'
<1>1. PageTypes /\ LoadsAreForThePage /\ RoisAreOfTheirCamera
  BY DEF EditorInv
<1>2. data'.camera = c
  BY DEF Learns
<1>3. CASE editor.open /\ c # data.camera
  <2>1. editor' = [editor EXCEPT !.loads = {c}, !.failed = FALSE]
    BY <1>3 DEF Learns
  <2>2. /\ DOMAIN editor' = {"open", "loads", "failed", "ready", "draft", "saving"}
        /\ editor'.loads = {c} /\ editor'.open = editor.open /\ editor'.ready = editor.ready
        /\ editor'.draft = editor.draft /\ editor'.saving = editor.saving
    BY <1>1, <2>1 DEF PageTypes
  <2>3. PageTypes'
    BY <1>1, <1>2, <2>2 DEF PageTypes
  <2>4. LoadsAreForThePage' /\ RoisAreOfTheirCamera'
    BY <1>1, <1>2, <1>3, <2>2 DEF LoadsAreForThePage, RoisAreOfTheirCamera, OwnRois
  <2> QED
    BY <2>3, <2>4 DEF EditorInv
<1>4. CASE ~(editor.open /\ c # data.camera)
  <2>1. editor' = editor
    BY <1>4 DEF Learns
  <2>2. PageTypes'
    BY <1>1, <1>2, <2>1 DEF PageTypes
  <2>3. LoadsAreForThePage' /\ RoisAreOfTheirCamera'
    BY <1>1, <1>2, <1>4, <2>1 DEF LoadsAreForThePage, RoisAreOfTheirCamera, OwnRois
  <2> QED
    BY <2>2, <2>3 DEF EditorInv
<1> QED
  BY <1>3, <1>4

\* What the editor itself does, with the files as they are.
LEMMA EditingKeepsEditor ==
    ASSUME EditorInv,
           EditRois \/ RoisLoaded \/ LoadDefaults \/ CloseEditor \/ SaveRois \/ SaveAnswered
    PROVE  EditorInv'
<1>1. PageTypes /\ LoadsAreForThePage /\ RoisAreOfTheirCamera
  BY DEF EditorInv
<1>2. UNCHANGED <<rois, data, poll, post>>
  BY DEF EditRois, RoisLoaded, LoadDefaults, CloseEditor, SaveRois, SaveAnswered, Edits, files
<1>3. DOMAIN editor = {"open", "loads", "failed", "ready", "draft", "saving"}
  BY <1>1 DEF PageTypes
<1>4. CASE EditRois
  <2>1. editor' = [Closed EXCEPT !.open = TRUE, !.loads = {data.camera}] /\ UNCHANGED unloaded
    BY <1>4 DEF EditRois, Edits
  <2>2. /\ DOMAIN editor' = {"open", "loads", "failed", "ready", "draft", "saving"}
        /\ editor'.open /\ editor'.loads = {data.camera} /\ ~editor'.ready
        /\ editor'.saving = Nothing
    BY <2>1 DEF Closed
  <2>3. PageTypes' /\ LoadsAreForThePage' /\ RoisAreOfTheirCamera'
    BY <1>1, <1>2, <2>1, <2>2 DEF PageTypes, LoadsAreForThePage, RoisAreOfTheirCamera, OwnRois
  <2> QED
    BY <2>3 DEF EditorInv
<1>5. CASE RoisLoaded
  <2>1. PICK c \in editor.loads :
          \/ editor' = [editor EXCEPT !.loads = @ \ {c}, !.draft = rois[c].of, !.ready = TRUE]
          \/ editor' = [editor EXCEPT !.loads = @ \ {c}, !.failed = TRUE]
    BY <1>5 DEF RoisLoaded, Edits
  <2>2. c = data.camera /\ editor.open /\ data.camera \in Cameras /\ UNCHANGED unloaded
    BY <1>1, <1>5, <2>1 DEF RoisLoaded, LoadsAreForThePage, PageTypes
  <2>3. /\ DOMAIN editor' = {"open", "loads", "failed", "ready", "draft", "saving"}
        /\ editor'.loads = editor.loads \ {c} /\ editor'.open = editor.open
        /\ editor'.saving = editor.saving
        /\ \/ editor'.failed = TRUE
           \/ editor'.draft = rois[c].of
    BY <1>3, <2>1
  <2>4. PageTypes' /\ LoadsAreForThePage'
    BY <1>1, <1>2, <2>2, <2>3 DEF PageTypes, LoadsAreForThePage
  <2>5. RoisAreOfTheirCamera'
    BY <1>1, <1>2, <2>2, <2>3 DEF RoisAreOfTheirCamera, OwnRois
  <2> QED
    BY <2>4, <2>5, SMTT(30) DEF EditorInv
<1>6. CASE LoadDefaults
  <2>1. editor' = [editor EXCEPT !.draft = "example"] /\ UNCHANGED unloaded
    BY <1>6 DEF LoadDefaults, Edits
  <2>2. /\ DOMAIN editor' = {"open", "loads", "failed", "ready", "draft", "saving"}
        /\ editor'.loads = editor.loads /\ editor'.open = editor.open
        /\ editor'.ready = editor.ready /\ editor'.failed = editor.failed
        /\ editor'.saving = editor.saving /\ editor'.draft = "example"
    BY <1>3, <2>1
  <2>3. PageTypes' /\ LoadsAreForThePage' /\ RoisAreOfTheirCamera'
    BY <1>1, <1>2, <2>1, <2>2 DEF PageTypes, LoadsAreForThePage, RoisAreOfTheirCamera, OwnRois
  <2> QED
    BY <2>3 DEF EditorInv
<1>7. ASSUME editor' = Closed, UNCHANGED unloaded
      PROVE  EditorInv'
  <2>1. /\ DOMAIN editor' = {"open", "loads", "failed", "ready", "draft", "saving"}
        /\ ~editor'.open /\ editor'.loads = {} /\ ~editor'.ready
        /\ editor'.saving = Nothing
    BY <1>7 DEF Closed
  <2>2. PageTypes' /\ LoadsAreForThePage' /\ RoisAreOfTheirCamera'
    BY <1>1, <1>2, <1>7, <2>1 DEF PageTypes, LoadsAreForThePage, RoisAreOfTheirCamera, OwnRois
  <2> QED
    BY <2>2 DEF EditorInv
<1>8. CASE CloseEditor
  BY <1>7, <1>8 DEF CloseEditor, Edits
<1>9. CASE SaveRois
  <2> DEFINE put == [camera |-> data.camera, of |-> editor.draft, step |-> "sent"]
  <2>1. /\ editor' = [editor EXCEPT !.saving = put] /\ editor.ready
        /\ unloaded' = (unloaded \/ editor.loads # {} \/ editor.failed)
    BY <1>9 DEF SaveRois, Edits
  <2>2. put.camera = data.camera /\ put.of = editor.draft /\ DOMAIN put = {"camera", "of", "step"}
    OBVIOUS
  <2> HIDE DEF put
  <2>3. /\ DOMAIN editor' = {"open", "loads", "failed", "ready", "draft", "saving"}
        /\ editor'.loads = editor.loads /\ editor'.open = editor.open
        /\ editor'.ready = editor.ready /\ editor'.failed = editor.failed
        /\ editor'.saving = put /\ editor'.draft = editor.draft
    BY <1>3, <2>1
  <2>4. PageTypes' /\ LoadsAreForThePage'
    BY <1>1, <1>2, <2>2, <2>3 DEF PageTypes, LoadsAreForThePage
  <2>5. RoisAreOfTheirCamera'
    BY <1>1, <1>2, <2>1, <2>2, <2>3 DEF RoisAreOfTheirCamera, OwnRois
  <2> QED
    BY <2>4, <2>5, SMTT(30) DEF EditorInv
<1>10. CASE SaveAnswered
  <2>1. CASE editor' = Closed
    BY <1>7, <1>10, <2>1 DEF SaveAnswered
  <2>2. CASE editor' = [editor EXCEPT !.saving = Nothing]
    <3>1. /\ DOMAIN editor' = {"open", "loads", "failed", "ready", "draft", "saving"}
          /\ editor'.loads = editor.loads /\ editor'.open = editor.open
          /\ editor'.ready = editor.ready /\ editor'.failed = editor.failed
          /\ editor'.saving = Nothing /\ editor'.draft = editor.draft
      BY <1>3, <2>2
    <3>2. UNCHANGED unloaded
      BY <1>10 DEF SaveAnswered
    <3>3. PageTypes' /\ LoadsAreForThePage' /\ RoisAreOfTheirCamera'
      BY <1>1, <1>2, <3>1, <3>2
         DEF PageTypes, LoadsAreForThePage, RoisAreOfTheirCamera, OwnRois
    <3> QED
      BY <3>3 DEF EditorInv
  <2> QED
    BY <1>10, <2>1, <2>2 DEF SaveAnswered, Edits
<1> QED
  BY <1>4, <1>5, <1>6, <1>8, <1>9, <1>10

\* ROIs that are put, by the page or by another client, belong to their camera.
LEMMA ReplacingKeepsRois ==
    ASSUME DOMAIN rois = Cameras, NEW c \in Cameras, NEW of, ReplaceRois(c, of)
    PROVE  \A d \in Cameras : rois'[d].of = IF d = c THEN of ELSE rois[d].of
  BY DEF ReplaceRois

LEMMA VisionKeepsEditor ==
    ASSUME ServiceInv, EditorInv, [VisionNext]_visionVars
    PROVE  EditorInv'
<1>1. /\ PageTypes /\ LoadsAreForThePage /\ RoisAreOfTheirCamera
      /\ DOMAIN rois = Cameras /\ camera \in Cameras
  BY DEF EditorInv, ServiceInv, ServiceTypes
<1>2. ASSUME UNCHANGED <<rois, page>>
      PROVE  EditorInv'
  BY <1>1, <1>2 DEF page, EditorInv, PageTypes, LoadsAreForThePage, RoisAreOfTheirCamera, OwnRois
<1>3. CASE PostSettings \/ PutSource \/ TellAnalysis
  BY <1>2, <1>3 DEF PostSettings, PutSource, TellAnalysis, files
<1>4. CASE Analysis
  BY <1>2, <1>4, AnalysisLeaves
<1>5. CASE UNCHANGED visionVars
  BY <1>2, <1>5 DEF visionVars, page
<1>6. CASE PutRois
  <2>1. PICK c \in Cameras : ReplaceRois(c, c)
    BY <1>6 DEF PutRois
  <2>2. UNCHANGED <<data, poll, post, editor, unloaded>>
    BY <1>6 DEF PutRois, page
  <2>3. \A d \in Cameras : rois'[d].of = IF d = c THEN c ELSE rois[d].of
    BY <1>1, <2>1, ReplacingKeepsRois
  <2> QED
    BY <1>1, <2>2, <2>3 DEF EditorInv, PageTypes, LoadsAreForThePage, RoisAreOfTheirCamera, OwnRois
<1>7. CASE SaveArrives
  <2>1. /\ editor.saving # Nothing /\ ReplaceRois(editor.saving.camera, editor.saving.of)
        /\ editor' = [editor EXCEPT !.saving = [editor.saving EXCEPT !.step = "done"]]
        /\ UNCHANGED <<data, poll, post, unloaded>>
    BY <1>7 DEF SaveArrives
  <2>2. editor.saving.camera \in Cameras /\ DOMAIN editor.saving = {"camera", "of", "step"}
    BY <1>1, <2>1 DEF PageTypes
  <2>3. \A d \in Cameras :
          rois'[d].of = IF d = editor.saving.camera THEN editor.saving.of ELSE rois[d].of
    BY <1>1, <2>1, <2>2, ReplacingKeepsRois
  <2>4. /\ DOMAIN editor' = {"open", "loads", "failed", "ready", "draft", "saving"}
        /\ editor'.loads = editor.loads /\ editor'.open = editor.open
        /\ editor'.ready = editor.ready /\ editor'.failed = editor.failed
        /\ editor'.draft = editor.draft
        /\ editor'.saving.camera = editor.saving.camera /\ editor'.saving.of = editor.saving.of
        /\ DOMAIN editor'.saving = {"camera", "of", "step"}
    BY <1>1, <2>1, <2>2 DEF PageTypes
  <2>5. PageTypes' /\ LoadsAreForThePage'
    BY <1>1, <2>1, <2>2, <2>4 DEF PageTypes, LoadsAreForThePage
  <2>6. RoisAreOfTheirCamera'
    BY <1>1, <2>1, <2>2, <2>3, <2>4 DEF RoisAreOfTheirCamera, OwnRois
  <2> QED
    BY <2>5, <2>6 DEF EditorInv
<1>8. CASE Poll
  <2>1. UNCHANGED <<rois, data, post, editor, unloaded>> /\ poll'.camera = camera
    BY <1>8 DEF Poll, files
  <2> QED
    BY <1>1, <2>1 DEF EditorInv, PageTypes, LoadsAreForThePage, RoisAreOfTheirCamera, OwnRois
<1>9. CASE PollFails
  BY <1>1, <1>9 DEF PollFails, files, EditorInv, PageTypes, LoadsAreForThePage,
                    RoisAreOfTheirCamera, OwnRois
<1>10. CASE PollAnswered
  BY <1>1, <1>10, LearningKeepsEditor DEF PollAnswered, files, PageTypes
<1>11. CASE Restart
  <2>1. UNCHANGED <<rois, data, poll, editor, unloaded>>
    BY <1>11 DEF Restart, files
  <2>2. post'.camera \in Cameras /\ DOMAIN post' = {"camera", "step"}
    BY <1>1, <1>11 DEF Restart, PageTypes
  <2> QED
    BY <1>1, <2>1, <2>2
       DEF EditorInv, PageTypes, LoadsAreForThePage, RoisAreOfTheirCamera, OwnRois
<1>12. CASE RestartArrives
  <2>1. UNCHANGED <<rois, data, poll, editor, unloaded>> /\ post # Nothing
    BY <1>12 DEF RestartArrives, files
  <2>2. post'.camera \in Cameras /\ DOMAIN post' = {"camera", "step"}
    BY <1>1, <1>12 DEF RestartArrives, PageTypes
  <2> QED
    BY <1>1, <2>1, <2>2
       DEF EditorInv, PageTypes, LoadsAreForThePage, RoisAreOfTheirCamera, OwnRois
<1>13. CASE RestartAnswered
  <2>1. UNCHANGED <<rois, poll, unloaded>> /\ post' = Nothing /\ post.camera \in Cameras
    BY <1>1, <1>13 DEF RestartAnswered, files, PageTypes
  <2>2. CASE Learns(post.camera, FALSE)
    BY <2>1, <2>2, LearningKeepsEditor
  <2>3. CASE UNCHANGED <<data, editor>>
    BY <1>1, <2>1, <2>3
       DEF EditorInv, PageTypes, LoadsAreForThePage, RoisAreOfTheirCamera, OwnRois
  <2> QED
    BY <1>13, <2>2, <2>3 DEF RestartAnswered
<1> QED
  BY <1>3, <1>4, <1>5, <1>6, <1>7, <1>8, <1>9, <1>10, <1>11, <1>12, <1>13, EditingKeepsEditor
     DEF VisionNext, Clients, EditingPage

\* Whatever settings, files and cameras change while the analysis runs and an editor is
\* open, for any vehicles and any length of the list: the service shows what was found with its
\* settings, lists each drive once and those it shows unless later ones fill the list, and
\* keeps the ROIs of a camera for it (run, WrongWayDetector.update, camera_rois).
THEOREM ServiceShowsWhatIsSet == VisionSpec => []VisionShowsWhatIsSet
<1>1. VisionInv => VisionShowsWhatIsSet
  BY DEF VisionInv, ServiceInv, EditorInv, ViewIsOfTheSettings, DrivesAreShown, Shows,
         RoisAreOfTheirCamera, OwnRois, Disturbed, VisionShowsWhatIsSet
<1>2. VisionInv /\ [VisionNext]_visionVars => VisionInv'
  BY VisionKeepsService, VisionKeepsEditor DEF VisionInv, EditorInv
<1> QED
  BY <1>1, <1>2, VisionStarts, PTL DEF VisionSpec

-----------------------------------------------------------------------------
(* The lists.                                                              *)

Loads == [id : Nat, query : Queries, corrected : BOOLEAN]

ListTypes ==
    /\ kind \in {"users"} \cup Aborts
    /\ shown \in Queries
    /\ typed \in Filters
    /\ latest \in Nat
    /\ loads \subseteq Loads
    /\ decision \in Queries \cup {NoQuery}
    /\ lastPage \in 1..MaxPage

\* The pages that abort have no request but the last.
LatestIsLast ==
    \A load \in loads : load.id <= latest /\ (kind \in Aborts => load.id = latest)

\* What the last request asks for is what the controls say; the settings page may have
\* corrected its page number since.
LatestIsShown ==
    ~crossed => \A load \in loads :
        load.id = latest => /\ load.query.filter = shown.filter
                            /\ kind # "users" => load.query = shown

\* A list that is not the one asked for is still awaited.
ListIsAwaited == crossed \/ failed \/ rows = shown \/ \E load \in loads : load.id = latest

ListInv == ListTypes /\ LatestIsLast /\ LatestIsShown /\ ListIsAwaited

LEMMA ListStarts == ListInit => ListInv
<1> SUFFICES ASSUME ListInit PROVE ListInv
  OBVIOUS
<1>1. shown \in Queries /\ typed \in Filters
  BY ListingAssumption DEF ListInit, First, Queries
<1>2. loads \subseteq Loads
  BY <1>1 DEF ListInit, Loads
<1> QED
  BY <1>1, <1>2 DEF ListInit, ListInv, ListTypes, LatestIsLast, LatestIsShown, ListIsAwaited

\* What a new request leaves to be shown is known from the query it asks for.
LEMMA LoadKeepsList ==
    ASSUME ListInv, NEW wanted \in Queries, Load(wanted), UNCHANGED <<kind, lastPage>>,
           shown' \in Queries, typed' \in Filters, decision' \in Queries \cup {NoQuery}
    PROVE  ListInv'
<1> DEFINE new == [id |-> latest + 1, query |-> wanted, corrected |-> FALSE]
<1>1. /\ latest \in Nat /\ loads \subseteq Loads
      /\ \A load \in loads : load.id \in Nat /\ load.id <= latest
  BY DEF ListInv, ListTypes, LatestIsLast, Loads
<1>2. new \in Loads
  BY <1>1 DEF Loads
<1>3. ListTypes'
  <2>1. loads' \subseteq Loads
    BY <1>1, <1>2 DEF Load
  <2>2. latest' \in Nat
    BY <1>1 DEF Load
  <2> QED
    BY <2>1, <2>2 DEF ListInv, ListTypes
<1>4. /\ latest' = latest + 1 /\ crossed' = (wanted # shown')
      /\ \A load \in loads' : load = new \/ (load \in loads /\ kind \notin Aborts)
      /\ new \in loads' /\ new.id = latest' /\ new.query = wanted
  BY DEF Load
<1>5. LatestIsLast'
  BY <1>1, <1>4 DEF LatestIsLast, ListInv
<1>6. \A load \in loads' : load.id = latest' => load = new
  BY <1>1, <1>4
<1>7. LatestIsShown'
  BY <1>4, <1>6 DEF LatestIsShown
<1>8. ListIsAwaited'
  BY <1>4 DEF ListIsAwaited
<1> QED
  BY <1>3, <1>5, <1>7, <1>8 DEF ListInv

LEMMA ListAsked ==
    ASSUME ListInv, NEW wanted \in Queries, Asked(wanted), typed' \in Filters
    PROVE  ListInv'
BY LoadKeepsList DEF Asked, ListInv, ListTypes

LEMMA OtherQueries ==
    ASSUME ListInv
    PROVE  /\ \A f \in Filters : First(f) \in Queries
           /\ \A p \in 1..MaxPage : [shown EXCEPT !.page = p] \in Queries
BY ListingAssumption DEF ListInv, ListTypes, First, Queries

LEMMA UsersAnsweredKeepsList ==
    ASSUME ListInv, NEW load \in loads, UsersAnswered(load) PROVE ListInv'
<1>1. /\ load \in Loads /\ load.query \in Queries /\ lastPage \in 1..MaxPage
      /\ kind = "users" /\ shown \in Queries
      /\ UNCHANGED <<kind, typed, latest, decision, modal, crossed, lastPage>>
  BY DEF ListInv, ListTypes, Loads, UsersAnswered
<1>2. CASE load.id # latest
  <2>1. loads' = loads \ {load} /\ UNCHANGED <<shown, rows, failed>>
    BY <1>2 DEF UsersAnswered
  <2> QED
    BY <1>1, <1>2, <2>1
       DEF ListInv, ListTypes, LatestIsLast, LatestIsShown, ListIsAwaited
<1>3. CASE load.id = latest /\ load.query.page > lastPage /\ ~load.corrected
  <2> DEFINE again == [load EXCEPT !.query.page = lastPage, !.corrected = TRUE]
  <2>1. loads' = (loads \ {load}) \cup {again} /\ UNCHANGED <<shown, rows, failed>>
    BY <1>3 DEF UsersAnswered
  <2>2. /\ again \in Loads /\ again.id = load.id
        /\ again.query.filter = load.query.filter
    BY <1>1 DEF Loads, Queries
  <2>3. ListTypes'
    BY <1>1, <2>1, <2>2 DEF ListInv, ListTypes
  <2>4. LatestIsLast' /\ LatestIsShown' /\ ListIsAwaited'
    BY <1>1, <1>3, <2>1, <2>2, Zenon
       DEF ListInv, LatestIsLast, LatestIsShown, ListIsAwaited, Aborts
  <2> QED
    BY <2>3, <2>4 DEF ListInv
<1>4. CASE load.id = latest /\ load.query.page > lastPage /\ load.corrected
  <2>1. loads' = loads \ {load} /\ failed' = TRUE /\ UNCHANGED <<shown, rows>>
    BY <1>4 DEF UsersAnswered
  <2> QED
    BY <1>1, <2>1 DEF ListInv, ListTypes, LatestIsLast, LatestIsShown, ListIsAwaited
<1>5. CASE load.id = latest /\ ~(load.query.page > lastPage)
  <2>1. /\ loads' = loads \ {load} /\ rows' = load.query
        /\ shown' = [shown EXCEPT !.page = load.query.page]
        /\ UNCHANGED failed
    BY <1>5 DEF UsersAnswered
  <2>2. shown' \in Queries /\ shown'.filter = shown.filter /\ shown'.page = load.query.page
    BY <1>1, <2>1 DEF Queries
  <2>3. ListTypes' /\ LatestIsLast' /\ LatestIsShown'
    BY <1>1, <2>1, <2>2 DEF ListInv, ListTypes, LatestIsLast, LatestIsShown
  <2>4. ~crossed => load.query.filter = shown'.filter
    BY <1>5, <2>2 DEF ListInv, LatestIsShown
  <2>5. ~crossed => rows' = shown'
    BY <1>1, <2>1, <2>2, <2>4 DEF Queries
  <2> QED
    BY <1>1, <2>3, <2>5 DEF ListInv, ListIsAwaited
<1> QED
  BY <1>2, <1>3, <1>4, <1>5 DEF UsersAnswered

LEMMA ListStep == ListInv /\ [ListNext]_listVars => ListInv'
<1> SUFFICES ASSUME ListInv, [ListNext]_listVars PROVE ListInv'
  OBVIOUS
<1> USE OtherQueries
<1>1. CASE ChangeUserStatusFilter \/ ChangeSignupStatus
  BY <1>1, ListAsked DEF ChangeUserStatusFilter, ChangeSignupStatus
<1>2. CASE ChangeUserPage \/ ChangeSignupPage \/ ChangeEventPage
  BY <1>2, ListAsked
     DEF ChangeUserPage, ChangeSignupPage, ChangeEventPage, ListInv, ListTypes
<1>3. CASE \/ OpenCreateModal \/ CloseCreateModal \/ CreateUser \/ DecideOnUser
           \/ EscapeModal \/ DecideOnSignup \/ DecisionFails
  <2>1. /\ UNCHANGED <<kind, shown, typed, rows, failed, latest, loads, crossed, lastPage>>
        /\ decision' \in {decision, shown, NoQuery}
    BY <1>3 DEF OpenCreateModal, CloseCreateModal, CreateUser, DecideOnUser, Decides,
                EscapeModal, DecideOnSignup, DecisionFails
  <2> QED
    BY <2>1 DEF ListInv, ListTypes, LatestIsLast, LatestIsShown, ListIsAwaited
<1>4. CASE ReloadAfterDecision
  <2>1. /\ decision \in Queries /\ decision' = NoQuery
        /\ UNCHANGED <<kind, shown, typed, rows, lastPage>> /\ Load(decision)
    BY <1>4 DEF ReloadAfterDecision, ListInv, ListTypes
  <2> QED
    BY <2>1, LoadKeepsList DEF ListInv, ListTypes
<1>5. CASE TypeSearch \/ ListGrowsOrShrinks
  <2>1. /\ UNCHANGED <<kind, shown, rows, failed, latest, loads, decision, crossed>>
        /\ typed' \in Filters /\ lastPage' \in 1..MaxPage
    BY <1>5 DEF TypeSearch, ListGrowsOrShrinks, ListInv, ListTypes
  <2> QED
    BY <2>1 DEF ListInv, ListTypes, LatestIsLast, LatestIsShown, ListIsAwaited
<1>6. CASE Debounced
  BY <1>6, ListAsked DEF Debounced, ListInv, ListTypes
<1>7. CASE ChangePeriod
  <2>1. PICK f \in Filters : shown' = First(f) /\ Load(First(f)) /\ typed' = f
    BY <1>7 DEF ChangePeriod
  <2> QED
    BY <1>7, <2>1, LoadKeepsList DEF ChangePeriod, ListInv, ListTypes
<1>8. ASSUME NEW load \in loads, UsersAnswered(load) PROVE ListInv'
  BY <1>8, UsersAnsweredKeepsList
<1>9. ASSUME NEW load \in loads, Answered(load) PROVE ListInv'
  BY <1>9 DEF Answered, Aborts, ListInv, ListTypes, LatestIsLast, LatestIsShown, ListIsAwaited
<1>10. ASSUME NEW load \in loads, LoadFails(load) PROVE ListInv'
  BY <1>10 DEF LoadFails, ListInv, ListTypes, LatestIsLast, LatestIsShown, ListIsAwaited
<1>11. CASE UNCHANGED listVars
  BY <1>11 DEF listVars, ListInv, ListTypes, LatestIsLast, LatestIsShown, ListIsAwaited
<1> QED
  BY <1>1, <1>2, <1>3, <1>4, <1>5, <1>6, <1>7, <1>8, <1>9, <1>10, <1>11 DEF ListNext

\* Each page that lists something shows the list its controls ask for.
LEMMA ListsAreThoseAskedFor == ListSpec => []ListIsTheOneAskedFor
<1>1. ListInv => ListIsTheOneAskedFor
  BY DEF ListInv, ListIsAwaited, ListIsTheOneAskedFor
<1> QED
  BY <1>1, ListStarts, ListStep, PTL DEF ListSpec

-----------------------------------------------------------------------------
(* The details of an event.                                                *)

\* Only the event selected has its details requested, and while they are there are none.
DetailInv ==
    /\ detailLoads \subseteq {Selected}
    /\ detailLoads # {} => detail = NoEvent /\ ~rawOpen
    /\ detailLoading \in BOOLEAN /\ rawOpen \in BOOLEAN
    /\ DetailIsOfTheEventSelected

LEMMA DetailStarts == EventPageInit => DetailInv
<1> SUFFICES ASSUME EventPageInit PROVE DetailInv
  OBVIOUS
<1>1. /\ detail = NoEvent /\ detailLoads = {} /\ detailLoading = FALSE /\ rawOpen = FALSE
      /\ items = <<>> /\ selectedId = NoEvent
  BY DEF EventPageInit
<1>2. Selected \in {selectedId, NoEvent}
  BY <1>1, Zenon DEF Selected, SelectedOf
<1> QED
  BY <1>1, <1>2 DEF DetailInv, DetailIsOfTheEventSelected

LEMMA DetailStep == DetailInv /\ [EventPageNext]_eventPageVars => DetailInv'
<1> SUFFICES ASSUME DetailInv, [EventPageNext]_eventPageVars PROVE DetailInv'
  OBVIOUS
<1> USE DEF DetailInv, DetailIsOfTheEventSelected
<1>1. ASSUME NEW listed, NEW id, ShowsSelected(listed, id) PROVE DetailInv'
  <2> DEFINE selected == SelectedOf(listed, id)
  <2>1. Selected' = selected
    BY <1>1, Zenon DEF ShowsSelected, Selected, SelectedOf
  <2>2. \/ selected = Selected /\ UNCHANGED <<detail, detailLoads, detailLoading, rawOpen>>
        \/ /\ selected # Selected /\ selected = NoEvent
           /\ detail' = NoEvent /\ detailLoads' = {} /\ UNCHANGED <<detailLoading, rawOpen>>
        \/ /\ selected # Selected /\ selected # NoEvent
           /\ detail' = NoEvent /\ detailLoads' = {selected}
           /\ detailLoading' = TRUE /\ rawOpen' = FALSE
    BY <1>1 DEF ShowsSelected, LoadsOf
  <2> HIDE DEF selected
  <2>3. CASE selected = Selected /\ UNCHANGED <<detail, detailLoads, detailLoading, rawOpen>>
    BY <2>1, <2>3
  <2>4. CASE /\ selected = NoEvent /\ detail' = NoEvent /\ detailLoads' = {}
             /\ UNCHANGED <<detailLoading, rawOpen>>
    BY <2>1, <2>4
  <2>5. CASE /\ detail' = NoEvent /\ detailLoads' = {selected}
             /\ detailLoading' = TRUE /\ rawOpen' = FALSE
    BY <2>1, <2>5
  <2> QED
    BY <2>2, <2>3, <2>4, <2>5
<1>2. CASE UNCHANGED <<items, selectedId>>
  <2>1. Selected' = Selected
    BY <1>2, Zenon DEF Selected, SelectedOf
  <2>2. CASE UNCHANGED <<detail, detailLoads, detailLoading, rawOpen>>
    BY <2>1, <2>2
  <2>3. CASE DetailLoaded
    BY <2>1, <2>3 DEF DetailLoaded
  <2>4. CASE RawPayload
    BY <2>1, <2>4 DEF RawPayload
  <2>5. CASE SelectEvent \/ EventsLoaded
    BY <2>5, <1>1 DEF SelectEvent, EventsLoaded
  <2> QED
    BY <2>2, <2>3, <2>4, <2>5 DEF EventPageNext, AskEvents, EventsFail, eventPageVars
<1> QED
  BY <1>1, <1>2 DEF EventPageNext, AskEvents, EventsLoaded, EventsFail, SelectEvent, DetailLoaded,
                    RawPayload, eventPageVars

\* The details are those of the event selected.
LEMMA DetailsAreOfTheEventSelected == EventPageSpec => []DetailIsOfTheEventSelected
<1>1. DetailInv => DetailIsOfTheEventSelected
  BY DEF DetailInv
<1> QED
  BY <1>1, DetailStarts, DetailStep, PTL DEF EventPageSpec

-----------------------------------------------------------------------------
(* The chart.                                                              *)

SeriesTypes(c) == c.length \in Nat /\ c.lastPast \in Int

\* Only the present choice is awaited, and the window is moved by dragging only.
ChartInv ==
    /\ DOMAIN choice = {"period", "zone", "start", "end"}
    /\ choice.period \in Periods /\ choice.start \in Nat /\ choice.end \in Nat
    /\ SeriesTypes(chart)
    /\ chart.of \cup summarised \cup statisticsLoads \subseteq {choice}
    /\ 0 \in {choice.start, choice.end} \/ choice.start <= choice.end
    /\ dragged \in BOOLEAN
    /\ ~dragged => windowStart = DefaultStart(chart, choice.period)
    /\ windowStart \in Nat
    /\ drag \in Int

LEMMA Windows ==
    ASSUME NEW c, NEW period \in Periods, SeriesTypes(c)
    PROVE  /\ WindowSize(period, c.unit) \in Nat \ {0}
           /\ SeriesShown(c, period).length \in Nat
           /\ MaxStart(c, period) \in Nat
           /\ DefaultStart(c, period) \in 0..MaxStart(c, period)
<1>1. WindowSize(period, c.unit) \in Nat \ {0}
  <2>1. CustomWindowSize(c.unit) \in Nat \ {0}
    BY DEF CustomWindowSize
  <2> QED
    BY <2>1 DEF WindowSize, Periods
<1>2. SeriesShown(c, period).length \in Nat /\ SeriesShown(c, period).lastPast \in Int
  BY DEF SeriesShown, SeriesTypes, SampleLength, Periods
<1>3. MaxStart(c, period) \in Nat
  BY <1>1, <1>2 DEF MaxStart, AtLeast
<1> QED
  BY <1>1, <1>2, <1>3 DEF DefaultStart, AtMost, AtLeast, SeriesTypes

LEMMA ChartStarts == ChartInit => ChartInv
<1> SUFFICES ASSUME ChartInit PROVE ChartInv
  OBVIOUS
<1>1. SeriesTypes(NoSeries) /\ "daily" \in Periods
  BY DEF SeriesTypes, NoSeries, Periods
<1>2. DefaultStart(NoSeries, "daily") \in Nat
  BY <1>1, Windows
<1>3. /\ choice = [period |-> "daily", zone |-> AllZones, start |-> 1, end |-> 2]
      /\ statisticsLoads = {choice} /\ chart = NoSeries /\ summarised = {} /\ dragged = FALSE
      /\ windowStart = DefaultStart(NoSeries, "daily") /\ drag = -1
  BY DEF ChartInit
<1>4. NoSeries.of = {}
  BY DEF NoSeries
<1>5. /\ DOMAIN choice = {"period", "zone", "start", "end"} /\ choice.period = "daily"
      /\ choice.start = 1 /\ choice.end = 2
  BY <1>3
<1>6. drag \in Int
  BY <1>3
<1>7. choice.start \in Nat /\ choice.end \in Nat /\ choice.start <= choice.end
  BY <1>5
<1>8. chart.of \cup summarised \cup statisticsLoads \subseteq {choice}
  BY <1>3, <1>4
<1> QED
  BY <1>1, <1>2, <1>3, <1>5, <1>6, <1>7, <1>8, Zenon DEF ChartInv

\* The window is not left where it was unless that is where it goes by itself.
LEMMA WindowIsAtDefault ==
    ASSUME NEW S, IsFiniteSet(S), NEW same, NEW last \in Nat, WindowAfter(S, same, last),
           ~dragged => windowStart \in S, last \in S,
           windowStart \in Nat, drag \in Int, dragged \in BOOLEAN
    PROVE  /\ ~dragged' => windowStart' = last
           /\ windowStart' \in Nat /\ drag' \in Int /\ dragged' \in BOOLEAN
<1>1. CASE same /\ Cardinality(S) = 1 /\ UNCHANGED <<windowStart, drag, dragged>>
  <2>1. PICK x : S = {x}
    BY <1>1, FS_Singleton
  <2> QED
    BY <1>1, <2>1
<1>2. CASE windowStart' = last /\ drag' = -1 /\ dragged' = FALSE
  <2>1. drag' \in Int
    BY <1>2
  <2> QED
    BY <1>2, <2>1, Zenon
<1> QED
  BY <1>1, <1>2 DEF WindowAfter

LEMMA ChooseKeepsChart ==
    ASSUME ChartInv, NEW c, Choose(c),
           DOMAIN c = {"period", "zone", "start", "end"}, c.period \in Periods,
           c.start \in Nat, c.end \in Nat, 0 \in {c.start, c.end} \/ c.start <= c.end
    PROVE  ChartInv'
<1> DEFINE last == DefaultStart(NoSeries, c.period)
           defaults == {DefaultStart(chart, choice.period), DefaultStart(chart, c.period), last}
<1>1. SeriesTypes(NoSeries)
  BY DEF SeriesTypes, NoSeries
<1>2. last \in Nat
  BY <1>1, Windows
<1>3. IsFiniteSet(defaults)
  <2> DEFINE S1 == {DefaultStart(chart, choice.period)}
             S2 == S1 \cup {DefaultStart(chart, c.period)}
  <2> HIDE DEF last
  <2>1. IsFiniteSet(S1)
    BY FS_Singleton
  <2>2. IsFiniteSet(S2)
    BY <2>1, FS_AddElement
  <2>3. IsFiniteSet(S2 \cup {last})
    BY <2>2, FS_AddElement
  <2>4. defaults = S2 \cup {last}
    OBVIOUS
  <2> QED
    BY <2>3, <2>4
<1>4. /\ choice' = c /\ statisticsLoads' = {c} /\ chart' = NoSeries /\ summarised' = {}
      /\ WindowAfter(defaults, <<c.start, c.end>> = <<choice.start, choice.end>>
                                 /\ chart.unit = "hour", last)
  BY DEF Choose, Awaited
<1>5. ~dragged => windowStart \in defaults
  BY DEF ChartInv
<1>6. last \in defaults
  OBVIOUS
<1> HIDE DEF last, defaults
<1>7. windowStart \in Nat /\ drag \in Int /\ dragged \in BOOLEAN
  BY DEF ChartInv
<1>8. /\ ~dragged' => windowStart' = last
      /\ windowStart' \in Nat /\ drag' \in Int /\ dragged' \in BOOLEAN
  BY <1>2, <1>3, <1>4, <1>5, <1>6, <1>7, WindowIsAtDefault
<1>9. last = DefaultStart(chart', choice'.period)
  BY <1>4 DEF last
<1>10. NoSeries.of = {}
  BY DEF NoSeries
<1> QED
  BY <1>1, <1>4, <1>8, <1>9, <1>10, Zenon DEF ChartInv

LEMMA AnsweredKeepsChart == ASSUME ChartInv, StatisticsAnswered PROVE ChartInv'
<1> DEFINE old == DefaultStart(chart, choice.period)
           last == DefaultStart(chart', choice.period)
<1>1. PICK c \in statisticsLoads : \E s \in SeriesOf[choice.period] :
        /\ statisticsLoads' = statisticsLoads \ {c}
        /\ chart' = [of |-> {c}, length |-> s.length, lastPast |-> s.lastPast, unit |-> s.unit]
        /\ summarised' = {c}
  BY DEF StatisticsAnswered
<1>2. PICK s \in SeriesOf[choice.period] :
        /\ statisticsLoads' = statisticsLoads \ {c}
        /\ chart' = [of |-> {c}, length |-> s.length, lastPast |-> s.lastPast, unit |-> s.unit]
        /\ summarised' = {c}
  BY <1>1
<1>3. SeriesTypes(chart') /\ chart'.of = {c}
  BY <1>2, ChartAssumption DEF ChartInv, SeriesTypes
<1>4. last \in Nat
  BY <1>3, Windows DEF ChartInv
<1>5. IsFiniteSet({old, last})
  <2> HIDE DEF old, last
  <2>1. IsFiniteSet({old})
    BY FS_Singleton
  <2>2. IsFiniteSet({old} \cup {last})
    BY <2>1, FS_AddElement
  <2>3. {old, last} = {old} \cup {last}
    OBVIOUS
  <2> QED
    BY <2>2, <2>3
<1>6. WindowAfter({old, last}, chart'.unit = chart.unit, last) /\ choice' = choice
  BY DEF StatisticsAnswered
<1>7. /\ ~dragged => windowStart = old
      /\ windowStart \in Nat /\ drag \in Int /\ dragged \in BOOLEAN
  BY DEF ChartInv
<1>8. /\ ~dragged' => windowStart' = last
      /\ windowStart' \in Nat /\ drag' \in Int /\ dragged' \in BOOLEAN
  <2> HIDE DEF old, last
  <2> QED
    BY <1>4, <1>5, <1>6, <1>7, WindowIsAtDefault
<1>9. last = DefaultStart(chart', choice'.period)
  BY <1>6
<1> HIDE DEF last, old
<1> QED
  BY <1>1, <1>3, <1>6, <1>8, <1>9 DEF ChartInv

LEMMA ChartStep == ChartInv /\ [ChartNext]_chartVars => ChartInv'
<1> SUFFICES ASSUME ChartInv, [ChartNext]_chartVars PROVE ChartInv'
  OBVIOUS
<1>1. CASE ChoosePeriod
  BY <1>1, ChooseKeepsChart DEF ChoosePeriod, ChartInv
<1>2. CASE ChooseZone
  BY <1>2, ChooseKeepsChart DEF ChooseZone, ChartInv
<1>3. CASE ChangeRange
  <2>1. PICK date \in Dates :
          \/ Choose([choice EXCEPT !.start = date,
                         !.end = IF date > @ /\ @ # 0 THEN date ELSE @])
          \/ Choose([choice EXCEPT !.start = IF date # 0 /\ date < @ THEN date ELSE @,
                         !.end = date])
    BY <1>3 DEF ChangeRange
  <2>2. date \in Nat
    BY ChartAssumption
  <2> DEFINE from == [choice EXCEPT !.start = date,
                         !.end = IF date > @ /\ @ # 0 THEN date ELSE @]
             to == [choice EXCEPT !.start = IF date # 0 /\ date < @ THEN date ELSE @,
                         !.end = date]
  <2>3. /\ DOMAIN from = {"period", "zone", "start", "end"} /\ from.period \in Periods
        /\ from.start \in Nat /\ from.end \in Nat
        /\ 0 \in {from.start, from.end} \/ from.start <= from.end
    BY <2>2 DEF ChartInv
  <2>4. /\ DOMAIN to = {"period", "zone", "start", "end"} /\ to.period \in Periods
        /\ to.start \in Nat /\ to.end \in Nat
        /\ 0 \in {to.start, to.end} \/ to.start <= to.end
    BY <2>2 DEF ChartInv
  <2>5. CASE Choose(from)
    <3> HIDE DEF from
    <3> QED
      BY <2>3, <2>5, ChooseKeepsChart
  <2>6. CASE Choose(to)
    <3> HIDE DEF to
    <3> QED
      BY <2>4, <2>6, ChooseKeepsChart
  <2> QED
    BY <2>1, <2>5, <2>6
<1>4. CASE StatisticsAnswered
  BY <1>4, AnsweredKeepsChart
<1>5. CASE StatisticsFail
  BY <1>5 DEF StatisticsFail, ChartInv
<1>6. CASE ZonesAnswered \/ StatePolled \/ UNCHANGED chartVars
  BY <1>6 DEF ZonesAnswered, StatePolled, chartVars, ChartInv
<1>7. CASE PointerDown \/ PointerUp
  BY <1>7 DEF PointerDown, PointerUp, ChartInv
<1>8. CASE PointerMove
  <2>1. PICK shift \in Shifts :
          windowStart' = AtMost(AtLeast(drag - shift, 0), MaxStart(chart, choice.period))
    BY <1>8 DEF PointerMove
  <2>2. windowStart' \in Nat
    BY <2>1, ChartAssumption, Windows DEF AtMost, AtLeast, ChartInv
  <2> QED
    BY <1>8, <2>2 DEF PointerMove, ChartInv
<1> QED
  BY <1>1, <1>2, <1>3, <1>4, <1>5, <1>6, <1>7, <1>8 DEF ChartNext

\* The chart shows the range that was chosen last.
LEMMA ChartsAreOfTheRangeChosen == ChartSpec => []ChartIsOfTheRangeChosen
<1>1. ChartInv => ChartIsOfTheRangeChosen
  <2> SUFFICES ASSUME ChartInv PROVE ChartIsOfTheRangeChosen
    OBVIOUS
  <2> DEFINE most == MaxStart(chart, choice.period)
             width == WindowSize(choice.period, chart.unit)
             all == SeriesShown(chart, choice.period).length
  <2>1. /\ width \in Nat \ {0} /\ all \in Nat /\ most \in Nat
        /\ DefaultStart(chart, choice.period) \in 0..most
    BY Windows DEF ChartInv
  <2>2. most = IF all - width < 0 THEN 0 ELSE all - width
    BY DEF MaxStart, AtLeast
  <2>3. /\ CanPan <=> most > 0
        /\ CanPan => FirstShown = AtMost(AtLeast(windowStart, 0), most)
    BY DEF CanPan, FirstShown
  <2>4. CanPan => FirstShown + width <= all
    <3> HIDE DEF most, width, all
    <3> QED
      BY <2>1, <2>2, <2>3 DEF AtMost, AtLeast, ChartInv
  <2>5. CanPan /\ ~dragged => FirstShown = DefaultStart(chart, choice.period)
    <3> HIDE DEF most, width, all
    <3> QED
      BY <2>1, <2>3 DEF AtMost, AtLeast, ChartInv
  <2> QED
    BY <2>4, <2>5 DEF ChartInv, ChartIsOfTheRangeChosen
<1> QED
  BY <1>1, ChartStarts, ChartStep, PTL DEF ChartSpec

-----------------------------------------------------------------------------
(* The connection of the dashboard.                                        *)

Steps == {"ticket", "opening", "open", "live"}
Attempts == [visit : Nat, step : Steps]

ConnectionTypes ==
    /\ attempts \in Seq(Attempts)
    /\ visit \in [number : Nat, there : BOOLEAN]
    /\ retry \in [timer : Nat, next : Nat \ {0}, refused : BOOLEAN]

\* No attempt is ahead of the visits.
VisitsHaveBegun == \A i \in DOMAIN attempts : attempts[i].visit <= visit.number

\* Attempts of other visits are no more than tickets asked for.
OthersAreTickets ==
    \A i \in DOMAIN attempts :
        attempts[i].visit # visit.number \/ ~visit.there => attempts[i].step = "ticket"

\* A visit has one attempt at a time.
OneAttempt ==
    \A i, j \in DOMAIN attempts :
        attempts[i].visit = visit.number /\ attempts[j].visit = visit.number => i = j

Attempting == \E i \in DOMAIN attempts : attempts[i].visit = visit.number

\* The timer is set as long as a page that may connect neither does nor tries.
TimerIsNeeded ==
    /\ visit.there /\ ~retry.refused => (~Attempting <=> retry.timer # 0)
    /\ visit.there /\ retry.refused => ~Attempting /\ retry.timer = 0
    /\ ~visit.there => retry.timer = 0 /\ retry.refused = FALSE

ConnectionInv ==
    /\ ConnectionTypes
    /\ VisitsHaveBegun
    /\ OthersAreTickets
    /\ OneAttempt
    /\ TimerIsNeeded

\* What is left of a sequence without one of its elements.
LEMMA Removed ==
    ASSUME NEW S, NEW s \in Seq(S), NEW i \in 1..Len(s)
    PROVE  /\ RemoveAt(s, i) \in Seq(S)
           /\ Len(RemoveAt(s, i)) = Len(s) - 1
           /\ \A j \in 1..(Len(s) - 1) : RemoveAt(s, i)[j] = s[IF j < i THEN j ELSE j + 1]
<1> DEFINE p == SubSeq(s, 1, i - 1)
           q == SubSeq(s, i + 1, Len(s))
<1>1. /\ p \in Seq(S) /\ Len(p) = i - 1
      /\ \A j \in 1..(i - 1) : p[j] = s[j]
  OBVIOUS
<1>2. /\ q \in Seq(S) /\ Len(q) = Len(s) - i
      /\ \A j \in 1..(Len(s) - i) : q[j] = s[i + j]
  OBVIOUS
<1>3. RemoveAt(s, i) = p \o q
  BY DEF RemoveAt
<1> HIDE DEF p, q
<1>4. /\ p \o q \in Seq(S) /\ Len(p \o q) = Len(p) + Len(q)
      /\ \A j \in 1..(Len(p) + Len(q)) :
            (p \o q)[j] = IF j <= Len(p) THEN p[j] ELSE q[j - Len(p)]
  BY <1>1, <1>2, ConcatProperties
<1>5. /\ i \in Nat /\ Len(s) \in Nat /\ 1 <= i /\ i <= Len(s)
  OBVIOUS
<1>6. ASSUME NEW j \in 1..(Len(s) - 1)
      PROVE  (p \o q)[j] = s[IF j < i THEN j ELSE j + 1]
  <2>1. CASE j < i
    BY <1>1, <1>2, <1>4, <1>5, <2>1
  <2>2. CASE ~(j < i)
    <3>1. j - (i - 1) \in 1..(Len(s) - i) /\ i + (j - (i - 1)) = j + 1
      BY <1>5, <2>2
    <3>2. (p \o q)[j] = q[j - (i - 1)]
      BY <1>1, <1>2, <1>4, <1>5, <2>2
    <3> QED
      BY <1>2, <2>2, <3>1, <3>2
  <2> QED
    BY <2>1, <2>2
<1> QED
  BY <1>1, <1>2, <1>3, <1>4, <1>5, <1>6

LEMMA ConnectionStarts == CardInit => ConnectionInv
<1> SUFFICES ASSUME CardInit PROVE ConnectionInv
  OBVIOUS
<1>1. /\ visit = [number |-> 1, there |-> TRUE]
      /\ attempts = <<[visit |-> 1, step |-> "ticket"]>>
      /\ retry = [timer |-> 0, next |-> 1, refused |-> FALSE]
  BY DEF CardInit, NoRetry
<1>2. /\ DOMAIN attempts = {1} /\ attempts[1].visit = 1 /\ attempts[1].step = "ticket"
      /\ visit.number = 1 /\ visit.there = TRUE /\ retry.timer = 0 /\ retry.refused = FALSE
  BY <1>1
<1>3. ConnectionTypes
  BY <1>1 DEF ConnectionTypes, Steps, Attempts
<1>4. VisitsHaveBegun /\ OthersAreTickets /\ OneAttempt
  BY <1>2 DEF VisitsHaveBegun, OthersAreTickets, OneAttempt
<1>5. TimerIsNeeded
  BY <1>2, Zenon DEF TimerIsNeeded, Attempting
<1> QED
  BY <1>3, <1>4, <1>5 DEF ConnectionInv

\* An attempt ends: the others keep their places among themselves.
LEMMA EndKeepsOthers ==
    ASSUME ConnectionInv, NEW i \in DOMAIN attempts, Ends(i), visit' = visit
    PROVE  /\ attempts' \in Seq(Attempts)
           /\ VisitsHaveBegun' /\ OthersAreTickets' /\ OneAttempt'
           /\ attempts[i].visit = visit.number => ~Attempting'
           /\ attempts[i].visit # visit.number => (Attempting' <=> Attempting)
<1> DEFINE Was(j) == IF j < i THEN j ELSE j + 1
<1>1. attempts \in Seq(Attempts) /\ i \in 1..Len(attempts)
  BY DEF ConnectionInv, ConnectionTypes
<1>2. /\ attempts' \in Seq(Attempts)
      /\ Len(attempts') = Len(attempts) - 1
      /\ \A j \in 1..(Len(attempts) - 1) : attempts'[j] = attempts[Was(j)]
  BY <1>1, Removed DEF Ends
<1> DEFINE n == Len(attempts)
<1>9. /\ DOMAIN attempts = 1..n /\ DOMAIN attempts' = 1..(n - 1)
      /\ n \in Nat /\ i \in 1..n
  BY <1>1, <1>2
<1> HIDE DEF n
<1>3. \A j \in DOMAIN attempts' : /\ Was(j) \in DOMAIN attempts /\ Was(j) # i
                                  /\ attempts'[j] = attempts[Was(j)]
  <2>1. \A j \in 1..(n - 1) : Was(j) \in 1..n /\ Was(j) # i
    BY <1>9
  <2> QED
    BY <1>2, <1>9, <2>1 DEF n
<1>4. \A j, k \in DOMAIN attempts' : Was(j) = Was(k) => j = k
  <2>1. \A j, k \in 1..(n - 1) : Was(j) = Was(k) => j = k
    BY <1>9
  <2> QED
    BY <1>9, <2>1
<1>5. \A k \in DOMAIN attempts : k # i => \E j \in DOMAIN attempts' : Was(j) = k
  <2> TAKE k \in DOMAIN attempts
  <2>1. CASE k < i
    BY <1>1, <1>2, <2>1
  <2>2. CASE k > i
    <3>1. k - 1 \in DOMAIN attempts' /\ Was(k - 1) = k
      BY <1>1, <1>2, <2>2
    <3> QED
      BY <3>1
  <2> QED
    BY <1>1, <2>1, <2>2
<1> HIDE DEF Was
<1>6. VisitsHaveBegun' /\ OthersAreTickets' /\ OneAttempt'
  BY <1>3, <1>4 DEF ConnectionInv, VisitsHaveBegun, OthersAreTickets, OneAttempt
<1>7. attempts[i].visit = visit.number => ~Attempting'
  BY <1>3 DEF ConnectionInv, OneAttempt, Attempting
<1>8. attempts[i].visit # visit.number => (Attempting' <=> Attempting)
  BY <1>3, <1>5 DEF Attempting
<1> QED
  BY <1>2, <1>6, <1>7, <1>8

\* An attempt makes progress.
LEMMA ProgressKeepsOthers ==
    ASSUME ConnectionInv, NEW i \in DOMAIN attempts, NEW step \in Steps,
           attempts' = [attempts EXCEPT ![i].step = step], visit' = visit,
           IsHere(i)
    PROVE  /\ attempts' \in Seq(Attempts)
           /\ VisitsHaveBegun' /\ OthersAreTickets' /\ OneAttempt'
           /\ Attempting' <=> Attempting
<1>1. attempts \in Seq(Attempts) /\ i \in 1..Len(attempts)
  BY DEF ConnectionInv, ConnectionTypes
<1> DEFINE next == [attempts[i] EXCEPT !.step = step]
<1>6. attempts' = [attempts EXCEPT ![i] = next]
  OBVIOUS
<1>8. attempts[i] \in Attempts
  BY <1>1, ElementOfSeq
<1>7. next \in Attempts /\ next.visit = attempts[i].visit
  BY <1>8 DEF Attempts
<1> HIDE DEF next
<1>2. attempts' \in Seq(Attempts) /\ DOMAIN attempts' = DOMAIN attempts
  <2>1. Len(attempts') = Len(attempts) /\ attempts' \in Seq(Attempts)
    BY <1>1, <1>6, <1>7, ExceptSeq
  <2> QED
    BY <1>1, <2>1
<1>3. \A j \in DOMAIN attempts : /\ attempts'[j].visit = attempts[j].visit
                                 /\ j # i => attempts'[j] = attempts[j]
  BY <1>1, <1>6, <1>7
<1>4. VisitsHaveBegun' /\ OneAttempt' /\ (Attempting' <=> Attempting)
  BY <1>2, <1>3 DEF ConnectionInv, VisitsHaveBegun, OneAttempt, Attempting
<1>5. OthersAreTickets'
  BY <1>2, <1>3 DEF ConnectionInv, OthersAreTickets, IsHere
<1> QED
  BY <1>2, <1>4, <1>5

\* Another attempt is made in place of none.
LEMMA AttemptKeepsOthers ==
    ASSUME ConnectionInv, NEW n \in Nat, visit' \in [number : Nat, there : BOOLEAN],
           attempts' = Append(attempts, [visit |-> n, step |-> "ticket"]),
           n = visit'.number, visit.number <= n, visit'.there = TRUE,
           \A i \in DOMAIN attempts : attempts[i].visit # n,
           visit.number = n \/ ~visit.there
    PROVE  /\ attempts' \in Seq(Attempts)
           /\ VisitsHaveBegun' /\ OthersAreTickets' /\ OneAttempt'
           /\ Attempting'
<1> DEFINE new == [visit |-> n, step |-> "ticket"]
           m == Len(attempts) + 1
<1>5. attempts \in Seq(Attempts) /\ visit \in [number : Nat, there : BOOLEAN]
  BY DEF ConnectionInv, ConnectionTypes
<1>6. \A j \in DOMAIN attempts : attempts[j] \in Attempts
  BY <1>5
<1>7. new \in Attempts /\ new.visit = n /\ new.step = "ticket"
  BY DEF Steps, Attempts
<1>1. /\ attempts \in Seq(Attempts) /\ new \in Attempts
      /\ new.visit = n /\ new.step = "ticket" /\ visit.number \in Nat
      /\ \A j \in DOMAIN attempts : attempts[j].visit \in Nat
  BY <1>5, <1>6, <1>7 DEF Attempts
<1> HIDE DEF new
<1>2. /\ attempts' \in Seq(Attempts)
      /\ DOMAIN attempts' = DOMAIN attempts \cup {m} /\ m \notin DOMAIN attempts
      /\ attempts'[m] = new
      /\ \A j \in DOMAIN attempts : attempts'[j] = attempts[j]
  BY <1>1 DEF new
<1> HIDE DEF m
<1>3. VisitsHaveBegun'
  BY <1>1, <1>2 DEF ConnectionInv, VisitsHaveBegun
<1>4. OthersAreTickets' /\ OneAttempt' /\ Attempting'
  BY <1>1, <1>2 DEF ConnectionInv, OthersAreTickets, OneAttempt, Attempting
<1> QED
  BY <1>2, <1>3, <1>4

\* A socket is one of the page that is open.
LEMMA SocketsAreHere ==
    ASSUME ConnectionInv, NEW i \in DOMAIN attempts, attempts[i].step # "ticket"
    PROVE  IsHere(i)
BY DEF ConnectionInv, OthersAreTickets, IsHere

LEMMA RetryScheduled ==
    ASSUME ConnectionTypes, ScheduleReconnect
    PROVE  /\ retry' \in [timer : Nat, next : Nat \ {0}, refused : BOOLEAN]
           /\ retry'.refused = retry.refused
           /\ visit.there => retry'.timer # 0
           /\ ~visit.there => retry' = retry
<1>1. /\ retry \in [timer : Nat, next : Nat \ {0}, refused : BOOLEAN]
      /\ visit.there \in BOOLEAN
  BY DEF ConnectionTypes
<1>2. CASE ~visit.there \/ retry.timer # 0
  BY <1>1, <1>2 DEF ScheduleReconnect
<1>3. CASE visit.there /\ retry.timer = 0
  <2> DEFINE next == IF 2 * retry.next > LongestDelay THEN LongestDelay ELSE 2 * retry.next
  <2>1. LongestDelay \in Nat \ {0}
    BY CardAssumption
  <2>2. next \in Nat \ {0}
    BY <1>1, <2>1
  <2>3. retry' = [retry EXCEPT !.timer = retry.next, !.next = next]
    BY <1>3 DEF ScheduleReconnect
  <2> HIDE DEF next
  <2> QED
    BY <1>1, <1>3, <2>2, <2>3
<1> QED
  BY <1>2, <1>3

LEMMA LeaveKeepsConnection == ASSUME ConnectionInv, Leave PROVE ConnectionInv'
<1>1. /\ attempts \in Seq(Attempts) /\ visit \in [number : Nat, there : BOOLEAN] /\ visit.there
      /\ visit' = [visit EXCEPT !.there = FALSE] /\ retry' = NoRetry
  BY DEF Leave, ConnectionInv, ConnectionTypes
<1>2. visit' \in [number : Nat, there : BOOLEAN] /\ visit'.number = visit.number
      /\ visit'.there = FALSE
  BY <1>1
<1>3. retry' \in [timer : Nat, next : Nat \ {0}, refused : BOOLEAN]
      /\ retry'.timer = 0 /\ retry'.refused = FALSE
  BY <1>1 DEF NoRetry
<1>4. TimerIsNeeded'
  BY <1>2, <1>3, Zenon DEF TimerIsNeeded
<1>5. CASE Sockets = {} /\ UNCHANGED attempts
  <2>1. \A i \in DOMAIN attempts : attempts[i].step = "ticket"
    BY <1>5 DEF Sockets
  <2>2. VisitsHaveBegun' /\ OthersAreTickets' /\ OneAttempt'
    BY <1>2, <1>5, <2>1 DEF ConnectionInv, VisitsHaveBegun, OthersAreTickets, OneAttempt
  <2> QED
    BY <1>1, <1>2, <1>3, <1>4, <1>5, <2>2 DEF ConnectionInv, ConnectionTypes
<1>6. CASE \E i \in Sockets : Ends(i)
  <2>1. PICK i \in DOMAIN attempts : attempts[i].step # "ticket" /\ Ends(i)
    BY <1>6 DEF Sockets
  <2>2. IsHere(i)
    BY <2>1, SocketsAreHere
  <2> DEFINE Was(j) == IF j < i THEN j ELSE j + 1
             n == Len(attempts)
  <2>3. /\ n \in Nat /\ i \in 1..n /\ DOMAIN attempts = 1..n
    BY <1>1, SMTT(30)
  <2>4. /\ attempts' \in Seq(Attempts) /\ Len(attempts') = n - 1
        /\ \A j \in 1..(n - 1) : attempts'[j] = attempts[Was(j)]
    BY <1>1, <2>1, <2>3, Removed DEF Ends
  <2>5. DOMAIN attempts' = 1..(n - 1)
    BY <2>4, LenProperties
  <2> HIDE DEF n
  <2>6. \A j \in 1..(n - 1) : Was(j) \in 1..n /\ Was(j) # i
    BY <2>3
  <2>7. \A j, k \in 1..(n - 1) : Was(j) = Was(k) => j = k
    BY <2>3
  <2> HIDE DEF Was
  <2>8. \A j \in DOMAIN attempts : j # i => attempts[j].step = "ticket"
    BY <2>1, <2>2 DEF ConnectionInv, OthersAreTickets, OneAttempt, IsHere
  <2>9. VisitsHaveBegun' /\ OthersAreTickets'
    BY <1>2, <2>3, <2>4, <2>5, <2>6, <2>8 DEF ConnectionInv, VisitsHaveBegun, OthersAreTickets
  <2>10. OneAttempt'
    BY <1>2, <2>3, <2>4, <2>5, <2>6, <2>7 DEF ConnectionInv, OneAttempt
  <2> QED
    BY <1>2, <1>3, <1>4, <2>4, <2>9, <2>10 DEF ConnectionInv, ConnectionTypes
<1> QED
  BY <1>5, <1>6 DEF Leave

LEMMA EnterKeepsConnection == ASSUME ConnectionInv, Enter PROVE ConnectionInv'
<1>1. /\ visit \in [number : Nat, there : BOOLEAN] /\ ~visit.there
      /\ visit' = [number |-> visit.number + 1, there |-> TRUE] /\ UNCHANGED retry
      /\ attempts' = Append(attempts, [visit |-> visit.number + 1, step |-> "ticket"])
  BY DEF Enter, ConnectionInv, ConnectionTypes
<1>2. /\ visit' \in [number : Nat, there : BOOLEAN] /\ visit'.there = TRUE
      /\ visit'.number = visit.number + 1 /\ visit.number \in Nat
  BY <1>1
<1>3. \A i \in DOMAIN attempts : attempts[i].visit # visit.number + 1
  BY <1>2 DEF ConnectionInv, VisitsHaveBegun
<1>4. visit.number + 1 \in Nat /\ visit.number <= visit.number + 1
  BY <1>2
<1>5. /\ attempts' \in Seq(Attempts) /\ VisitsHaveBegun' /\ OthersAreTickets' /\ OneAttempt'
      /\ Attempting'
  BY <1>1, <1>2, <1>3, <1>4, AttemptKeepsOthers
<1>6. retry'.timer = 0 /\ retry'.refused = FALSE
  BY <1>1 DEF ConnectionInv, TimerIsNeeded
<1>7. TimerIsNeeded'
  BY <1>2, <1>5, <1>6, Zenon DEF TimerIsNeeded
<1> QED
  BY <1>1, <1>2, <1>5, <1>7 DEF ConnectionInv, ConnectionTypes

LEMMA ConnectionStep == ConnectionInv /\ [CardNext]_cardVars => ConnectionInv'
<1> SUFFICES ASSUME ConnectionInv, [CardNext]_cardVars PROVE ConnectionInv'
  OBVIOUS
<1> DEFINE Retries == [timer : Nat, next : Nat \ {0}, refused : BOOLEAN]
<1>1. /\ attempts \in Seq(Attempts) /\ visit \in [number : Nat, there : BOOLEAN]
      /\ retry \in Retries /\ ConnectionTypes
  BY DEF ConnectionInv, ConnectionTypes
<1>2. CASE UNCHANGED <<attempts, visit, retry>>
  BY <1>2 DEF ConnectionInv, ConnectionTypes, VisitsHaveBegun, OthersAreTickets, OneAttempt,
              TimerIsNeeded, Attempting
<1>3. ASSUME NEW i \in DOMAIN attempts, TicketAnswered(i) PROVE ConnectionInv'
  <2>1. /\ attempts' = [attempts EXCEPT ![i].step = "opening"] /\ IsHere(i)
        /\ "opening" \in Steps /\ visit' = visit /\ retry' = retry
    BY <1>3 DEF TicketAnswered, Steps
  <2>2. /\ attempts' \in Seq(Attempts) /\ VisitsHaveBegun' /\ OthersAreTickets' /\ OneAttempt'
        /\ (Attempting' <=> Attempting)
    BY <2>1, ProgressKeepsOthers
  <2> QED
    BY <1>1, <2>1, <2>2 DEF ConnectionInv, ConnectionTypes, TimerIsNeeded
<1>4. ASSUME NEW i \in DOMAIN attempts, Opens(i) \/ TicketAccepted(i) PROVE ConnectionInv'
  <2>1. IsHere(i)
    BY <1>4, SocketsAreHere DEF Opens, TicketAccepted
  <2>2. /\ visit' = visit /\ retry' \in Retries
        /\ retry'.timer = retry.timer /\ retry'.refused = retry.refused
    BY <1>1, <1>4 DEF Opens, TicketAccepted
  <2>3. PICK step \in Steps : attempts' = [attempts EXCEPT ![i].step = step]
    BY <1>4 DEF Opens, TicketAccepted, Steps
  <2>4. /\ attempts' \in Seq(Attempts) /\ VisitsHaveBegun' /\ OthersAreTickets' /\ OneAttempt'
        /\ (Attempting' <=> Attempting)
    BY <2>1, <2>2, <2>3, ProgressKeepsOthers
  <2> QED
    BY <1>1, <2>2, <2>4 DEF ConnectionInv, ConnectionTypes, TimerIsNeeded
<1>5. ASSUME NEW i \in DOMAIN attempts, TicketFails(i) \/ TicketRefused(i) \/ Closes(i)
      PROVE  ConnectionInv'
  <2>1. Ends(i) /\ visit' = visit
    BY <1>5 DEF TicketFails, TicketRefused, Closes
  <2>2. /\ attempts' \in Seq(Attempts) /\ VisitsHaveBegun' /\ OthersAreTickets' /\ OneAttempt'
        /\ attempts[i].visit = visit.number => ~Attempting'
        /\ attempts[i].visit # visit.number => (Attempting' <=> Attempting)
    BY <2>1, EndKeepsOthers
  <2>3. CASE ~IsHere(i)
    <3>1. retry' = retry
      BY <1>5, <2>3, SocketsAreHere DEF TicketFails, TicketRefused, Closes
    <3> QED
      BY <1>1, <2>1, <2>2, <2>3, <3>1 DEF ConnectionInv, ConnectionTypes, TimerIsNeeded, IsHere
  <2>4. CASE IsHere(i)
    <3>1. Attempting /\ ~Attempting' /\ visit.there
      BY <2>2, <2>4 DEF IsHere, Attempting
    <3>2. retry.timer = 0 /\ ~retry.refused
      BY <3>1 DEF ConnectionInv, TimerIsNeeded
    <3>3. CASE ScheduleReconnect
      <4>1. retry' \in Retries /\ retry'.refused = retry.refused /\ retry'.timer # 0
        BY <1>1, <3>1, <3>3, RetryScheduled
      <4> QED
        BY <1>1, <2>1, <2>2, <3>1, <3>2, <4>1 DEF ConnectionInv, ConnectionTypes, TimerIsNeeded
    <3>4. CASE retry' = [retry EXCEPT !.refused = TRUE]
      <4>1. retry' \in Retries /\ retry'.refused = TRUE /\ retry'.timer = 0
        BY <1>1, <3>2, <3>4
      <4> QED
        BY <1>1, <2>1, <2>2, <3>1, <4>1 DEF ConnectionInv, ConnectionTypes, TimerIsNeeded
    <3> QED
      BY <1>5, <2>4, <3>3, <3>4 DEF TicketFails, TicketRefused, Closes
  <2> QED
    BY <2>3, <2>4
<1>6. CASE RetryTimerFires
  <2>1. /\ retry.timer # 0 /\ visit' = visit /\ retry' = [retry EXCEPT !.timer = 0]
        /\ attempts' = Append(attempts, [visit |-> visit.number, step |-> "ticket"])
    BY <1>6 DEF RetryTimerFires, Attempt
  <2>2. visit.there /\ ~retry.refused /\ ~Attempting
    BY <2>1 DEF ConnectionInv, TimerIsNeeded
  <2>3. /\ retry' \in Retries /\ retry'.timer = 0 /\ retry'.refused = retry.refused
    BY <1>1, <2>1
  <2>4. /\ visit.number \in Nat /\ visit.number <= visit.number /\ visit.there \in BOOLEAN
    BY <1>1
  <2>5. \A i \in DOMAIN attempts : attempts[i].visit # visit.number
    BY <2>2 DEF Attempting
  <2>6. /\ attempts' \in Seq(Attempts) /\ VisitsHaveBegun' /\ OthersAreTickets' /\ OneAttempt'
        /\ Attempting'
    BY <1>1, <2>1, <2>2, <2>4, <2>5, AttemptKeepsOthers
  <2> QED
    BY <1>1, <2>1, <2>2, <2>3, <2>6 DEF ConnectionInv, ConnectionTypes, TimerIsNeeded
<1>7. CASE Leave
  BY <1>7, LeaveKeepsConnection
<1>8. CASE Enter
  BY <1>8, EnterKeepsConnection
<1>9. CASE \/ StoreAlarm
           \/ \E a \in ToSet(StoredAlarms) \cup OtherAlarms : Announce(a)
           \/ LoadAgain
           \/ \E i \in DOMAIN recentLoads : ReadRecent(i) \/ RecentAnswered(i) \/ RecentFails(i)
           \/ Receive \/ SelectCard \/ CloseAlert \/ MinimiseOrNot
           \/ UNCHANGED cardVars
  <2>1. UNCHANGED <<attempts, visit, retry>>
    BY <1>9 DEF StoreAlarm, Announce, LoadAgain, ReadRecent, RecentAnswered, RecentFails, Receive,
                SelectCard, CloseAlert, MinimiseOrNot, cardVars, connection
  <2> QED
    BY <1>2, <2>1
<1> QED
  BY <1>3, <1>4, <1>5, <1>6, <1>7, <1>8, <1>9 DEF CardNext

LEMMA ConnectionIsOne == ConnectionInv => OneConnection
<1> SUFFICES ASSUME ConnectionInv PROVE OneConnection
  OBVIOUS
<1> DEFINE mine == {i \in DOMAIN attempts : attempts[i].visit = visit.number}
<1>1. mine = {} <=> ~Attempting
  BY DEF Attempting
<1>2. visit.there /\ ~retry.refused => (mine = {} <=> retry.timer # 0)
  BY <1>1 DEF ConnectionInv, TimerIsNeeded
<1> QED
  BY <1>2 DEF OneConnection, ConnectionInv, OthersAreTickets, OneAttempt

-----------------------------------------------------------------------------
(* The cards of the dashboard.                                             *)

Alarm == ToSet(StoredAlarms) \cup OtherAlarms
RecentLoads == [read : BOOLEAN, items : Seq(Alarm)]

CardTypes ==
    /\ occurred \in Seq(Alarm)
    /\ announcing \subseteq Alarm
    /\ incoming \in Seq(Alarm)
    /\ cards \in Seq(Alarm)
    /\ recentLoads \in Seq(RecentLoads)
    /\ recent \in Seq(Alarm)
    /\ answered \in BOOLEAN

Stored(a) == a \in ToSet(StoredAlarms) => a \in ToSet(occurred)

\* What the page hears of was stored before, if it is to be stored at all.
StoredFirst ==
    /\ \A a \in announcing : Stored(a)
    /\ \A i \in DOMAIN incoming : Stored(incoming[i])
    /\ \A i \in DOMAIN cards : Stored(cards[i])

\* A list that was read holds every alarm there is a card of, since a new first
\* card has the requests before it aborted.
ReadHoldsTheCards ==
    \A i \in DOMAIN recentLoads : recentLoads[i].read =>
        \A a \in ToSet(cards) \cap ToSet(StoredAlarms) : Holds(recentLoads[i].items, a)

CardInv ==
    /\ CardTypes
    /\ StoredFirst
    /\ ReadHoldsTheCards
    /\ RecentListHoldsTheCards

LEMMA CardsStart == CardInit => CardInv
<1> SUFFICES ASSUME CardInit PROVE CardInv
  OBVIOUS
<1>1. CardTypes
  <2>1. NewLoad \in RecentLoads
    BY DEF NewLoad, RecentLoads
  <2>2. <<NewLoad>> \in Seq(RecentLoads) /\ << >> \in Seq(Alarm)
    BY <2>1
  <2> QED
    BY <2>2 DEF CardInit, CardTypes
<1>2. StoredFirst
  BY DEF CardInit, StoredFirst
<1>3. ReadHoldsTheCards
  BY DEF CardInit, ReadHoldsTheCards, NewLoad
<1>4. RecentListHoldsTheCards
  BY DEF CardInit, RecentListHoldsTheCards
<1> QED
  BY <1>1, <1>2, <1>3, <1>4 DEF CardInv

\* An event that occurred later than another still did when a third is stored.
LEMMA OrderStays ==
    ASSUME CardTypes, StoreAlarm
    PROVE  /\ occurred' \in Seq(Alarm)
           /\ ToSet(occurred) \subseteq ToSet(occurred')
           /\ \A a \in announcing' : a \in announcing \/ a \in ToSet(occurred')
           /\ announcing' \subseteq Alarm
           /\ \A a, b : OccurredLater(b, a) => OccurredLater(b, a)'
<1> DEFINE n == Len(occurred)
           a == StoredAlarms[n + 1]
<1>1. occurred \in Seq(Alarm) /\ n \in Nat /\ n < Len(StoredAlarms)
  BY DEF CardTypes, StoreAlarm
<1>2. a \in Alarm
  BY <1>1, CardAssumption DEF Alarm
<1>3. PICK i \in 1..(n + 1) : occurred' = InsertAt(occurred, i, a)
  BY DEF StoreAlarm
<1>4. announcing' = announcing \cup {a}
  BY DEF StoreAlarm
<1> HIDE DEF a
<1> DEFINE p == SubSeq(occurred, 1, i - 1)
           q == SubSeq(occurred, i, n)
           Was(j) == IF j < i THEN j ELSE j + 1
<1>5. /\ p \in Seq(Alarm) /\ Len(p) = i - 1
      /\ \A j \in 1..(i - 1) : p[j] = occurred[j]
  BY <1>1, <1>3
<1>6. /\ q \in Seq(Alarm) /\ Len(q) = n - i + 1
      /\ \A j \in 1..(n - i + 1) : q[j] = occurred[i + j - 1]
  BY <1>1, <1>3
<1>7. occurred' = (p \o <<a>>) \o q
  BY <1>3 DEF InsertAt
<1> HIDE DEF p, q
<1>8. /\ p \o <<a>> \in Seq(Alarm) /\ Len(p \o <<a>>) = i
      /\ \A j \in 1..(i - 1) : (p \o <<a>>)[j] = p[j]
      /\ (p \o <<a>>)[i] = a
  <2>1. <<a>> \in Seq(Alarm) /\ Len(<<a>>) = 1 /\ <<a>>[1] = a
    BY <1>2
  <2>2. /\ p \o <<a>> \in Seq(Alarm) /\ Len(p \o <<a>>) = Len(p) + 1
        /\ \A j \in 1..(Len(p) + 1) :
              (p \o <<a>>)[j] = IF j <= Len(p) THEN p[j] ELSE <<a>>[j - Len(p)]
    BY <1>5, <2>1, ConcatProperties
  <2> QED
    BY <1>3, <1>5, <2>1, <2>2
<1> DEFINE u == p \o <<a>>
<1> HIDE DEF u
<1>9. /\ u \o q \in Seq(Alarm) /\ Len(u \o q) = Len(u) + Len(q)
      /\ \A j \in 1..(Len(u) + Len(q)) :
            (u \o q)[j] = IF j <= Len(u) THEN u[j] ELSE q[j - Len(u)]
  <2>1. u \in Seq(Alarm)
    BY <1>8 DEF u
  <2> QED
    BY <1>6, <2>1, ConcatProperties
<1>10. /\ occurred' \in Seq(Alarm) /\ Len(occurred') = n + 1
       /\ occurred'[i] = a
       /\ \A j \in 1..n : occurred'[Was(j)] = occurred[j]
  <2>1. occurred' = u \o q
    BY <1>7 DEF u
  <2>2. Len(u) = i /\ u[i] = a /\ \A j \in 1..(i - 1) : u[j] = occurred[j]
    BY <1>3, <1>5, <1>8 DEF u
  <2> HIDE DEF n
  <2>3. occurred'[i] = a /\ Len(occurred') = n + 1
    <3>1. i \in 1..(Len(u) + Len(q)) /\ i <= Len(u) /\ Len(u) + Len(q) = n + 1
      BY <1>1, <1>3, <1>6, <2>2
    <3>2. (u \o q)[i] = u[i]
      BY <1>9, <3>1
    <3> QED
      BY <1>9, <2>1, <2>2, <3>1, <3>2
  <2>4. ASSUME NEW j \in 1..n, j < i PROVE occurred'[j] = occurred[j]
    <3>1. j \in 1..(Len(u) + Len(q)) /\ j <= Len(u) /\ j \in 1..(i - 1)
      BY <1>1, <1>3, <1>6, <2>2, <2>4
    <3>2. occurred'[j] = u[j]
      BY <1>9, <2>1, <3>1
    <3> QED
      BY <2>2, <3>1, <3>2
  <2>5. ASSUME NEW j \in 1..n, ~(j < i) PROVE occurred'[j + 1] = occurred[j]
    <3>1. /\ j + 1 \in 1..(Len(u) + Len(q)) /\ ~(j + 1 <= Len(u))
          /\ j + 1 - Len(u) \in 1..(n - i + 1) /\ i + (j + 1 - Len(u)) - 1 = j
      BY <1>1, <1>3, <1>6, <2>2, <2>5
    <3>2. (u \o q)[j + 1] = q[j + 1 - Len(u)]
      <4> DEFINE k == j + 1
      <4>1. k \in 1..(Len(u) + Len(q)) /\ ~(k <= Len(u))
        BY <3>1
      <4> HIDE DEF k
      <4>2. (u \o q)[k] = q[k - Len(u)]
        BY <1>9, <4>1
      <4> QED
        BY <4>2 DEF k
    <3>3. q[j + 1 - Len(u)] = occurred[j]
      BY <1>6, <3>1
    <3> QED
      BY <2>1, <3>2, <3>3
  <2> QED
    BY <1>9, <2>1, <2>3, <2>4, <2>5
<1>11. \A j \in 1..n : Was(j) \in 1..(n + 1)
  BY <1>1, <1>3
<1>12. \A j, k \in 1..n : j < k => Was(j) < Was(k)
  BY <1>1, <1>3
<1>13. DOMAIN occurred = 1..n /\ DOMAIN occurred' = 1..(n + 1)
  BY <1>1, <1>10
<1> HIDE DEF Was, n
<1>14. ToSet(occurred) \subseteq ToSet(occurred')
  BY <1>10, <1>11, <1>13 DEF ToSet
<1>15. a \in ToSet(occurred')
  BY <1>1, <1>3, <1>10, <1>13 DEF ToSet
<1>16. ASSUME NEW x, NEW y, OccurredLater(y, x) PROVE OccurredLater(y, x)'
  <2>1. PICK j, k \in 1..n : j < k /\ occurred[j] = y /\ occurred[k] = x
    BY <1>13, <1>16 DEF OccurredLater
  <2> QED
    BY <1>10, <1>11, <1>12, <1>13, <2>1 DEF OccurredLater
<1> QED
  BY <1>2, <1>4, <1>10, <1>14, <1>15, <1>16 DEF CardTypes

LEMMA StillHolds ==
    ASSUME NEW sequence, NEW a, Holds(sequence, a),
           \A b, c : OccurredLater(b, c) => OccurredLater(b, c)'
    PROVE  Holds(sequence, a)'
BY DEF Holds

\* What the list holds is left alone, but that more may have been stored.
LEMMA OthersKeepCards ==
    ASSUME CardInv, UNCHANGED <<cards, recentLoads, recent, answered>>,
           \/ UNCHANGED <<occurred, announcing>>
           \/ StoreAlarm
           \/ occurred' = occurred /\ announcing' \subseteq announcing,
           incoming' \in Seq(Alarm),
           \A i \in DOMAIN incoming' : Stored(incoming'[i])
    PROVE  CardInv'
<1>1. /\ occurred' \in Seq(Alarm) /\ announcing' \subseteq Alarm
      /\ ToSet(occurred) \subseteq ToSet(occurred')
      /\ \A a \in announcing' : a \in announcing \/ a \in ToSet(occurred')
      /\ \A a, b : OccurredLater(b, a) => OccurredLater(b, a)'
  <2>1. CASE StoreAlarm
    BY <2>1, OrderStays DEF CardInv
  <2>2. CASE occurred' = occurred /\ announcing' \subseteq announcing
    BY <2>2 DEF CardInv, CardTypes, OccurredLater
  <2> QED
    BY <2>1, <2>2
<1>2. \A a : Stored(a) => (a \in ToSet(StoredAlarms) => a \in ToSet(occurred'))
  BY <1>1 DEF Stored
<1>3. StoredFirst'
  <2>1. \A a \in announcing' : a \in ToSet(StoredAlarms) => a \in ToSet(occurred')
    BY <1>1, <1>2 DEF CardInv, StoredFirst
  <2>2. \A i \in DOMAIN incoming' :
           incoming'[i] \in ToSet(StoredAlarms) => incoming'[i] \in ToSet(occurred')
    BY <1>2
  <2>3. \A i \in DOMAIN cards :
           cards[i] \in ToSet(StoredAlarms) => cards[i] \in ToSet(occurred')
    BY <1>2 DEF CardInv, StoredFirst
  <2> QED
    BY <2>1, <2>2, <2>3 DEF StoredFirst, Stored
<1>4. \A sequence, a : Holds(sequence, a) => Holds(sequence, a)'
  BY <1>1 DEF Holds
<1>5. ReadHoldsTheCards' /\ RecentListHoldsTheCards'
  BY <1>4 DEF CardInv, ReadHoldsTheCards, RecentListHoldsTheCards
<1> QED
  BY <1>1, <1>3, <1>5 DEF CardInv, CardTypes

\* The cards change: no others come but with a new first one.
LEMMA ShownKeepCards ==
    ASSUME CardInv, NEW next \in Seq(Alarm), ShowCards(next),
           UNCHANGED <<occurred, announcing, recent>>,
           \A i \in DOMAIN next : Stored(next[i]),
           ToSet(next) \subseteq ToSet(cards) \/ RefreshKey(next) # RefreshKey(cards),
           incoming' \in Seq(Alarm),
           \A i \in DOMAIN incoming' : Stored(incoming'[i])
    PROVE  CardInv'
<1>1. cards' = next
  BY DEF ShowCards
<1>2. StoredFirst'
  BY <1>1 DEF CardInv, StoredFirst, Stored
<1>3. \A sequence, a : Holds(sequence, a)' <=> Holds(sequence, a)
  BY DEF Holds, OccurredLater
<1>4. CASE UNCHANGED <<recentLoads, answered>> /\ ToSet(next) \subseteq ToSet(cards)
  <2>1. ReadHoldsTheCards' /\ RecentListHoldsTheCards'
    BY <1>1, <1>3, <1>4 DEF CardInv, ReadHoldsTheCards, RecentListHoldsTheCards
  <2> QED
    BY <1>1, <1>2, <1>4, <2>1 DEF CardInv, CardTypes
<1>5. CASE recentLoads' = <<NewLoad>> /\ answered' = FALSE
  <2>1. NewLoad \in RecentLoads /\ NewLoad.read = FALSE
    BY DEF NewLoad, RecentLoads
  <2>2. /\ recentLoads' \in Seq(RecentLoads)
       /\ \A i \in DOMAIN recentLoads' : recentLoads'[i] = NewLoad
    BY <1>5, <2>1
  <2>3. ReadHoldsTheCards' /\ RecentListHoldsTheCards'
    BY <1>5, <2>1, <2>2, Zenon DEF ReadHoldsTheCards, RecentListHoldsTheCards
  <2> QED
    BY <1>1, <1>2, <1>5, <2>2, <2>3 DEF CardInv, CardTypes
<1> QED
  BY <1>4, <1>5 DEF ShowCards, Reloaded

LEMMA ReceiveKeepsCards == ASSUME CardInv, Receive PROVE CardInv'
<1> DEFINE a == Head(incoming)
           next == IF a \in ToSet(cards) THEN cards ELSE <<a>> \o cards
<1>1. /\ incoming \in Seq(Alarm) /\ incoming # <<>> /\ incoming' = Tail(incoming)
      /\ cards \in Seq(Alarm) /\ ShowCards(next)
      /\ UNCHANGED <<occurred, announcing, recent>>
  BY DEF CardInv, CardTypes, Receive, database
<1>2. /\ a \in Alarm /\ a = incoming[1] /\ 1 \in DOMAIN incoming
      /\ incoming' \in Seq(Alarm)
      /\ \A i \in DOMAIN incoming' : i + 1 \in DOMAIN incoming /\ incoming'[i] = incoming[i + 1]
  BY <1>1
<1>3. Stored(a) /\ \A i \in DOMAIN incoming' : Stored(incoming'[i])
  BY <1>2 DEF CardInv, StoredFirst
<1>4. \A i \in DOMAIN cards : Stored(cards[i])
  BY DEF CardInv, StoredFirst
<1> HIDE DEF a
<1>5. CASE a \in ToSet(cards)
  <2>1. next = cards
    BY <1>5
  <2> HIDE DEF next
  <2> QED
    BY <1>1, <1>2, <1>3, <1>4, <2>1, ShownKeepCards
<1>6. CASE a \notin ToSet(cards)
  <2>1. next = <<a>> \o cards
    BY <1>6
  <2>2. /\ next \in Seq(Alarm) /\ next # <<>> /\ next[1] = a /\ Len(next) = Len(cards) + 1
        /\ \A i \in 1..(Len(cards) + 1) : next[i] = IF i = 1 THEN a ELSE cards[i - 1]
    <3>1. <<a>> \in Seq(Alarm) /\ Len(<<a>>) = 1 /\ <<a>>[1] = a
      BY <1>2
    <3>2. /\ next \in Seq(Alarm) /\ Len(next) = 1 + Len(cards)
          /\ \A i \in 1..(1 + Len(cards)) :
                next[i] = IF i <= 1 THEN <<a>>[i] ELSE cards[i - 1]
      BY <1>1, <2>1, <3>1, ConcatProperties
    <3> HIDE DEF next
    <3>3. Len(cards) \in Nat
      BY <1>1
    <3>4. \A i \in 1..(Len(cards) + 1) : next[i] = IF i = 1 THEN a ELSE cards[i - 1]
      BY <3>1, <3>2, <3>3
    <3> QED
      BY <3>2, <3>3, <3>4
  <2> HIDE DEF next
  <2>3. RefreshKey(next) = a
    BY <2>2 DEF RefreshKey
  <2>4. RefreshKey(cards) # a
    <3>1. CASE cards = <<>>
      BY <1>2, <3>1, CardAssumption DEF RefreshKey, Alarm
    <3>2. CASE cards # <<>>
      <4>1. 1 \in DOMAIN cards
        BY <1>1, <3>2
      <4> QED
        BY <1>6, <3>2, <4>1 DEF RefreshKey, ToSet
    <3> QED
      BY <3>1, <3>2
  <2>5. \A i \in DOMAIN next : Stored(next[i])
    BY <1>1, <1>3, <1>4, <2>2
  <2> QED
    BY <1>1, <1>2, <1>3, <2>2, <2>3, <2>4, <2>5, ShownKeepCards
<1> QED
  BY <1>5, <1>6

LEMMA CloseKeepsCards == ASSUME CardInv, CloseAlert PROVE CardInv'
<1>1. PICK i \in DOMAIN cards : ShowCards(RemoveAt(cards, i))
  BY DEF CloseAlert
<1>2. /\ cards \in Seq(Alarm) /\ i \in 1..Len(cards) /\ incoming \in Seq(Alarm)
      /\ UNCHANGED <<occurred, announcing, recent, incoming>>
      /\ \A j \in DOMAIN incoming : Stored(incoming[j])
      /\ \A j \in DOMAIN cards : Stored(cards[j])
  BY DEF CardInv, CardTypes, StoredFirst, CloseAlert, database, connection
<1> DEFINE next == RemoveAt(cards, i)
           n == Len(cards)
<1>3. /\ next \in Seq(Alarm) /\ Len(next) = n - 1
      /\ \A j \in 1..(n - 1) : next[j] = cards[IF j < i THEN j ELSE j + 1]
  BY <1>2, Removed
<1> HIDE DEF next
<1>4. DOMAIN next = 1..(n - 1) /\ DOMAIN cards = 1..n /\ n \in Nat
  BY <1>2, <1>3
<1> HIDE DEF n
<1>5. \A j \in DOMAIN next : \E k \in DOMAIN cards : next[j] = cards[k]
  <2>1. \A j \in 1..(n - 1) : (IF j < i THEN j ELSE j + 1) \in 1..n
    BY <1>4
  <2> QED
    BY <1>3, <1>4, <2>1
<1>6. ToSet(next) \subseteq ToSet(cards) /\ \A j \in DOMAIN next : Stored(next[j])
  BY <1>2, <1>5 DEF ToSet
<1> QED
  BY <1>1, <1>2, <1>3, <1>6, ShownKeepCards DEF next

\* The list is read: an event that has a card is among the newest, or they are all later.
LEMMA ReadHolds ==
    ASSUME CardInv, NEW a, a \in ToSet(occurred),
           NEW n \in 0..Len(occurred), n < Len(occurred) => n = RecentLimit
    PROVE  Holds(SubSeq(occurred, 1, n), a)
<1> DEFINE newest == SubSeq(occurred, 1, n)
           m == Len(occurred)
<1> SUFFICES Holds(newest, a)
  OBVIOUS
<1>1. occurred \in Seq(Alarm) /\ DOMAIN occurred = 1..m /\ m \in Nat
  BY DEF CardInv, CardTypes
<1>3. /\ Len(newest) = n /\ DOMAIN newest = 1..n
      /\ \A j \in 1..n : newest[j] = occurred[j]
  BY <1>1
<1>4. PICK k \in DOMAIN occurred : occurred[k] = a
  BY DEF ToSet
<1>5. k \in 1..m /\ m \in Nat /\ n \in 0..m /\ (n < m => n = RecentLimit)
  BY <1>1
<1> HIDE DEF newest, m
<1>6. CASE k <= n
  <2>1. k \in DOMAIN newest
    BY <1>3, <1>5, <1>6
  <2>2. a = newest[k]
    BY <1>3, <1>4, <2>1
  <2> QED
    BY <2>1, <2>2 DEF Holds, ToSet
<1>7. CASE n < k
  <2>1. ASSUME NEW j \in DOMAIN newest PROVE OccurredLater(newest[j], a)
    <3>1. j < k /\ newest[j] = occurred[j] /\ j \in 1..m
      BY <1>3, <1>5, <1>7
    <3>2. j \in DOMAIN occurred
      BY <1>1, <3>1 DEF m
    <3> QED
      BY <1>4, <3>1, <3>2 DEF OccurredLater
  <2>2. \A b \in ToSet(newest) : OccurredLater(b, a)
    BY <2>1 DEF ToSet
  <2>3. Len(newest) = RecentLimit
    BY <1>3, <1>5, <1>7
  <2> QED
    BY <2>2, <2>3 DEF Holds
<1> QED
  BY <1>5, <1>6, <1>7

\* The cards stay, and the requests for the list change.
LEMMA LoadsKeepCards ==
    ASSUME CardInv, UNCHANGED <<occurred, announcing, incoming, cards>>,
           recentLoads' \in Seq(RecentLoads), recent' \in Seq(Alarm), answered' \in BOOLEAN,
           \A i \in DOMAIN recentLoads' : recentLoads'[i].read =>
              \A a \in ToSet(cards) \cap ToSet(StoredAlarms) : Holds(recentLoads'[i].items, a),
           answered' =>
              \A a \in ToSet(cards) \cap ToSet(StoredAlarms) : Holds(recent', a)
    PROVE  CardInv'
<1>1. \A sequence, a : Holds(sequence, a)' <=> Holds(sequence, a)
  BY DEF Holds, OccurredLater
<1>2. CardTypes'
  BY DEF CardInv, CardTypes
<1>3. StoredFirst'
  BY DEF CardInv, StoredFirst, Stored
<1>4. ReadHoldsTheCards' /\ RecentListHoldsTheCards'
  BY <1>1 DEF ReadHoldsTheCards, RecentListHoldsTheCards
<1> QED
  BY <1>2, <1>3, <1>4 DEF CardInv

LEMMA ListKeepsCards ==
    ASSUME CardInv,
           \/ LoadAgain
           \/ \E i \in DOMAIN recentLoads : ReadRecent(i) \/ RecentAnswered(i) \/ RecentFails(i)
    PROVE  CardInv'
<1> DEFINE Good(content) == \A a \in ToSet(cards) \cap ToSet(StoredAlarms) : Holds(content, a)
<1>1. /\ recentLoads \in Seq(RecentLoads) /\ recent \in Seq(Alarm) /\ answered \in BOOLEAN
      /\ \A i \in DOMAIN recentLoads : recentLoads[i].read => Good(recentLoads[i].items)
      /\ answered => Good(recent)
  BY DEF CardInv, CardTypes, ReadHoldsTheCards, RecentListHoldsTheCards
<1>2. UNCHANGED <<occurred, announcing, incoming, cards>>
  BY DEF LoadAgain, ReadRecent, RecentAnswered, RecentFails, database, connection
<1> HIDE DEF Good
<1>3. CASE LoadAgain
  <2>1. recentLoads' = Append(recentLoads, NewLoad) /\ UNCHANGED <<recent, answered>>
    BY <1>3 DEF LoadAgain
  <2>2. NewLoad \in RecentLoads /\ NewLoad.read = FALSE
    BY DEF NewLoad, RecentLoads
  <2>3. recentLoads' \in Seq(RecentLoads)
    BY <1>1, <2>1, <2>2
  <2>4. \A i \in DOMAIN recentLoads' :
           \/ recentLoads'[i] = NewLoad
           \/ i \in DOMAIN recentLoads /\ recentLoads'[i] = recentLoads[i]
    BY <1>1, <2>1, <2>2
  <2>5. \A i \in DOMAIN recentLoads' : recentLoads'[i].read => Good(recentLoads'[i].items)
    BY <1>1, <2>2, <2>4
  <2> QED
    BY <1>1, <1>2, <2>1, <2>3, <2>5, LoadsKeepCards DEF Good
<1>4. ASSUME NEW i \in DOMAIN recentLoads, ReadRecent(i) PROVE CardInv'
  <2> DEFINE n == IF Len(occurred) < RecentLimit THEN Len(occurred) ELSE RecentLimit
             new == [read |-> TRUE, items |-> SubSeq(occurred, 1, n)]
  <2>1. recentLoads' = [recentLoads EXCEPT ![i] = new] /\ UNCHANGED <<recent, answered>>
    BY <1>4 DEF ReadRecent
  <2>2. occurred \in Seq(Alarm) /\ RecentLimit \in Nat
    BY CardAssumption DEF CardInv, CardTypes
  <2>9. n \in 0..Len(occurred) /\ (n < Len(occurred) => n = RecentLimit)
    <3> DEFINE m == Len(occurred)
    <3>1. m \in Nat
      BY <2>2
    <3> HIDE DEF m
    <3>2. CASE m < RecentLimit
      <4>1. n = m
        BY <3>2 DEF m
      <4> QED
        BY <3>1, <4>1 DEF m
    <3>3. CASE ~(m < RecentLimit)
      <4>1. n = RecentLimit
        BY <3>3 DEF m
      <4>2. RecentLimit \in 0..m
        BY <2>2, <3>1, <3>3
      <4> HIDE DEF n
      <4> QED
        BY <4>1, <4>2 DEF m
    <3> QED
      BY <3>2, <3>3
  <2>3. SubSeq(occurred, 1, n) \in Seq(Alarm)
    <3> HIDE DEF n
    <3> QED
      BY <2>2, <2>9
  <2>4. Good(SubSeq(occurred, 1, n))
    <3> SUFFICES ASSUME NEW a \in ToSet(cards) \cap ToSet(StoredAlarms)
                 PROVE  Holds(SubSeq(occurred, 1, n), a)
      BY DEF Good
    <3>1. a \in ToSet(occurred)
      BY DEF CardInv, StoredFirst, Stored, ToSet
    <3> HIDE DEF n
    <3> QED
      BY <2>9, <3>1, ReadHolds
  <2>5. new \in RecentLoads /\ new.items = SubSeq(occurred, 1, n)
    BY <2>3 DEF RecentLoads
  <2> HIDE DEF new, n
  <2>6. recentLoads' \in Seq(RecentLoads)
    BY <1>1, <2>1, <2>5
  <2>7. \A j \in DOMAIN recentLoads' :
           \/ recentLoads'[j] = new
           \/ j \in DOMAIN recentLoads /\ recentLoads'[j] = recentLoads[j]
    BY <1>1, <2>1
  <2>8. \A j \in DOMAIN recentLoads' : recentLoads'[j].read => Good(recentLoads'[j].items)
    BY <1>1, <2>4, <2>5, <2>7
  <2> QED
    BY <1>1, <1>2, <2>1, <2>6, <2>8, LoadsKeepCards DEF Good
<1>5. ASSUME NEW i \in DOMAIN recentLoads, RecentAnswered(i) \/ RecentFails(i)
      PROVE  CardInv'
  <2>1. /\ recentLoads' = RemoveAt(recentLoads, i)
        /\ \/ UNCHANGED <<recent, answered>>
           \/ recentLoads[i].read /\ recent' = recentLoads[i].items /\ answered' = TRUE
    BY <1>5 DEF RecentAnswered, RecentFails
  <2>2. i \in 1..Len(recentLoads)
    BY <1>1
  <2>3. recentLoads[i] \in RecentLoads
    BY <1>1, <2>2, ElementOfSeq
  <2>6. recentLoads[i].items \in Seq(Alarm)
    BY <2>3 DEF RecentLoads
  <2>4. recent' \in Seq(Alarm) /\ answered' \in BOOLEAN /\ (answered' => Good(recent'))
    <3>1. CASE UNCHANGED <<recent, answered>>
      BY <1>1, <3>1
    <3>2. CASE recentLoads[i].read /\ recent' = recentLoads[i].items /\ answered' = TRUE
      BY <1>1, <2>6, <3>2
    <3> QED
      BY <2>1, <3>1, <3>2
  <2> DEFINE n == Len(recentLoads)
             Was(j) == IF j < i THEN j ELSE j + 1
  <2>5. /\ recentLoads' \in Seq(RecentLoads) /\ Len(recentLoads') = n - 1
        /\ \A j \in 1..(n - 1) : recentLoads'[j] = recentLoads[Was(j)]
    BY <1>1, <2>1, <2>2, Removed
  <2>9. DOMAIN recentLoads = 1..n /\ DOMAIN recentLoads' = 1..(n - 1) /\ n \in Nat
    BY <1>1, <2>5
  <2> HIDE DEF n
  <2>7. \A j \in 1..(n - 1) : Was(j) \in 1..n
    BY <2>9
  <2> HIDE DEF Was
  <2>8. \A j \in DOMAIN recentLoads' : recentLoads'[j].read => Good(recentLoads'[j].items)
    BY <1>1, <2>5, <2>7, <2>9
  <2> QED
    BY <1>2, <2>4, <2>5, <2>8, LoadsKeepCards DEF Good
<1> QED
  BY <1>3, <1>4, <1>5

LEMMA CardStep == CardInv /\ [CardNext]_cardVars => CardInv'
<1> SUFFICES ASSUME CardInv, [CardNext]_cardVars PROVE CardInv'
  OBVIOUS
<1> DEFINE same == <<cards, recentLoads, recent, answered>>
<1>1. /\ incoming \in Seq(Alarm) /\ \A i \in DOMAIN incoming : Stored(incoming[i])
      /\ <<>> \in Seq(Alarm) /\ DOMAIN <<>> = {}
  BY DEF CardInv, CardTypes, StoredFirst
<1>2. CASE StoreAlarm
  <2>1. UNCHANGED same /\ UNCHANGED incoming
    BY <1>2 DEF StoreAlarm, connection, list
  <2> QED
    BY <1>1, <1>2, <2>1, OthersKeepCards
<1>3. ASSUME NEW a \in ToSet(StoredAlarms) \cup OtherAlarms, Announce(a) PROVE CardInv'
  <2>1. UNCHANGED same /\ occurred' = occurred /\ announcing' \subseteq announcing
    BY <1>3 DEF Announce, list
  <2>2. a \in Alarm /\ Stored(a)
    BY <1>3, CardAssumption DEF Announce, CardInv, StoredFirst, Stored, Alarm
  <2>3. incoming' = incoming \/ incoming' = Append(incoming, a)
    BY <1>3 DEF Announce
  <2>4. incoming' \in Seq(Alarm) /\ \A i \in DOMAIN incoming' : Stored(incoming'[i])
    <3>1. CASE incoming' = Append(incoming, a)
      <4>1. Append(incoming, a) \in Seq(Alarm)
        BY <1>1, <2>2
      <4>2. \A i \in DOMAIN Append(incoming, a) :
               \/ Append(incoming, a)[i] = a
               \/ i \in DOMAIN incoming /\ Append(incoming, a)[i] = incoming[i]
        BY <1>1, <2>2
      <4> QED
        BY <1>1, <2>2, <3>1, <4>1, <4>2
    <3> QED
      BY <1>1, <2>3, <3>1
  <2> QED
    BY <2>1, <2>4, OthersKeepCards
<1>4. CASE \/ \E i \in DOMAIN attempts :
                \/ TicketAnswered(i) \/ TicketFails(i) \/ Opens(i)
                \/ TicketAccepted(i) \/ TicketRefused(i) \/ Closes(i)
           \/ RetryTimerFires \/ SelectCard \/ MinimiseOrNot \/ UNCHANGED cardVars
  <2>1. UNCHANGED same /\ UNCHANGED <<occurred, announcing>>
    BY <1>4 DEF TicketAnswered, TicketFails, Opens, TicketAccepted, TicketRefused, Closes,
                RetryTimerFires, SelectCard, MinimiseOrNot, cardVars, database, connection, list
  <2>2. incoming' = incoming \/ incoming' = <<>>
    BY <1>4 DEF TicketAnswered, TicketFails, Opens, TicketAccepted, TicketRefused, Closes,
                RetryTimerFires, SelectCard, MinimiseOrNot, cardVars, database, connection, list
  <2>3. incoming' \in Seq(Alarm) /\ \A i \in DOMAIN incoming' : Stored(incoming'[i])
    BY <1>1, <2>2
  <2> QED
    BY <2>1, <2>3, OthersKeepCards
<1>5. CASE Receive \/ CloseAlert
  BY <1>5, ReceiveKeepsCards, CloseKeepsCards
<1>6. CASE \/ LoadAgain
           \/ \E i \in DOMAIN recentLoads : ReadRecent(i) \/ RecentAnswered(i) \/ RecentFails(i)
  BY <1>6, ListKeepsCards
<1>7. CASE Leave
  <2>1. /\ UNCHANGED <<occurred, announcing>> /\ incoming' = <<>> /\ cards' = <<>>
        /\ recentLoads' = <<>> /\ recent' = <<>> /\ answered' = FALSE
    BY <1>7 DEF Leave, database
  <2>2. <<>> \in Seq(RecentLoads)
    OBVIOUS
  <2>3. CardTypes'
    BY <1>1, <2>1, <2>2 DEF CardInv, CardTypes
  <2>4. StoredFirst'
    BY <1>1, <2>1 DEF CardInv, StoredFirst, Stored
  <2>5. ReadHoldsTheCards' /\ RecentListHoldsTheCards'
    BY <1>1, <2>1, Zenon DEF ReadHoldsTheCards, RecentListHoldsTheCards
  <2> QED
    BY <2>3, <2>4, <2>5 DEF CardInv
<1>8. CASE Enter
  <2>1. /\ UNCHANGED <<occurred, announcing, incoming, cards, recent, answered>>
        /\ recentLoads' = <<NewLoad>>
    BY <1>8 DEF Enter, database
  <2>2. NewLoad \in RecentLoads /\ NewLoad.read = FALSE
    BY DEF NewLoad, RecentLoads
  <2>3. /\ recentLoads' \in Seq(RecentLoads)
       /\ \A i \in DOMAIN recentLoads' : recentLoads'[i] = NewLoad
    BY <2>1, <2>2
  <2>4. /\ recent \in Seq(Alarm) /\ answered \in BOOLEAN
        /\ answered => \A a \in ToSet(cards) \cap ToSet(StoredAlarms) : Holds(recent, a)
    BY DEF CardInv, CardTypes, RecentListHoldsTheCards
  <2> QED
    BY <2>1, <2>2, <2>3, <2>4, LoadsKeepCards
<1> QED
  BY <1>2, <1>3, <1>4, <1>5, <1>6, <1>7, <1>8 DEF CardNext

\* An alarm with a card is in the list, and the page has one connection.
LEMMA AlarmsAreInView == CardSpec => []AlarmsStayInView
<1>1. ConnectionInv /\ CardInv => AlarmsStayInView
  BY ConnectionIsOne DEF CardInv, AlarmsStayInView
<1> QED
  BY <1>1, ConnectionStarts, ConnectionStep, CardsStart, CardStep, PTL DEF CardSpec

-----------------------------------------------------------------------------
(* The pages together.                                                     *)

\* Whatever answer of the service is the last, each page shows what was asked for last, and no
\* alarm that has a card is missing in the list of recent events.
THEOREM PagesShowWhatIsAsked == PagesSpec => []PagesShowWhatIsAskedFor
<1>1. /\ ListIsTheOneAskedFor /\ DetailIsOfTheEventSelected
      /\ ChartIsOfTheRangeChosen /\ AlarmsStayInView
      => PagesShowWhatIsAskedFor
  BY DEF PagesShowWhatIsAskedFor
<1> QED
  BY <1>1, ListsAreThoseAskedFor, DetailsAreOfTheEventSelected, ChartsAreOfTheRangeChosen,
     AlarmsAreInView, PTL DEF PagesSpec

-----------------------------------------------------------------------------
(* The history of events, read page after page.                            *)

\* The rows that come before e in the order asked for.
Earlier(e) == {f \in Matching : OrderBy(f, e)}
Skipped == (reader.page - 1) * HistoryLimit
Turning == reader.step \in {"count", "select"}

HistoryTypes ==
    /\ table \in [{e.id : e \in Pool} -> {"absent", "NEW"} \cup Reviews]
    /\ query \in [filters : HistoryFilters, sortBy : SortFields, sortOrder : SortOrders]
    /\ reader \in [step : {"off", "count", "select", "done"}, page : Nat, total : Nat,
                   first : SUBSET Pool, read : Seq(Pool),
                   notes : SUBSET {"arrival", "between", "review"}]
    /\ Turning => reader.page >= 1
    /\ reader.step = "off" => reader.read = <<>>

\* What matched at first and is not read yet comes after the pages that are.
UnreadIsAhead ==
    Turning /\ reader.notes \subseteq {"arrival"} =>
        \A e \in reader.first :
            /\ e \in Matching
            /\ e \in ToSet(reader.read) \/ Skipped <= Cardinality(Earlier(e))

\* The total of the page is the number of rows it is selected from.
CountHolds ==
    reader.step = "select" /\ reader.notes \subseteq {"arrival"} =>
        reader.total = Cardinality(Matching)

\* While nothing happens, what is read is the beginning of the only order there is.
ReadInOrder ==
    Turning /\ reader.notes = {} =>
        /\ Skipped <= Cardinality(Matching)
        /\ \A s \in Orders : reader.read = SubSeq(s, 1, Skipped)

HistoryInv ==
    /\ HistoryTypes
    /\ UnreadIsAhead
    /\ CountHolds
    /\ ReadInOrder
    /\ HistoryIsReadToTheEnd


-----------------------------------------------------------------------------
(* Pages.                                                                  *)

LEMMA NextSkip ==
    ASSUME NEW p \in Nat, p >= 1
    PROVE  /\ (p - 1) * HistoryLimit \in Nat
           /\ ((p + 1) - 1) * HistoryLimit = (p - 1) * HistoryLimit + HistoryLimit
  BY HistoryAssumption, SMT

\* There is a next page if and only if rows are left.
LEMMA PagesCover ==
    ASSUME NEW p \in Nat, NEW n \in Nat
    PROVE  p < TotalPages(n) <=> p * HistoryLimit < n
  <1> DEFINE m == n + HistoryLimit - 1
             q == m \div HistoryLimit
             r == m % HistoryLimit
  <1>1. /\ HistoryLimit \in Nat /\ HistoryLimit >= 1 /\ m \in Nat /\ q \in Nat /\ r \in Nat
        /\ m = HistoryLimit * q + r /\ r < HistoryLimit
    BY HistoryAssumption, SMT
  <1>2. m = n + HistoryLimit - 1
    OBVIOUS
  <1>3. TotalPages(n) = q
    BY DEF TotalPages
  <1> HIDE DEF m, q, r
  <1>4. CASE p < q
    <2>1. HistoryLimit * (p + 1) <= HistoryLimit * q
      BY <1>1, <1>4, SMT
    <2> QED BY <1>1, <1>2, <1>3, <1>4, <2>1, SMT
  <1>5. CASE ~(p < q)
    <2>1. HistoryLimit * q <= HistoryLimit * p
      BY <1>1, <1>5, SMT
    <2> QED BY <1>1, <1>2, <1>3, <1>5, <2>1, SMT
  <1> QED BY <1>4, <1>5

-----------------------------------------------------------------------------
(* The order of rows.                                                      *)

LEMMA RankType == \A s \in {"CONFIRMED", "FALSE_ALARM", "NEW", "RESOLVED"} : Rank(s) \in Int
  <1> SUFFICES ASSUME NEW s \in {"CONFIRMED", "FALSE_ALARM", "NEW", "RESOLVED"}
               PROVE  Rank(s) \in Int
    OBVIOUS
  <1>1. \E i \in DOMAIN Sorted : Sorted[i] = s
    <2>1. DOMAIN Sorted = 1..4
      BY DEF Sorted
    <2>2. Sorted[1] = "CONFIRMED" /\ Sorted[2] = "FALSE_ALARM" /\ Sorted[3] = "NEW"
          /\ Sorted[4] = "RESOLVED"
      BY DEF Sorted
    <2>3. 1 \in 1..4 /\ 2 \in 1..4 /\ 3 \in 1..4 /\ 4 \in 1..4
      BY SMT
    <2> QED BY <2>1, <2>2, <2>3
  <1>2. Rank(s) \in DOMAIN Sorted
    BY <1>1 DEF Rank
  <1> QED BY <1>2 DEF Sorted

LEMMA ValuesAreIntegers ==
    ASSUME HistoryTypes, NEW e \in Matching
    PROVE  e \in Pool /\ e.id \in Int /\ ValueOf(e) \in Int
  <1>1. e \in Pool /\ table[e.id] # "absent"
    BY DEF Matching, InTable
  <1>2. e.id \in Int /\ e.at \in Int /\ e.zone \in Int
    BY <1>1, HistoryAssumption
  <1>3. Rank(table[e.id]) \in Int
    <2>1. table \in [{x.id : x \in Pool} -> {"absent", "NEW"} \cup Reviews]
      BY DEF HistoryTypes
    <2>2. e.id \in {x.id : x \in Pool}
      BY <1>1
    <2>3. table[e.id] \in {"absent", "NEW"} \cup Reviews
      BY <2>1, <2>2
    <2>4. table[e.id] \in {"CONFIRMED", "FALSE_ALARM", "NEW", "RESOLVED"}
      BY <1>1, <2>3, HistoryAssumption
    <2> QED BY <2>4, RankType
  <1>4. query.sortBy \in {"occurredAt", "zone", "status"}
    BY HistoryAssumption DEF HistoryTypes
  <1> QED BY <1>1, <1>2, <1>3, <1>4 DEF ValueOf

LEMMA OneComesFirst ==
    ASSUME HistoryTypes, NEW e \in Matching, NEW f \in Matching, OrderBy(e, f)
    PROVE  ~OrderBy(f, e)
  BY ValuesAreIntegers DEF OrderBy

LEMMA MatchingIsFinite ==
    /\ IsFiniteSet(Matching) /\ Cardinality(Matching) \in Nat
    /\ \A e : /\ IsFiniteSet(Earlier(e)) /\ Cardinality(Earlier(e)) \in Nat
  <1>1. Matching \subseteq Pool /\ \A e : Earlier(e) \subseteq Matching
    BY DEF Matching, InTable, Earlier
  <1>2. IsFiniteSet(Matching)
    BY <1>1, HistoryAssumption, FS_Subset
  <1> QED BY <1>1, <1>2, FS_Subset, FS_CardinalityType

LEMMA OrderIsSequence ==
    ASSUME NEW s \in Orders
    PROVE  /\ s \in Seq(Matching) /\ Len(s) = Cardinality(Matching)
           /\ \A i \in 1..Cardinality(Matching) : s[i] \in Matching
           /\ \A i, j \in 1..Cardinality(Matching) : i # j => s[i] # s[j]
           /\ \A i, j \in 1..Cardinality(Matching) : i < j => OrderBy(s[i], s[j])
  <1> DEFINE n == Cardinality(Matching)
  <1>1. n \in Nat
    BY MatchingIsFinite
  <1> HIDE DEF n
  <1>2. /\ s \in [1..n -> Matching] /\ \A i, j \in 1..n : i # j => s[i] # s[j]
        /\ \A i, j \in DOMAIN s : i < j => OrderBy(s[i], s[j])
    BY DEF Orders, SetToSeqs, n
  <1>3. s \in Seq(Matching) /\ Len(s) = n
    BY <1>1, <1>2
  <1> QED BY <1>2, <1>3 DEF n

\* Every row has a place.
LEMMA OrderHasAll ==
    ASSUME NEW s \in Orders, NEW e \in Matching
    PROVE  \E i \in 1..Cardinality(Matching) : s[i] = e
  <1> DEFINE n == Cardinality(Matching)
  <1>1. n \in Nat
    BY MatchingIsFinite
  <1> HIDE DEF n
  <1>2. s \in [1..n -> Matching] /\ \A i, j \in 1..n : i # j => s[i] # s[j]
    BY DEF Orders, SetToSeqs, n
  <1>3. s \in Injection(1..n, Matching)
    BY <1>2 DEF Injection, IsInjective
  <1>4. IsFiniteSet(1..n) /\ Cardinality(1..n) = n
    BY <1>1, FS_Interval
  <1>5. s \in Surjection(1..n, Matching)
    BY <1>3, <1>4, FS_Injection, MatchingIsFinite DEF n
  <1> QED BY <1>5 DEF Surjection, n

\* The place of a row is the number of rows before it.
LEMMA PlaceOfRow ==
    ASSUME HistoryTypes, NEW s \in Orders, NEW i \in 1..Cardinality(Matching)
    PROVE  Cardinality(Earlier(s[i])) = i - 1
  <1> DEFINE n == Cardinality(Matching)
             before == 1..(i - 1)
             f == [j \in before |-> s[j]]
  <1>1. n \in Nat /\ i \in Int /\ i >= 1 /\ i <= n
    BY MatchingIsFinite
  <1>2. /\ \A j \in 1..n : s[j] \in Matching
        /\ \A j, k \in 1..n : j # k => s[j] # s[k]
        /\ \A j, k \in 1..n : j < k => OrderBy(s[j], s[k])
    BY OrderIsSequence
  <1> HIDE DEF n
  <1>3. \A j \in before : j \in 1..n /\ j < i
    BY <1>1
  <1>4. i \in 1..n
    BY <1>1
  <1>5. \A j \in before : s[j] \in Earlier(s[i])
    BY <1>2, <1>3, <1>4 DEF Earlier
  <1>6. \A e \in Earlier(s[i]) : \E j \in before : s[j] = e
    <2> SUFFICES ASSUME NEW e \in Earlier(s[i])
                 PROVE  \E j \in before : s[j] = e
      OBVIOUS
    <2>1. e \in Matching /\ OrderBy(e, s[i]) /\ s[i] \in Matching
      BY <1>2, <1>4 DEF Earlier
    <2>2. PICK j \in 1..n : s[j] = e
      BY <2>1, OrderHasAll DEF n
    <2>3. ~OrderBy(s[i], e)
      BY <2>1, OneComesFirst
    <2>4. ~OrderBy(e, e)
      BY <2>1, OneComesFirst
    <2>5. ~(i < j) /\ i # j
      BY <1>2, <1>4, <2>1, <2>2, <2>3, <2>4
    <2>6. j \in before
      BY <1>1, <2>2, <2>5
    <2> QED BY <2>2, <2>6
  <1>7. f \in [before -> Earlier(s[i])] /\ \A j \in before : f[j] = s[j]
    BY <1>5
  <1>8. \A j, k \in before : j # k => f[j] # f[k]
    BY <1>2, <1>3, <1>7
  <1> HIDE DEF f
  <1>9. f \in Bijection(before, Earlier(s[i]))
    BY <1>6, <1>7, <1>8 DEF Bijection, Injection, Surjection, IsInjective
  <1>10. IsFiniteSet(before) /\ Cardinality(before) = i - 1
    BY <1>1, FS_Interval
  <1> HIDE DEF before
  <1>11. ExistsBijection(before, Earlier(s[i]))
    BY <1>9 DEF ExistsBijection
  <1> QED BY <1>10, <1>11, FS_Bijection

\* The order asked for leaves the database no choice.
LEMMA OneOrder ==
    ASSUME HistoryTypes, NEW s \in Orders, NEW t \in Orders
    PROVE  s = t
  <1> DEFINE n == Cardinality(Matching)
  <1>1. s \in [1..n -> Matching] /\ t \in [1..n -> Matching]
    BY DEF Orders, SetToSeqs
  <1>2. \A i \in 1..n : s[i] = t[i]
    <2> SUFFICES ASSUME NEW i \in 1..n
                 PROVE  s[i] = t[i]
      OBVIOUS
    <2>1. s[i] \in Matching
      BY <1>1
    <2>2. PICK j \in 1..n : t[j] = s[i]
      BY <2>1, OrderHasAll
    <2>3. i - 1 = j - 1
      BY <2>2, PlaceOfRow
    <2>4. i = j
      BY <2>3, MatchingIsFinite
    <2> QED BY <2>2, <2>4
  <1> DEFINE D == 1..n
  <1> HIDE DEF n
  <1>3. s \in [D -> Matching] /\ t \in [D -> Matching] /\ \A i \in D : s[i] = t[i]
    BY <1>1, <1>2
  <1> HIDE DEF D
  <1> QED BY ONLY <1>3

-----------------------------------------------------------------------------
(* The reader.                                                             *)

LEMMA HistoryBegins == HistoryInit => HistoryInv
  <1> SUFFICES ASSUME HistoryInit
               PROVE  HistoryInv
    OBVIOUS
  <1>1. /\ reader = [step |-> "off", page |-> 0, total |-> 0, first |-> {}, read |-> <<>>,
                     notes |-> {}]
        /\ query \in [filters : HistoryFilters, sortBy : SortFields, sortOrder : SortOrders]
    BY DEF HistoryInit
  <1>2. table \in [{e.id : e \in Pool} -> {"absent", "NEW"} \cup Reviews]
    BY DEF HistoryInit
  <1>3. HistoryTypes
    BY <1>1, <1>2, EmptySeq DEF HistoryTypes, Turning
  <1>4. UnreadIsAhead /\ CountHolds /\ ReadInOrder /\ HistoryIsReadToTheEnd
    BY <1>1 DEF UnreadIsAhead, CountHolds, ReadInOrder, HistoryIsReadToTheEnd, Turning
  <1> QED BY <1>3, <1>4 DEF HistoryInv

LEMMA AskKeepsHistory == HistoryInv /\ AskHistory => HistoryInv'
  <1> SUFFICES ASSUME HistoryInv, AskHistory
               PROVE  HistoryInv'
    OBVIOUS
  <1>0. HistoryTypes /\ table' = table /\ query' = query /\ reader.step = "off"
        /\ reader.read = <<>>
    BY DEF HistoryInv, HistoryTypes, AskHistory
  <1>1. reader' = [reader EXCEPT !.step = "count", !.page = 1, !.first = Matching]
    BY DEF AskHistory
  <1>2. Matching \subseteq Pool
    BY DEF Matching, InTable
  <1>3. /\ reader'.step = "count" /\ reader'.page = 1 /\ reader'.first = Matching
        /\ reader'.read = <<>> /\ reader'.notes = reader.notes
    BY <1>0, <1>1 DEF HistoryTypes
  <1>4. HistoryTypes'
    <2> DEFINE m == Matching
    <2>1. reader' = [reader EXCEPT !.step = "count", !.page = 1, !.first = m] /\ m \subseteq Pool
      BY <1>1, <1>2
    <2> HIDE DEF m
    <2>2. reader' \in [step : {"off", "count", "select", "done"}, page : Nat, total : Nat,
                       first : SUBSET Pool, read : Seq(Pool),
                       notes : SUBSET {"arrival", "between", "review"}]
      BY <1>0, <2>1 DEF HistoryTypes
    <2> QED BY <1>0, <1>3, <2>2 DEF HistoryTypes, Turning
  <1>5. Matching' = Matching /\ Orders' = Orders /\ \A e : Earlier(e)' = Earlier(e)
    BY <1>0 DEF Matching, InTable, Where, Orders, OrderBy, ValueOf, Earlier
  <1>6. Skipped' = 0
    BY <1>3, HistoryAssumption DEF Skipped
  <1>7. UnreadIsAhead' /\ ReadInOrder'
    <2>1. \A s : SubSeq(s, 1, 0) = <<>>
      BY SubSeqEmpty
    <2>2. \A e \in Matching : 0 <= Cardinality(Earlier(e))
      BY MatchingIsFinite
    <2>3. 0 <= Cardinality(Matching)
      BY MatchingIsFinite
    <2>4. UnreadIsAhead'
      BY <1>3, <1>5, <1>6, <2>2 DEF UnreadIsAhead
    <2>5. ReadInOrder'
      BY <1>3, <1>5, <1>6, <2>1, <2>3 DEF ReadInOrder
    <2> QED BY <2>4, <2>5
  <1>8. CountHolds' /\ HistoryIsReadToTheEnd'
    BY <1>3 DEF CountHolds, HistoryIsReadToTheEnd
  <1> QED BY <1>4, <1>7, <1>8 DEF HistoryInv

LEMMA CountKeepsHistory == HistoryInv /\ CountEvents => HistoryInv'
  <1> SUFFICES ASSUME HistoryInv, CountEvents
               PROVE  HistoryInv'
    OBVIOUS
  <1>0. HistoryTypes /\ table' = table /\ query' = query /\ reader.step = "count"
    BY DEF HistoryInv, CountEvents
  <1>1. reader' = [reader EXCEPT !.step = "select", !.total = Cardinality(Matching)]
    BY DEF CountEvents
  <1>3. /\ reader'.step = "select" /\ reader'.total = Cardinality(Matching)
        /\ reader'.page = reader.page /\ reader'.first = reader.first
        /\ reader'.read = reader.read /\ reader'.notes = reader.notes
    BY <1>0, <1>1 DEF HistoryTypes
  <1>4. HistoryTypes'
    BY <1>0, <1>1, <1>3, MatchingIsFinite DEF HistoryTypes, Turning
  <1>5. Matching' = Matching /\ Orders' = Orders /\ \A e : Earlier(e)' = Earlier(e)
    BY <1>0 DEF Matching, InTable, Where, Orders, OrderBy, ValueOf, Earlier
  <1>6. Skipped' = Skipped /\ Turning /\ Turning'
    BY <1>0, <1>3 DEF Skipped, Turning
  <1>7. UnreadIsAhead' /\ ReadInOrder'
    BY <1>3, <1>5, <1>6 DEF UnreadIsAhead, ReadInOrder, HistoryInv
  <1>8. CountHolds' /\ HistoryIsReadToTheEnd'
    BY <1>3, <1>5 DEF CountHolds, HistoryIsReadToTheEnd
  <1> QED BY <1>4, <1>7, <1>8 DEF HistoryInv

LEMMA FailureKeepsHistory == HistoryInv /\ HistoryFails => HistoryInv'
  <1> SUFFICES ASSUME HistoryInv, HistoryFails
               PROVE  HistoryInv'
    OBVIOUS
  <1>0. HistoryTypes /\ table' = table /\ query' = query
    BY DEF HistoryInv, HistoryFails
  <1>1. reader' = [reader EXCEPT !.step = "off", !.page = 0, !.total = 0, !.first = {},
                                 !.read = <<>>, !.notes = {}]
    BY DEF HistoryFails
  <1>3. reader'.step = "off" /\ reader'.read = <<>>
    BY <1>0, <1>1 DEF HistoryTypes
  <1>4. HistoryTypes'
    BY <1>0, <1>1, <1>3, EmptySeq DEF HistoryTypes, Turning
  <1>5. (UnreadIsAhead /\ CountHolds /\ ReadInOrder /\ HistoryIsReadToTheEnd)'
    BY <1>3 DEF UnreadIsAhead, CountHolds, ReadInOrder, HistoryIsReadToTheEnd, Turning
  <1> QED BY <1>4, <1>5 DEF HistoryInv

\* Rows that are stored change neither what matched nor the order of it.
LEMMA StoreKeepsHistory == HistoryInv /\ StoreEvent => HistoryInv'
  <1> SUFFICES ASSUME HistoryInv, StoreEvent
               PROVE  HistoryInv'
    OBVIOUS
  <1>0. HistoryTypes /\ query' = query
    BY DEF HistoryInv, StoreEvent
  <1>1. PICK n \in Pool \ InTable : table' = [table EXCEPT ![n.id] = "NEW"]
    BY DEF StoreEvent
  <1>2. DEFINE note == IF reader.step = "select" THEN {"arrival", "between"} ELSE {"arrival"}
  <1>3. reader' = [reader EXCEPT !.notes = IF reader.step = "off" THEN @ ELSE @ \cup note]
    BY DEF StoreEvent, Notes
  <1>4. /\ reader'.step = reader.step /\ reader'.total = reader.total
        /\ reader'.page = reader.page /\ reader'.first = reader.first
        /\ reader'.read = reader.read
        /\ reader'.notes = IF reader.step = "off" THEN reader.notes ELSE reader.notes \cup note
    BY <1>0, <1>3 DEF HistoryTypes
  <1>5. HistoryTypes'
    <2>1. table' \in [{e.id : e \in Pool} -> {"absent", "NEW"} \cup Reviews]
      BY <1>0, <1>1 DEF HistoryTypes
    <2>2. reader'.notes \in SUBSET {"arrival", "between", "review"}
      BY <1>0, <1>4 DEF HistoryTypes
    <2>3. reader' = [reader EXCEPT !.notes = reader'.notes]
      BY <1>0, <1>3, <1>4 DEF HistoryTypes
    <2> HIDE DEF note
    <2>4. reader' \in [step : {"off", "count", "select", "done"}, page : Nat, total : Nat,
                       first : SUBSET Pool, read : Seq(Pool),
                       notes : SUBSET {"arrival", "between", "review"}]
      BY <1>0, <2>2, <2>3 DEF HistoryTypes
    <2> QED BY <1>0, <1>4, <2>1, <2>4 DEF HistoryTypes, Turning
  <1>6. \A e \in InTable : e \in InTable' /\ table'[e.id] = table[e.id]
    BY <1>0, <1>1 DEF InTable, HistoryTypes
  <1>7. \A e \in Matching : e \in Matching'
    BY <1>0, <1>6 DEF Matching, Where
  <1>8. \A e, f \in Matching : OrderBy(e, f) => OrderBy(e, f)'
    BY <1>0, <1>6 DEF Matching, OrderBy, ValueOf
  <1>9. \A e \in Matching : Earlier(e) \subseteq Earlier(e)'
    BY <1>7, <1>8 DEF Earlier
  <1>10. \A e \in Matching : /\ Cardinality(Earlier(e)) \in Nat /\ Cardinality(Earlier(e)') \in Nat
                             /\ Cardinality(Earlier(e)) <= Cardinality(Earlier(e)')
    <2> SUFFICES ASSUME NEW e \in Matching
                 PROVE  /\ Cardinality(Earlier(e)) \in Nat /\ Cardinality(Earlier(e)') \in Nat
                        /\ Cardinality(Earlier(e)) <= Cardinality(Earlier(e)')
      OBVIOUS
    <2>1. Earlier(e)' \subseteq Pool
      BY DEF Earlier, Matching, InTable
    <2>2. IsFiniteSet(Earlier(e)')
      BY <2>1, HistoryAssumption, FS_Subset
    <2> QED BY <1>9, <2>2, FS_Subset, FS_CardinalityType
  <1>11. Skipped' = Skipped /\ (Turning' <=> Turning)
    BY <1>4 DEF Skipped, Turning
  <1>12. Skipped \in Int \/ ~Turning
    BY <1>0, HistoryAssumption DEF Skipped, HistoryTypes
  <1>13. reader.notes \subseteq reader'.notes
    BY <1>4
  <1>14. UnreadIsAhead'
    <2> SUFFICES ASSUME Turning, reader'.notes \subseteq {"arrival"}, NEW e \in reader.first
                 PROVE  /\ e \in Matching'
                        /\ e \in ToSet(reader.read) \/ Skipped <= Cardinality(Earlier(e)')
      BY <1>4, <1>11 DEF UnreadIsAhead
    <2>1. /\ e \in Matching
          /\ e \in ToSet(reader.read) \/ Skipped <= Cardinality(Earlier(e))
      BY <1>13 DEF HistoryInv, UnreadIsAhead
    <2> QED BY <1>7, <1>10, <1>12, <2>1
  <1>15. reader.step # "off" => "arrival" \in reader'.notes
    BY <1>4
  <1>16. CountHolds'
    BY <1>4 DEF CountHolds
  <1>17. ReadInOrder'
    BY <1>11, <1>15 DEF ReadInOrder, Turning
  <1>18. HistoryIsReadToTheEnd'
    BY <1>4, <1>13, <1>15 DEF HistoryIsReadToTheEnd, HistoryInv
  <1> QED BY <1>5, <1>14, <1>16, <1>17, <1>18 DEF HistoryInv

\* After a review nothing is promised of what is still to be read.
LEMMA ReviewKeepsHistory == HistoryInv /\ ReviewStored => HistoryInv'
  <1> SUFFICES ASSUME HistoryInv, ReviewStored
               PROVE  HistoryInv'
    OBVIOUS
  <1>0. HistoryTypes /\ query' = query
    BY DEF HistoryInv, ReviewStored
  <1>1. PICK n \in InTable, s \in Reviews : table' = [table EXCEPT ![n.id] = s]
    BY DEF ReviewStored
  <1>3. reader' = [reader EXCEPT !.notes = IF reader.step = "off" THEN @ ELSE @ \cup {"review"}]
    BY DEF ReviewStored, Notes
  <1>4. /\ reader'.step = reader.step
        /\ reader'.page = reader.page /\ reader'.first = reader.first
        /\ reader'.read = reader.read
        /\ reader'.notes = IF reader.step = "off" THEN reader.notes
                                                  ELSE reader.notes \cup {"review"}
    BY <1>0, <1>3 DEF HistoryTypes
  <1>5. HistoryTypes'
    <2>1. table' \in [{e.id : e \in Pool} -> {"absent", "NEW"} \cup Reviews]
      BY <1>0, <1>1 DEF HistoryTypes
    <2>2. reader'.notes \in SUBSET {"arrival", "between", "review"}
      BY <1>0, <1>4 DEF HistoryTypes
    <2>3. reader' = [reader EXCEPT !.notes = reader'.notes]
      BY <1>0, <1>3, <1>4 DEF HistoryTypes
    <2>4. reader' \in [step : {"off", "count", "select", "done"}, page : Nat, total : Nat,
                       first : SUBSET Pool, read : Seq(Pool),
                       notes : SUBSET {"arrival", "between", "review"}]
      BY <1>0, <2>2, <2>3 DEF HistoryTypes
    <2> QED BY <1>0, <1>4, <2>1, <2>4 DEF HistoryTypes, Turning
  <1>6. reader.notes \subseteq reader'.notes
        /\ (reader.step # "off" => "review" \in reader'.notes)
    BY <1>4
  <1>7. (UnreadIsAhead /\ CountHolds /\ ReadInOrder)'
    BY <1>4, <1>6 DEF UnreadIsAhead, CountHolds, ReadInOrder, Turning
  <1>8. HistoryIsReadToTheEnd'
    BY <1>4, <1>6 DEF HistoryIsReadToTheEnd, HistoryInv
  <1> QED BY <1>5, <1>7, <1>8 DEF HistoryInv

\* A page goes on where the last one ended, or further back for what was stored since.
LEMMA FindKeepsHistory == HistoryInv /\ FindEvents => HistoryInv'
  <1> SUFFICES ASSUME HistoryInv, FindEvents
               PROVE  HistoryInv'
    OBVIOUS
  <1>0. HistoryTypes /\ table' = table /\ query' = query /\ reader.step = "select" /\ Turning
    BY DEF HistoryInv, FindEvents, Turning
  <1> DEFINE n == Cardinality(Matching)
             skip == (reader.page - 1) * HistoryLimit
             end == skip + HistoryLimit
             hasNext == reader.page < TotalPages(reader.total)
             EndOf(s) == IF end < Len(s) THEN end ELSE Len(s)
  <1>1. PICK s \in Orders :
           reader' = [reader EXCEPT !.read = @ \o SubSeq(s, skip + 1, EndOf(s)),
                                    !.step = IF hasNext THEN "count" ELSE "done",
                                    !.page = IF hasNext THEN @ + 1 ELSE @]
    BY DEF FindEvents
  <1> DEFINE last == EndOf(s)
             found == SubSeq(s, skip + 1, last)
  <1>2. /\ n \in Nat /\ reader.page \in Nat /\ reader.page >= 1 /\ HistoryLimit \in Nat
        /\ HistoryLimit >= 1 /\ reader.total \in Nat /\ reader.read \in Seq(Pool)
    BY <1>0, MatchingIsFinite, HistoryAssumption DEF HistoryTypes
  <1>3. skip \in Nat /\ reader.page * HistoryLimit = end /\ end \in Nat
        /\ ((reader.page + 1) - 1) * HistoryLimit = end
        /\ end = skip + HistoryLimit
    BY <1>2, NextSkip
  <1>4. /\ s \in Seq(Matching) /\ Len(s) = n
        /\ \A i \in 1..n : s[i] \in Matching
    BY OrderIsSequence
  <1>5. Matching \subseteq Pool
    BY DEF Matching, InTable
  <1>6. last = IF end < n THEN end ELSE n
    BY <1>4
  <1> HIDE DEF n, end, skip, hasNext, last, EndOf
  <1>7. /\ last \in Nat /\ last <= n
    BY <1>2, <1>3, <1>6
  <1>8. found \in Seq(Pool) /\ \A i \in skip + 1..last : \E j \in DOMAIN found : found[j] = s[i]
    <2>1. \A i \in skip + 1..last : s[i] \in Pool
      BY <1>3, <1>4, <1>5, <1>7
    <2>2. /\ found \in Seq(Pool)
          /\ Len(found) = IF skip + 1 <= last THEN last - (skip + 1) + 1 ELSE 0
          /\ \A i \in 1..last - (skip + 1) + 1 : found[i] = s[skip + 1 + i - 1]
      BY <1>3, <1>7, <2>1, SubSeqProperties
    <2> HIDE DEF found
    <2>3. ASSUME NEW i \in skip + 1..last
          PROVE  \E j \in DOMAIN found : found[j] = s[i]
      <3>1. i - skip \in 1..last - (skip + 1) + 1 /\ i - skip \in 1..Len(found)
            /\ skip + 1 + (i - skip) - 1 = i
        BY <1>3, <1>7, <2>2, <2>3
      <3>2. i - skip \in DOMAIN found
        BY <2>2, <3>1
      <3> QED BY <2>2, <3>1, <3>2
    <2> QED BY <2>2, <2>3
  <1>9. /\ reader'.read = reader.read \o found
        /\ reader'.step = IF hasNext THEN "count" ELSE "done"
        /\ reader'.page = IF hasNext THEN reader.page + 1 ELSE reader.page
        /\ reader'.first = reader.first /\ reader'.notes = reader.notes
        /\ reader'.total = reader.total
    BY <1>0, <1>1 DEF HistoryTypes, last
  <1> HIDE DEF found
  <1>10. /\ reader'.read \in Seq(Pool)
         /\ \A x \in ToSet(reader.read) : x \in ToSet(reader'.read)
         /\ \A x \in ToSet(found) : x \in ToSet(reader'.read)
    <2>1. /\ reader'.read \in Seq(Pool) /\ Len(reader'.read) = Len(reader.read) + Len(found)
          /\ \A i \in 1..Len(reader.read) : reader'.read[i] = reader.read[i]
          /\ \A i \in 1..Len(found) : reader'.read[Len(reader.read) + i] = found[i]
      BY <1>2, <1>8, <1>9, ConcatProperties
    <2>2. /\ Len(reader.read) \in Nat /\ Len(found) \in Nat
          /\ DOMAIN reader.read = 1..Len(reader.read) /\ DOMAIN found = 1..Len(found)
          /\ DOMAIN reader'.read = 1..Len(reader'.read)
      BY <1>2, <1>8, <2>1
    <2>3. \A x \in ToSet(reader.read) : x \in ToSet(reader'.read)
      BY <2>1, <2>2 DEF ToSet
    <2>4. ASSUME NEW i \in DOMAIN found
          PROVE  \E j \in DOMAIN reader'.read : reader'.read[j] = found[i]
      <3>1. Len(reader.read) + i \in DOMAIN reader'.read
        BY <2>1, <2>2, <2>4
      <3> QED BY <2>1, <2>2, <3>1
    <2>5. \A x \in ToSet(found) : x \in ToSet(reader'.read)
      BY <2>4 DEF ToSet
    <2> QED BY <2>1, <2>3, <2>5
  <1>11. HistoryTypes'
    <2>1. reader' = [reader EXCEPT !.read = reader'.read, !.step = reader'.step,
                                   !.page = reader'.page]
      BY <1>0, <1>1, <1>9 DEF HistoryTypes
    <2>2. reader'.page \in Nat /\ reader'.page >= 1 /\ reader'.step \in {"count", "done"}
      BY <1>2, <1>9
    <2>3. reader' \in [step : {"off", "count", "select", "done"}, page : Nat, total : Nat,
                       first : SUBSET Pool, read : Seq(Pool),
                       notes : SUBSET {"arrival", "between", "review"}]
      BY <1>0, <1>10, <2>1, <2>2 DEF HistoryTypes
    <2> QED BY <1>0, <2>2, <2>3 DEF HistoryTypes, Turning
  <1>12. Matching' = Matching /\ Orders' = Orders /\ \A e : Earlier(e)' = Earlier(e)
    BY <1>0 DEF Matching, InTable, Where, Orders, OrderBy, ValueOf, Earlier
  <1>13. Skipped = skip /\ (hasNext => Skipped' = end)
    BY <1>2, <1>3, <1>9 DEF Skipped, skip, end
  \* If the total is right, there is another page if and only if rows are left.
  <1>14. reader.notes \subseteq {"arrival"} => (hasNext <=> end < n)
    BY <1>0, <1>2, <1>3, PagesCover DEF HistoryInv, CountHolds, hasNext, n
  <1>15. ASSUME reader.notes \subseteq {"arrival"}, NEW e \in reader.first
         PROVE  /\ e \in Matching
                /\ e \in ToSet(reader'.read) \/ (end <= Cardinality(Earlier(e)) /\ end < n)
    <2>1. e \in Matching /\ (e \in ToSet(reader.read) \/ skip <= Cardinality(Earlier(e)))
      BY <1>0, <1>13, <1>15 DEF HistoryInv, UnreadIsAhead
    <2>2. PICK i \in 1..n : s[i] = e
      BY <2>1, OrderHasAll DEF n
    <2>3. Cardinality(Earlier(e)) = i - 1
      BY <1>0, <2>2, PlaceOfRow DEF n
    <2>4. CASE e \in ToSet(reader.read)
      BY <1>10, <2>1, <2>4
    <2>5. CASE skip <= Cardinality(Earlier(e)) /\ i <= last
      <3>1. i \in skip + 1..last
        BY <1>2, <1>3, <1>7, <2>2, <2>3, <2>5
      <3>2. e \in ToSet(found)
        BY <1>8, <2>2, <3>1 DEF ToSet
      <3> QED BY <1>10, <2>1, <3>2
    <2>6. CASE skip <= Cardinality(Earlier(e)) /\ ~(i <= last)
      BY <1>2, <1>3, <1>6, <2>1, <2>2, <2>3, <2>6
    <2> QED BY <2>1, <2>4, <2>5, <2>6
  <1>16. UnreadIsAhead'
    <2> SUFFICES ASSUME Turning', reader'.notes \subseteq {"arrival"}, NEW e \in reader'.first
                 PROVE  /\ e \in Matching'
                        /\ e \in ToSet(reader'.read) \/ Skipped' <= Cardinality(Earlier(e)')
      BY DEF UnreadIsAhead
    <2>1. hasNext
      BY <1>9 DEF Turning
    <2> QED BY <1>9, <1>12, <1>13, <1>15, <2>1
  <1>17. CountHolds'
    BY <1>9 DEF CountHolds
  \* While nothing happened, this page follows what was read without a gap.
  <1>18. ASSUME reader.notes = {}
         PROVE  skip <= n /\ reader'.read = SubSeq(s, 1, last)
    <2>1. skip <= n /\ reader.read = SubSeq(s, 1, skip)
      BY <1>0, <1>13, <1>18 DEF HistoryInv, ReadInOrder, n
    <2>2. skip <= last
      BY <1>2, <1>3, <1>6, <2>1
    <2>3. /\ 1 \in 1..Len(s) + 1 /\ skip \in 1 - 1..Len(s) /\ last \in skip..Len(s)
      BY <1>2, <1>3, <1>4, <1>7, <2>1, <2>2
    <2>4. SubSeq(s, 1, skip) \o SubSeq(s, skip + 1, last) = SubSeq(s, 1, last)
      BY <1>4, <2>3, ConcatAdjacentSubSeq
    <2> QED BY <1>9, <2>1, <2>4 DEF found
  <1>19. ReadInOrder'
    <2> SUFFICES ASSUME Turning', reader'.notes = {}
                 PROVE  /\ Skipped' <= Cardinality(Matching)
                        /\ \A t \in Orders : reader'.read = SubSeq(t, 1, Skipped')
      BY <1>12 DEF ReadInOrder
    <2>1. hasNext /\ reader.notes = {}
      BY <1>9 DEF Turning
    <2>2. end < n /\ last = end /\ Skipped' = end
      BY <1>6, <1>13, <1>14, <2>1
    <2>3. \A t \in Orders : t = s
      BY <1>0, OneOrder
    <2>4. end <= n
      BY <1>2, <1>3, <2>2
    <2> QED BY <1>18, <2>1, <2>2, <2>3, <2>4 DEF n
  <1>20. HistoryIsReadToTheEnd'
    <2> SUFFICES ASSUME reader'.step = "done"
                 PROVE  /\ reader'.notes \subseteq {"arrival"} =>
                              reader'.first \subseteq ToSet(reader'.read)
                        /\ reader'.notes = {} => reader'.read \in Orders
      BY <1>12 DEF HistoryIsReadToTheEnd
    <2>1. ~hasNext
      BY <1>9
    <2>2. reader'.notes \subseteq {"arrival"} => reader'.first \subseteq ToSet(reader'.read)
      BY <1>9, <1>14, <1>15, <2>1
    <2>3. ASSUME reader'.notes = {}
          PROVE  reader'.read \in Orders
      <3>1. reader.notes = {} /\ ~(end < n)
        BY <1>9, <1>14, <2>1, <2>3
      <3>2. last = Len(s)
        BY <1>4, <1>6, <3>1
      <3>3. SubSeq(s, 1, Len(s)) = s
        BY <1>4, SubSeqFull
      <3> QED BY <1>18, <3>1, <3>2, <3>3
    <2> QED BY <2>2, <2>3
  <1> QED BY <1>11, <1>16, <1>17, <1>19, <1>20 DEF HistoryInv

\* Who turns the pages to the end has seen every event that matched when he began.
THEOREM HistoryReachesTheEnd == HistorySpec => []HistoryIsReadToTheEnd
  <1>1. HistoryInit => HistoryInv
    BY HistoryBegins
  <1>2. HistoryInv /\ [HistoryNext]_historyVars => HistoryInv'
    <2> SUFFICES ASSUME HistoryInv, [HistoryNext]_historyVars
                 PROVE  HistoryInv'
      OBVIOUS
    <2>1. CASE AskHistory
      BY <2>1, AskKeepsHistory
    <2>2. CASE CountEvents
      BY <2>2, CountKeepsHistory
    <2>3. CASE FindEvents
      BY <2>3, FindKeepsHistory
    <2>4. CASE HistoryFails
      BY <2>4, FailureKeepsHistory
    <2>5. CASE StoreEvent
      BY <2>5, StoreKeepsHistory
    <2>6. CASE ReviewStored
      BY <2>6, ReviewKeepsHistory
    <2>7. CASE UNCHANGED historyVars
      <3>1. table' = table /\ query' = query /\ reader' = reader
        BY <2>7 DEF historyVars
      <3>2. Matching' = Matching /\ Orders' = Orders /\ \A e : Earlier(e)' = Earlier(e)
        BY <3>1 DEF Matching, InTable, Where, Orders, OrderBy, ValueOf, Earlier
      <3>3. HistoryTypes' /\ Skipped' = Skipped /\ (Turning' <=> Turning)
        BY <3>1 DEF HistoryInv, HistoryTypes, Turning, Skipped
      <3> QED BY <3>1, <3>2, <3>3 DEF HistoryInv, UnreadIsAhead, CountHolds, ReadInOrder,
                                      HistoryIsReadToTheEnd
    <2> QED BY <2>1, <2>2, <2>3, <2>4, <2>5, <2>6, <2>7 DEF HistoryNext
  <1>3. HistoryInv => HistoryIsReadToTheEnd
    BY DEF HistoryInv
  <1> QED BY <1>1, <1>2, <1>3, PTL DEF HistorySpec

-----------------------------------------------------------------------------
(* The statistics.                                                         *)

\* What the assumptions say of the calendar, one by one.
LEMMA CalendarFacts ==
    /\ Hour \in Nat /\ Hour >= 1
    /\ Day \in Nat /\ Day >= 1
    /\ WeekDays \in Nat /\ WeekDays >= 1
    /\ Offset \in Nat
    /\ Day % Hour = 0
    /\ FirstDay \in Seq(Int) /\ Len(FirstDay) \in Nat /\ Len(FirstDay) > 1
    /\ \A m \in 1..Len(FirstDay) : FirstDay[m] \in Int
    /\ \A m, n \in 1..Len(FirstDay) : m < n => FirstDay[m] < FirstDay[n]
<1>1. FirstDay \in Seq(Int) BY CalendarAssumption
<1>2. Len(FirstDay) \in Nat /\ \A m \in 1..Len(FirstDay) : FirstDay[m] \in Int
  BY <1>1, ElementOfSeq, LenProperties
<1>3. Hour \in Nat \ {0} /\ Day \in Nat \ {0} /\ WeekDays \in Nat \ {0}
  BY CalendarAssumption
<1> QED BY <1>1, <1>2, <1>3, CalendarAssumption

\* The lengths of the calendar alone.
LEMMA Lengths ==
    /\ Hour \in Nat /\ Hour >= 1 /\ Day \in Nat /\ Day >= 1
    /\ WeekDays \in Nat /\ WeekDays >= 1 /\ Offset \in Nat
BY CalendarFacts

\* The quotient of a division, and what is left.
LEMMA Quotient ==
  ASSUME NEW t \in Int, NEW L \in Nat, L >= 1
  PROVE  /\ t \div L \in Int /\ (t \div L) * L \in Int
         /\ (t \div L) * L <= t /\ t < (t \div L) * L + L
         /\ t % L = t - (t \div L) * L
<1>1. /\ t = (L * (t \div L)) + (t % L)
      /\ t % L \in 0..(L - 1) /\ t \div L \in Int
  OBVIOUS
<1> DEFINE q == t \div L
           r == t % L
<1>2. q \in Int /\ r \in 0..(L - 1) /\ t = L * q + r
  BY <1>1
<1> HIDE DEF q, r
<1>3. q * L \in Int /\ q * L = L * q
  BY <1>2
<1>4. q * L <= t /\ t < q * L + L /\ r = t - q * L
  BY <1>2, <1>3
<1> QED BY <1>2, <1>3, <1>4 DEF q, r

\* Multiples of a length are at least that length apart.
LEMMA Apart ==
  ASSUME NEW p \in Int, NEW q \in Int, p < q, NEW L \in Nat
  PROVE  /\ p * L \in Int /\ q * L \in Int
         /\ p * L + L <= q * L
<1>1. (p + 1) * L = p * L + L /\ p * L \in Int /\ q * L \in Int
  OBVIOUS
<1>2. (p + 1) * L <= q * L
  <2>1. PICK k \in Nat : q = p + 1 + k
    <3>1. q - (p + 1) \in Nat OBVIOUS
    <3> QED BY <3>1
  <2>2. q * L = (p + 1) * L + k * L /\ k * L \in Nat
    BY <2>1
  <2> QED BY <2>2, <1>1
<1> QED BY <1>1, <1>2

\* A quotient is known by the multiple below.
LEMMA QuotientUnique ==
  ASSUME NEW t \in Int, NEW L \in Nat, L >= 1, NEW q \in Int, q * L <= t, t < q * L + L
  PROVE  t \div L = q
<1>1. t \div L \in Int /\ (t \div L) * L \in Int /\ (t \div L) * L <= t
      /\ t < (t \div L) * L + L
  BY Quotient
<1>2. ~ (t \div L < q)
  BY <1>1, Apart, q * L \in Int
<1>3. ~ (q < t \div L)
  BY <1>1, Apart, q * L \in Int
<1> QED BY <1>1, <1>2, <1>3

-----------------------------------------------------------------------------
(* Days.                                                                   *)

\* Days and their starts are integers.
LEMMA DayTypes ==
    /\ \A t \in Int : DayOf(t) \in Int
    /\ \A d \in Int : DayStart(d) \in Int
<1>1. \A t \in Int : DayOf(t) \in Int
  BY Quotient, CalendarFacts DEF DayOf
<1>2. \A d \in Int : DayStart(d) \in Int
  BY CalendarFacts DEF DayStart
<1> QED BY <1>1, <1>2

\* A day begins when the one before it has ended.
LEMMA DayFollows ==
  ASSUME NEW d \in Int
  PROVE  DayStart(d + 1) = DayStart(d) + Day
<1>1. (d + 1) * Day = d * Day + Day
  BY CalendarFacts
<1> QED BY <1>1, CalendarFacts DEF DayStart

\* A later day starts when the earlier one has ended.
LEMMA DaysApart ==
  ASSUME NEW d \in Int, NEW e \in Int, d < e
  PROVE  DayStart(d) + Day <= DayStart(e)
BY Apart, CalendarFacts DEF DayStart

\* An instant lies in its day.
LEMMA InItsDay ==
  ASSUME NEW t \in Int
  PROVE  DayStart(DayOf(t)) <= t /\ t < DayStart(DayOf(t)) + Day
<1>1. t + Offset \in Int /\ Day \in Nat /\ Day >= 1 /\ Offset \in Nat
  BY CalendarFacts
<1>2. /\ (t + Offset) \div Day \in Int /\ ((t + Offset) \div Day) * Day \in Int
      /\ ((t + Offset) \div Day) * Day <= t + Offset
      /\ t + Offset < ((t + Offset) \div Day) * Day + Day
  BY <1>1, Quotient
<1> QED BY <1>1, <1>2 DEF DayOf, DayStart

\* Instants and days are in the same order.
LEMMA DayOrder ==
  ASSUME NEW d \in Int, NEW t \in Int
  PROVE  DayStart(d) <= t <=> d <= DayOf(t)
<1>1. DayOf(t) \in Int /\ DayStart(d) \in Int /\ DayStart(DayOf(t)) \in Int /\ Day \in Nat
  BY DayTypes, CalendarFacts
<1>2. DayStart(DayOf(t)) <= t /\ t < DayStart(DayOf(t)) + Day
  BY InItsDay
<1>3. d < DayOf(t) => DayStart(d) + Day <= DayStart(DayOf(t))
  BY <1>1, DaysApart
<1>4. DayOf(t) < d => DayStart(DayOf(t)) + Day <= DayStart(d)
  BY <1>1, DaysApart
<1> QED BY <1>1, <1>2, <1>3, <1>4

\* The start of a day lies in it.
LEMMA DayOfStart ==
  ASSUME NEW d \in Int
  PROVE  DayOf(DayStart(d)) = d
<1>1. DayStart(d) \in Int /\ DayStart(d + 1) \in Int /\ DayStart(d + 1) = DayStart(d) + Day
      /\ Day >= 1 /\ Day \in Nat
  BY DayTypes, DayFollows, CalendarFacts, d + 1 \in Int
<1>2. d <= DayOf(DayStart(d)) /\ ~ (d + 1 <= DayOf(DayStart(d)))
  BY <1>1, DayOrder, d + 1 \in Int
<1> QED BY <1>1, <1>2, DayTypes

-----------------------------------------------------------------------------
(* The first day of a week.                                                *)

\* The day on which the week of a day began.
WeekStartDay(d) == d + (IF d % WeekDays = 0 THEN 1 - WeekDays ELSE 1 - (d % WeekDays))

\* The first day of a week is at most a week before the day.
LEMMA WeekHolds ==
  ASSUME NEW d \in Int
  PROVE  /\ WeekStartDay(d) \in Int
         /\ WeekStartDay(d) <= d /\ d < WeekStartDay(d) + WeekDays
         /\ \E q \in Int : WeekStartDay(d) = q * WeekDays + 1
<1>1. WeekDays \in Nat /\ WeekDays >= 1
  BY CalendarFacts
<1> DEFINE q == d \div WeekDays
           r == d % WeekDays
<1>2. q \in Int /\ q * WeekDays \in Int /\ q * WeekDays <= d /\ d < q * WeekDays + WeekDays
      /\ r = d - q * WeekDays
  BY <1>1, Quotient
<1>3. WeekStartDay(d) = d + (IF r = 0 THEN 1 - WeekDays ELSE 1 - r)
  BY DEF WeekStartDay
<1> HIDE DEF q, r
<1>4. (q - 1) * WeekDays = q * WeekDays - WeekDays
  BY <1>1, <1>2
<1>5. CASE r = 0
  <2>1. WeekStartDay(d) = (q - 1) * WeekDays + 1 /\ q - 1 \in Int
    BY <1>1, <1>2, <1>3, <1>4, <1>5
  <2>2. WeekStartDay(d) = d + (1 - WeekDays)
    BY <1>3, <1>5
  <2>3. WeekStartDay(d) \in Int /\ WeekStartDay(d) <= d /\ d < WeekStartDay(d) + WeekDays
    BY <1>1, <2>2
  <2> QED BY <2>1, <2>3
<1>6. CASE r # 0
  <2>1. WeekStartDay(d) = d + (1 - r)
    BY <1>3, <1>6
  <2>2. WeekStartDay(d) = q * WeekDays + 1
    BY <1>1, <1>2, <2>1
  <2>3. r \in Int /\ r >= 1
    BY <1>2, <1>6
  <2> QED BY <1>1, <1>2, <2>1, <2>2, <2>3
<1> QED BY <1>5, <1>6

\* Two weeks that share a day are the same.
LEMMA WeekUnique ==
  ASSUME NEW d \in Int, NEW e \in Int, WeekStartDay(d) <= e, e < WeekStartDay(d) + WeekDays
  PROVE  WeekStartDay(e) = WeekStartDay(d)
<1>1. WeekDays \in Nat /\ WeekDays >= 1
  BY CalendarFacts
<1>2. PICK p \in Int : WeekStartDay(d) = p * WeekDays + 1
  BY WeekHolds
<1>3. PICK q \in Int : WeekStartDay(e) = q * WeekDays + 1
  BY WeekHolds
<1>4. WeekStartDay(e) \in Int /\ WeekStartDay(e) <= e /\ e < WeekStartDay(e) + WeekDays
  BY WeekHolds
<1>5. p * WeekDays \in Int /\ q * WeekDays \in Int
  BY <1>1
<1>6. p < q => p * WeekDays + WeekDays <= q * WeekDays
  BY <1>1, Apart
<1>7. q < p => q * WeekDays + WeekDays <= p * WeekDays
  BY <1>1, Apart
<1>8. ~ (p < q) /\ ~ (q < p)
  BY <1>1, <1>2, <1>3, <1>4, <1>5, <1>6, <1>7
<1>9. p = q
  BY <1>8
<1> QED BY <1>2, <1>3, <1>9

\* A week after the first day of a week another one begins.
LEMMA WeekFollows ==
  ASSUME NEW d \in Int
  PROVE  WeekStartDay(WeekStartDay(d) + WeekDays) = WeekStartDay(d) + WeekDays
<1>1. WeekDays \in Nat /\ WeekDays >= 1
  BY CalendarFacts
<1>2. PICK p \in Int : WeekStartDay(d) = p * WeekDays + 1
  BY WeekHolds
<1> DEFINE e == WeekStartDay(d) + WeekDays
<1>3. e \in Int /\ (p + 1) * WeekDays = p * WeekDays + WeekDays /\ p * WeekDays \in Int
  BY <1>1, <1>2
<1>4. e = (p + 1) * WeekDays + 1
  BY <1>1, <1>2, <1>3
<1> HIDE DEF e
<1>5. PICK q \in Int : WeekStartDay(e) = q * WeekDays + 1
  BY <1>3, WeekHolds
<1>6. WeekStartDay(e) \in Int /\ WeekStartDay(e) <= e /\ e < WeekStartDay(e) + WeekDays
  BY <1>3, WeekHolds
<1>7. p + 1 \in Int /\ (p + 1) * WeekDays \in Int /\ q * WeekDays \in Int
  BY <1>1
<1>8. p + 1 < q => (p + 1) * WeekDays + WeekDays <= q * WeekDays
  BY <1>1, <1>7, Apart
<1>9. q < p + 1 => q * WeekDays + WeekDays <= (p + 1) * WeekDays
  BY <1>1, <1>7, Apart
<1>10. ~ (p + 1 < q) /\ ~ (q < p + 1)
  BY <1>1, <1>4, <1>5, <1>6, <1>7, <1>8, <1>9
<1>11. q = p + 1
  BY <1>10
<1>12. WeekStartDay(e) = e
  BY <1>4, <1>5, <1>11
<1> QED BY <1>12 DEF e

\* A week is as long as its days.
LEMMA WeekSpan ==
  ASSUME NEW d \in Int
  PROVE  DayStart(d + WeekDays) = DayStart(d) + WeekDays * Day
<1>1. WeekDays \in Int /\ Day \in Int /\ Offset \in Int
  BY Lengths
<1>2. (d + WeekDays) * Day = d * Day + WeekDays * Day /\ d * Day \in Int
      /\ WeekDays * Day \in Int
  BY <1>1
<1> QED BY <1>1, <1>2 DEF DayStart

\* The code finds the week of an instant by its day.
LEMMA WeekOf ==
  ASSUME NEW t \in Int
  PROVE  StartOfKstWeek(t) = DayStart(WeekStartDay(DayOf(t)))
<1> DEFINE d == DayOf(t)
           k == IF d % WeekDays = 0 THEN 1 - WeekDays ELSE 1 - (d % WeekDays)
<1>1. d \in Int /\ k \in Int
  <2>1. d \in Int
    BY DayTypes
  <2> HIDE DEF d
  <2>2. d % WeekDays \in Int
    <3>1. /\ d \div WeekDays \in Int /\ (d \div WeekDays) * WeekDays \in Int
          /\ d % WeekDays = d - (d \div WeekDays) * WeekDays
      BY <2>1, CalendarFacts, Quotient
    <3> QED BY <2>1, <3>1
  <2> QED BY <2>1, <2>2, CalendarFacts
<1>2. StartOfKstWeek(t) = DayStart(d) + k * Day
  BY DEF StartOfKstWeek, StartOfKstDay
<1>3. WeekStartDay(d) = d + k
  BY DEF WeekStartDay
<1> HIDE DEF d, k
<1>4. (d + k) * Day = d * Day + k * Day /\ d * Day \in Int /\ k * Day \in Int
  BY <1>1, CalendarFacts
<1>5. DayStart(d + k) = DayStart(d) + k * Day
  BY <1>1, <1>4, CalendarFacts DEF DayStart
<1> QED BY <1>2, <1>3, <1>5 DEF d

-----------------------------------------------------------------------------
(* Hours.                                                                  *)

IsHour(c) == \E k \in Int : c = k * Hour - Offset

\* An instant lies in its hour.
LEMMA HourHolds ==
  ASSUME NEW t \in Int
  PROVE  /\ StartOfKstHour(t) \in Int /\ IsHour(StartOfKstHour(t))
         /\ StartOfKstHour(t) <= t /\ t < StartOfKstHour(t) + Hour
<1>1. t + Offset \in Int /\ Hour \in Nat /\ Hour >= 1 /\ Offset \in Nat
  BY CalendarFacts
<1>2. /\ (t + Offset) \div Hour \in Int /\ ((t + Offset) \div Hour) * Hour \in Int
      /\ ((t + Offset) \div Hour) * Hour <= t + Offset
      /\ t + Offset < ((t + Offset) \div Hour) * Hour + Hour
  BY <1>1, Quotient
<1> QED BY <1>1, <1>2 DEF StartOfKstHour, IsHour

\* The hour an instant lies in is its hour.
LEMMA HourUnique ==
  ASSUME NEW c \in Int, NEW t \in Int, IsHour(c), c <= t, t < c + Hour
  PROVE  StartOfKstHour(t) = c
<1>1. t + Offset \in Int /\ Hour \in Nat /\ Hour >= 1 /\ Offset \in Nat
  BY CalendarFacts
<1>2. PICK k \in Int : c = k * Hour - Offset
  BY DEF IsHour
<1>3. k * Hour \in Int
  BY <1>1
<1>4. k * Hour <= t + Offset /\ t + Offset < k * Hour + Hour
  BY <1>1, <1>2, <1>3
<1>5. (t + Offset) \div Hour = k
  BY <1>1, <1>4, QuotientUnique
<1> QED BY <1>2, <1>5 DEF StartOfKstHour

\* An hour begins where one ends.
LEMMA HourFollows ==
  ASSUME NEW c \in Int, IsHour(c)
  PROVE  IsHour(c + Hour)
<1>1. Hour \in Nat /\ Offset \in Nat
  BY CalendarFacts
<1>2. PICK k \in Int : c = k * Hour - Offset
  BY DEF IsHour
<1>3. (k + 1) * Hour = k * Hour + Hour /\ k * Hour \in Int /\ k + 1 \in Int
  BY <1>1
<1>4. c + Hour = (k + 1) * Hour - Offset
  BY <1>1, <1>2, <1>3
<1> QED BY <1>3, <1>4 DEF IsHour

\* A slot of a day begins on the hour.
LEMMA SlotIsHour ==
  ASSUME NEW d \in Int, NEW slot \in Int
  PROVE  IsHour(DayStart(d) + slot * Hour)
<1>1. Hour \in Nat /\ Hour >= 1 /\ Day \in Nat /\ Offset \in Nat /\ Day % Hour = 0
  BY CalendarFacts
<1> DEFINE n == Day \div Hour
<1>2. n \in Int /\ Day = n * Hour
  <2>1. n \in Int /\ n * Hour \in Int /\ Day % Hour = Day - n * Hour
    BY <1>1, Quotient
  <2> HIDE DEF n
  <2> QED BY <1>1, <2>1
<1> HIDE DEF n
<1>3. d * n \in Int /\ d * (n * Hour) = (d * n) * Hour
  BY <1>1, <1>2
<1>4. d * n + slot \in Int /\ (d * n + slot) * Hour = (d * n) * Hour + slot * Hour
      /\ (d * n) * Hour \in Int /\ slot * Hour \in Int
  BY <1>1, <1>3
<1>5. DayStart(d) = (d * n) * Hour - Offset
  BY <1>2, <1>3 DEF DayStart
<1>6. DayStart(d) + slot * Hour = (d * n + slot) * Hour - Offset
  BY <1>1, <1>4, <1>5
<1> QED BY <1>4, <1>6 DEF IsHour

-----------------------------------------------------------------------------
(* Months.                                                                 *)

\* Months are intervals of days, one after the other.
LEMMA MonthTypes ==
  ASSUME NEW m \in Months
  PROVE  /\ m \in Int /\ m >= 1
         /\ FirstDay[m] \in Int /\ FirstDay[m + 1] \in Int /\ FirstDay[m] < FirstDay[m + 1]
         /\ \A n \in Months : m < n => FirstDay[m + 1] <= FirstDay[n]
<1>1. Len(FirstDay) \in Nat /\ m \in 1..(Len(FirstDay) - 1)
  BY CalendarFacts DEF Months
<1>2. m \in 1..Len(FirstDay) /\ m + 1 \in 1..Len(FirstDay) /\ m < m + 1
  BY <1>1
<1>3. FirstDay[m] \in Int /\ FirstDay[m + 1] \in Int /\ FirstDay[m] < FirstDay[m + 1]
  BY <1>2, CalendarFacts
<1>4. ASSUME NEW n \in Months, m < n PROVE FirstDay[m + 1] <= FirstDay[n]
  <2>1. n \in 1..Len(FirstDay)
    BY <1>1 DEF Months
  <2>2. FirstDay[n] \in Int
    BY <2>1, CalendarFacts
  <2>3. CASE n = m + 1
    BY <2>3, <2>2
  <2>4. CASE n > m + 1
    BY <2>4, <2>1, <1>2, <1>3, <2>2, CalendarFacts
  <2> QED BY <1>1, <1>4, <2>1, <2>3, <2>4
<1> QED BY <1>1, <1>3, <1>4

\* The month an instant lies in is its month.
LEMMA MonthUnique ==
  ASSUME NEW t \in Int, NEW m \in Months, LiesIn(t, m)
  PROVE  MonthOf(t) = m
<1>1. MonthOf(t) \in Months /\ LiesIn(t, MonthOf(t))
  BY DEF MonthOf
<1> DEFINE n == MonthOf(t)
           d == DayOf(t)
<1>2. d \in Int
  BY DayTypes
<1>3. FirstDay[m] <= d /\ d < FirstDay[m + 1] /\ FirstDay[n] <= d /\ d < FirstDay[n + 1]
  BY <1>1 DEF LiesIn
<1>4. n \in Months
  BY <1>1
<1> HIDE DEF n, d
<1>5. ~ (m < n)
  BY <1>2, <1>3, <1>4, MonthTypes
<1>6. ~ (n < m)
  BY <1>2, <1>3, <1>4, MonthTypes
<1>7. m \in Int /\ n \in Int
  BY <1>4, MonthTypes
<1> QED BY <1>5, <1>6, <1>7 DEF n

\* The first day of a month lies in it.
LEMMA MonthStartLies ==
  ASSUME NEW m \in Months
  PROVE  LiesIn(DayStart(FirstDay[m]), m)
BY MonthTypes, DayOfStart DEF LiesIn

-----------------------------------------------------------------------------
(* Buckets.                                                                *)

Units == {"hour", "day", "week", "month"}

\* An instant of which the model has the bucket: any, but months are those of the calendar.
Fits(t, unit) == unit = "month" => \E m \in Months : LiesIn(t, m)

\* Buckets of each unit.
LEMMA UnitCases ==
  ASSUME NEW t
  PROVE  /\ BucketStart(t, "hour") = StartOfKstHour(t)
         /\ BucketStart(t, "day") = DayStart(DayOf(t))
         /\ BucketStart(t, "week") = StartOfKstWeek(t)
         /\ BucketStart(t, "month") = DayStart(FirstDay[MonthOf(t)])
         /\ BucketEnd(t, "hour") = t + Hour
         /\ BucketEnd(t, "day") = t + Day
         /\ BucketEnd(t, "week") = t + WeekDays * Day
         /\ BucketEnd(t, "month") = DayStart(FirstDay[MonthOf(t) + 1])
BY DEF BucketStart, BucketEnd, StartOfKstDay, StartOfKstMonth, AddKstMonths

\* Days, weeks and months begin and end with a day.
LEMMA DayBuckets ==
  ASSUME NEW unit \in Units \ {"hour"}, NEW t \in Int, Fits(t, unit)
  PROVE  \E d, e \in Int :
            /\ BucketStart(t, unit) = DayStart(d)
            /\ BucketEnd(DayStart(d), unit) = DayStart(e)
            /\ d <= DayOf(t) /\ DayOf(t) < e
<1>1. DayOf(t) \in Int
  BY DayTypes
<1>2. CASE unit = "day"
  <2>1. BucketStart(t, unit) = DayStart(DayOf(t))
    BY <1>2, UnitCases
  <2>2. BucketEnd(DayStart(DayOf(t)), unit) = DayStart(DayOf(t) + 1)
    BY <1>1, <1>2, UnitCases, DayFollows
  <2> QED BY <1>1, <2>1, <2>2
<1>3. CASE unit = "week"
  <2> DEFINE d == WeekStartDay(DayOf(t))
             e == d + WeekDays
  <2>1. d \in Int /\ e \in Int /\ d <= DayOf(t) /\ DayOf(t) < e
    <3>1. d \in Int /\ d <= DayOf(t) /\ DayOf(t) < d + WeekDays
      BY <1>1, WeekHolds
    <3> QED BY <3>1, Lengths
  <2>2. BucketStart(t, unit) = DayStart(d)
    BY <1>3, UnitCases, WeekOf
  <2>3. DayStart(e) = DayStart(d) + WeekDays * Day
    BY <2>1, WeekSpan
  <2>4. BucketEnd(DayStart(d), unit) = DayStart(e)
    BY <1>3, <2>3, UnitCases
  <2> QED BY <2>1, <2>2, <2>4
<1>4. CASE unit = "month"
  <2>1. PICK m \in Months : LiesIn(t, m)
    BY <1>4 DEF Fits
  <2>2. MonthOf(t) = m
    BY <2>1, MonthUnique
  <2>3. FirstDay[m] \in Int /\ FirstDay[m + 1] \in Int
    BY MonthTypes
  <2>4. MonthOf(DayStart(FirstDay[m])) = m
    BY <2>3, DayTypes, MonthStartLies, MonthUnique
  <2>5. BucketStart(t, unit) = DayStart(FirstDay[m])
    BY <1>4, <2>2, UnitCases
  <2>6. BucketEnd(DayStart(FirstDay[m]), unit) = DayStart(FirstDay[m + 1])
    BY <1>4, <2>4, UnitCases
  <2> QED BY <2>1, <2>3, <2>5, <2>6 DEF LiesIn
<1> QED BY <1>2, <1>3, <1>4 DEF Units

\* An instant lies in its bucket.
LEMMA BucketHolds ==
  ASSUME NEW unit \in Units, NEW t \in Int, Fits(t, unit)
  PROVE  /\ BucketStart(t, unit) \in Int /\ BucketEnd(BucketStart(t, unit), unit) \in Int
         /\ BucketStart(t, unit) <= t /\ t < BucketEnd(BucketStart(t, unit), unit)
<1>1. CASE unit = "hour"
  <2>1. /\ StartOfKstHour(t) \in Int /\ StartOfKstHour(t) <= t /\ t < StartOfKstHour(t) + Hour
    BY HourHolds
  <2> QED BY <1>1, <2>1, UnitCases, Lengths
<1>2. CASE unit # "hour"
  <2>1. PICK d \in Int, e \in Int : /\ BucketStart(t, unit) = DayStart(d)
                                   /\ BucketEnd(DayStart(d), unit) = DayStart(e)
                                   /\ d <= DayOf(t) /\ DayOf(t) < e
    BY <1>2, DayBuckets
  <2>2. DayStart(d) \in Int /\ DayStart(e) \in Int /\ DayOf(t) \in Int
    BY DayTypes
  <2>3. DayStart(d) <= t /\ ~ (DayStart(e) <= t)
    BY <2>1, <2>2, DayOrder
  <2> QED BY <2>1, <2>2, <2>3
<1> QED BY <1>1, <1>2

\* Two buckets that share an instant are the same.
LEMMA BucketUnique ==
  ASSUME NEW unit \in Units, NEW s \in Int, Fits(s, unit), NEW t \in Int,
         BucketStart(s, unit) <= t, t < BucketEnd(BucketStart(s, unit), unit)
  PROVE  Fits(t, unit) /\ BucketStart(t, unit) = BucketStart(s, unit)
<1>1. CASE unit = "hour"
  <2>1. StartOfKstHour(s) \in Int /\ IsHour(StartOfKstHour(s))
    BY HourHolds
  <2>2. StartOfKstHour(s) <= t /\ t < StartOfKstHour(s) + Hour
    BY <1>1, UnitCases
  <2>3. StartOfKstHour(t) = StartOfKstHour(s)
    BY <2>1, <2>2, HourUnique
  <2> QED BY <1>1, <2>3, UnitCases DEF Fits
<1>2. CASE unit # "hour"
  <2>1. PICK d \in Int, e \in Int : /\ BucketStart(s, unit) = DayStart(d)
                                   /\ BucketEnd(DayStart(d), unit) = DayStart(e)
                                   /\ d <= DayOf(s) /\ DayOf(s) < e
    BY <1>2, DayBuckets
  <2>2. DayOf(t) \in Int /\ DayOf(s) \in Int /\ DayStart(e) \in Int
    BY DayTypes
  <2>3. d <= DayOf(t) /\ DayOf(t) < e
    BY <2>1, <2>2, DayOrder
  <2>4. CASE unit = "day"
    <3>1. BucketStart(s, unit) = DayStart(DayOf(s)) /\ BucketStart(t, unit) = DayStart(DayOf(t))
          /\ BucketEnd(DayStart(DayOf(s)), unit) = DayStart(DayOf(s) + 1)
      BY <2>2, <2>4, UnitCases, DayFollows
    <3>2. DayStart(DayOf(s)) <= t /\ t < DayStart(DayOf(s) + 1)
      BY <3>1
    <3>3. DayOf(s) <= DayOf(t) /\ ~ (DayOf(s) + 1 <= DayOf(t))
      BY <2>2, <3>2, DayOrder, DayTypes, DayOf(s) + 1 \in Int
    <3>4. DayOf(t) = DayOf(s)
      BY <2>2, <3>3
    <3> QED BY <2>4, <3>1, <3>4 DEF Fits
  <2>5. CASE unit = "week"
    <3> DEFINE w == WeekStartDay(DayOf(s))
    <3>1. w \in Int /\ BucketStart(s, unit) = DayStart(w) /\ w + WeekDays \in Int
      <4>1. w \in Int
        BY <2>2, WeekHolds
      <4>2. BucketStart(s, unit) = DayStart(w)
        BY <2>5, UnitCases, WeekOf
      <4> QED BY <4>1, <4>2, Lengths
    <3>2. DayOf(DayStart(d)) = d /\ DayOf(DayStart(w)) = w /\ DayStart(d) = DayStart(w)
      BY <2>1, <3>1, DayOfStart
    <3>3. d = w
      BY <3>2
    <3>4. DayStart(w + WeekDays) = DayStart(w) + WeekDays * Day
      BY <3>1, WeekSpan
    <3>5. DayStart(e) = DayStart(w + WeekDays)
      BY <2>1, <2>5, <3>3, <3>4, UnitCases
    <3>6. DayOf(DayStart(e)) = e /\ DayOf(DayStart(w + WeekDays)) = w + WeekDays
      BY <3>1, DayOfStart
    <3>7. e = w + WeekDays
      BY <3>5, <3>6
    <3>8. WeekStartDay(DayOf(t)) = w
      BY <2>2, <2>3, <3>3, <3>7, WeekUnique
    <3> QED BY <2>5, <3>1, <3>8, UnitCases, WeekOf DEF Fits
  <2>6. CASE unit = "month"
    <3>1. PICK m \in Months : LiesIn(s, m)
      BY <2>6 DEF Fits
    <3>2. MonthOf(s) = m /\ FirstDay[m] \in Int /\ FirstDay[m + 1] \in Int
      BY <3>1, MonthUnique, MonthTypes
    <3>3. BucketStart(s, unit) = DayStart(FirstDay[m])
      BY <2>6, <3>2, UnitCases
    <3>4. DayOf(DayStart(d)) = d /\ DayOf(DayStart(FirstDay[m])) = FirstDay[m]
      BY <3>2, DayOfStart
    <3>5. d = FirstDay[m]
      BY <2>1, <3>3, <3>4
    <3>6. MonthOf(DayStart(FirstDay[m])) = m
      BY <3>2, DayTypes, MonthStartLies, MonthUnique
    <3>7. DayStart(e) = DayStart(FirstDay[m + 1])
      BY <2>1, <2>6, <3>5, <3>6, UnitCases
    <3>8. DayOf(DayStart(e)) = e /\ DayOf(DayStart(FirstDay[m + 1])) = FirstDay[m + 1]
      BY <3>2, DayOfStart
    <3>9. e = FirstDay[m + 1]
      BY <3>7, <3>8
    <3>10. LiesIn(t, m)
      BY <2>3, <3>5, <3>9 DEF LiesIn
    <3>11. MonthOf(t) = m
      BY <3>10, MonthUnique
    <3> QED BY <2>6, <3>3, <3>10, <3>11, UnitCases DEF Fits
  <2> QED BY <1>2, <2>4, <2>5, <2>6 DEF Units
<1> QED BY <1>1, <1>2

\* The beginning of a bucket lies in it.
LEMMA BucketOfStart ==
  ASSUME NEW unit \in Units, NEW t \in Int, Fits(t, unit)
  PROVE  /\ Fits(BucketStart(t, unit), unit)
         /\ BucketStart(BucketStart(t, unit), unit) = BucketStart(t, unit)
<1>1. /\ BucketStart(t, unit) \in Int /\ BucketEnd(BucketStart(t, unit), unit) \in Int
      /\ BucketStart(t, unit) <= t /\ t < BucketEnd(BucketStart(t, unit), unit)
  BY BucketHolds
<1>2. BucketStart(t, unit) < BucketEnd(BucketStart(t, unit), unit)
  BY <1>1
<1> QED BY <1>1, <1>2, BucketUnique

\* Where a bucket ends the next one begins.
LEMMA BucketFollows ==
  ASSUME NEW unit \in Units, NEW t \in Int, Fits(t, unit),
         Fits(BucketEnd(BucketStart(t, unit), unit), unit)
  PROVE  BucketStart(BucketEnd(BucketStart(t, unit), unit), unit)
            = BucketEnd(BucketStart(t, unit), unit)
<1>1. CASE unit = "hour"
  <2>1. StartOfKstHour(t) \in Int /\ IsHour(StartOfKstHour(t)) /\ Hour \in Nat /\ Hour >= 1
    BY HourHolds, Lengths
  <2>2. IsHour(StartOfKstHour(t) + Hour) /\ StartOfKstHour(t) + Hour \in Int
    BY <2>1, HourFollows
  <2>3. StartOfKstHour(StartOfKstHour(t) + Hour) = StartOfKstHour(t) + Hour
    BY <2>1, <2>2, HourUnique
  <2> QED BY <1>1, <2>3, UnitCases
<1>2. CASE unit = "day"
  <2>1. DayOf(t) \in Int /\ DayOf(t) + 1 \in Int
    BY DayTypes
  <2>2. BucketEnd(BucketStart(t, unit), unit) = DayStart(DayOf(t) + 1)
    BY <1>2, <2>1, UnitCases, DayFollows
  <2>3. DayOf(DayStart(DayOf(t) + 1)) = DayOf(t) + 1
    BY <2>1, DayOfStart
  <2> QED BY <1>2, <2>2, <2>3, UnitCases
<1>3. CASE unit = "week"
  <2> DEFINE w == WeekStartDay(DayOf(t))
  <2>1. DayOf(t) \in Int /\ w \in Int /\ w + WeekDays \in Int
    <3>1. DayOf(t) \in Int
      BY DayTypes
    <3>2. w \in Int
      BY <3>1, WeekHolds
    <3> QED BY <3>1, <3>2, Lengths
  <2>2. DayStart(w + WeekDays) = DayStart(w) + WeekDays * Day
    BY <2>1, WeekSpan
  <2>3. BucketEnd(BucketStart(t, unit), unit) = DayStart(w + WeekDays)
    BY <1>3, <2>2, UnitCases, WeekOf
  <2>4. DayOf(DayStart(w + WeekDays)) = w + WeekDays /\ DayStart(w + WeekDays) \in Int
    BY <2>1, DayOfStart, DayTypes
  <2>5. WeekStartDay(w + WeekDays) = w + WeekDays
    BY <2>1, WeekFollows
  <2>6. StartOfKstWeek(DayStart(w + WeekDays)) = DayStart(w + WeekDays)
    BY <2>4, <2>5, WeekOf
  <2> QED BY <1>3, <2>3, <2>6, UnitCases
<1>4. CASE unit = "month"
  <2>1. PICK m \in Months : LiesIn(t, m)
    BY <1>4 DEF Fits
  <2>2. MonthOf(t) = m /\ FirstDay[m] \in Int /\ FirstDay[m + 1] \in Int
    BY <2>1, MonthUnique, MonthTypes
  <2>3. MonthOf(DayStart(FirstDay[m])) = m
    BY <2>2, DayTypes, MonthStartLies, MonthUnique
  <2> DEFINE e == DayStart(FirstDay[m + 1])
  <2>4. BucketEnd(BucketStart(t, unit), unit) = e /\ e \in Int
    BY <1>4, <2>2, <2>3, UnitCases, DayTypes
  <2>5. PICK n \in Months : LiesIn(e, n)
    BY <1>4, <2>4 DEF Fits
  <2>6. DayOf(e) = FirstDay[m + 1]
    BY <2>2, DayOfStart
  <2>7. FirstDay[n] <= FirstDay[m + 1] /\ FirstDay[m + 1] < FirstDay[n + 1]
    BY <2>5, <2>6 DEF LiesIn
  <2>8. n \in Int /\ m \in Int /\ FirstDay[n] \in Int /\ FirstDay[n + 1] \in Int
    BY MonthTypes
  <2>9. ~ (n < m)
    <3>1. n < m => FirstDay[n + 1] <= FirstDay[m]
      BY MonthTypes
    <3>2. FirstDay[m] < FirstDay[m + 1] /\ FirstDay[m] \in Int
      BY MonthTypes
    <3> QED BY <2>2, <2>7, <2>8, <3>1, <3>2
  <2>10. n # m
    BY <2>2, <2>7
  <2>11. FirstDay[m + 1] <= FirstDay[n]
    BY <2>8, <2>9, <2>10, MonthTypes
  <2>12. FirstDay[n] = FirstDay[m + 1]
    BY <2>2, <2>7, <2>8, <2>11
  <2>13. BucketStart(e, unit) = e
    BY <1>4, <2>4, <2>5, <2>12, MonthUnique, UnitCases
  <2> QED BY <2>4, <2>13
<1> QED BY <1>1, <1>2, <1>3, <1>4 DEF Units

\* Every step of the loop goes on.
LEMMA BucketEndsLater ==
  ASSUME NEW unit \in Units, NEW s \in Int, Fits(s, unit)
  PROVE  BucketEnd(s, unit) \in Int /\ s < BucketEnd(s, unit)
<1>1. CASE unit = "hour"
  BY <1>1, UnitCases, Lengths
<1>2. CASE unit = "day"
  BY <1>2, UnitCases, Lengths
<1>3. CASE unit = "week"
  <2>1. WeekDays * Day \in Int /\ WeekDays * Day >= Day
    <3>1. PICK k \in Nat : WeekDays = k + 1
      <4>1. WeekDays - 1 \in Nat
        BY Lengths
      <4> QED BY <4>1, Lengths
    <3>2. (k + 1) * Day = k * Day + Day /\ k * Day \in Nat
      BY Lengths
    <3> QED BY <3>1, <3>2, Lengths
  <2> QED BY <1>3, <2>1, UnitCases, Lengths
<1>4. CASE unit = "month"
  <2>1. PICK m \in Months : LiesIn(s, m)
    BY <1>4 DEF Fits
  <2>2. MonthOf(s) = m /\ FirstDay[m + 1] \in Int /\ DayOf(s) \in Int
    BY <2>1, MonthUnique, MonthTypes, DayTypes
  <2>3. ~ (FirstDay[m + 1] <= DayOf(s))
    BY <2>1, <2>2, MonthTypes DEF LiesIn
  <2>4. DayStart(FirstDay[m + 1]) \in Int /\ ~ (DayStart(FirstDay[m + 1]) <= s)
    BY <2>2, <2>3, DayOrder, DayTypes
  <2> QED BY <1>4, <2>2, <2>4, UnitCases
<1> QED BY <1>1, <1>2, <1>3, <1>4 DEF Units

-----------------------------------------------------------------------------
(* The loop over the buckets.                                              *)

\* Every set of numbers has a least one: what takes the place of induction.
LEMMA LeastNumber ==
  ASSUME NEW S, S \subseteq Nat, S # {}
  PROVE  \E n \in S : \A k \in S : n <= k
<1> DEFINE Less == {ss \in Nat \X Nat : ss[1] < ss[2]}
<1>1. IsWellFoundedOn(Less, Nat)
  BY NatLessThanWellFounded DEF OpToRel
<1>2. \A n, k \in S : k < n => <<k, n>> \in Less
  OBVIOUS
<1> HIDE DEF Less
<1>3. PICK n \in S : \A k \in S : <<k, n>> \notin Less
  BY <1>1, WFMin
<1>4. ASSUME NEW k \in S PROVE n <= k
  <2>1. ~ (k < n)
    BY <1>2, <1>3
  <2> QED BY <2>1
<1> QED BY <1>4

\* The recursive function of Cursors, for any steps that go from an instant to a later one.
Loops(f, D, next, end) ==
    f = [s \in D |-> IF s >= end THEN {} ELSE {s} \cup f[next[s]]]

\* What every set closed under the steps, s in it, has in it.
ClosedUnder(U, D, next, end, s) ==
    /\ U \subseteq D
    /\ s < end => s \in U
    /\ \A x \in U : next[x] < end => next[x] \in U

\* A loop that stays in its domain returns something: the smallest set closed under its turns.
LEMMA LoopReturns ==
  ASSUME NEW D, D \subseteq Int, NEW end \in Int, NEW next,
         \A s \in D : s < end => next[s] \in D
  PROVE  \E f : Loops(f, D, next, end)
<1> DEFINE f == [s \in D |->
                    {c \in D :
                        /\ c < end
                        /\ \A U \in SUBSET D : ClosedUnder(U, D, next, end, s) => c \in U}]
<1>1. ASSUME NEW s \in D, s >= end PROVE f[s] = {}
  <2>1. ClosedUnder({}, D, next, end, s)
    BY <1>1 DEF ClosedUnder
  <2> QED BY <2>1
<1>2. ASSUME NEW s \in D, s < end PROVE f[s] = {s} \cup f[next[s]]
  <2>1. next[s] \in D
    BY <1>2
  <2>2. ASSUME NEW c \in f[s], c # s PROVE c \in f[next[s]]
    <3>1. c \in D /\ c < end
      OBVIOUS
    <3>2. ASSUME NEW U \in SUBSET D, ClosedUnder(U, D, next, end, next[s]) PROVE c \in U
      <4>1. U \cup {s} \in SUBSET D
        OBVIOUS
      <4>2. ClosedUnder(U \cup {s}, D, next, end, s)
        BY <3>2, <2>1 DEF ClosedUnder
      <4>3. c \in U \cup {s}
        BY <4>1, <4>2
      <4> QED BY <4>3, <2>2
    <3> QED BY <2>1, <3>1, <3>2
  <2>3. s \in f[s]
    BY <1>2 DEF ClosedUnder
  <2>4. ASSUME NEW c \in f[next[s]] PROVE c \in f[s]
    <3>1. c \in D /\ c < end
      BY <2>1
    <3>2. ASSUME NEW U \in SUBSET D, ClosedUnder(U, D, next, end, s) PROVE c \in U
      <4>1. ClosedUnder(U, D, next, end, next[s])
        BY <1>2, <3>2 DEF ClosedUnder
      <4> QED BY <2>1, <4>1
    <3> QED BY <3>1, <3>2
  <2> HIDE DEF f
  <2> QED BY <2>2, <2>3, <2>4
<1>3. f = [s \in D |-> f[s]]
  OBVIOUS
<1> HIDE DEF f
<1>4. \A s \in D : f[s] = IF s >= end THEN {} ELSE {s} \cup f[next[s]]
  <2> TAKE s \in D
  <2>1. s >= end \/ s < end
    OBVIOUS
  <2>2. ~ (s >= end /\ s < end)
    OBVIOUS
  <2> QED BY <1>1, <1>2, <2>1, <2>2
<1>5. Loops(f, D, next, end)
  BY <1>3, <1>4, Zenon DEF Loops
<1> QED BY <1>5

\* The steps from A stay in A until they reach the end, and each goes on.
Walks(A, D, next, end) ==
    /\ D \subseteq Int /\ end \in Int /\ A \in SUBSET D
    /\ \A s \in A : s < end => next[s] \in D /\ s < next[s]
    /\ \A s \in A : s < end /\ next[s] < end => next[s] \in A

\* From an instant of A on, the loop stays in A and leaves no gap.
LEMMA LoopCovers ==
  ASSUME NEW D, NEW end, NEW next, NEW A, Walks(A, D, next, end),
         NEW f, Loops(f, D, next, end), NEW s \in A
  PROVE  /\ \A c \in f[s] : c \in A /\ s <= c /\ c < end
         /\ \A t \in Int : s <= t /\ t < end => \E c \in f[s] : c <= t /\ t < next[c]
<1> DEFINE LoopHolds(x) ==
               /\ \A c \in f[x] : c \in A /\ x <= c /\ c < end
               /\ \A t \in Int : x <= t /\ t < end => \E c \in f[x] : c <= t /\ t < next[c]
           Bad == {n \in Nat : \E x \in A : x < end /\ n = end - x /\ ~LoopHolds(x)}
<1> /\ D \subseteq Int /\ end \in Int /\ A \in SUBSET D
    /\ \A x \in A : x < end => next[x] \in D /\ x < next[x]
    /\ \A x \in A : x < end /\ next[x] < end => next[x] \in A
  BY DEF Walks
<1>1. \A x \in D : f[x] = IF x >= end THEN {} ELSE {x} \cup f[next[x]]
  BY Zenon DEF Loops
<1>2. ASSUME NEW x \in D, x >= end PROVE LoopHolds(x)
  <2>1. f[x] = {}
    BY <1>1, <1>2
  <2>2. \A t \in Int : ~ (x <= t /\ t < end)
    BY <1>2
  <2> QED BY <2>1, <2>2
<1>3. Bad = {}
  <2> SUFFICES ASSUME Bad # {} PROVE FALSE
    OBVIOUS
  <2>1. PICK n \in Bad : \A k \in Bad : n <= k
    BY LeastNumber, Bad \subseteq Nat
  <2>2. PICK x \in A : x < end /\ n = end - x /\ ~LoopHolds(x)
    OBVIOUS
  <2>3. x \in D /\ x \in Int /\ next[x] \in D /\ next[x] \in Int /\ x < next[x]
    BY <2>2
  <2>4. f[x] = {x} \cup f[next[x]]
    <3>1. ~ (x >= end)
      BY <2>2, <2>3
    <3> QED BY <1>1, <2>3, <3>1, Zenon
  <2>5. LoopHolds(next[x])
    <3>1. CASE next[x] >= end
      BY <3>1, <1>2, <2>3
    <3>2. CASE next[x] < end
      <4>1. next[x] \in A
        BY <2>2, <3>2
      <4>2. end - next[x] \in Nat /\ end - next[x] < n
        BY <2>2, <2>3, <3>2
      <4>3. end - next[x] \notin Bad
        <5>1. n \in Nat
          OBVIOUS
        <5>2. end - next[x] \in Bad => n <= end - next[x]
          BY <2>1
        <5> HIDE DEF Bad
        <5> QED BY <4>2, <5>1, <5>2
      <4> HIDE DEF LoopHolds
      <4> QED BY <3>2, <4>1, <4>2, <4>3
    <3> QED BY <3>1, <3>2, <2>3
  <2>6. ASSUME NEW c \in f[x] PROVE c \in A /\ x <= c /\ c < end
    <3>1. CASE c = x
      BY <3>1, <2>2, <2>3
    <3>2. CASE c \in f[next[x]]
      <4>1. c \in A /\ next[x] <= c /\ c < end
        BY <3>2, <2>5
      <4>2. c \in Int
        BY <4>1
      <4> QED BY <4>1, <4>2, <2>3
    <3> QED BY <2>4, <3>1, <3>2
  <2>7. ASSUME NEW t \in Int, x <= t, t < end PROVE \E c \in f[x] : c <= t /\ t < next[c]
    <3>1. CASE t < next[x]
      BY <3>1, <2>4, <2>7
    <3>2. CASE next[x] <= t
      BY <3>2, <2>4, <2>5, <2>7
    <3> QED BY <3>1, <3>2, <2>3
  <2> QED BY <2>2, <2>6, <2>7
<1>4. LoopHolds(s)
  <2>1. s \in D /\ s \in Int
    OBVIOUS
  <2>2. CASE s >= end
    BY <1>2, <2>1, <2>2
  <2>3. CASE s < end
    <3>1. end - s \in Nat
      BY <2>1, <2>3
    <3> HIDE DEF LoopHolds
    <3> QED BY <1>3, <3>1, <2>3
  <2> QED BY <2>1, <2>2, <2>3
<1> QED BY <1>4

-----------------------------------------------------------------------------
(* Ranges and their buckets.                                               *)

\* A range somebody may ask for: it is not empty and every instant of it has a bucket.
IsRange(range) ==
    /\ range.startAt \in Int /\ range.endAt \in Int /\ range.startAt < range.endAt
    /\ range.bucketUnit \in Units
    /\ \A t \in Int : range.startAt <= t /\ t < range.endAt => Fits(t, range.bucketUnit)

\* The loop of buildBuckets is such a loop.
LEMMA CursorsLoop ==
  ASSUME NEW range, IsRange(range)
  PROVE  LET unit == range.bucketUnit
             first == BucketStart(range.startAt, unit)
             D == {t \in Int : first <= t}
         IN  \E f : /\ Loops(f, D, [s \in D |-> BucketEnd(s, unit)], range.endAt)
                    /\ Cursors(range) = f[first]
<1> DEFINE unit == range.bucketUnit
           first == BucketStart(range.startAt, unit)
           end == range.endAt
           D == {t \in Int : first <= t}
           next == [s \in D |-> BucketEnd(s, unit)]
           LoopSteps(f) == f = [start \in D |->
                               IF start >= end THEN {} ELSE {start} \cup f[BucketEnd(start, unit)]]
<1>1. /\ range.startAt \in Int /\ end \in Int /\ range.startAt < end /\ unit \in Units
      /\ \A t \in Int : range.startAt <= t /\ t < end => Fits(t, unit)
  BY DEF IsRange
<1>2. first \in Int /\ first <= range.startAt /\ Fits(range.startAt, unit)
      /\ BucketEnd(first, unit) \in Int /\ range.startAt < BucketEnd(first, unit)
  <2>1. Fits(range.startAt, unit)
    <3> HIDE DEF unit, end
    <3> QED BY <1>1
  <2> QED BY <1>1, <2>1, BucketHolds
<1>3. Cursors(range) = (CHOOSE f : LoopSteps(f))[first]
  BY DEF Cursors
<1> HIDE DEF unit, first, end, LoopSteps
<1>4. ASSUME NEW s \in D, s < end PROVE s \in Int /\ Fits(s, unit)
  <2>1. s \in Int /\ first <= s
    OBVIOUS
  <2>2. CASE s < range.startAt
    <3>1. s < BucketEnd(first, unit)
      BY <1>1, <1>2, <2>1, <2>2
    <3> QED BY <1>1, <1>2, <2>1, <3>1, BucketUnique DEF first
  <2>3. CASE range.startAt <= s
    BY <1>1, <1>4, <2>1, <2>3
  <2> QED BY <1>1, <2>1, <2>2, <2>3
<1>5. \A s \in D : s < end => next[s] \in D
  <2> SUFFICES ASSUME NEW s \in D, s < end PROVE next[s] \in D
    OBVIOUS
  <2>1. BucketEnd(s, unit) \in Int /\ s < BucketEnd(s, unit)
    BY <1>1, <1>4, BucketEndsLater
  <2> QED BY <1>2, <2>1
<1>6. PICK f : Loops(f, D, next, end)
  <2> HIDE DEF next
  <2>1. D \subseteq Int /\ end \in Int
    BY <1>1
  <2> HIDE DEF D
  <2> QED BY <1>5, <2>1, LoopReturns
<1>7. \A g : LoopSteps(g) <=> Loops(g, D, next, end)
  <2> TAKE g
  <2>1. [start \in D |-> IF start >= end THEN {} ELSE {start} \cup g[BucketEnd(start, unit)]]
        = [s \in D |-> IF s >= end THEN {} ELSE {s} \cup g[next[s]]]
    OBVIOUS
  <2> QED BY <2>1 DEF LoopSteps, Loops
<1>8. LoopSteps(CHOOSE g : LoopSteps(g))
  <2>1. LoopSteps(f)
    BY <1>6, <1>7
  <2> HIDE DEF LoopSteps
  <2> QED BY <2>1
<1>9. Loops(CHOOSE g : LoopSteps(g), D, next, end)
  BY <1>7, <1>8
<1> DEFINE h == CHOOSE g : LoopSteps(g)
<1>10. Loops(h, D, next, end) /\ Cursors(range) = h[first]
  BY <1>3, <1>9
<1> HIDE DEF h
<1>11. \E g : Loops(g, D, next, end) /\ Cursors(range) = g[first]
  BY <1>10
<1> QED BY <1>11 DEF unit, first, end

\* The loop returns the beginnings of the buckets of the instants in the range, no more and
\* no less.
LEMMA CursorsAre ==
  ASSUME NEW range, IsRange(range)
  PROVE  \A c : c \in Cursors(range) <=>
                   \E t \in Int : /\ range.startAt <= t /\ t < range.endAt
                                  /\ c = BucketStart(t, range.bucketUnit)
<1> DEFINE unit == range.bucketUnit
           first == BucketStart(range.startAt, unit)
           end == range.endAt
           D == {t \in Int : first <= t}
           next == [s \in D |-> BucketEnd(s, unit)]
           A == {s \in D : s < end /\ Fits(s, unit) /\ BucketStart(s, unit) = s}
<1>1. /\ range.startAt \in Int /\ end \in Int /\ range.startAt < end /\ unit \in Units
      /\ \A t \in Int : range.startAt <= t /\ t < end => Fits(t, unit)
  BY DEF IsRange
<1>2. PICK f : Loops(f, D, next, end) /\ Cursors(range) = f[first]
  BY CursorsLoop
<1>3. Fits(range.startAt, unit)
  <2> HIDE DEF unit, end
  <2> QED BY <1>1
<1>4. /\ first \in Int /\ first <= range.startAt
      /\ BucketEnd(first, unit) \in Int /\ range.startAt < BucketEnd(first, unit)
      /\ Fits(first, unit) /\ BucketStart(first, unit) = first
  BY <1>1, <1>3, BucketHolds, BucketOfStart
<1> HIDE DEF unit, end, first
<1>5. first \in A
  BY <1>1, <1>4
<1>6. \A s \in A : s < end => next[s] \in D /\ s < next[s]
  <2> SUFFICES ASSUME NEW s \in A PROVE next[s] \in D /\ s < next[s]
    OBVIOUS
  <2>1. s \in Int /\ Fits(s, unit) /\ first <= s /\ s \in D
    OBVIOUS
  <2>2. BucketEnd(s, unit) \in Int /\ s < BucketEnd(s, unit)
    BY <1>1, <2>1, BucketEndsLater
  <2> QED BY <1>4, <2>1, <2>2
<1>7. \A s \in A : s < end /\ next[s] < end => next[s] \in A
  <2> SUFFICES ASSUME NEW s \in A, next[s] < end PROVE next[s] \in A
    OBVIOUS
  <2>1. s \in Int /\ Fits(s, unit) /\ BucketStart(s, unit) = s /\ s \in D /\ s < end /\ first <= s
    OBVIOUS
  <2>2. next[s] = BucketEnd(s, unit) /\ next[s] \in D /\ next[s] \in Int
    BY <1>6, <2>1
  <2>3. range.startAt <= next[s]
    <3> SUFFICES ASSUME next[s] < range.startAt PROVE FALSE
      BY <1>1, <2>2
    <3>1. s < range.startAt /\ first <= s
      BY <1>1, <1>6, <2>1, <2>2
    <3>2. s < BucketEnd(first, unit)
      BY <1>1, <1>4, <2>1, <3>1
    <3>3. BucketStart(s, unit) = first
      BY <1>1, <1>3, <1>4, <2>1, <3>2, BucketUnique DEF first
    <3>4. next[s] = BucketEnd(first, unit)
      BY <2>1, <2>2, <3>3
    <3> QED BY <1>1, <1>4, <3>4, <2>2
  <2>4. Fits(next[s], unit)
    BY <1>1, <2>2, <2>3
  <2>5. BucketStart(next[s], unit) = next[s]
    BY <1>1, <2>1, <2>2, <2>4, BucketFollows
  <2> QED BY <2>2, <2>4, <2>5
<1>8. /\ \A c \in f[first] : c \in A /\ first <= c /\ c < end
      /\ \A t \in Int : first <= t /\ t < end => \E c \in f[first] : c <= t /\ t < next[c]
  <2>1. D \subseteq Int /\ A \in SUBSET D
    OBVIOUS
  <2>2. end \in Int /\ Loops(f, D, next, end)
    BY <1>1, <1>2
  <2> HIDE DEF D, A, next
  <2>3. Walks(A, D, next, end)
    BY <1>6, <1>7, <2>1, <2>2 DEF Walks
  <2> QED BY <1>5, <2>2, <2>3, LoopCovers
<1>9. ASSUME NEW c \in Cursors(range)
      PROVE  \E t \in Int : range.startAt <= t /\ t < end /\ c = BucketStart(t, unit)
  <2>1. c \in A /\ first <= c /\ c < end
    BY <1>2, <1>8
  <2>2. c \in Int /\ Fits(c, unit) /\ BucketStart(c, unit) = c
    BY <2>1
  <2>3. CASE range.startAt <= c
    BY <2>1, <2>2, <2>3
  <2>4. CASE c < range.startAt
    <3>1. c < BucketEnd(first, unit)
      BY <1>1, <1>4, <2>2, <2>4
    <3>2. BucketStart(c, unit) = first
      BY <1>1, <1>3, <1>4, <2>1, <2>2, <3>1, BucketUnique DEF first
    <3>3. c = BucketStart(range.startAt, unit)
      BY <2>2, <3>2 DEF first
    <3> QED BY <1>1, <3>3
  <2> QED BY <1>1, <2>2, <2>3, <2>4
<1>10. ASSUME NEW t \in Int, range.startAt <= t, t < end
       PROVE  BucketStart(t, unit) \in Cursors(range)
  <2>1. first <= t
    BY <1>1, <1>4, <1>10
  <2>2. PICK c \in f[first] : c <= t /\ t < next[c]
    BY <1>8, <1>10, <2>1
  <2>3. c \in A
    BY <1>8
  <2>4. c \in Int /\ Fits(c, unit) /\ BucketStart(c, unit) = c /\ next[c] = BucketEnd(c, unit)
    BY <2>3
  <2>5. BucketStart(t, unit) = c
    BY <1>1, <2>2, <2>4, BucketUnique
  <2> QED BY <1>2, <2>5
<1> QED BY <1>9, <1>10 DEF unit, end

-----------------------------------------------------------------------------
(* The months of the model have no gap.                                    *)

\* Between the first day and the last every instant lies in a month.
LEMMA CalendarCovers ==
  ASSUME NEW t \in Int, FirstDay[1] <= DayOf(t), DayOf(t) < FirstDay[Len(FirstDay)]
  PROVE  \E m \in Months : LiesIn(t, m)
<1> DEFINE d == DayOf(t)
           Later == {n \in 1..Len(FirstDay) : d < FirstDay[n]}
<1>1. d \in Int /\ Len(FirstDay) \in Nat /\ Len(FirstDay) > 1
      /\ \A n \in 1..Len(FirstDay) : FirstDay[n] \in Int
  BY DayTypes, CalendarFacts
<1>2. Len(FirstDay) \in Later /\ Later \subseteq Nat
  BY <1>1
<1>3. PICK n \in Later : \A k \in Later : n <= k
  BY <1>2, LeastNumber
<1>4. n \in 1..Len(FirstDay) /\ d < FirstDay[n]
  OBVIOUS
<1>5. n # 1
  BY <1>1, <1>4
<1>6. n - 1 \in 1..Len(FirstDay) /\ ~ (n <= n - 1)
  BY <1>1, <1>4, <1>5
<1>7. n - 1 \notin Later
  BY <1>3, <1>6
<1>8. FirstDay[n - 1] <= d
  BY <1>1, <1>6, <1>7
<1>9. n - 1 \in Months /\ (n - 1) + 1 = n
  BY <1>1, <1>4, <1>5 DEF Months
<1> QED BY <1>4, <1>8, <1>9 DEF LiesIn

\* An instant of a month lies between the first day and the last.
LEMMA CalendarEnds ==
  ASSUME NEW t \in Int, NEW m \in Months, LiesIn(t, m)
  PROVE  FirstDay[1] <= DayOf(t) /\ DayOf(t) < FirstDay[Len(FirstDay)]
<1>1. /\ Len(FirstDay) \in Nat /\ Len(FirstDay) > 1
      /\ \A n \in 1..Len(FirstDay) : FirstDay[n] \in Int
      /\ \A k \in 1..Len(FirstDay), n \in 1..Len(FirstDay) : k < n => FirstDay[k] < FirstDay[n]
  BY CalendarFacts
<1>2. m \in 1..(Len(FirstDay) - 1)
  BY DEF Months
<1>3. FirstDay[m] <= DayOf(t) /\ DayOf(t) < FirstDay[m + 1] /\ DayOf(t) \in Int
  BY DayTypes DEF LiesIn
<1>4. FirstDay[1] <= FirstDay[m] /\ FirstDay[1] \in Int /\ FirstDay[m] \in Int
  <2>1. m = 1 \/ 1 < m
    BY <1>2
  <2>2. 1 \in 1..Len(FirstDay) /\ m \in 1..Len(FirstDay)
    BY <1>1, <1>2
  <2>3. FirstDay[1] \in Int /\ FirstDay[m] \in Int
    BY <1>1, <2>2
  <2>4. 1 < m => FirstDay[1] < FirstDay[m]
    BY <1>1, <2>2
  <2> QED BY <2>1, <2>3, <2>4
<1>5. FirstDay[m + 1] <= FirstDay[Len(FirstDay)]
      /\ FirstDay[m + 1] \in Int /\ FirstDay[Len(FirstDay)] \in Int
  <2>1. m + 1 = Len(FirstDay) \/ m + 1 < Len(FirstDay)
    BY <1>1, <1>2
  <2>2. Len(FirstDay) \in 1..Len(FirstDay) /\ m + 1 \in 1..Len(FirstDay)
    BY <1>1, <1>2
  <2>3. FirstDay[m + 1] \in Int /\ FirstDay[Len(FirstDay)] \in Int
    BY <1>1, <2>2
  <2>4. m + 1 < Len(FirstDay) => FirstDay[m + 1] < FirstDay[Len(FirstDay)]
    BY <1>1, <2>2
  <2> QED BY <2>1, <2>3, <2>4
<1> QED BY <1>3, <1>4, <1>5

-----------------------------------------------------------------------------
(* Rows and their buckets.                                                 *)

\* The hours of a day end with it.
LEMMA SlotsFit ==
  ASSUME NEW slot \in 0..(Day \div Hour - 1)
  PROVE  slot \in Int /\ slot * Hour \in Int /\ 0 <= slot * Hour /\ slot * Hour + Hour <= Day
<1> DEFINE n == Day \div Hour
<1>1. Hour \in Nat /\ Hour >= 1 /\ Day \in Nat /\ Day % Hour = 0
  BY CalendarFacts
<1>2. n \in Int /\ Day = n * Hour
  <2>1. n \in Int /\ n * Hour \in Int /\ Day % Hour = Day - n * Hour
    BY <1>1, Quotient
  <2> HIDE DEF n
  <2> QED BY <1>1, <2>1
<1>3. slot \in Int /\ 0 <= slot /\ slot < n
  BY <1>2
<1> HIDE DEF n
<1>4. slot * Hour + Hour <= n * Hour
  BY <1>1, <1>2, <1>3, Apart
<1>5. slot * Hour \in Int /\ 0 <= slot * Hour
  BY <1>1, <1>3
<1> QED BY <1>2, <1>3, <1>4, <1>5

\* A row is an hour of its day, and its day is in the calendar.
LEMMA RowFacts ==
  ASSUME NEW row \in Rows
  PROVE  /\ \E d \in Int : row.statDate = DayStart(d)
         /\ row.statDate \in Int /\ RowStart(row) \in Int /\ IsHour(RowStart(row))
         /\ row.statDate <= RowStart(row) /\ RowStart(row) + Hour <= row.statDate + Day
         /\ StartOfKstDay(row.statDate) = row.statDate
         /\ \A unit \in Units : Fits(row.statDate, unit)
<1>1. /\ row.statDate \in {DayStart(d) : d \in FirstDay[1]..(FirstDay[Len(FirstDay)] - 1)}
      /\ row.hourSlot \in 0..(Day \div Hour - 1)
  BY DEF Rows
<1>2. PICK d \in FirstDay[1]..(FirstDay[Len(FirstDay)] - 1) : row.statDate = DayStart(d)
  BY <1>1
<1>3. FirstDay[1] \in Int /\ FirstDay[Len(FirstDay)] \in Int
  <2>1. 1 \in 1..Len(FirstDay) /\ Len(FirstDay) \in 1..Len(FirstDay)
    BY CalendarFacts
  <2> QED BY <2>1, CalendarFacts
<1>4. d \in Int /\ FirstDay[1] <= d /\ d < FirstDay[Len(FirstDay)]
  BY <1>3
<1>5. DayStart(d) \in Int /\ DayOf(DayStart(d)) = d
  BY <1>4, DayTypes, DayOfStart
<1>6. StartOfKstDay(row.statDate) = row.statDate
  BY <1>2, <1>5 DEF StartOfKstDay
<1>7. RowStart(row) = DayStart(d) + row.hourSlot * Hour
  BY <1>2, <1>6 DEF RowStart
<1>8. /\ row.hourSlot \in Int /\ row.hourSlot * Hour \in Int /\ 0 <= row.hourSlot * Hour
      /\ row.hourSlot * Hour + Hour <= Day
  BY <1>1, SlotsFit
<1>9. IsHour(RowStart(row))
  BY <1>4, <1>7, <1>8, SlotIsHour
<1>10. \E m \in Months : LiesIn(row.statDate, m)
  BY <1>2, <1>4, <1>5, CalendarCovers
<1>11. row.statDate <= RowStart(row) /\ RowStart(row) + Hour <= row.statDate + Day
       /\ RowStart(row) \in Int
  <2> DEFINE s == row.hourSlot * Hour
             D == DayStart(d)
  <2>1. s \in Int /\ 0 <= s /\ s + Hour <= Day /\ D \in Int
    BY <1>5, <1>8
  <2>2. row.statDate = D /\ RowStart(row) = D + s
    BY <1>2, <1>7
  <2> HIDE DEF s, D
  <2> QED BY <2>1, <2>2, Lengths
<1>12. \A unit \in Units : Fits(row.statDate, unit)
  BY <1>10 DEF Fits
<1>13. row.statDate \in Int
  BY <1>2, <1>5
<1> QED BY <1>2, <1>4, <1>6, <1>9, <1>11, <1>12, <1>13

\* Every instant of the hour of a row lies in the bucket of the row.
LEMMA RowBucket ==
  ASSUME NEW row \in Rows, NEW unit \in Units, NEW t \in Int,
         RowStart(row) <= t, t < RowStart(row) + Hour
  PROVE  Fits(t, unit) /\ RowBucketStart(row, unit) = BucketStart(t, unit)
<1>1. PICK d \in Int : row.statDate = DayStart(d)
  BY RowFacts
<1>2. /\ row.statDate \in Int /\ RowStart(row) \in Int /\ IsHour(RowStart(row))
      /\ row.statDate <= RowStart(row) /\ RowStart(row) + Hour <= row.statDate + Day
      /\ StartOfKstDay(row.statDate) = row.statDate
      /\ Fits(row.statDate, unit)
  BY RowFacts
<1>3. CASE unit = "hour"
  <2>1. StartOfKstHour(t) = RowStart(row)
    BY <1>2, HourUnique
  <2> QED BY <1>3, <2>1, UnitCases DEF RowBucketStart, Fits
<1>4. CASE unit # "hour"
  <2>1. RowBucketStart(row, unit) = BucketStart(row.statDate, unit)
    BY <1>2, <1>4 DEF RowBucketStart
  <2>2. PICK b \in Int, e \in Int : /\ BucketStart(row.statDate, unit) = DayStart(b)
                                   /\ BucketEnd(DayStart(b), unit) = DayStart(e)
                                   /\ b <= DayOf(row.statDate) /\ DayOf(row.statDate) < e
    BY <1>2, <1>4, DayBuckets
  <2>3. DayOf(row.statDate) = d
    BY <1>1, DayOfStart
  <2>4. DayStart(b) \in Int /\ DayStart(e) \in Int /\ DayStart(d) \in Int
    BY DayTypes
  <2>5. DayStart(d) + Day <= DayStart(e)
    BY <2>2, <2>3, DaysApart
  <2>6. DayStart(b) <= DayStart(d)
    <3>1. b < d => DayStart(b) + Day <= DayStart(d)
      BY DaysApart
    <3> QED BY <2>2, <2>3, <2>4, <3>1, Lengths
  <2>7. DayStart(b) <= t /\ t < DayStart(e)
    BY <1>1, <1>2, <2>4, <2>5, <2>6, Lengths
  <2> QED BY <1>2, <2>1, <2>2, <2>7, BucketUnique
<1> QED BY <1>3, <1>4

\* The hour of a row has a part of a bucket exactly if the bucket is that of the row.
LEMMA RowOverlaps ==
  ASSUME NEW row \in Rows, NEW unit \in Units, NEW s \in Int, Fits(s, unit)
  PROVE  RowBucketStart(row, unit) = BucketStart(s, unit)
            <=> /\ RowStart(row) + Hour > BucketStart(s, unit)
                /\ RowStart(row) < BucketEnd(BucketStart(s, unit), unit)
<1> DEFINE start == BucketStart(s, unit)
           end == BucketEnd(start, unit)
           r == RowStart(row)
<1>1. start \in Int /\ end \in Int /\ start <= s /\ s < end
  BY BucketHolds
<1>2. r \in Int /\ r < r + Hour /\ Hour \in Int
  BY RowFacts, Lengths
<1>3. ASSUME RowBucketStart(row, unit) = start PROVE r + Hour > start /\ r < end
  <2>1. Fits(r, unit) /\ BucketStart(r, unit) = start
    BY <1>2, <1>3, RowBucket
  <2>2. start <= r /\ r < end
    BY <1>2, <2>1, BucketHolds
  <2> QED BY <1>1, <1>2, <2>2
<1>4. ASSUME r + Hour > start, r < end PROVE RowBucketStart(row, unit) = start
  <2>1. CASE start <= r
    <3>1. BucketStart(r, unit) = start
      BY <1>2, <1>4, <2>1, BucketUnique
    <3> QED BY <1>2, <3>1, RowBucket
  <2>2. CASE r < start
    <3>1. RowBucketStart(row, unit) = BucketStart(start, unit)
      BY <1>1, <1>2, <1>4, <2>2, RowBucket
    <3> QED BY <3>1, BucketOfStart
  <2> QED BY <1>1, <1>2, <2>1, <2>2
<1> QED BY <1>3, <1>4

\* The query and the filter together take the hours that overlap the range.
LEMMA RowsOverlap ==
  ASSUME NEW range, IsRange(range), hourRows \subseteq Rows
  PROVE  RowsIn(range) = {row \in hourRows : /\ RowStart(row) + Hour > range.startAt
                                             /\ RowStart(row) < range.endAt}
<1> DEFINE from == range.startAt
           to == range.endAt
<1>1. from \in Int /\ to \in Int
  BY DEF IsRange
<1>2. ASSUME NEW row \in hourRows, RowStart(row) + Hour > from, RowStart(row) < to
      PROVE  StartOfKstDay(from) <= row.statDate /\ row.statDate < StartOfKstDay(to - 1) + Day
  <2>1. PICK d \in Int : row.statDate = DayStart(d)
    BY RowFacts
  <2>2. /\ row.statDate \in Int /\ RowStart(row) \in Int
        /\ row.statDate <= RowStart(row) /\ RowStart(row) + Hour <= row.statDate + Day
    BY RowFacts
  <2> HIDE DEF from, to
  <2>3. from < DayStart(d) + Day
    BY <1>1, <1>2, <2>1, <2>2, Lengths
  <2>4. DayOf(from) \in Int /\ d + 1 \in Int /\ DayStart(d + 1) = DayStart(d) + Day
        /\ DayStart(d) \in Int /\ DayStart(DayOf(from)) \in Int
    BY <1>1, DayTypes, DayFollows
  <2>5. ~ (d + 1 <= DayOf(from))
    <3>1. DayStart(d + 1) <= from <=> d + 1 <= DayOf(from)
      BY <1>1, <2>4, DayOrder
    <3> HIDE DEF from
    <3> QED BY <1>1, <2>3, <2>4, <3>1, Lengths
  <2>6. DayOf(from) = d \/ DayOf(from) < d
    BY <2>4, <2>5
  <2>7. DayStart(DayOf(from)) <= DayStart(d)
    <3>1. DayOf(from) < d => DayStart(DayOf(from)) + Day <= DayStart(d)
      BY <2>4, DaysApart
    <3> QED BY <2>4, <2>6, <3>1, Lengths
  <2>8. to - 1 \in Int /\ to - 1 < DayStart(DayOf(to - 1)) + Day
    BY <1>1, InItsDay
  <2>9. row.statDate < DayStart(DayOf(to - 1)) + Day
    <3>1. DayStart(DayOf(to - 1)) \in Int
      BY <2>8, DayTypes
    <3> QED BY <1>1, <1>2, <2>2, <2>8, <3>1, Lengths
  <2> QED BY <2>1, <2>7, <2>9 DEF StartOfKstDay
<1> QED BY <1>2 DEF RowsIn

-----------------------------------------------------------------------------
(* The sums of the chart.                                                  *)

\* The recursive function of MapThenSumSet, for any values.
Sums(iter, B, val) ==
    iter = [s \in SUBSET B |->
               IF s = {} THEN 0
               ELSE val[CHOOSE x \in s : TRUE] + iter[s \ {CHOOSE x \in s : TRUE}]]

\* Each part has the elements of R with its key; different parts have different keys.
Parts(B, val, at, R, key) ==
    /\ IsFiniteSet(B) /\ IsFiniteSet(R)
    /\ \A b \in B : val[b] = Cardinality({r \in R : key[r] = at[b]})
    /\ \A b, c \in B : at[b] = at[c] => b = c

\* What is in one of the parts.
InParts(s, at, R, key) == {r \in R : \E b \in s : key[r] = at[b]}

\* Taking out a part takes out its elements.
LEMMA PartOut ==
  ASSUME NEW B, NEW val, NEW at, NEW R, NEW key, Parts(B, val, at, R, key),
         NEW s \in SUBSET B, NEW x \in s
  PROVE  Cardinality(InParts(s, at, R, key))
            = val[x] + Cardinality(InParts(s \ {x}, at, R, key))
<1> DEFINE X == {r \in R : key[r] = at[x]}
           Y == InParts(s \ {x}, at, R, key)
<1>1. InParts(s, at, R, key) = X \cup Y /\ X \cap Y = {}
  <2>1. \A b \in s : at[b] = at[x] => b = x
    BY DEF Parts
  <2> QED BY <2>1 DEF InParts
<1>2. IsFiniteSet(X) /\ IsFiniteSet(Y)
  <2>1. IsFiniteSet(R) /\ X \in SUBSET R /\ Y \in SUBSET R
    BY DEF Parts, InParts
  <2> HIDE DEF X, Y
  <2> QED BY <2>1, FS_Subset
<1>3. val[x] = Cardinality(X)
  BY DEF Parts
<1> HIDE DEF X, Y
<1>4. Cardinality(X \cup Y) = Cardinality(X) + Cardinality(Y) - Cardinality(X \cap Y)
  BY <1>2, FS_Union
<1>5. Cardinality(X \cap Y) = 0
  BY <1>1, FS_EmptySet
<1>6. Cardinality(X) \in Nat /\ Cardinality(Y) \in Nat
  BY <1>2, FS_CardinalityType
<1> QED BY <1>1, <1>3, <1>4, <1>5, <1>6 DEF Y

\* A sum over parts is the number of what is in one of them, whatever the order of the sum.
LEMMA SumOfParts ==
  ASSUME NEW B, NEW val, NEW at, NEW R, NEW key, Parts(B, val, at, R, key)
  PROVE  (CHOOSE iter : Sums(iter, B, val))[B] = Cardinality(InParts(B, at, R, key))
<1> DEFINE h == [s \in SUBSET B |-> Cardinality(InParts(s, at, R, key))]
           Rest(f, s) == val[CHOOSE x \in s : TRUE] + f[s \ {CHOOSE x \in s : TRUE}]
<1>1. \A s \in SUBSET B : h[s] = IF s = {} THEN 0 ELSE Rest(h, s)
  <2> SUFFICES ASSUME NEW s \in SUBSET B PROVE h[s] = IF s = {} THEN 0 ELSE Rest(h, s)
    OBVIOUS
  <2>1. CASE s = {}
    <3>1. InParts(s, at, R, key) = {}
      BY <2>1 DEF InParts
    <3> QED BY <2>1, <3>1, FS_EmptySet
  <2>2. CASE s # {}
    <3> DEFINE x == CHOOSE x \in s : TRUE
    <3>1. x \in s
      BY <2>2
    <3> HIDE DEF x
    <3>2. h[s] = val[x] + h[s \ {x}]
      <4>1. s \ {x} \in SUBSET B
        OBVIOUS
      <4> QED BY <3>1, <4>1, PartOut
    <3> HIDE DEF h
    <3> QED BY <2>2, <3>2 DEF x
  <2> QED BY <2>1, <2>2
<1> DEFINE f == CHOOSE iter : Sums(iter, B, val)
<1>2. Sums(f, B, val)
  <2>1. h = [s \in SUBSET B |-> h[s]]
    OBVIOUS
  <2> HIDE DEF h
  <2>2. Sums(h, B, val)
    BY <1>1, <2>1, Zenon DEF Sums
  <2> QED BY <2>2
<1> HIDE DEF f
<1>3. \A s \in SUBSET B : f[s] = IF s = {} THEN 0 ELSE Rest(f, s)
  BY <1>2, Zenon DEF Sums
<1> DEFINE Bad == {n \in Nat : \E s \in SUBSET B : n = Cardinality(s) /\ f[s] # h[s]}
<1>4. \A s \in SUBSET B : IsFiniteSet(s) /\ Cardinality(s) \in Nat
  <2> SUFFICES ASSUME NEW s \in SUBSET B PROVE IsFiniteSet(s) /\ Cardinality(s) \in Nat
    OBVIOUS
  <2>1. IsFiniteSet(B)
    BY DEF Parts
  <2> QED BY <2>1, FS_Subset, FS_CardinalityType
<1>5. Bad = {}
  <2> SUFFICES ASSUME Bad # {} PROVE FALSE
    OBVIOUS
  <2>1. PICK n \in Bad : \A k \in Bad : n <= k
    <3>1. Bad \subseteq Nat
      OBVIOUS
    <3> HIDE DEF Bad
    <3> QED BY <3>1, LeastNumber
  <2>2. PICK s \in SUBSET B : n = Cardinality(s) /\ f[s] # h[s]
    OBVIOUS
  <2>3. s # {}
    BY <1>1, <1>3, <2>2
  <2> DEFINE x == CHOOSE x \in s : TRUE
             t == s \ {x}
  <2>4. x \in s
    BY <2>3
  <2> HIDE DEF x
  <2>5. t \in SUBSET B /\ Cardinality(t) = n - 1
    BY <1>4, <2>2, <2>4, FS_RemoveElement
  <2>6. Cardinality(t) \notin Bad
    <3>1. n \in Nat /\ n - 1 \in Nat
      BY <1>4, <2>2, <2>5
    <3>2. n - 1 \in Bad => n <= n - 1
      BY <2>1
    <3> HIDE DEF Bad, t
    <3> QED BY <2>5, <3>1, <3>2
  <2>7. f[t] = h[t]
    <3> HIDE DEF h, t
    <3> QED BY <1>4, <2>5, <2>6
  <2>8. f[s] = val[x] + f[t] /\ h[s] = val[x] + h[t]
    <3> HIDE DEF h
    <3> QED BY <1>1, <1>3, <2>3 DEF x
  <2> HIDE DEF h, t
  <2> QED BY <2>2, <2>7, <2>8
<1>6. f[B] = h[B]
  <2> HIDE DEF h
  <2>1. B \in SUBSET B
    OBVIOUS
  <2>2. Cardinality(B) \notin Bad /\ Cardinality(B) \in Nat
    BY <1>4, <1>5, <2>1
  <2> QED BY <2>1, <2>2
<1> QED BY <1>6 DEF f

\* The sum over the buckets' values, written with the function of the community module.
LEMMA SumOfValues ==
  ASSUME NEW B
  PROVE  MapThenSumSet(LAMBDA b : b.value, B)
            = (CHOOSE iter : Sums(iter, B, [b \in B |-> b.value]))[B]
<1> DEFINE val == [b \in B |-> b.value]
           Step(iter) == iter = [s \in SUBSET B |->
                             IF s = {} THEN 0
                             ELSE (CHOOSE x \in s : TRUE).value
                                     + iter[s \ {CHOOSE x \in s : TRUE}]]
<1>1. MapThenSumSet(LAMBDA b : b.value, B) = (CHOOSE iter : Step(iter))[B]
  BY DEF MapThenSumSet, MapThenFoldSet
<1>2. \A iter : Step(iter) <=> Sums(iter, B, val)
  <2> TAKE iter
  <2>1. \A s \in SUBSET B : s # {} => (CHOOSE x \in s : TRUE) \in B
    OBVIOUS
  <2>2. \A s \in SUBSET B : s # {} => val[CHOOSE x \in s : TRUE] = (CHOOSE x \in s : TRUE).value
    BY <2>1
  <2> HIDE DEF val
  <2>3. [s \in SUBSET B |-> IF s = {} THEN 0 ELSE (CHOOSE x \in s : TRUE).value
                                                  + iter[s \ {CHOOSE x \in s : TRUE}]]
        = [s \in SUBSET B |-> IF s = {} THEN 0 ELSE val[CHOOSE x \in s : TRUE]
                                                  + iter[s \ {CHOOSE x \in s : TRUE}]]
    BY <2>2
  <2> QED BY <2>3 DEF Sums
<1> HIDE DEF Step, val
<1>3. (CHOOSE iter : Step(iter)) = (CHOOSE iter : Sums(iter, B, val))
  BY <1>2
<1> QED BY <1>1, <1>3 DEF val

\* The same for the events they count.
LEMMA SumOfCounted ==
  ASSUME NEW B
  PROVE  MapThenSumSet(LAMBDA b : Cardinality(b.counted), B)
            = (CHOOSE iter : Sums(iter, B, [b \in B |-> Cardinality(b.counted)]))[B]
<1> DEFINE val == [b \in B |-> Cardinality(b.counted)]
           Step(iter) == iter = [s \in SUBSET B |->
                             IF s = {} THEN 0
                             ELSE Cardinality((CHOOSE x \in s : TRUE).counted)
                                     + iter[s \ {CHOOSE x \in s : TRUE}]]
<1>1. MapThenSumSet(LAMBDA b : Cardinality(b.counted), B) = (CHOOSE iter : Step(iter))[B]
  BY DEF MapThenSumSet, MapThenFoldSet
<1>2. \A iter : Step(iter) <=> Sums(iter, B, val)
  <2> TAKE iter
  <2>1. \A s \in SUBSET B : s # {} => (CHOOSE x \in s : TRUE) \in B
    OBVIOUS
  <2>2. \A s \in SUBSET B : s # {} =>
           val[CHOOSE x \in s : TRUE] = Cardinality((CHOOSE x \in s : TRUE).counted)
    BY <2>1
  <2> HIDE DEF val
  <2>3. [s \in SUBSET B |-> IF s = {} THEN 0 ELSE Cardinality((CHOOSE x \in s : TRUE).counted)
                                                  + iter[s \ {CHOOSE x \in s : TRUE}]]
        = [s \in SUBSET B |-> IF s = {} THEN 0 ELSE val[CHOOSE x \in s : TRUE]
                                                  + iter[s \ {CHOOSE x \in s : TRUE}]]
    BY <2>2
  <2> QED BY <2>3 DEF Sums
<1> HIDE DEF Step, val
<1>3. (CHOOSE iter : Step(iter)) = (CHOOSE iter : Sums(iter, B, val))
  BY <1>2
<1> QED BY <1>1, <1>3 DEF val

-----------------------------------------------------------------------------
(* The series of a range.                                                  *)

\* What an event may look like.
Recorded == [id : EventIds, wrongWay : BOOLEAN, occurredAt : {Null} \cup Nows,
             receivedAt : Nows, falseAlarm : BOOLEAN]

TablesAreSound == hourRows \subseteq Rows /\ events \subseteq Recorded /\ IsFiniteSet(events)

BucketAt(range, c) ==
    [startAt |-> c, endAt |-> BucketEnd(c, range.bucketUnit),
     value |-> Cardinality({row \in RowsIn(range) : RowBucketStart(row, range.bucketUnit) = c}),
     counted |-> {event \in CountedEvents(range) :
                     BucketStart(EventAt(event), range.bucketUnit) = c}]

\* The buckets of a series are those of the instants of its range.
LEMMA InSeries ==
  ASSUME NEW range, IsRange(range)
  PROVE  /\ \A b \in Series(range) :
               \E t \in Int : /\ range.startAt <= t /\ t < range.endAt
                              /\ Fits(t, range.bucketUnit)
                              /\ b = BucketAt(range, BucketStart(t, range.bucketUnit))
         /\ \A t \in Int : range.startAt <= t /\ t < range.endAt =>
               /\ Fits(t, range.bucketUnit)
               /\ BucketAt(range, BucketStart(t, range.bucketUnit)) \in Series(range)
<1>1. Series(range) = {BucketAt(range, c) : c \in Cursors(range)}
  BY DEF Series, BucketAt
<1>2. \A t \in Int : range.startAt <= t /\ t < range.endAt => Fits(t, range.bucketUnit)
  BY DEF IsRange
<1>3. \A c : c \in Cursors(range) <=>
                \E t \in Int : /\ range.startAt <= t /\ t < range.endAt
                               /\ c = BucketStart(t, range.bucketUnit)
  BY CursorsAre
<1> QED BY <1>1, <1>2, <1>3, Zenon

\* A series is finite.
LEMMA SeriesFinite ==
  ASSUME NEW range, IsRange(range)
  PROVE  IsFiniteSet(Series(range))
<1> DEFINE I == range.startAt..(range.endAt - 1)
           g == [t \in I |-> BucketAt(range, BucketStart(t, range.bucketUnit))]
<1>1. range.startAt \in Int /\ range.endAt \in Int
  BY DEF IsRange
<1>2. IsFiniteSet(I)
  BY <1>1, FS_Interval
<1>3. \A t : t \in I <=> t \in Int /\ range.startAt <= t /\ t < range.endAt
  BY <1>1
<1>4. g \in Surjection(I, Series(range))
  <2> HIDE DEF I
  <2>1. \A t \in I : g[t] \in Series(range)
    BY <1>3, InSeries
  <2>2. \A b \in Series(range) : \E t \in I : g[t] = b
    BY <1>3, InSeries
  <2>3. g \in [I -> Series(range)]
    BY <2>1
  <2> HIDE DEF g
  <2> QED BY <2>2, <2>3 DEF Surjection
<1> HIDE DEF g, I
<1> QED BY <1>2, <1>4, FS_Surjection

\* So are the rows the table may hold.
LEMMA RowsFinite == IsFiniteSet(Rows)
<1> DEFINE S == FirstDay[1]..(FirstDay[Len(FirstDay)] - 1)
           H == 0..(Day \div Hour - 1)
           f == [p \in S \X H |-> [statDate |-> DayStart(p[1]), hourSlot |-> p[2]]]
<1>1. FirstDay[1] \in Int /\ FirstDay[Len(FirstDay)] - 1 \in Int
  <2>1. 1 \in 1..Len(FirstDay) /\ Len(FirstDay) \in 1..Len(FirstDay)
    BY CalendarFacts
  <2>2. FirstDay[1] \in Int /\ FirstDay[Len(FirstDay)] \in Int
    BY <2>1, CalendarFacts
  <2> QED BY <2>2
<1>2. Day \div Hour - 1 \in Int
  <2>1. Day \div Hour \in Int
    BY Quotient, Lengths
  <2> QED BY <2>1
<1>3. IsFiniteSet(S) /\ IsFiniteSet(H)
  <2>1. IsFiniteSet(S)
    BY <1>1, FS_Interval
  <2>2. \A k \in Int : IsFiniteSet(0..k)
    BY FS_Interval
  <2>3. IsFiniteSet(H)
    BY <1>2, <2>2
  <2> QED BY <2>1, <2>3
<1> HIDE DEF S, H
<1>4. IsFiniteSet(S \X H)
  BY <1>3, FS_Product
<1>5. Rows = [statDate : {DayStart(d) : d \in S}, hourSlot : H]
  BY DEF Rows, S, H
<1>6. f \in Surjection(S \X H, Rows)
  <2>1. f \in [S \X H -> Rows]
    BY <1>5
  <2>2. ASSUME NEW row \in Rows PROVE \E p \in S \X H : f[p] = row
    <3>1. row.statDate \in {DayStart(d) : d \in S} /\ row.hourSlot \in H
          /\ row = [statDate |-> row.statDate, hourSlot |-> row.hourSlot]
      BY <1>5
    <3>2. PICK d \in S : row.statDate = DayStart(d)
      BY <3>1
    <3>3. <<d, row.hourSlot>> \in S \X H
      BY <3>1, <3>2
    <3>4. f[<<d, row.hourSlot>>] = row
      BY <3>1, <3>2, <3>3
    <3> QED BY <3>3, <3>4
  <2> HIDE DEF f
  <2> QED BY <2>1, <2>2 DEF Surjection
<1> HIDE DEF f
<1> QED BY <1>4, <1>6, FS_Surjection

\* An event has a time.
LEMMA EventTimes ==
  ASSUME TablesAreSound, NEW event \in events
  PROVE  EventAt(event) \in Int
BY InstantsAssumption DEF TablesAreSound, Recorded, EventAt

\* Every instant of the range lies in one bucket.
LEMMA EachInstantOnce ==
  ASSUME NEW range, IsRange(range), NEW t \in range.startAt..(range.endAt - 1)
  PROVE  Cardinality({b \in Series(range) : b.startAt <= t /\ t < b.endAt}) = 1
<1> DEFINE unit == range.bucketUnit
           own == BucketAt(range, BucketStart(t, unit))
<1>1. /\ t \in Int /\ range.startAt <= t /\ t < range.endAt /\ unit \in Units
  BY DEF IsRange
<1>2. Fits(t, unit) /\ own \in Series(range)
  BY <1>1, InSeries
<1>3. own.startAt <= t /\ t < own.endAt
  BY <1>1, <1>2, BucketHolds DEF BucketAt
<1>4. ASSUME NEW b \in Series(range), b.startAt <= t, t < b.endAt PROVE b = own
  <2>1. PICK s \in Int : Fits(s, unit) /\ b = BucketAt(range, BucketStart(s, unit))
    BY InSeries
  <2>2. b.startAt = BucketStart(s, unit) /\ b.endAt = BucketEnd(BucketStart(s, unit), unit)
    BY <2>1 DEF BucketAt
  <2>3. BucketStart(t, unit) = BucketStart(s, unit)
    BY <1>1, <1>4, <2>1, <2>2, BucketUnique
  <2> QED BY <2>1, <2>3
<1> HIDE DEF own
<1>5. {b \in Series(range) : b.startAt <= t /\ t < b.endAt} = {own}
  BY <1>2, <1>3, <1>4
<1> QED BY <1>5, FS_Singleton

\* Every bucket has a part of the range, and holds the events it counts.
LEMMA BucketsMeetRange ==
  ASSUME NEW range, IsRange(range), NEW b \in Series(range)
  PROVE  b.startAt < range.endAt /\ b.endAt > range.startAt
<1> DEFINE unit == range.bucketUnit
<1>1. range.startAt \in Int /\ range.endAt \in Int /\ unit \in Units
  BY DEF IsRange
<1>2. PICK t \in Int : /\ range.startAt <= t /\ t < range.endAt
                       /\ Fits(t, unit) /\ b = BucketAt(range, BucketStart(t, unit))
  BY InSeries
<1>3. b.startAt = BucketStart(t, unit) /\ b.endAt = BucketEnd(BucketStart(t, unit), unit)
  BY <1>2 DEF BucketAt
<1>4. b.startAt \in Int /\ b.endAt \in Int /\ b.startAt <= t /\ t < b.endAt
  BY <1>1, <1>2, <1>3, BucketHolds
<1> QED BY <1>1, <1>2, <1>4

\* An event lies in the bucket that counts it.
LEMMA CountedInBucket ==
  ASSUME TablesAreSound, NEW range, IsRange(range), NEW b \in Series(range), NEW e \in b.counted
  PROVE  b.startAt <= EventAt(e) /\ EventAt(e) < b.endAt
<1> DEFINE unit == range.bucketUnit
<1>1. /\ unit \in Units
      /\ \A t \in Int : range.startAt <= t /\ t < range.endAt => Fits(t, unit)
  BY DEF IsRange
<1>2. PICK c : b = BucketAt(range, c)
  BY InSeries
<1>3. e \in CountedEvents(range) /\ BucketStart(EventAt(e), unit) = c
  BY <1>2 DEF BucketAt
<1>4. e \in events /\ range.startAt <= EventAt(e) /\ EventAt(e) < range.endAt
  BY <1>3 DEF CountedEvents
<1>5. EventAt(e) \in Int /\ Fits(EventAt(e), unit)
  BY <1>1, <1>4, EventTimes
<1>6. b.startAt = c /\ b.endAt = BucketEnd(c, unit)
  BY <1>2 DEF BucketAt
<1> HIDE DEF unit
<1> QED BY <1>1, <1>3, <1>5, <1>6, BucketHolds

\* A bucket counts the hours that have a part of it and of the range.
LEMMA ValueIsOverlap ==
  ASSUME TablesAreSound, NEW range, IsRange(range), NEW b \in Series(range)
  PROVE  b.value = Cardinality({row \in hourRows :
                       /\ RowStart(row) + Hour > b.startAt /\ RowStart(row) < b.endAt
                       /\ RowStart(row) + Hour > range.startAt /\ RowStart(row) < range.endAt})
<1> DEFINE unit == range.bucketUnit
<1>1. unit \in Units
  BY DEF IsRange
<1>2. PICK t \in Int : Fits(t, unit) /\ b = BucketAt(range, BucketStart(t, unit))
  BY InSeries
<1> DEFINE c == BucketStart(t, unit)
<1>3. b.startAt = c /\ b.endAt = BucketEnd(c, unit)
      /\ b.value = Cardinality({row \in RowsIn(range) : RowBucketStart(row, unit) = c})
  BY <1>2 DEF BucketAt
<1>4. RowsIn(range) = {row \in hourRows : /\ RowStart(row) + Hour > range.startAt
                                          /\ RowStart(row) < range.endAt}
  BY RowsOverlap DEF TablesAreSound
<1>5. \A row \in hourRows : RowBucketStart(row, unit) = c
         <=> RowStart(row) + Hour > c /\ RowStart(row) < BucketEnd(c, unit)
  BY <1>1, <1>2, RowOverlaps DEF TablesAreSound
<1> HIDE DEF unit, c
<1>6. {row \in RowsIn(range) : RowBucketStart(row, unit) = c}
      = {row \in hourRows :
            /\ RowStart(row) + Hour > b.startAt /\ RowStart(row) < b.endAt
            /\ RowStart(row) + Hour > range.startAt /\ RowStart(row) < range.endAt}
  BY <1>3, <1>4, <1>5
<1> QED BY <1>3, <1>6

\* The buckets together have the rows of the range, each once.
LEMMA VehiclesAddUp ==
  ASSUME TablesAreSound, NEW range, IsRange(range)
  PROVE  Cardinality(RowsIn(range)) = MapThenSumSet(LAMBDA b : b.value, Series(range))
<1> DEFINE unit == range.bucketUnit
           B == Series(range)
           R == RowsIn(range)
           val == [b \in B |-> b.value]
           at == [b \in B |-> b.startAt]
           key == [row \in R |-> RowBucketStart(row, unit)]
<1>1. /\ range.startAt \in Int /\ range.endAt \in Int /\ range.startAt < range.endAt
      /\ unit \in Units
  BY DEF IsRange
<1>2. R = {row \in hourRows : /\ RowStart(row) + Hour > range.startAt
                              /\ RowStart(row) < range.endAt}
  BY RowsOverlap DEF TablesAreSound
<1>3. Parts(B, val, at, R, key)
  <2>1. IsFiniteSet(B) /\ IsFiniteSet(R)
    <3>1. R \in SUBSET Rows
      BY <1>2 DEF TablesAreSound
    <3> QED BY <3>1, SeriesFinite, RowsFinite, FS_Subset
  <2>2. ASSUME NEW b \in B PROVE val[b] = Cardinality({r \in R : key[r] = at[b]})
    <3>1. PICK c : b = BucketAt(range, c)
      BY InSeries
    <3>2. b.startAt = c /\ b.value = Cardinality({row \in R : RowBucketStart(row, unit) = c})
      BY <3>1 DEF BucketAt
    <3>3. {row \in R : RowBucketStart(row, unit) = c} = {r \in R : key[r] = at[b]}
      BY <3>2
    <3> QED BY <3>2, <3>3
  <2>3. ASSUME NEW b \in B, NEW c \in B, at[b] = at[c] PROVE b = c
    <3>1. PICK s : b = BucketAt(range, s)
      BY InSeries
    <3>2. PICK t : c = BucketAt(range, t)
      BY InSeries
    <3>3. b.startAt = s /\ c.startAt = t
      BY <3>1, <3>2 DEF BucketAt
    <3> QED BY <2>3, <3>1, <3>2, <3>3
  <2> HIDE DEF B, R, val, at, key
  <2> QED BY <2>1, <2>2, <2>3 DEF Parts
<1>4. InParts(B, at, R, key) = R
  <2> SUFFICES ASSUME NEW row \in R PROVE \E b \in B : key[row] = at[b]
    BY DEF InParts
  <2> DEFINE r == RowStart(row)
             t == IF r < range.startAt THEN range.startAt ELSE r
  <2>1. row \in Rows /\ r + Hour > range.startAt /\ r < range.endAt
    BY <1>2 DEF TablesAreSound
  <2>2. r \in Int /\ Hour \in Int /\ Hour >= 1
    BY <2>1, RowFacts, Lengths
  <2>3. t \in Int /\ range.startAt <= t /\ t < range.endAt /\ r <= t /\ t < r + Hour
    <3> HIDE DEF r
    <3> QED BY <1>1, <2>1, <2>2
  <2> HIDE DEF t
  <2>4. RowBucketStart(row, unit) = BucketStart(t, unit)
    BY <1>1, <2>1, <2>3, RowBucket
  <2>5. BucketAt(range, BucketStart(t, unit)) \in B
    BY <2>3, InSeries
  <2>6. BucketAt(range, BucketStart(t, unit)).startAt = BucketStart(t, unit)
    BY DEF BucketAt
  <2> QED BY <2>4, <2>5, <2>6
<1>5. MapThenSumSet(LAMBDA b : b.value, B) = (CHOOSE iter : Sums(iter, B, val))[B]
  BY SumOfValues
<1> HIDE DEF B, R, val, at, key
<1>6. (CHOOSE iter : Sums(iter, B, val))[B] = Cardinality(InParts(B, at, R, key))
  BY <1>3, SumOfParts
<1>7. Cardinality(R) = MapThenSumSet(LAMBDA b : b.value, B)
  BY <1>4, <1>5, <1>6
<1> QED BY <1>7 DEF B, R

\* The same of the events.
LEMMA CountedAddUp ==
  ASSUME TablesAreSound, NEW range, IsRange(range)
  PROVE  Cardinality(CountedEvents(range))
            = MapThenSumSet(LAMBDA b : Cardinality(b.counted), Series(range))
<1> DEFINE unit == range.bucketUnit
           B == Series(range)
           R == CountedEvents(range)
           val == [b \in B |-> Cardinality(b.counted)]
           at == [b \in B |-> b.startAt]
           key == [event \in R |-> BucketStart(EventAt(event), unit)]
<1>3. Parts(B, val, at, R, key)
  <2>1. IsFiniteSet(B) /\ IsFiniteSet(R)
    <3>1. R \in SUBSET events /\ IsFiniteSet(events)
      BY DEF TablesAreSound, CountedEvents
    <3> QED BY <3>1, SeriesFinite, FS_Subset
  <2>2. ASSUME NEW b \in B PROVE val[b] = Cardinality({r \in R : key[r] = at[b]})
    <3>1. PICK c : b = BucketAt(range, c)
      BY InSeries
    <3>2. b.startAt = c /\ b.counted = {event \in R : BucketStart(EventAt(event), unit) = c}
      BY <3>1 DEF BucketAt
    <3>3. {event \in R : BucketStart(EventAt(event), unit) = c} = {r \in R : key[r] = at[b]}
      BY <3>2
    <3> QED BY <3>2, <3>3
  <2>3. ASSUME NEW b \in B, NEW c \in B, at[b] = at[c] PROVE b = c
    <3>1. PICK s : b = BucketAt(range, s)
      BY InSeries
    <3>2. PICK t : c = BucketAt(range, t)
      BY InSeries
    <3>3. b.startAt = s /\ c.startAt = t
      BY <3>1, <3>2 DEF BucketAt
    <3> QED BY <2>3, <3>1, <3>2, <3>3
  <2> HIDE DEF B, R, val, at, key
  <2> QED BY <2>1, <2>2, <2>3 DEF Parts
<1>4. InParts(B, at, R, key) = R
  <2> SUFFICES ASSUME NEW event \in R PROVE \E b \in B : key[event] = at[b]
    BY DEF InParts
  <2> DEFINE t == EventAt(event)
  <2>1. event \in events /\ range.startAt <= t /\ t < range.endAt
    BY DEF CountedEvents
  <2>2. t \in Int
    BY <2>1, EventTimes
  <2>3. BucketAt(range, BucketStart(t, unit)) \in B
    BY <2>1, <2>2, InSeries
  <2>4. BucketAt(range, BucketStart(t, unit)).startAt = BucketStart(t, unit)
    BY DEF BucketAt
  <2> QED BY <2>3, <2>4
<1>5. MapThenSumSet(LAMBDA b : Cardinality(b.counted), B)
         = (CHOOSE iter : Sums(iter, B, val))[B]
  BY SumOfCounted
<1> HIDE DEF B, R, val, at, key
<1>6. (CHOOSE iter : Sums(iter, B, val))[B] = Cardinality(InParts(B, at, R, key))
  BY <1>3, SumOfParts
<1>7. Cardinality(R) = MapThenSumSet(LAMBDA b : Cardinality(b.counted), B)
  BY <1>4, <1>5, <1>6
<1> QED BY <1>7 DEF B, R

-----------------------------------------------------------------------------
(* The ranges somebody may ask for.                                        *)

\* What comes after an instant of the calendar, and before its end, is in it.
LEMMA FitsBetween ==
  ASSUME NEW t \in Int, NEW from \in Int, NEW unit,
         FirstDay[1] <= DayOf(from), from <= t, DayOf(t) < FirstDay[Len(FirstDay)]
  PROVE  Fits(t, unit)
<1>1. DayOf(from) \in Int /\ DayOf(t) \in Int /\ DayStart(DayOf(from)) \in Int
  BY DayTypes
<1>2. 1 \in 1..Len(FirstDay) /\ Len(FirstDay) \in 1..Len(FirstDay)
  BY CalendarFacts
<1>3. FirstDay[1] \in Int /\ FirstDay[Len(FirstDay)] \in Int
  BY <1>2, CalendarFacts
<1>4. DayStart(DayOf(from)) <= t
  BY <1>1, InItsDay
<1>5. DayOf(from) <= DayOf(t)
  BY <1>1, <1>4, DayOrder
<1>6. FirstDay[1] <= DayOf(t) /\ DayOf(t) < FirstDay[Len(FirstDay)]
  BY <1>1, <1>3, <1>5
<1> QED BY <1>6, CalendarCovers DEF Fits

\* The chart of the days of this month.
LEMMA DailyIsRange ==
  ASSUME NEW instant \in Nows
  PROVE  IsRange(Daily(instant))
<1>1. instant \in Int
  BY InstantsAssumption
<1>2. PICK m \in Months : LiesIn(instant, m)
  BY InstantsAssumption
<1>3. MonthOf(instant) = m /\ FirstDay[m] \in Int /\ FirstDay[m + 1] \in Int
      /\ FirstDay[m] < FirstDay[m + 1]
  BY <1>1, <1>2, MonthUnique, MonthTypes
<1>4. DayStart(FirstDay[m]) + Day <= DayStart(FirstDay[m + 1])
      /\ DayStart(FirstDay[m]) \in Int /\ DayStart(FirstDay[m + 1]) \in Int
  BY <1>3, DaysApart, DayTypes
<1>5. Daily(instant) = [startAt |-> DayStart(FirstDay[m]), endAt |-> DayStart(FirstDay[m + 1]),
                    bucketUnit |-> "day"]
  BY <1>3 DEF Daily, StartOfKstMonth, AddKstMonths
<1>6. DayStart(FirstDay[m]) < DayStart(FirstDay[m + 1])
  BY <1>4, Lengths
<1> QED BY <1>4, <1>5, <1>6 DEF IsRange, Units, Fits

\* The chart of the last weeks.
LEMMA WeeklyIsRange ==
  ASSUME NEW instant \in Nows
  PROVE  IsRange(Weekly(instant))
<1> DEFINE w == StartOfKstWeek(instant)
           week == WeekDays * Day
           weeks == (WeeksShown - 1) * WeekDays * Day
<1>1. instant \in Int
  BY InstantsAssumption
<1>2. w \in Int
  BY <1>1, WeekOf, WeekHolds, DayTypes
<1>3. WeeksShown - 1 \in Nat /\ WeekDays \in Nat /\ Day \in Nat /\ WeekDays >= 1 /\ Day >= 1
  <2>1. WeeksShown \in Nat \ {0}
    BY CalendarAssumption
  <2> QED BY <2>1, Lengths
<1>4. weeks \in Nat
  <2>1. (WeeksShown - 1) * WeekDays \in Nat
    BY <1>3
  <2> QED BY <1>3, <2>1
<1>5. week \in Nat /\ week >= 1
  <2>1. PICK k \in Nat : WeekDays = k + 1
    <3>1. WeekDays - 1 \in Nat
      BY <1>3
    <3> QED BY <3>1, <1>3
  <2>2. (k + 1) * Day = k * Day + Day /\ k * Day \in Nat
    BY <1>3
  <2> QED BY <1>3, <2>1, <2>2
<1>6. Weekly(instant) = [startAt |-> w - weeks, endAt |-> w + week, bucketUnit |-> "week"]
  BY DEF Weekly
<1> HIDE DEF w, week, weeks
<1>7. w - weeks \in Int /\ w + week \in Int /\ w - weeks < w + week
  BY <1>2, <1>4, <1>5
<1> QED BY <1>6, <1>7 DEF IsRange, Units, Fits

\* The chart of the last months.
LEMMA MonthlyIsRange ==
  ASSUME NEW instant \in Nows
  PROVE  IsRange(Monthly(instant))
<1>1. instant \in Int /\ MonthsShown \in Nat \ {0}
  BY InstantsAssumption, CalendarAssumption
<1>2. PICK m \in Months : m >= MonthsShown /\ LiesIn(instant, m)
  BY InstantsAssumption
<1> DEFINE k == m + (1 - MonthsShown)
<1>3. k \in Months /\ k <= m /\ m \in Int /\ k \in Int
  <2>1. Len(FirstDay) \in Nat
    BY CalendarFacts
  <2> QED BY <1>1, <1>2, <2>1 DEF Months
<1>4. MonthOf(instant) = m /\ FirstDay[m] \in Int /\ FirstDay[m + 1] \in Int
      /\ FirstDay[m] < FirstDay[m + 1]
  BY <1>1, <1>2, MonthUnique, MonthTypes
<1>5. Monthly(instant) = [startAt |-> DayStart(FirstDay[k]), endAt |-> DayStart(FirstDay[m + 1]),
                      bucketUnit |-> "month"]
  BY <1>4 DEF Monthly, AddKstMonths
<1> HIDE DEF k
<1>6. FirstDay[k] \in Int /\ FirstDay[k] < FirstDay[m + 1]
  <2>1. FirstDay[k] \in Int /\ FirstDay[k + 1] \in Int /\ FirstDay[k] < FirstDay[k + 1]
        /\ (k < m => FirstDay[k + 1] <= FirstDay[m])
    BY <1>3, MonthTypes
  <2> QED BY <1>3, <1>4, <2>1
<1> DEFINE from == DayStart(FirstDay[k])
           to == DayStart(FirstDay[m + 1])
<1>7. from \in Int /\ to \in Int /\ from < to
  <2>1. from + Day <= to
    BY <1>4, <1>6, DaysApart
  <2> QED BY <1>4, <1>6, <2>1, DayTypes, Lengths
<1>8. ASSUME NEW t \in Int, from <= t, t < to PROVE Fits(t, "month")
  <2>1. DayOf(t) \in Int
    BY DayTypes
  <2>2. ~ (FirstDay[m + 1] <= DayOf(t))
    BY <1>4, <1>7, <1>8, DayOrder
  <2>3. DayOf(from) = FirstDay[k]
    BY <1>6, DayOfStart
  <2>4. FirstDay[1] <= DayOf(from)
    BY <1>3, <1>7, MonthStartLies, CalendarEnds
  <2>5. FirstDay[m + 1] <= FirstDay[Len(FirstDay)]
        /\ FirstDay[Len(FirstDay)] \in Int
    <3>1. m + 1 \in 1..Len(FirstDay) /\ Len(FirstDay) \in 1..Len(FirstDay)
          /\ (m + 1 = Len(FirstDay) \/ m + 1 < Len(FirstDay))
      BY CalendarFacts DEF Months
    <3>2. FirstDay[Len(FirstDay)] \in Int
          /\ (m + 1 < Len(FirstDay) => FirstDay[m + 1] < FirstDay[Len(FirstDay)])
      BY <3>1, CalendarFacts
    <3> QED BY <1>4, <3>1, <3>2
  <2>6. DayOf(t) < FirstDay[Len(FirstDay)]
    BY <1>4, <2>1, <2>2, <2>5
  <2> HIDE DEF from, to
  <2> QED BY <1>7, <1>8, <2>1, <2>4, <2>6, FitsBetween
<1> QED BY <1>5, <1>7, <1>8 DEF IsRange, Units

\* The chart between two dates somebody enters.
LEMMA CustomIsRange ==
  ASSUME NEW start \in Inputs, NEW end \in Inputs, start.at <= end.at
  PROVE  IsRange(Custom(start, end))
<1> DEFINE to == end.at + (IF end.hasTime THEN 1 ELSE Day)
           unit == CustomBucketUnit(start.at, to)
<1>1. /\ start.at \in Int /\ end.at \in Int /\ end.hasTime \in BOOLEAN
      /\ end.hasTime \/ end.at = StartOfKstDay(end.at)
      /\ \E m \in Months : LiesIn(start.at, m)
      /\ \E m \in Months : LiesIn(end.at, m)
  BY InstantsAssumption
<1>2. Custom(start, end) = [startAt |-> start.at, endAt |-> to, bucketUnit |-> unit]
  BY DEF Custom
<1>3. unit \in Units
  BY DEF CustomBucketUnit, Units
<1>4. to \in Int /\ start.at < to /\ to <= DayStart(DayOf(end.at) + 1)
  <2>1. DayOf(end.at) \in Int /\ DayStart(DayOf(end.at)) \in Int
        /\ DayStart(DayOf(end.at) + 1) = DayStart(DayOf(end.at)) + Day
        /\ end.at < DayStart(DayOf(end.at)) + Day
    BY <1>1, DayTypes, DayFollows, InItsDay
  <2>2. CASE end.hasTime
    <3>1. to = end.at + 1
      BY <2>2
    <3> HIDE DEF to
    <3> QED BY <1>1, <2>1, <3>1, Lengths
  <2>3. CASE ~end.hasTime
    <3>1. to = end.at + Day
      BY <2>3
    <3>2. end.at = DayStart(DayOf(end.at))
      BY <1>1, <2>3, Zenon DEF StartOfKstDay
    <3> HIDE DEF to
    <3> QED BY <1>1, <2>1, <3>1, <3>2, Lengths
  <2> QED BY <2>2, <2>3
<1> HIDE DEF to, unit
<1>5. ASSUME NEW t \in Int, start.at <= t, t < to PROVE Fits(t, unit)
  <2>1. DayOf(end.at) \in Int /\ DayOf(t) \in Int /\ DayOf(end.at) + 1 \in Int
        /\ DayStart(DayOf(end.at) + 1) \in Int
    BY <1>1, DayTypes
  <2>2. ~ (DayOf(end.at) + 1 <= DayOf(t))
    <3>1. ~ (DayStart(DayOf(end.at) + 1) <= t)
      BY <1>4, <1>5, <2>1
    <3> QED BY <2>1, <3>1, DayOrder
  <2>3. DayOf(t) <= DayOf(end.at)
    BY <2>1, <2>2
  <2>4. FirstDay[1] <= DayOf(start.at) /\ DayOf(end.at) < FirstDay[Len(FirstDay)]
    BY <1>1, CalendarEnds
  <2>5. FirstDay[Len(FirstDay)] \in Int
    <3>1. Len(FirstDay) \in 1..Len(FirstDay)
      BY CalendarFacts
    <3> QED BY <3>1, CalendarFacts
  <2>6. DayOf(t) < FirstDay[Len(FirstDay)]
    BY <2>1, <2>3, <2>4, <2>5
  <2> QED BY <1>1, <1>5, <2>4, <2>6, FitsBetween
<1> QED BY <1>1, <1>2, <1>3, <1>4, <1>5 DEF IsRange

-----------------------------------------------------------------------------
(* The requests.                                                           *)

AnswerTo(range) ==
    [series |-> Series(range), vehicles |-> Cardinality(RowsIn(range)),
     wrongWays |-> Cardinality({event \in CountedEvents(range) : event.wrongWay}),
     pedestrians |->
        Cardinality(CountedEvents(range) \ {event \in CountedEvents(range) : event.wrongWay})]

\* The tables stay as they were while a request is under way.
StatisticsInv ==
    /\ TablesAreSound
    /\ asked # NoRange => IsRange(asked) /\ answer = AnswerTo(asked)

\* The invariant holds of the first state.
LEMMA StatisticsInitInv == ASSUME StatisticsInit PROVE StatisticsInv
<1>1. hourRows \in Tables /\ events = {} /\ asked = NoRange
  BY DEF StatisticsInit
<1>2. TablesAreSound
  BY <1>1, TablesAssumption, FS_EmptySet DEF TablesAreSound
<1> QED BY <1>1, <1>2 DEF StatisticsInv

\* A request for a range keeps it.
LEMMA AsksKeeps ==
  ASSUME StatisticsInv, NEW range, IsRange(range), Asks(range)
  PROVE  StatisticsInv'
<1>1. asked' = range /\ hourRows' = hourRows /\ events' = events /\ answer' = AnswerTo(range)
  BY DEF Asks, AnswerTo
<1>2. TablesAreSound'
  BY <1>1 DEF StatisticsInv, TablesAreSound
<1>3. AnswerTo(asked)' = AnswerTo(range)
  BY <1>1 DEF AnswerTo, Series, RowsIn, CountedEvents
<1>4. IsRange(asked)'
  BY <1>1 DEF IsRange
<1> QED BY <1>1, <1>2, <1>3, <1>4 DEF StatisticsInv

\* So does every step.
LEMMA StatisticsNextInv ==
  ASSUME StatisticsInv, [StatisticsNext]_statisticsVars
  PROVE  StatisticsInv'
<1>1. CASE GetTrafficSeries
  BY <1>1, AsksKeeps, DailyIsRange, WeeklyIsRange, MonthlyIsRange DEF GetTrafficSeries
<1>2. CASE GetCustomSeries
  BY <1>2, AsksKeeps, CustomIsRange DEF GetCustomSeries
<1>3. CASE RecordEvent
  <2>1. PICK event \in Recorded : events' = events \cup {event}
    BY <1>3 DEF RecordEvent, Recorded
  <2>2. hourRows' = hourRows /\ asked' = asked /\ asked = NoRange
    BY <1>3 DEF RecordEvent
  <2>3. IsFiniteSet(events')
    BY <2>1, FS_AddElement DEF StatisticsInv, TablesAreSound
  <2> QED BY <2>1, <2>2, <2>3 DEF StatisticsInv, TablesAreSound
<1>4. CASE ReviewEvent
  <2>1. PICK event \in events :
           events' = (events \ {event}) \cup {[event EXCEPT !.falseAlarm = ~@]}
    BY <1>4 DEF ReviewEvent
  <2>2. hourRows' = hourRows /\ asked' = asked /\ asked = NoRange
    BY <1>4 DEF ReviewEvent
  <2>3. [event EXCEPT !.falseAlarm = ~@] \in Recorded
    BY DEF StatisticsInv, TablesAreSound, Recorded
  <2>4. IsFiniteSet(events')
    <3>1. IsFiniteSet(events \ {event})
      BY FS_RemoveElement DEF StatisticsInv, TablesAreSound
    <3> QED BY <2>1, <3>1, FS_AddElement
  <2>5. events' \subseteq Recorded
    BY <2>1, <2>3 DEF StatisticsInv, TablesAreSound
  <2> QED BY <2>2, <2>4, <2>5 DEF StatisticsInv, TablesAreSound
<1>5. CASE Answer
  BY <1>5 DEF Answer, StatisticsInv, TablesAreSound
<1>6. CASE UNCHANGED statisticsVars
  <2>1. hourRows' = hourRows /\ events' = events /\ asked' = asked /\ answer' = answer
    BY <1>6 DEF statisticsVars
  <2>2. AnswerTo(asked)' = AnswerTo(asked)
    BY <2>1 DEF AnswerTo, Series, RowsIn, CountedEvents
  <2>3. IsRange(asked)' <=> IsRange(asked)
    BY <2>1 DEF IsRange
  <2> QED BY <2>1, <2>2, <2>3 DEF StatisticsInv, TablesAreSound
<1> QED BY <1>1, <1>2, <1>3, <1>4, <1>5, <1>6 DEF StatisticsNext

\* What the invariant says of an answer.
LEMMA InvPartitions == ASSUME StatisticsInv PROVE ChartPartitionsRange
<1> SUFFICES ASSUME asked # NoRange PROVE ChartPartitionsRange
  BY DEF ChartPartitionsRange
<1>1. TablesAreSound /\ IsRange(asked) /\ answer = AnswerTo(asked)
  BY DEF StatisticsInv
<1>2. /\ answer.series = Series(asked) /\ answer.vehicles = Cardinality(RowsIn(asked))
      /\ answer.wrongWays + answer.pedestrians = Cardinality(CountedEvents(asked))
  <2> DEFINE C == CountedEvents(asked)
             W == {event \in C : event.wrongWay}
             V == C \ W
  <2>1. /\ answer.series = Series(asked) /\ answer.vehicles = Cardinality(RowsIn(asked))
        /\ answer.wrongWays = Cardinality(W) /\ answer.pedestrians = Cardinality(V)
    BY <1>1 DEF AnswerTo
  <2>2. IsFiniteSet(C)
    <3>1. C \in SUBSET events /\ IsFiniteSet(events)
      BY <1>1 DEF TablesAreSound, CountedEvents
    <3> HIDE DEF C
    <3> QED BY <3>1, FS_Subset
  <2>3. W \in SUBSET C /\ V \in SUBSET C /\ C = W \cup V /\ W \cap V = {}
    OBVIOUS
  <2> HIDE DEF C, W, V
  <2>4. IsFiniteSet(W) /\ IsFiniteSet(V)
    BY <2>2, <2>3, FS_Subset
  <2>5. Cardinality(W \cup V) = Cardinality(W) + Cardinality(V) - Cardinality(W \cap V)
    BY <2>4, FS_Union
  <2>6. Cardinality(W \cap V) = 0
    BY <2>3, FS_EmptySet
  <2>7. Cardinality(W) \in Nat /\ Cardinality(V) \in Nat
    BY <2>4, FS_CardinalityType
  <2>8. Cardinality(C) = Cardinality(W) + Cardinality(V)
    BY <2>3, <2>5, <2>6, <2>7
  <2> QED BY <2>1, <2>8 DEF C
<1>3. \A t \in asked.startAt..(asked.endAt - 1) :
         Cardinality({b \in answer.series : b.startAt <= t /\ t < b.endAt}) = 1
  BY <1>1, <1>2, EachInstantOnce
<1>4. \A b \in answer.series : b.startAt < asked.endAt /\ b.endAt > asked.startAt
  BY <1>1, <1>2, BucketsMeetRange
<1>5. \A b \in answer.series : \A e \in b.counted : b.startAt <= EventAt(e) /\ EventAt(e) < b.endAt
  BY <1>1, <1>2, CountedInBucket
<1>6. \A b \in answer.series :
         b.value = Cardinality({row \in hourRows :
                      /\ RowStart(row) + Hour > b.startAt /\ RowStart(row) < b.endAt
                      /\ RowStart(row) + Hour > asked.startAt /\ RowStart(row) < asked.endAt})
  BY <1>1, <1>2, ValueIsOverlap
<1>7. answer.vehicles = MapThenSumSet(LAMBDA b : b.value, answer.series)
  BY <1>1, <1>2, VehiclesAddUp
<1>8. answer.wrongWays + answer.pedestrians
         = MapThenSumSet(LAMBDA b : Cardinality(b.counted), answer.series)
  BY <1>1, <1>2, CountedAddUp
<1> QED BY <1>3, <1>4, <1>5, <1>6, <1>7, <1>8, Zenon DEF ChartPartitionsRange

\* For any calendar, any tables and any range somebody may ask for: the buckets of the chart
\* are a partition of the range (the loop of buildBuckets leaves no gap and no overlap), what
\* lies in a bucket is counted there and nowhere else, and the chart adds up to the summary.
THEOREM ChartIsPartition == StatisticsSpec => []ChartPartitionsRange
<1>1. StatisticsInit => StatisticsInv
  BY StatisticsInitInv
<1>2. StatisticsInv /\ [StatisticsNext]_statisticsVars => StatisticsInv'
  BY StatisticsNextInv
<1>3. StatisticsInv => ChartPartitionsRange
  BY InvPartitions
<1> QED BY <1>1, <1>2, <1>3, PTL DEF StatisticsSpec

-----------------------------------------------------------------------------
(* Control board packets: the bits of a byte, divided by the polynomial.   *)

\* The bits of a byte, with their weights, and what xor makes of two of them.
Bit(x, w) == (x \div w) % 2
Binary == {0, 1}
Plus(a, b) == (a + b) % 2

\* The number that eight bits make.
OfBits(b) == b[1] + 2 * b[2] + 4 * b[4] + 8 * b[8]
             + 16 * b[16] + 32 * b[32] + 64 * b[64] + 128 * b[128]

\* A bit is 0 or 1.
LEMMA BitTypes == ASSUME NEW x \in Bytes, NEW w \in Flips PROVE Bit(x, w) \in Binary
BY SMT DEF Bit, Bytes, Flips, Binary

\* A byte is what its bits make.
LEMMA BitsMakeByte ==
  ASSUME NEW x \in Bytes
  PROVE  x = Bit(x, 1) + 2 * Bit(x, 2) + 4 * Bit(x, 4) + 8 * Bit(x, 8)
             + 16 * Bit(x, 16) + 32 * Bit(x, 32) + 64 * Bit(x, 64) + 128 * Bit(x, 128)
BY SMT DEF Bytes, Bit

\* Any eight bits make a byte with these bits.
LEMMA BitsOfByte ==
  ASSUME NEW b \in [Flips -> Binary]
  PROVE  OfBits(b) \in Bytes /\ \A w \in Flips : Bit(OfBits(b), w) = b[w]
<1>1. /\ b[1] \in Binary /\ b[2] \in Binary /\ b[4] \in Binary /\ b[8] \in Binary
      /\ b[16] \in Binary /\ b[32] \in Binary /\ b[64] \in Binary /\ b[128] \in Binary
  BY DEF Flips
<1> DEFINE x == OfBits(b)
<1>2. x = b[1] + 2 * b[2] + 4 * b[4] + 8 * b[8]
          + 16 * b[16] + 32 * b[32] + 64 * b[64] + 128 * b[128]
  BY DEF OfBits
<1> DEFINE b1 == b[1]  b2 == b[2]  b4 == b[4]  b8 == b[8]
           b16 == b[16]  b32 == b[32]  b64 == b[64]  b128 == b[128]
<1> HIDE DEF x, b1, b2, b4, b8, b16, b32, b64, b128
<1>5. /\ b1 \in Binary /\ b2 \in Binary /\ b4 \in Binary /\ b8 \in Binary
      /\ b16 \in Binary /\ b32 \in Binary /\ b64 \in Binary /\ b128 \in Binary
      /\ x = b1 + 2 * b2 + 4 * b4 + 8 * b8 + 16 * b16 + 32 * b32 + 64 * b64 + 128 * b128
  BY <1>1, <1>2 DEF b1, b2, b4, b8, b16, b32, b64, b128
<1>6. /\ x \in Bytes
      /\ Bit(x, 1) = b1 /\ Bit(x, 2) = b2 /\ Bit(x, 4) = b4 /\ Bit(x, 8) = b8
      /\ Bit(x, 16) = b16 /\ Bit(x, 32) = b32 /\ Bit(x, 64) = b64 /\ Bit(x, 128) = b128
  BY <1>5, SMT DEF Bytes, Bit, Binary
<1>3. /\ x \in Bytes
      /\ Bit(x, 1) = b[1] /\ Bit(x, 2) = b[2] /\ Bit(x, 4) = b[4] /\ Bit(x, 8) = b[8]
      /\ Bit(x, 16) = b[16] /\ Bit(x, 32) = b[32] /\ Bit(x, 64) = b[64] /\ Bit(x, 128) = b[128]
  BY <1>6 DEF b1, b2, b4, b8, b16, b32, b64, b128
<1>4. \A w \in Flips : Bit(x, w) = b[w]
  BY <1>3 DEF Flips
<1> QED BY <1>3, <1>4 DEF x

\* Bytes with the same bits are the same.
LEMMA SameBits ==
  ASSUME NEW a \in Bytes, NEW b \in Bytes, \A w \in Flips : Bit(a, w) = Bit(b, w)
  PROVE  a = b
BY BitsMakeByte DEF Flips

\* Xor makes a number of the sums of the bits.
LEMMA XorIsByte ==
  ASSUME NEW a \in Bytes, NEW b \in Bytes
  PROVE  Xor(a, b) = OfBits([w \in Flips |-> Plus(Bit(a, w), Bit(b, w))])
<1> DEFINE c == [w \in Flips |-> Plus(Bit(a, w), Bit(b, w))]
<1>1. \A w \in Flips : c[w] = (Bit(a, w) + Bit(b, w)) % 2
  BY DEF Plus
<1>2. \A w \in Flips : (a \div w + b \div w) % 2 = c[w]
  <2>1. (a \div 1 + b \div 1) % 2 = c[1] /\ (a \div 2 + b \div 2) % 2 = c[2]
    BY <1>1, SMT DEF Bit, Bytes, Flips
  <2>2. (a \div 4 + b \div 4) % 2 = c[4] /\ (a \div 8 + b \div 8) % 2 = c[8]
    BY <1>1, SMT DEF Bit, Bytes, Flips
  <2>3. (a \div 16 + b \div 16) % 2 = c[16] /\ (a \div 32 + b \div 32) % 2 = c[32]
    BY <1>1, SMT DEF Bit, Bytes, Flips
  <2>4. (a \div 64 + b \div 64) % 2 = c[64] /\ (a \div 128 + b \div 128) % 2 = c[128]
    BY <1>1, SMT DEF Bit, Bytes, Flips
  <2> HIDE DEF c
  <2> QED BY <2>1, <2>2, <2>3, <2>4 DEF Flips
<1> HIDE DEF c
<1>3. Xor(a, b) = 1 * c[1] + 2 * c[2] + 4 * c[4] + 8 * c[8]
                  + 16 * c[16] + 32 * c[32] + 64 * c[64] + 128 * c[128]
  BY <1>2 DEF Xor, Flips
<1>4. \A w \in Flips : c[w] \in Binary
  BY BitTypes DEF Plus, Binary, c
<1>5. 1 * c[1] = c[1]
  BY <1>4 DEF Flips, Binary
<1>6. Xor(a, b) = OfBits(c)
  BY <1>3, <1>5 DEF OfBits
<1> QED BY <1>6 DEF c

\* Xor adds bit by bit.
LEMMA XorBits ==
  ASSUME NEW a \in Bytes, NEW b \in Bytes
  PROVE  /\ Xor(a, b) \in Bytes
         /\ \A w \in Flips : Bit(Xor(a, b), w) = Plus(Bit(a, w), Bit(b, w))
<1> DEFINE c == [w \in Flips |-> Plus(Bit(a, w), Bit(b, w))]
<1>1. c \in [Flips -> Binary]
  BY BitTypes DEF Plus, Binary
<1>2. Xor(a, b) = OfBits(c)
  BY XorIsByte
<1>3. \A w \in Flips : c[w] = Plus(Bit(a, w), Bit(b, w))
  OBVIOUS
<1> HIDE DEF c
<1> QED BY <1>1, <1>2, <1>3, BitsOfByte

\* Xor with nothing, and with itself.
LEMMA XorFacts ==
  ASSUME NEW x \in Bytes
  PROVE  Xor(x, 0) = x /\ Xor(0, x) = x /\ Xor(x, x) = 0
BY SMT DEF Xor, Bytes

\* What is added on both sides can be left out.
LEMMA XorCancels ==
  ASSUME NEW a \in Bytes, NEW b \in Bytes, NEW c \in Bytes, Xor(a, b) = Xor(a, c)
  PROVE  b = c
<1>1. \A w \in Flips : Plus(Bit(a, w), Bit(b, w)) = Plus(Bit(a, w), Bit(c, w))
  BY XorBits
<1>2. \A w \in Flips : Bit(b, w) = Bit(c, w)
  BY <1>1, BitTypes DEF Plus, Binary
<1> QED BY <1>2, SameBits

\* The order of what is added does not matter.
LEMMA XorExchange ==
  ASSUME NEW a \in Bytes, NEW b \in Bytes, NEW c \in Bytes, NEW d \in Bytes
  PROVE  Xor(Xor(a, b), Xor(c, d)) = Xor(Xor(a, c), Xor(b, d))
<1>1. Xor(a, b) \in Bytes /\ Xor(c, d) \in Bytes /\ Xor(a, c) \in Bytes /\ Xor(b, d) \in Bytes
  BY XorBits
<1>2. \A p, q, r, s \in Binary : Plus(Plus(p, q), Plus(r, s)) = Plus(Plus(p, r), Plus(q, s))
  BY DEF Plus, Binary
<1>3. \A w \in Flips : Bit(Xor(Xor(a, b), Xor(c, d)), w) = Bit(Xor(Xor(a, c), Xor(b, d)), w)
  BY <1>1, <1>2, XorBits, BitTypes
<1> DEFINE l == Xor(Xor(a, b), Xor(c, d))
           r == Xor(Xor(a, c), Xor(b, d))
<1>4. l \in Bytes /\ r \in Bytes
  BY <1>1, XorBits
<1> HIDE DEF l, r
<1>5. \A w \in Flips : Bit(l, w) = Bit(r, w)
  BY <1>3 DEF l, r
<1>6. l = r
  BY <1>4, <1>5, SameBits
<1> QED BY <1>6 DEF l, r

\* Where the bits go when a byte is divided by the polynomial 7.
BitsMove(x) ==
    /\ Bit(Divided(x), 1) = Bit(x, 128)
    /\ Bit(Divided(x), 2) = Plus(Bit(x, 1), Bit(x, 128))
    /\ Bit(Divided(x), 4) = Plus(Bit(x, 2), Bit(x, 128))
    /\ Bit(Divided(x), 8) = Bit(x, 4)
    /\ Bit(Divided(x), 16) = Bit(x, 8)
    /\ Bit(Divided(x), 32) = Bit(x, 16)
    /\ Bit(Divided(x), 64) = Bit(x, 32)
    /\ Bit(Divided(x), 128) = Bit(x, 64)

\* Shifting to the left moves every bit.
LEMMA Doubled ==
  ASSUME NEW x \in Bytes, NEW y, y = (2 * x) % 256
  PROVE  /\ y \in Bytes /\ Bit(y, 1) = 0
         /\ Bit(y, 2) = Bit(x, 1) /\ Bit(y, 4) = Bit(x, 2)
         /\ Bit(y, 8) = Bit(x, 4) /\ Bit(y, 16) = Bit(x, 8)
         /\ Bit(y, 32) = Bit(x, 16) /\ Bit(y, 64) = Bit(x, 32) /\ Bit(y, 128) = Bit(x, 64)
BY SMT DEF Bit, Bytes

\* One step of the division moves and flips bits.
LEMMA DividedShifts ==
  ASSUME NEW x \in Bytes
  PROVE  Divided(x) \in Bytes /\ BitsMove(x)
<1> DEFINE y == (2 * x) % 256
<1>1. /\ y \in Bytes /\ Bit(y, 1) = 0
      /\ Bit(y, 2) = Bit(x, 1) /\ Bit(y, 4) = Bit(x, 2)
      /\ Bit(y, 8) = Bit(x, 4) /\ Bit(y, 16) = Bit(x, 8)
      /\ Bit(y, 32) = Bit(x, 16) /\ Bit(y, 64) = Bit(x, 32) /\ Bit(y, 128) = Bit(x, 64)
  BY Doubled
<1>2. \A w \in Flips : Bit(x, w) \in Binary
  BY BitTypes
<1>3. \A b \in Binary : Plus(b, 0) = b /\ Plus(0, b) = b
  BY DEF Plus, Binary
<1>4. CASE x < 128
  <2>1. Divided(x) = y
    BY <1>4, SMT DEF Divided, Bytes
  <2>2. Bit(x, 128) = 0
    BY <1>4, SMT DEF Bit, Bytes
  <2> HIDE DEF y
  <2> QED BY <1>1, <1>2, <1>3, <2>1, <2>2 DEF BitsMove, Flips
<1>5. CASE x >= 128
  <2>1. Divided(x) = Xor(y, 7)
    BY <1>5 DEF Divided
  <2>2. Bit(x, 128) = 1
    BY <1>5, SMT DEF Bit, Bytes
  <2>3. 7 \in Bytes /\ Bit(7, 1) = 1 /\ Bit(7, 2) = 1 /\ Bit(7, 4) = 1
    BY SMT DEF Bit, Bytes
  <2>4. Bit(7, 8) = 0 /\ Bit(7, 16) = 0 /\ Bit(7, 32) = 0 /\ Bit(7, 64) = 0 /\ Bit(7, 128) = 0
    BY SMT DEF Bit
  <2> HIDE DEF y
  <2>5. Divided(x) \in Bytes /\ \A w \in Flips : Bit(Divided(x), w) = Plus(Bit(y, w), Bit(7, w))
    BY <1>1, <2>1, <2>3, XorBits
  <2>6. /\ Bit(Divided(x), 1) = 1
        /\ Bit(Divided(x), 2) = Plus(Bit(x, 1), 1) /\ Bit(Divided(x), 4) = Plus(Bit(x, 2), 1)
    BY <1>1, <2>3, <2>5 DEF Flips, Plus
  <2>7. /\ Bit(Divided(x), 8) = Bit(x, 4) /\ Bit(Divided(x), 16) = Bit(x, 8)
        /\ Bit(Divided(x), 32) = Bit(x, 16) /\ Bit(Divided(x), 64) = Bit(x, 32)
        /\ Bit(Divided(x), 128) = Bit(x, 64)
    BY <1>1, <1>2, <1>3, <2>4, <2>5 DEF Flips
  <2> QED BY <2>2, <2>5, <2>6, <2>7 DEF BitsMove
<1> QED BY <1>4, <1>5 DEF Bytes

\* A step of the division adds up.
LEMMA DividedLinear ==
  ASSUME NEW a \in Bytes, NEW b \in Bytes
  PROVE  Divided(Xor(a, b)) = Xor(Divided(a), Divided(b))
<1>1. Xor(a, b) \in Bytes /\ Divided(a) \in Bytes /\ Divided(b) \in Bytes
  BY XorBits, DividedShifts
<1> DEFINE l == Divided(Xor(a, b))
           r == Xor(Divided(a), Divided(b))
<1>2. l \in Bytes /\ r \in Bytes
  BY <1>1, XorBits, DividedShifts
<1>3. \A p, q, s, t \in Binary : Plus(Plus(p, q), Plus(s, t)) = Plus(Plus(p, s), Plus(q, t))
  BY DEF Plus, Binary
<1>4. \A w \in Flips : Bit(a, w) \in Binary /\ Bit(b, w) \in Binary
  BY BitTypes
<1>5. \A w \in Flips :
         /\ Bit(Xor(a, b), w) = Plus(Bit(a, w), Bit(b, w))
         /\ Bit(r, w) = Plus(Bit(Divided(a), w), Bit(Divided(b), w))
  BY <1>1, XorBits
<1>7. BitsMove(a) /\ BitsMove(b) /\ BitsMove(Xor(a, b))
  BY <1>1, DividedShifts
<1> HIDE DEF r
<1>8. Bit(l, 1) = Bit(r, 1) /\ Bit(l, 2) = Bit(r, 2) /\ Bit(l, 4) = Bit(r, 4)
  BY <1>3, <1>4, <1>5, <1>7 DEF BitsMove, Flips
<1>9. /\ Bit(l, 8) = Bit(r, 8) /\ Bit(l, 16) = Bit(r, 16) /\ Bit(l, 32) = Bit(r, 32)
      /\ Bit(l, 64) = Bit(r, 64) /\ Bit(l, 128) = Bit(r, 128)
  BY <1>5, <1>7 DEF BitsMove, Flips
<1> HIDE DEF l
<1>10. \A w \in Flips : Bit(l, w) = Bit(r, w)
  BY <1>8, <1>9 DEF Flips
<1>11. l = r
  BY <1>2, <1>10, SameBits
<1> QED BY <1>11 DEF l, r

\* A step of the division loses nothing.
LEMMA DividedInjective ==
  ASSUME NEW a \in Bytes, NEW b \in Bytes, Divided(a) = Divided(b)
  PROVE  a = b
<1>1. BitsMove(a) /\ BitsMove(b)
  BY DividedShifts
<1>2. /\ Bit(a, 128) = Bit(b, 128) /\ Bit(a, 4) = Bit(b, 4) /\ Bit(a, 8) = Bit(b, 8)
      /\ Bit(a, 16) = Bit(b, 16) /\ Bit(a, 32) = Bit(b, 32) /\ Bit(a, 64) = Bit(b, 64)
      /\ Plus(Bit(a, 1), Bit(a, 128)) = Plus(Bit(b, 1), Bit(b, 128))
      /\ Plus(Bit(a, 2), Bit(a, 128)) = Plus(Bit(b, 2), Bit(b, 128))
  BY <1>1 DEF BitsMove
<1>3. \A p, q, r \in Binary : Plus(p, r) = Plus(q, r) => p = q
  BY DEF Plus, Binary
<1>4. \A w \in Flips : Bit(a, w) \in Binary /\ Bit(b, w) \in Binary
  BY BitTypes
<1>5. Bit(a, 1) = Bit(b, 1) /\ Bit(a, 2) = Bit(b, 2)
  BY <1>2, <1>3, <1>4 DEF Flips
<1>6. \A w \in Flips : Bit(a, w) = Bit(b, w)
  BY <1>2, <1>5 DEF Flips
<1> QED BY <1>6, SameBits

-----------------------------------------------------------------------------
(* The table of the CRC.                                                   *)

\* Eight bits at once.
Eighth(x) ==
    LET twice(crc) == Divided(Divided(crc)) IN twice(twice(twice(twice(x))))

\* What the table holds.
LEMMA TableIs == ASSUME NEW x \in Bytes PROVE CrcTable[x] = Eighth(x)
BY DEF CrcTable, Eighth

\* The table holds bytes.
LEMMA TableType == ASSUME NEW x \in Bytes PROVE CrcTable[x] \in Bytes
<1>1. \A y \in Bytes : Divided(y) \in Bytes
  BY DividedShifts
<1> QED BY <1>1, TableIs DEF Eighth

\* The table adds up.
LEMMA TableLinear ==
  ASSUME NEW a \in Bytes, NEW b \in Bytes
  PROVE  CrcTable[Xor(a, b)] = Xor(CrcTable[a], CrcTable[b])
<1> DEFINE Twice(x) == Divided(Divided(x))
<1>1. \A x \in Bytes : Twice(x) \in Bytes
  BY DividedShifts
<1>2. \A x, y \in Bytes : Twice(Xor(x, y)) = Xor(Twice(x), Twice(y))
  BY DividedShifts, DividedLinear
<1> HIDE DEF Twice
<1>3. \A x \in Bytes : Twice(Twice(x)) \in Bytes
  BY <1>1
<1>4. \A x, y \in Bytes : Twice(Twice(Xor(x, y))) = Xor(Twice(Twice(x)), Twice(Twice(y)))
  BY <1>1, <1>2
<1>5. \A x, y \in Bytes :
         Twice(Twice(Twice(Twice(Xor(x, y))))) =
            Xor(Twice(Twice(Twice(Twice(x)))), Twice(Twice(Twice(Twice(y)))))
  BY <1>3, <1>4
<1>6. \A x \in Bytes : CrcTable[x] = Twice(Twice(Twice(Twice(x))))
  BY TableIs DEF Eighth, Twice
<1>7. Xor(a, b) \in Bytes
  BY XorBits
<1> QED BY <1>5, <1>6, <1>7

\* No two entries of the table are the same.
LEMMA TableInjective ==
  ASSUME NEW a \in Bytes, NEW b \in Bytes, CrcTable[a] = CrcTable[b]
  PROVE  a = b
<1> DEFINE Twice(x) == Divided(Divided(x))
<1>1. \A x \in Bytes : Twice(x) \in Bytes
  BY DividedShifts
<1>2. \A x, y \in Bytes : Twice(x) = Twice(y) => x = y
  BY DividedShifts, DividedInjective
<1> HIDE DEF Twice
<1>3. \A x \in Bytes : CrcTable[x] = Twice(Twice(Twice(Twice(x))))
  BY TableIs DEF Eighth, Twice
<1> QED BY <1>1, <1>2, <1>3

\* Xor with the polynomial, in numbers.
LEMMA XorSeven ==
  ASSUME NEW y \in Bytes
  PROVE  Xor(y, 7) = (8 * (y \div 8) + 7) - (y % 8)
BY SMTT(30) DEF Xor, Bytes

\* The division of one bit, in numbers.
Halfway(x) == (8 * ((2 * x - 256) \div 8) + 7) - ((2 * x - 256) % 8)

\* A step of the division, in numbers.
LEMMA DividedValue ==
  ASSUME NEW x \in Bytes
  PROVE  Divided(x) = IF x < 128 THEN 2 * x ELSE Halfway(x)
<1>1. CASE x < 128
  BY <1>1, SMT DEF Divided, Bytes
<1>2. CASE x >= 128
  <2>1. (2 * x) % 256 = 2 * x - 256 /\ 2 * x - 256 \in Bytes
    BY <1>2, SMT DEF Bytes
  <2>2. Divided(x) = Xor(2 * x - 256, 7)
    BY <1>2, <2>1 DEF Divided
  <2>3. Divided(x) = Halfway(x)
    BY <2>1, <2>2, XorSeven DEF Halfway
  <2> QED BY <1>2, <2>3, SMT DEF Bytes
<1> QED BY <1>1, <1>2, SMT DEF Bytes

\* A single bit divided once and again, 55 times.
LEMMA Powers1 ==
  /\ Divided(1) = 2 /\ Divided(2) = 4 /\ Divided(4) = 8 /\ Divided(8) = 16
  /\ Divided(16) = 32 /\ Divided(32) = 64 /\ Divided(64) = 128 /\ Divided(128) = 7
<1>1. /\ Divided(1) = 2 * 1 /\ Divided(2) = 2 * 2 /\ Divided(4) = 2 * 4 /\ Divided(8) = 2 * 8
      /\ Divided(16) = 2 * 16 /\ Divided(32) = 2 * 32 /\ Divided(64) = 2 * 64
      /\ Divided(128) = Halfway(128)
  BY DividedValue, SMT DEF Bytes
<1>2. /\ Halfway(128) = 7
  BY SMT DEF Halfway
<1> QED BY <1>1, <1>2

\* Eight bits on.
LEMMA Powers2 ==
  /\ Divided(7) = 14 /\ Divided(14) = 28 /\ Divided(28) = 56 /\ Divided(56) = 112
  /\ Divided(112) = 224 /\ Divided(224) = 199 /\ Divided(199) = 137 /\ Divided(137) = 21
<1>1. /\ Divided(7) = 2 * 7 /\ Divided(14) = 2 * 14 /\ Divided(28) = 2 * 28
      /\ Divided(56) = 2 * 56 /\ Divided(112) = 2 * 112 /\ Divided(224) = Halfway(224)
      /\ Divided(199) = Halfway(199) /\ Divided(137) = Halfway(137)
  BY DividedValue, SMT DEF Bytes
<1>2. /\ Halfway(224) = 199 /\ Halfway(199) = 137 /\ Halfway(137) = 21
  BY SMT DEF Halfway
<1> QED BY <1>1, <1>2

\* And so on, eight bits at a time.
LEMMA Powers3 ==
  /\ Divided(21) = 42 /\ Divided(42) = 84 /\ Divided(84) = 168 /\ Divided(168) = 87
  /\ Divided(87) = 174 /\ Divided(174) = 91 /\ Divided(91) = 182 /\ Divided(182) = 107
<1>1. /\ Divided(21) = 2 * 21 /\ Divided(42) = 2 * 42 /\ Divided(84) = 2 * 84
      /\ Divided(168) = Halfway(168) /\ Divided(87) = 2 * 87 /\ Divided(174) = Halfway(174)
      /\ Divided(91) = 2 * 91 /\ Divided(182) = Halfway(182)
  BY DividedValue, SMT DEF Bytes
<1>2. /\ Halfway(168) = 87 /\ Halfway(174) = 91 /\ Halfway(182) = 107
  BY SMT DEF Halfway
<1> QED BY <1>1, <1>2

\* And so on, eight bits at a time.
LEMMA Powers4 ==
  /\ Divided(107) = 214 /\ Divided(214) = 171 /\ Divided(171) = 81 /\ Divided(81) = 162
  /\ Divided(162) = 67 /\ Divided(67) = 134 /\ Divided(134) = 11 /\ Divided(11) = 22
<1>1. /\ Divided(107) = 2 * 107 /\ Divided(214) = Halfway(214) /\ Divided(171) = Halfway(171)
      /\ Divided(81) = 2 * 81 /\ Divided(162) = Halfway(162) /\ Divided(67) = 2 * 67
      /\ Divided(134) = Halfway(134) /\ Divided(11) = 2 * 11
  BY DividedValue, SMT DEF Bytes
<1>2. /\ Halfway(214) = 171 /\ Halfway(171) = 81 /\ Halfway(162) = 67 /\ Halfway(134) = 11
  BY SMT DEF Halfway
<1> QED BY <1>1, <1>2

\* And so on, eight bits at a time.
LEMMA Powers5 ==
  /\ Divided(22) = 44 /\ Divided(44) = 88 /\ Divided(88) = 176 /\ Divided(176) = 103
  /\ Divided(103) = 206 /\ Divided(206) = 155 /\ Divided(155) = 49 /\ Divided(49) = 98
<1>1. /\ Divided(22) = 2 * 22 /\ Divided(44) = 2 * 44 /\ Divided(88) = 2 * 88
      /\ Divided(176) = Halfway(176) /\ Divided(103) = 2 * 103 /\ Divided(206) = Halfway(206)
      /\ Divided(155) = Halfway(155) /\ Divided(49) = 2 * 49
  BY DividedValue, SMT DEF Bytes
<1>2. /\ Halfway(176) = 103 /\ Halfway(206) = 155 /\ Halfway(155) = 49
  BY SMT DEF Halfway
<1> QED BY <1>1, <1>2

\* And so on, eight bits at a time.
LEMMA Powers6 ==
  /\ Divided(98) = 196 /\ Divided(196) = 143 /\ Divided(143) = 25 /\ Divided(25) = 50
  /\ Divided(50) = 100 /\ Divided(100) = 200 /\ Divided(200) = 151 /\ Divided(151) = 41
<1>1. /\ Divided(98) = 2 * 98 /\ Divided(196) = Halfway(196) /\ Divided(143) = Halfway(143)
      /\ Divided(25) = 2 * 25 /\ Divided(50) = 2 * 50 /\ Divided(100) = 2 * 100
      /\ Divided(200) = Halfway(200) /\ Divided(151) = Halfway(151)
  BY DividedValue, SMT DEF Bytes
<1>2. /\ Halfway(196) = 143 /\ Halfway(143) = 25 /\ Halfway(200) = 151 /\ Halfway(151) = 41
  BY SMT DEF Halfway
<1> QED BY <1>1, <1>2

\* And so on, eight bits at a time.
LEMMA Powers7 ==
  /\ Divided(41) = 82 /\ Divided(82) = 164 /\ Divided(164) = 79 /\ Divided(79) = 158
  /\ Divided(158) = 59 /\ Divided(59) = 118 /\ Divided(118) = 236
<1>1. /\ Divided(41) = 2 * 41 /\ Divided(82) = 2 * 82 /\ Divided(164) = Halfway(164)
      /\ Divided(79) = 2 * 79 /\ Divided(158) = Halfway(158) /\ Divided(59) = 2 * 59
      /\ Divided(118) = 2 * 118
  BY DividedValue, SMT DEF Bytes
<1>2. /\ Halfway(164) = 79 /\ Halfway(158) = 59
  BY SMT DEF Halfway
<1> QED BY <1>1, <1>2

\* The entries of the table for what a single bit becomes, byte after byte.
LEMMA Wrong1 ==
  /\ CrcTable[1] = 7 /\ CrcTable[2] = 14 /\ CrcTable[4] = 28 /\ CrcTable[8] = 56
  /\ CrcTable[16] = 112 /\ CrcTable[32] = 224 /\ CrcTable[64] = 199 /\ CrcTable[128] = 137
BY Powers1, Powers2, TableIs, SMT DEF Eighth, Bytes

\* Two bytes on.
LEMMA Wrong2 ==
  /\ CrcTable[7] = 21 /\ CrcTable[14] = 42 /\ CrcTable[28] = 84 /\ CrcTable[56] = 168
  /\ CrcTable[112] = 87 /\ CrcTable[224] = 174 /\ CrcTable[199] = 91
  /\ CrcTable[137] = 182
BY Powers2, Powers3, TableIs, SMT DEF Eighth, Bytes

\* Three bytes on.
LEMMA Wrong3 ==
  /\ CrcTable[21] = 107 /\ CrcTable[42] = 214 /\ CrcTable[84] = 171 /\ CrcTable[168] = 81
  /\ CrcTable[87] = 162 /\ CrcTable[174] = 67 /\ CrcTable[91] = 134 /\ CrcTable[182] = 11
BY Powers3, Powers4, TableIs, SMT DEF Eighth, Bytes

\* Four bytes on.
LEMMA Wrong4 ==
  /\ CrcTable[107] = 22 /\ CrcTable[214] = 44 /\ CrcTable[171] = 88 /\ CrcTable[81] = 176
  /\ CrcTable[162] = 103 /\ CrcTable[67] = 206 /\ CrcTable[134] = 155 /\ CrcTable[11] = 49
BY Powers4, Powers5, TableIs, SMT DEF Eighth, Bytes

\* Five bytes on.
LEMMA Wrong5 ==
  /\ CrcTable[22] = 98 /\ CrcTable[44] = 196 /\ CrcTable[88] = 143 /\ CrcTable[176] = 25
  /\ CrcTable[103] = 50 /\ CrcTable[206] = 100 /\ CrcTable[155] = 200
  /\ CrcTable[49] = 151
BY Powers5, Powers6, TableIs, SMT DEF Eighth, Bytes

\* Six bytes on.
LEMMA Wrong6 ==
  /\ CrcTable[98] = 41 /\ CrcTable[196] = 82 /\ CrcTable[143] = 164 /\ CrcTable[25] = 79
  /\ CrcTable[50] = 158 /\ CrcTable[100] = 59 /\ CrcTable[200] = 118
  /\ CrcTable[151] = 236
BY Powers6, Powers7, TableIs, SMT DEF Eighth, Bytes

-----------------------------------------------------------------------------
(* The traces of wrong bits and of bursts.                                 *)

\* What a wrong bit has become when as many bytes have followed.
Traces == <<{7, 14, 28, 56, 112, 224, 199, 137},
            {21, 42, 84, 168, 87, 174, 91, 182},
            {107, 214, 171, 81, 162, 67, 134, 11},
            {22, 44, 88, 176, 103, 206, 155, 49},
            {98, 196, 143, 25, 50, 100, 200, 151},
            {41, 82, 164, 79, 158, 59, 118, 236}>>

\* A byte that follows moves a trace on, and no trace is a single bit.
LEMMA TracesHold ==
  /\ \A bit \in Flips : CrcTable[bit] \in Traces[1]
  /\ \A d \in 1..5 : \A x \in Traces[d] : CrcTable[x] \in Traces[d + 1]
  /\ \A d \in 1..6 : Traces[d] \subseteq Bytes \ Flips
<1>1. \A bit \in Flips : CrcTable[bit] \in Traces[1]
  BY Wrong1 DEF Flips, Traces
<1>2. \A x \in Traces[1] : CrcTable[x] \in Traces[2]
  BY Wrong2 DEF Traces
<1>3. \A x \in Traces[2] : CrcTable[x] \in Traces[3]
  BY Wrong3 DEF Traces
<1>4. \A x \in Traces[3] : CrcTable[x] \in Traces[4]
  BY Wrong4 DEF Traces
<1>5. \A x \in Traces[4] : CrcTable[x] \in Traces[5]
  BY Wrong5 DEF Traces
<1>9. \A x \in Traces[5] : CrcTable[x] \in Traces[6]
  BY Wrong6 DEF Traces
<1>6. ASSUME NEW d \in 1..5, NEW x \in Traces[d] PROVE CrcTable[x] \in Traces[d + 1]
  <2>1. d = 1 \/ d = 2 \/ d = 3 \/ d = 4 \/ d = 5
    OBVIOUS
  <2>2. CASE d = 1
    BY <1>2, <2>2
  <2>3. CASE d = 2
    BY <1>3, <2>3
  <2>4. CASE d = 3
    BY <1>4, <2>4
  <2>5. CASE d = 4
    BY <1>5, <2>5
  <2>6. CASE d = 5
    BY <1>9, <2>6
  <2> QED BY <2>1, <2>2, <2>3, <2>4, <2>5, <2>6
<1>7. /\ Traces[1] \subseteq Bytes \ Flips /\ Traces[2] \subseteq Bytes \ Flips
      /\ Traces[3] \subseteq Bytes \ Flips /\ Traces[4] \subseteq Bytes \ Flips
      /\ Traces[5] \subseteq Bytes \ Flips /\ Traces[6] \subseteq Bytes \ Flips
  BY DEF Traces, Bytes, Flips
<1>8. ASSUME NEW d \in 1..6 PROVE Traces[d] \subseteq Bytes \ Flips
  <2>1. d = 1 \/ d = 2 \/ d = 3 \/ d = 4 \/ d = 5 \/ d = 6
    OBVIOUS
  <2> QED BY <1>7, <2>1
<1> QED BY <1>1, <1>6, <1>8

\* Only nothing leaves nothing behind.
LEMMA TableZero == CrcTable[0] = 0 /\ \A x \in Bytes : CrcTable[x] = 0 => x = 0
<1>1. 0 \in Bytes
  BY DEF Bytes
<1>2. Divided(0) = 0
  BY DividedValue, SMT DEF Bytes
<1>3. CrcTable[0] = 0
  BY <1>1, <1>2, TableIs DEF Eighth
<1> QED BY <1>1, <1>3, TableInjective

\* A step of the division doubles a number or makes it odd.
DoublesOrOdd(x, y) == x \in Bytes /\ y \in Bytes /\ IF x < 128 THEN y = 2 * x ELSE y % 2 = 1

\* Every step of the division does one or the other.
LEMMA DividedParity == ASSUME NEW x \in Bytes PROVE DoublesOrOdd(x, Divided(x))
<1>1. Divided(x) \in Bytes
  BY DividedShifts
<1>2. CASE x < 128
  BY <1>1, <1>2, DividedValue DEF DoublesOrOdd
<1>3. CASE x >= 128
  <2>1. Divided(x) = Halfway(x) /\ Halfway(x) % 2 = 1
    BY <1>3, DividedValue, SMT DEF Halfway, Bytes
  <2> QED BY <1>1, <1>3, <2>1, SMT DEF DoublesOrOdd, Bytes
<1> QED BY <1>2, <1>3, SMT DEF Bytes

\* What is even has been doubled, and what divides it divides its half.
LEMMA EvenIsDoubled ==
  ASSUME NEW x, NEW y, DoublesOrOdd(x, y), y % 2 = 0
  PROVE  /\ y = 2 * x
         /\ y % 4 = 0 => x % 2 = 0
         /\ y % 8 = 0 => x % 4 = 0 /\ x % 2 = 0
         /\ y % 16 = 0 => x % 8 = 0 /\ x % 2 = 0
         /\ y % 32 = 0 => x % 16 = 0 /\ x % 2 = 0
         /\ y % 64 = 0 => x % 32 = 0 /\ x % 2 = 0
BY SMT DEF DoublesOrOdd, Bytes

\* A burst of eight bits, the last of a byte and the first of the next, leaves a trace.
LEMMA BurstShows ==
  ASSUME NEW x \in Bytes, NEW y \in Bytes, NEW w \in Flips, x < w, y % w = 0,
         CrcTable[x] = y
  PROVE  x = 0 /\ y = 0
<1> DEFINE x1 == Divided(x)   x2 == Divided(x1)  x3 == Divided(x2)  x4 == Divided(x3)
           x5 == Divided(x4)  x6 == Divided(x5)  x7 == Divided(x6)
<1>1. /\ DoublesOrOdd(x, x1) /\ DoublesOrOdd(x1, x2) /\ DoublesOrOdd(x2, x3)
      /\ DoublesOrOdd(x3, x4) /\ DoublesOrOdd(x4, x5) /\ DoublesOrOdd(x5, x6)
      /\ DoublesOrOdd(x6, x7) /\ DoublesOrOdd(x7, y)
  <2>1. y = Divided(x7)
    BY TableIs DEF Eighth
  <2>2. x1 \in Bytes /\ x2 \in Bytes /\ x3 \in Bytes /\ x4 \in Bytes
    BY DividedShifts
  <2>3. x5 \in Bytes /\ x6 \in Bytes /\ x7 \in Bytes
    BY <2>2, DividedShifts
  <2>4. /\ DoublesOrOdd(x, x1) /\ DoublesOrOdd(x1, x2) /\ DoublesOrOdd(x2, x3)
        /\ DoublesOrOdd(x3, x4)
    BY <2>2, DividedParity
  <2>5. /\ DoublesOrOdd(x4, x5) /\ DoublesOrOdd(x5, x6) /\ DoublesOrOdd(x6, x7)
        /\ DoublesOrOdd(x7, y)
    BY <2>1, <2>2, <2>3, DividedParity
  <2> QED BY <2>4, <2>5
<1> HIDE DEF x1, x2, x3, x4, x5, x6, x7
<1>2. x = 0
  <2>1. CASE w = 1
    BY <1>1, <2>1, SMTT(30) DEF DoublesOrOdd, Bytes
  <2>2. CASE w = 2
    BY <1>1, <2>2, SMTT(30) DEF DoublesOrOdd, Bytes
  <2>3. CASE w = 4
    BY <1>1, <2>3, SMTT(30) DEF DoublesOrOdd, Bytes
  <2>4. CASE w = 8
    BY <1>1, <2>4, SMTT(30) DEF DoublesOrOdd, Bytes
  <2>5. CASE w = 16
    BY <1>1, <2>5, SMTT(30) DEF DoublesOrOdd, Bytes
  <2>6. CASE w = 32
    <3>1. y % 32 = 0 /\ y % 2 = 0
      BY <2>6, SMT DEF Bytes
    <3>2. y = 2 * x7 /\ x7 % 16 = 0 /\ x7 % 2 = 0
      BY <1>1, <3>1, EvenIsDoubled
    <3>3. x7 = 2 * x6 /\ x6 % 8 = 0 /\ x6 % 2 = 0
      BY <1>1, <3>2, EvenIsDoubled
    <3>4. x6 = 2 * x5 /\ x5 % 4 = 0 /\ x5 % 2 = 0
      BY <1>1, <3>3, EvenIsDoubled
    <3>5. x5 = 2 * x4 /\ x4 % 2 = 0
      BY <1>1, <3>4, EvenIsDoubled
    <3>6. x4 = 2 * x3
      BY <1>1, <3>5, EvenIsDoubled
    <3>7. x3 = 8 * x
      BY <1>1, <2>6, SMT DEF DoublesOrOdd, Bytes
    <3> QED BY <3>2, <3>3, <3>4, <3>5, <3>6, <3>7, SMT DEF Bytes
  <2>7. CASE w = 64
    <3>1. y % 64 = 0 /\ y % 2 = 0
      BY <2>7, SMT DEF Bytes
    <3>2. y = 2 * x7 /\ x7 % 32 = 0 /\ x7 % 2 = 0
      BY <1>1, <3>1, EvenIsDoubled
    <3>3. x7 = 2 * x6 /\ x6 % 16 = 0 /\ x6 % 2 = 0
      BY <1>1, <3>2, EvenIsDoubled
    <3>4. x6 = 2 * x5 /\ x5 % 8 = 0 /\ x5 % 2 = 0
      BY <1>1, <3>3, EvenIsDoubled
    <3>5. x5 = 2 * x4 /\ x4 % 4 = 0 /\ x4 % 2 = 0
      BY <1>1, <3>4, EvenIsDoubled
    <3>6. x4 = 2 * x3 /\ x3 % 2 = 0
      BY <1>1, <3>5, EvenIsDoubled
    <3>7. x3 = 2 * x2
      BY <1>1, <3>6, EvenIsDoubled
    <3>8. x2 = 4 * x
      BY <1>1, <2>7, SMT DEF DoublesOrOdd, Bytes
    <3> QED BY <3>2, <3>3, <3>4, <3>5, <3>6, <3>7, <3>8, SMT DEF Bytes
  <2>8. CASE w = 128
    <3>1. y = 0 \/ y = 128
      BY <2>8, SMT DEF Bytes
    <3>2. CASE y = 0
      BY <1>1, <3>2, SMT DEF DoublesOrOdd, Bytes
    <3>3. CASE y = 128
      <4>1. x7 = 64 /\ x6 = 32 /\ x5 = 16 /\ x4 = 8
        BY <1>1, <3>3, SMT DEF DoublesOrOdd, Bytes
      <4> QED BY <1>1, <2>8, <4>1, SMT DEF DoublesOrOdd, Bytes
    <3> QED BY <3>1, <3>2, <3>3
  <2> QED BY <2>1, <2>2, <2>3, <2>4, <2>5, <2>6, <2>7, <2>8 DEF Flips
<1> QED BY <1>2, TableZero

-----------------------------------------------------------------------------
(* What the wrong bytes of a frame leave behind.                           *)

\* What the bytes e from the second to the eighth leave behind: r[k] before byte k.
Leaves(e, r) ==
    /\ e \in [2..8 -> Bytes] /\ r \in [2..8 -> Bytes]
    /\ r[2] = 0
    /\ \A k \in 2..7 : r[k + 1] = CrcTable[Xor(r[k], e[k])]

\* Before the first wrong byte nothing is left behind.
LEMMA NothingYet ==
  ASSUME NEW e, NEW r, Leaves(e, r), NEW a \in 2..8, \A k \in 2..8 : k < a => e[k] = 0
  PROVE  r[a] = 0
<1>1. ASSUME NEW k \in 2..7, r[k] = 0, e[k] = 0 PROVE r[k + 1] = 0
  <2>1. Xor(0, 0) = 0
    BY XorFacts DEF Bytes
  <2> QED BY <1>1, <2>1, TableZero DEF Leaves
<1>2. r[2] = 0
  BY DEF Leaves
<1>3. a > 2 => r[3] = 0
  BY <1>1, <1>2
<1>4. a > 3 => r[4] = 0
  BY <1>1, <1>3
<1>5. a > 4 => r[5] = 0
  BY <1>1, <1>4
<1>6. a > 5 => r[6] = 0
  BY <1>1, <1>5
<1>7. a > 6 => r[7] = 0
  BY <1>1, <1>6
<1>8. a > 7 => r[8] = 0
  BY <1>1, <1>7
<1> QED BY <1>2, <1>3, <1>4, <1>5, <1>6, <1>7, <1>8

\* After the last wrong byte nothing may be left, or the receiver sees it.
LEMMA NothingMore ==
  ASSUME NEW e, NEW r, Leaves(e, r), r[8] = e[8],
         NEW b \in 2..8, \A k \in 2..8 : k > b => e[k] = 0
  PROVE  r[b] = e[b]
<1>1. ASSUME NEW k \in 2..7, r[k + 1] = 0 PROVE r[k] = e[k]
  <2>1. r[k] \in Bytes /\ e[k] \in Bytes
    BY DEF Leaves
  <2>2. CrcTable[Xor(r[k], e[k])] = 0
    BY <1>1 DEF Leaves
  <2>3. Xor(r[k], e[k]) = 0
    BY <2>1, <2>2, XorBits, TableZero
  <2>4. Xor(r[k], e[k]) = Xor(r[k], r[k])
    BY <2>1, <2>3, XorFacts
  <2> QED BY <2>1, <2>4, XorCancels
<1>2. b < 8 => r[7] = e[7]
  BY <1>1
<1>3. b < 7 => r[6] = e[6]
  BY <1>1, <1>2
<1>4. b < 6 => r[5] = e[5]
  BY <1>1, <1>3
<1>5. b < 5 => r[4] = e[4]
  BY <1>1, <1>4
<1>6. b < 4 => r[3] = e[3]
  BY <1>1, <1>5
<1>7. b < 3 => r[2] = e[2]
  BY <1>1, <1>6
<1> QED BY <1>2, <1>3, <1>4, <1>5, <1>6, <1>7

\* One wrong byte.
LEMMA ByteShows ==
  ASSUME NEW e, NEW r, Leaves(e, r), r[8] = e[8],
         NEW a \in 2..8, \A k \in 2..8 : k # a => e[k] = 0
  PROVE  e[a] = 0
BY NothingYet, NothingMore

\* Two wrong bytes: what the first leaves behind is the second.
LEMMA SecondCancels ==
  ASSUME NEW e, NEW r, Leaves(e, r), r[8] = e[8],
         NEW a \in 2..8, NEW b \in 2..8, a < b, \A k \in 2..8 : k \notin {a, b} => e[k] = 0
  PROVE  r[a] = 0 /\ r[a + 1] = CrcTable[e[a]] /\ r[b] = e[b]
<1>1. r[a] = 0
  BY NothingYet
<1>2. r[b] = e[b]
  BY NothingMore
<1>3. e[a] \in Bytes /\ a \in 2..7
  BY DEF Leaves
<1>4. r[a + 1] = CrcTable[Xor(r[a], e[a])]
  BY <1>3 DEF Leaves
<1> QED BY <1>1, <1>2, <1>3, <1>4, XorFacts

\* Two wrong bits.
LEMMA BitsShow ==
  ASSUME NEW e, NEW r, Leaves(e, r), r[8] = e[8],
         NEW a \in 2..8, NEW b \in 2..8, a < b, \A k \in 2..8 : k \notin {a, b} => e[k] = 0,
         e[a] \in Flips, e[b] \in Flips
  PROVE  FALSE
<1>1. r[a + 1] = CrcTable[e[a]] /\ r[b] = e[b]
  BY SecondCancels
<1>2. r[a + 1] \in Traces[1]
  BY <1>1, TracesHold
<1>3. ASSUME NEW d \in 1..5, a + d < b, r[a + d] \in Traces[d]
      PROVE  r[a + (d + 1)] \in Traces[d + 1]
  <2>1. a + d \in 2..7 /\ e[a + d] = 0
    BY <1>3
  <2>2. r[(a + d) + 1] = CrcTable[Xor(r[a + d], 0)] /\ r[a + d] \in Bytes
    BY <2>1 DEF Leaves
  <2>3. r[(a + d) + 1] = CrcTable[r[a + d]]
    BY <2>2, XorFacts
  <2>4. CrcTable[r[a + d]] \in Traces[d + 1]
    BY <1>3, TracesHold
  <2>5. (a + d) + 1 = a + (d + 1)
    OBVIOUS
  <2> QED BY <2>3, <2>4, <2>5
<1>4. a + 1 < b => r[a + 2] \in Traces[2]
  BY <1>2, <1>3
<1>5. a + 2 < b => r[a + 3] \in Traces[3]
  BY <1>3, <1>4
<1>6. a + 3 < b => r[a + 4] \in Traces[4]
  BY <1>3, <1>5
<1>7. a + 4 < b => r[a + 5] \in Traces[5]
  BY <1>3, <1>6
<1>10. a + 5 < b => r[a + 6] \in Traces[6]
  BY <1>3, <1>7
<1>8. PICK d \in 1..6 : b = a + d
  <2>1. b - a \in 1..6 /\ b = a + (b - a)
    OBVIOUS
  <2> QED BY <2>1
<1>9. r[b] \in Traces[d]
  <2>1. d = 1 \/ d = 2 \/ d = 3 \/ d = 4 \/ d = 5 \/ d = 6
    OBVIOUS
  <2> QED BY <1>2, <1>4, <1>5, <1>6, <1>7, <1>8, <1>10, <2>1
<1> QED BY <1>1, <1>9, TracesHold

\* A burst across two bytes.
LEMMA BurstsShow ==
  ASSUME NEW e, NEW r, Leaves(e, r), r[8] = e[8],
         NEW a \in 2..7, \A k \in 2..8 : k \notin {a, a + 1} => e[k] = 0,
         NEW w \in Flips, e[a] < w, e[a + 1] % w = 0
  PROVE  e[a] = 0 /\ e[a + 1] = 0
<1>1. r[a + 1] = CrcTable[e[a]] /\ r[a + 1] = e[a + 1]
  BY SecondCancels
<1>2. e[a] \in Bytes /\ e[a + 1] \in Bytes
  BY DEF Leaves
<1> QED BY <1>1, <1>2, BurstShows

-----------------------------------------------------------------------------
(* Frames as they are built.                                               *)

\* The CRC is the last of the values that the bytes lead to.
LEMMA CrcIsLast ==
  ASSUME NEW d \in [1..6 -> Bytes], Len(d) = 6
  PROVE  \E c \in [0..6 -> Bytes] :
            /\ c[0] = 0 /\ Crc8(d) = c[6]
            /\ \A i \in 1..6 : c[i] = CrcTable[Xor(c[i - 1], d[i])]
<1> DEFINE CrcSteps(c) == c = [i \in 0..Len(d) |->
                               IF i = 0 THEN 0 ELSE CrcTable[Xor(c[i - 1], d[i])]]
           c1 == CrcTable[Xor(0, d[1])]   c2 == CrcTable[Xor(c1, d[2])]
           c3 == CrcTable[Xor(c2, d[3])]  c4 == CrcTable[Xor(c3, d[4])]
           c5 == CrcTable[Xor(c4, d[5])]  c6 == CrcTable[Xor(c5, d[6])]
           g == [i \in 0..6 |-> IF i = 0 THEN 0 ELSE IF i = 1 THEN c1 ELSE IF i = 2 THEN c2
                                ELSE IF i = 3 THEN c3 ELSE IF i = 4 THEN c4
                                ELSE IF i = 5 THEN c5 ELSE c6]
<1>1. ASSUME NEW c, CrcSteps(c) PROVE /\ c[0] = 0 /\ DOMAIN c = 0..6
                                   /\ \A i \in 1..6 : c[i] = CrcTable[Xor(c[i - 1], d[i])]
  BY <1>1
<1>2. CrcSteps(g)
  <2>1. /\ g[0] = 0 /\ g[1] = c1 /\ g[2] = c2 /\ g[3] = c3 /\ g[4] = c4 /\ g[5] = c5
        /\ g[6] = c6
    OBVIOUS
  <2>2. DOMAIN g = 0..6 /\ g = [i \in 0..6 |-> g[i]]
    OBVIOUS
  <2> HIDE DEF g
  <2>3. /\ g[1] = CrcTable[Xor(g[0], d[1])] /\ g[2] = CrcTable[Xor(g[1], d[2])]
        /\ g[3] = CrcTable[Xor(g[2], d[3])] /\ g[4] = CrcTable[Xor(g[3], d[4])]
        /\ g[5] = CrcTable[Xor(g[4], d[5])] /\ g[6] = CrcTable[Xor(g[5], d[6])]
    BY <2>1
  <2> HIDE DEF c1, c2, c3, c4, c5, c6
  <2>4. ASSUME NEW i \in 0..6 PROVE g[i] = IF i = 0 THEN 0 ELSE CrcTable[Xor(g[i - 1], d[i])]
    <3>1. i = 0 \/ i = 1 \/ i = 2 \/ i = 3 \/ i = 4 \/ i = 5 \/ i = 6
      BY i \in 0..6, SMTT(30)
    <3> QED BY <2>1, <2>3, <3>1, SMTT(30)
  <2> QED BY <2>2, <2>4
<1> DEFINE c == CHOOSE x : CrcSteps(x)
<1>3. CrcSteps(c)
  BY <1>2
<1>4. Crc8(d) = c[Len(d)]
  BY DEF Crc8
<1> HIDE DEF c, g
<1>5. /\ c[0] = 0 /\ DOMAIN c = 0..6 /\ c = [i \in 0..6 |-> c[i]]
      /\ \A i \in 1..6 : c[i] = CrcTable[Xor(c[i - 1], d[i])]
  BY <1>3
<1> HIDE DEF CrcSteps
<1>6. ASSUME NEW i \in 1..6, c[i - 1] \in Bytes PROVE c[i] \in Bytes
  BY <1>5, <1>6, XorBits, TableType
<1>7. c[0] \in Bytes
  BY <1>5 DEF Bytes
<1>8. c[1] \in Bytes /\ c[2] \in Bytes /\ c[3] \in Bytes
  <2>1. c[1] \in Bytes
    BY <1>6, <1>7
  <2>2. c[2] \in Bytes
    BY <1>6, <2>1
  <2> QED BY <1>6, <2>1, <2>2
<1>9. c[4] \in Bytes /\ c[5] \in Bytes /\ c[6] \in Bytes
  <2>1. c[4] \in Bytes
    BY <1>6, <1>8
  <2>2. c[5] \in Bytes
    BY <1>6, <2>1
  <2> QED BY <1>6, <2>1, <2>2
<1>10. \A i \in 0..6 : c[i] \in Bytes
  BY <1>7, <1>8, <1>9
<1>11. c \in [0..6 -> Bytes]
  BY <1>5, <1>10
<1> QED BY <1>4, <1>5, <1>11

\* A function on the first n numbers is a sequence.
LEMMA FunctionIsSeq == ASSUME NEW S, NEW n \in Nat, NEW f \in [1..n -> S] PROVE f \in Seq(S)
OBVIOUS

\* The data area of a frame is its second to its seventh byte.
LEMMA DataOf ==
  ASSUME NEW p, p \in [1..10 -> Bytes]
  PROVE  /\ Len(p) = 10
         /\ DataArea(p) \in [1..6 -> Bytes] /\ Len(DataArea(p)) = 6
         /\ \A i \in 1..6 : DataArea(p)[i] = p[i + 1]
<1>1. p \in Seq(Bytes) /\ Len(p) = 10
  <2>1. p \in Seq(Bytes)
    BY FunctionIsSeq
  <2>2. DOMAIN p = 1..10 /\ DOMAIN p = 1..Len(p) /\ Len(p) \in Nat
    BY <2>1, LenProperties
  <2> QED BY <2>1, <2>2
<1>2. \A i \in 2..7 : i \in 1..Len(p)
  BY <1>1
<1> DEFINE d == SubSeq(p, 2, 7)
<1>3. d \in Seq(Bytes) /\ Len(d) = 6 /\ \A i \in 1..6 : d[i] = p[2 + i - 1]
  BY <1>1, <1>2, SubSeqProperties
<1> HIDE DEF d
<1>4. d \in [1..6 -> Bytes]
  BY <1>3, LenProperties
<1>5. \A i \in 1..6 : 2 + i - 1 = i + 1
  OBVIOUS
<1> QED BY <1>1, <1>3, <1>4, <1>5 DEF d, DataArea

\* A frame as it is sent.
LEMMA PacketIsFramed ==
  ASSUME NEW body \in [1..6 -> Bytes], NEW p, p = Framed(body)
  PROVE  /\ p \in [1..10 -> Bytes] /\ Len(p) = 10
         /\ p[1] = STX /\ p[9] = ETX /\ p[10] = EOF
         /\ p[8] = Crc8(DataArea(p))
<1> DEFINE c == Crc8(body)
           b == <<STX>> \o body
<1>1. body \in Seq(Bytes) /\ Len(body) = 6
  <2>1. body \in Seq(Bytes)
    BY FunctionIsSeq
  <2>2. DOMAIN body = 1..6 /\ DOMAIN body = 1..Len(body) /\ Len(body) \in Nat
    BY <2>1, LenProperties
  <2> QED BY <2>1, <2>2
<1>2. c \in Bytes
  BY <1>1, CrcIsLast
<1>3. <<STX>> \in Seq(Bytes) /\ <<c, ETX, EOF>> \in Seq(Bytes)
  BY <1>2 DEF STX, ETX, EOF, Bytes
<1>4. p = b \o <<c, ETX, EOF>>
  BY DEF Framed
<1> HIDE DEF c
<1>5. /\ b \in Seq(Bytes) /\ Len(b) = 7 /\ b[1] = STX
      /\ \A i \in 2..7 : b[i] = body[i - 1]
  <2>1. /\ b \in Seq(Bytes) /\ Len(b) = Len(<<STX>>) + Len(body)
        /\ \A i \in 1..(Len(<<STX>>) + Len(body)) :
              b[i] = IF i <= Len(<<STX>>) THEN <<STX>>[i] ELSE body[i - Len(<<STX>>)]
    BY <1>1, <1>3, ConcatProperties
  <2>2. Len(<<STX>>) = 1 /\ <<STX>>[1] = STX
    OBVIOUS
  <2> HIDE DEF b
  <2> QED BY <1>1, <2>1, <2>2
<1> HIDE DEF b
<1>6. /\ p \in Seq(Bytes) /\ Len(p) = 10
      /\ \A i \in 1..7 : p[i] = b[i]
      /\ p[8] = c /\ p[9] = ETX /\ p[10] = EOF
  <2> DEFINE t == <<c, ETX, EOF>>
  <2>1. Len(t) = 3 /\ t[1] = c /\ t[2] = ETX /\ t[3] = EOF
    OBVIOUS
  <2>3. t \in Seq(Bytes) /\ p = b \o t
    BY <1>3, <1>4
  <2> HIDE DEF t
  <2> DEFINE u == b \o t
  <2>4. b \in Seq(Bytes) /\ t \in Seq(Bytes)
    BY <1>5, <2>3
  <2>5. /\ u \in Seq(Bytes) /\ Len(u) = Len(b) + Len(t)
        /\ \A i \in 1..(Len(b) + Len(t)) : u[i] = IF i <= Len(b) THEN b[i] ELSE t[i - Len(b)]
    BY <2>4, ConcatProperties
  <2> HIDE DEF u
  <2>2. /\ p \in Seq(Bytes) /\ Len(p) = Len(b) + Len(t)
        /\ \A i \in 1..(Len(b) + Len(t)) : p[i] = IF i <= Len(b) THEN b[i] ELSE t[i - Len(b)]
    BY <2>3, <2>5 DEF u
  <2> QED BY <1>5, <2>1, <2>2
<1>7. p \in [1..10 -> Bytes]
  BY <1>6, LenProperties
<1>8. DataArea(p) = body
  <2>1. /\ DataArea(p) \in [1..6 -> Bytes]
        /\ \A i \in 1..6 : DataArea(p)[i] = p[i + 1]
    BY <1>7, DataOf
  <2>2. \A i \in 1..6 : i + 1 \in 2..7 /\ i + 1 \in 1..7 /\ (i + 1) - 1 = i
    OBVIOUS
  <2>3. \A i \in 1..6 : DataArea(p)[i] = body[i]
    BY <1>5, <1>6, <2>1, <2>2
  <2> QED BY <2>1, <2>3
<1> QED BY <1>5, <1>6, <1>7, <1>8 DEF c

-----------------------------------------------------------------------------
(* Frames as they arrive.                                                  *)

\* Adding twice is adding nothing.
LEMMA XorTwice == ASSUME NEW x \in Bytes, NEW e \in Bytes PROVE Xor(x, Xor(x, e)) = e
<1>1. Xor(x, e) \in Bytes
  BY XorBits
<1>3. 0 \in Bytes
  BY DEF Bytes
<1>2. Xor(Xor(x, 0), Xor(x, e)) = Xor(Xor(x, x), Xor(0, e))
  BY <1>1, <1>3, XorExchange
<1> QED BY <1>1, <1>2, XorFacts

\* Two remainders, a byte and an error.
AreBytes(x, y, b, e) == x \in Bytes /\ y \in Bytes /\ b \in Bytes /\ e \in Bytes

\* Of two remainders, x and y, and the bytes that follow them, b and b with the error e, the
\* next remainders differ as if the error had followed the difference.
LEMMA RemaindersDiffer ==
  ASSUME NEW x, NEW y, NEW b, NEW e, AreBytes(x, y, b, e)
  PROVE  Xor(CrcTable[Xor(x, b)], CrcTable[Xor(y, Xor(b, e))]) = CrcTable[Xor(Xor(x, y), e)]
<1> DEFINE z == Xor(b, e)
<1>1. x \in Bytes /\ y \in Bytes /\ b \in Bytes /\ z \in Bytes /\ Xor(b, z) = e
  BY XorBits, XorTwice DEF AreBytes
<1> HIDE DEF z
<1>2. Xor(x, b) \in Bytes /\ Xor(y, z) \in Bytes
  BY <1>1, XorBits
<1>3. Xor(CrcTable[Xor(x, b)], CrcTable[Xor(y, z)]) = CrcTable[Xor(Xor(x, b), Xor(y, z))]
  BY <1>2, TableLinear
<1>4. Xor(Xor(x, b), Xor(y, z)) = Xor(Xor(x, y), Xor(b, z))
  BY <1>1, XorExchange
<1> QED BY <1>1, <1>3, <1>4 DEF z

\* The CRCs of a frame and of what the line made of it differ by what the errors leave.
LEMMA CrcsDiffer ==
  ASSUME NEW e \in [1..10 -> Bytes], NEW p \in [1..10 -> Bytes], NEW f \in [1..10 -> Bytes],
         \A i \in 1..10 : f[i] = Xor(p[i], e[i]),
         p[8] = Crc8(DataArea(p)), f[8] = Crc8(DataArea(f))
  PROVE  \E r : Leaves([k \in 2..8 |-> e[k]], r) /\ r[8] = e[8]
<1>1. PICK c \in [0..6 -> Bytes] :
         /\ c[0] = 0 /\ p[8] = c[6]
         /\ \A i \in 1..6 : c[i] = CrcTable[Xor(c[i - 1], DataArea(p)[i])]
  BY DataOf, CrcIsLast
<1>2. PICK d \in [0..6 -> Bytes] :
         /\ d[0] = 0 /\ f[8] = d[6]
         /\ \A i \in 1..6 : d[i] = CrcTable[Xor(d[i - 1], DataArea(f)[i])]
  BY DataOf, CrcIsLast
<1>3. \A i \in 1..6 : DataArea(p)[i] = p[i + 1] /\ DataArea(f)[i] = f[i + 1]
  BY DataOf
<1> DEFINE r == [k \in 2..8 |-> Xor(c[k - 2], d[k - 2])]
<1>4. r \in [2..8 -> Bytes] /\ r[2] = 0
  <2>1. \A k \in 2..8 : c[k - 2] \in Bytes /\ d[k - 2] \in Bytes
    OBVIOUS
  <2>2. \A k \in 2..8 : r[k] \in Bytes
    BY <2>1, XorBits
  <2>3. r[2] = Xor(0, 0) /\ 0 \in Bytes
    BY <1>1, <1>2 DEF Bytes
  <2> QED BY <2>2, <2>3, XorFacts
<1>5. ASSUME NEW k \in 2..7 PROVE r[k + 1] = CrcTable[Xor(r[k], e[k])]
  <2> DEFINE x == c[k - 2]  y == d[k - 2]  b == p[k]
  <2>1. x \in Bytes /\ y \in Bytes /\ b \in Bytes /\ e[k] \in Bytes /\ f[k] = Xor(b, e[k])
    OBVIOUS
  <2>2. k - 1 \in 1..6 /\ (k - 1) - 1 = k - 2 /\ (k - 1) + 1 = k /\ (k + 1) - 2 = k - 1
    OBVIOUS
  <2>3. c[k - 1] = CrcTable[Xor(x, b)]
    BY <1>1, <1>3, <2>2
  <2>4. d[k - 1] = CrcTable[Xor(y, f[k])]
    BY <1>2, <1>3, <2>2
  <2>5. r[k + 1] = Xor(c[k - 1], d[k - 1]) /\ r[k] = Xor(x, y)
    BY <2>2
  <2> HIDE DEF r, x, y, b
  <2>6. r[k + 1] = Xor(CrcTable[Xor(x, b)], CrcTable[Xor(y, Xor(b, e[k]))])
    BY <2>1, <2>3, <2>4, <2>5
  <2>7. r[k + 1] = CrcTable[Xor(Xor(x, y), e[k])]
    <3> DEFINE u == e[k]
    <3>1. AreBytes(x, y, b, u)
      BY <2>1 DEF AreBytes
    <3> HIDE DEF u
    <3>2. Xor(CrcTable[Xor(x, b)], CrcTable[Xor(y, Xor(b, u))]) = CrcTable[Xor(Xor(x, y), u)]
      BY <3>1, RemaindersDiffer
    <3> QED BY <2>6, <3>2 DEF u
  <2> QED BY <2>5, <2>7
<1>6. r[8] = e[8]
  <2>1. r[8] = Xor(p[8], f[8]) /\ f[8] = Xor(p[8], e[8])
    BY <1>1, <1>2
  <2> HIDE DEF r
  <2>2. p[8] \in Bytes /\ e[8] \in Bytes
    OBVIOUS
  <2> QED BY <2>1, <2>2, XorTwice
<1> HIDE DEF r
<1>7. Leaves([k \in 2..8 |-> e[k]], r)
  BY <1>4, <1>5 DEF Leaves
<1> QED BY <1>6, <1>7

\* What the line may do to a frame.
IsNoise(noise) ==
    /\ noise \in [byte : 1..PacketLength, mask : Bytes, other : 1..PacketLength,
                  otherMask : Bytes, length : 0..PacketLength]
    /\ \/ noise.otherMask = 0
       \/ {noise.mask, noise.otherMask} \subseteq Flips
       \/ /\ noise.other = noise.byte + 1
          /\ \E w \in Flips : noise.mask < w /\ noise.otherMask % w = 0

\* The receiver finds no error only if there is none.
LEMMA ErrorsShow ==
  ASSUME NEW noise, IsNoise(noise), NEW e, NEW r,
         e \in [1..10 -> Bytes], \A i \in 1..10 : e[i] = Error(noise, i),
         e[1] = 0, e[9] = 0, e[10] = 0,
         Leaves([k \in 2..8 |-> e[k]], r), r[8] = e[8]
  PROVE  \A i \in 1..10 : e[i] = 0
<1> DEFINE d == [k \in 2..8 |-> e[k]]
           a == noise.byte
           b == noise.other
<1>1. a \in 1..10 /\ b \in 1..10 /\ noise.mask \in Bytes /\ noise.otherMask \in Bytes
  BY DEF IsNoise, PacketLength
<1>2. /\ e[a] = noise.mask /\ (b # a => e[b] = noise.otherMask)
      /\ \A i \in 1..10 : i \notin {a, b} => e[i] = 0
  BY <1>1 DEF Error
<1>3. r[8] = d[8] /\ \A k \in 2..8 : d[k] = e[k]
  OBVIOUS
<1> HIDE DEF d
\* At most one byte is wrong.
<1>4. ASSUME NEW c \in 1..10, \A i \in 1..10 : i # c => e[i] = 0
      PROVE  \A i \in 1..10 : e[i] = 0
  <2>1. CASE c \in 2..8
    <3>1. d[c] = 0
      BY <1>3, <1>4, <2>1, ByteShows DEF d
    <3> QED BY <1>3, <1>4, <2>1, <3>1
  <2>2. CASE c \notin 2..8
    <3>1. c = 1 \/ c = 9 \/ c = 10
      BY <2>2
    <3> QED BY <1>4, <3>1
  <2> QED BY <2>1, <2>2
<1>5. CASE noise.otherMask = 0
  BY <1>1, <1>2, <1>4, <1>5
<1>6. CASE {noise.mask, noise.otherMask} \subseteq Flips
  <2>1. CASE a = b
    BY <1>1, <1>2, <1>4, <2>1
  <2>2. CASE a # b
    <3>1. e[a] \in Flips /\ e[b] \in Flips
      BY <1>2, <1>6, <2>2
    <3>2. a \in 2..8 /\ b \in 2..8
      <4>1. \A i \in 1..10 : e[i] # 0 => i \in 2..8
        OBVIOUS
      <4>2. e[a] # 0 /\ e[b] # 0
        BY <3>1 DEF Flips
      <4> QED BY <1>1, <4>1, <4>2
    <3>3. /\ d[a] \in Flips /\ d[b] \in Flips
          /\ \A k \in 2..8 : k \notin {a, b} => d[k] = 0
      BY <1>2, <1>3, <3>1, <3>2
    <3> HIDE DEF a, b
    <3>4. CASE a < b
      BY <1>3, <3>2, <3>3, <3>4, BitsShow DEF d
    <3>5. CASE b < a
      BY <1>3, <3>2, <3>3, <3>5, BitsShow DEF d
    <3> QED BY <2>2, <3>2, <3>4, <3>5
  <2> QED BY <2>1, <2>2
<1>7. CASE /\ b = a + 1
           /\ \E w \in Flips : noise.mask < w /\ noise.otherMask % w = 0
  <2>1. CASE a \in 2..7
    <3>1. PICK w \in Flips : noise.mask < w /\ noise.otherMask % w = 0
      BY <1>7
    <3>2. /\ d[a] < w /\ d[a + 1] % w = 0
          /\ \A k \in 2..8 : k \notin {a, a + 1} => d[k] = 0
      BY <1>2, <1>3, <1>7, <2>1, <3>1
    <3> HIDE DEF a, b
    <3>3. d[a] = 0 /\ d[a + 1] = 0
      BY <1>3, <2>1, <3>1, <3>2, BurstsShow DEF d
    <3>4. e[a] = 0 /\ e[b] = 0
      BY <1>3, <1>7, <2>1, <3>3
    <3> QED BY <1>1, <1>2, <3>4
  <2>2. CASE a \notin 2..7
    <3>1. e[a] = 0 \/ e[b] = 0
      <4>1. a = 1 \/ a = 8 \/ a = 9
        BY <1>1, <1>7, <2>2
      <4> QED BY <1>7, <4>1
    <3> QED BY <1>1, <1>2, <1>4, <3>1
  <2> QED BY <2>1, <2>2
<1> QED BY <1>5, <1>6, <1>7 DEF IsNoise

\* A frame that is accepted is the one that was sent.
LEMMA AcceptedIsSent ==
  ASSUME NEW body \in [1..6 -> Bytes], NEW noise, IsNoise(noise),
         IsValid(Garbled(Framed(body), noise))
  PROVE  Garbled(Framed(body), noise) = Framed(body) /\ Framed(body)[2] = DeviceId
<1> DEFINE p == Framed(body)
           f == Garbled(p, noise)
           e == [i \in 1..10 |-> Error(noise, i)]
<1>1. /\ p \in [1..10 -> Bytes]
      /\ p[1] = STX /\ p[9] = ETX /\ p[10] = EOF
      /\ p[8] = Crc8(DataArea(p))
  BY PacketIsFramed
<1>2. e \in [1..10 -> Bytes] /\ \A i \in 1..10 : e[i] = Error(noise, i)
  <2>1. \A i \in 1..10 : Error(noise, i) \in Bytes
    BY DEF Error, IsNoise, Bytes
  <2> QED BY <2>1
<1>3. noise.length = 10
  <2>1. noise.length \in Nat
    BY DEF IsNoise, PacketLength
  <2>2. f = [i \in 1..noise.length |-> Xor(p[i], Error(noise, i))]
    BY DEF Garbled
  <2>3. Len(f) = noise.length
    BY <2>1, <2>2
  <2> QED BY <2>3 DEF IsValid, PacketLength
<1>4. f = [i \in 1..10 |-> Xor(p[i], e[i])]
  BY <1>2, <1>3 DEF Garbled
<1>5. IsValid(f)
  OBVIOUS
<1> HIDE DEF p, f, e
<1>6. f \in [1..10 -> Bytes] /\ \A i \in 1..10 : f[i] = Xor(p[i], e[i])
  <2>1. \A i \in 1..10 : Xor(p[i], e[i]) \in Bytes
    BY <1>1, <1>2, XorBits
  <2> QED BY <1>4, <2>1
<1>7. f[1] = STX /\ f[2] = DeviceId /\ f[9] = ETX /\ f[10] = EOF /\ f[8] = Crc8(DataArea(f))
  BY <1>5 DEF IsValid, CrcValid
<1>8. ASSUME NEW i \in 1..10, f[i] = p[i] PROVE e[i] = 0
  <2>1. p[i] \in Bytes /\ e[i] \in Bytes /\ 0 \in Bytes
    BY <1>1, <1>2 DEF Bytes
  <2>2. Xor(p[i], e[i]) = Xor(p[i], 0)
    BY <1>6, <1>8, <2>1, XorFacts
  <2> QED BY <2>1, <2>2, XorCancels
<1>9. e[1] = 0 /\ e[9] = 0 /\ e[10] = 0
  BY <1>1, <1>7, <1>8
<1>10. PICK r : Leaves([k \in 2..8 |-> e[k]], r) /\ r[8] = e[8]
  BY <1>1, <1>2, <1>6, <1>7, CrcsDiffer
<1>11. \A i \in 1..10 : e[i] = 0
  BY <1>2, <1>9, <1>10, ErrorsShow
<1>12. \A i \in 1..10 : f[i] = p[i]
  BY <1>1, <1>6, <1>11, XorFacts
<1> QED BY <1>1, <1>6, <1>7, <1>12 DEF f, p

-----------------------------------------------------------------------------
(* The external ingest service: history and counters.                      *)

\* The history is a list.
HistoryIsList ==
    /\ Len(wrongWayHistory) \in Nat
    /\ wrongWayHistory = [i \in 1..Len(wrongWayHistory) |-> wrongWayHistory[i]]

\* An event that came without a packet, or with one as it was sent under the board's ID.
Sound(event) == event.packet # <<>> => event.packet = line.sent /\ line.sent[2] = DeviceId

\* Every event of the history is such an event.
HistoryIsSound == \A i \in 1..Len(wrongWayHistory) : Sound(wrongWayHistory[i])

\* The wrong ways among the newest n events.
WrongWays(n) == {i \in 1..n : wrongWayHistory[i].eventType = "WRONG_WAY"}

\* What was counted is at the head of the history.
CountedAreFirst ==
    kpi.todaysEvents <= MaxHistory =>
        /\ kpi.todaysEvents <= Len(wrongWayHistory)
        /\ kpi.wrongWayEvents = Cardinality(WrongWays(kpi.todaysEvents))

\* The hours add up to the day.
HoursAddUp == kpi.todaysEvents = SumFunction(kpi.hourlyEvents)

\* The inductive invariant. That a garbled frame is ignored needs no part of it but the frame
\* itself: it is proved from the division.
IngestInv ==
    /\ line \in Lines
    /\ kpi \in [todaysEvents : Nat, newEvents : Nat, wrongWayEvents : Nat,
                hourlyEvents : [Hours -> Nat]]
    /\ HistoryIsList /\ HistoryIsSound /\ CountedAreFirst /\ HoursAddUp

\* An item that is put in front moves the others by one, and the older keeps its limit.
LEMMA UnshiftedIs ==
  ASSUME NEW older, Len(older) \in Nat, older = [i \in 1..Len(older) |-> older[i]],
         NEW item, NEW limit \in Nat \ {0},
         NEW longer, longer = Unshifted(older, item, limit)
  PROVE  /\ Len(longer) = IF limit <= Len(older) THEN limit ELSE Len(older) + 1
         /\ longer = [i \in 1..Len(longer) |-> longer[i]]
         /\ longer[1] = item
         /\ \A i \in 1..(Len(longer) - 1) : longer[i + 1] = older[i]
<1> DEFINE S == {older[i] : i \in 1..Len(older)} \cup {item}
           l == <<item>> \o older
           n == IF limit <= Len(older) THEN limit ELSE Len(older) + 1
<1>1. older \in Seq(S) /\ <<item>> \in Seq(S)
  <2>1. older \in [1..Len(older) -> S]
    OBVIOUS
  <2>2. older \in Seq(S)
    BY <2>1, FunctionIsSeq
  <2>3. <<item>> \in Seq(S)
    BY item \in S
  <2> QED BY <2>2, <2>3
<1> HIDE DEF S
<1>2. Len(<<item>>) = 1 /\ <<item>>[1] = item
  OBVIOUS
<1>3. /\ l \in Seq(S) /\ Len(l) = Len(older) + 1
      /\ \A i \in 1..Len(l) : l[i] = IF i <= 1 THEN item ELSE older[i - 1]
  BY <1>1, <1>2, ConcatProperties
<1> HIDE DEF l
<1>4. Min({limit, Len(l)}) = n
  <2> DEFINE m == Min({limit, Len(l)})
  <2>1. n \in {limit, Len(l)} /\ \A x \in {limit, Len(l)} : n <= x
    BY <1>3
  <2>2. m \in {limit, Len(l)} /\ \A x \in {limit, Len(l)} : m <= x
    BY <2>1, Zenon DEF Min
  <2> HIDE DEF m
  <2>3. m = n
    BY <1>3, <2>1, <2>2
  <2> QED BY <2>3 DEF m
<1>5. longer = SubSeq(l, 1, n)
  BY <1>4 DEF Unshifted, l
<1>6. n \in Nat \ {0} /\ n <= Len(l)
  BY <1>3
<1> HIDE DEF n
<1>7. \A i \in 1..n : i \in 1..Len(l)
  BY <1>3, <1>6
<1>8. \A i \in 1..n : l[i] \in S
  BY <1>3, <1>7, ElementOfSeq
<1>9. longer \in Seq(S) /\ Len(longer) = n /\ \A i \in 1..n : longer[i] = l[1 + i - 1]
  BY <1>5, <1>6, <1>8, SubSeqProperties, SMTT(30)
<1>10. longer = [i \in 1..Len(longer) |-> longer[i]]
  BY <1>9, LenProperties
<1>11. \A i \in 1..n : longer[i] = l[i]
  BY <1>6, <1>9
<1>12. longer[1] = item
  BY <1>3, <1>6, <1>7, <1>11
<1>13. ASSUME NEW i \in 1..(n - 1) PROVE longer[i + 1] = older[i]
  <2>1. i + 1 \in 1..n /\ i + 1 \in 1..Len(l) /\ (i + 1) - 1 = i /\ ~(i + 1 <= 1)
    BY <1>6, <1>7
  <2> QED BY <1>3, <1>11, <2>1
<1> QED BY <1>9, <1>10, <1>12, <1>13 DEF n

\* One more in front is one more of the first n + 1, if it counts.
LEMMA OneMoreInFront ==
  ASSUME NEW older, NEW longer, NEW n \in Nat, NEW item,
         longer[1] = item, \A i \in 1..n : longer[i + 1] = older[i]
  PROVE  LET wrong(l, k) == {i \in 1..k : l[i].eventType = "WRONG_WAY"} IN
         Cardinality(wrong(longer, n + 1)) =
            Cardinality(wrong(older, n)) + (IF item.eventType = "WRONG_WAY" THEN 1 ELSE 0)
<1> DEFINE A == {i \in 1..n : older[i].eventType = "WRONG_WAY"}
           B == {i \in 2..(n + 1) : longer[i].eventType = "WRONG_WAY"}
           C == {i \in 1..(n + 1) : longer[i].eventType = "WRONG_WAY"}
           next == [i \in A |-> i + 1]
<1>1. IsFiniteSet(A) /\ IsFiniteSet(B) /\ Cardinality(A) \in Nat /\ Cardinality(B) \in Nat
  <2>1. A \subseteq 1..n /\ B \subseteq 2..(n + 1)
    OBVIOUS
  <2>2. IsFiniteSet(1..n) /\ IsFiniteSet(2..(n + 1))
    <3>1. n \in Int /\ n + 1 \in Int
      OBVIOUS
    <3> QED BY <3>1, FS_Interval
  <2> HIDE DEF A, B
  <2> QED BY <2>1, <2>2, FS_Subset, FS_CardinalityType
<1>2. \A i \in A : next[i] \in B
  OBVIOUS
<1>3. \A b \in B : \E i \in A : next[i] = b
  <2> SUFFICES ASSUME NEW b \in B PROVE \E i \in A : next[i] = b
    OBVIOUS
  <2>1. b - 1 \in 1..n /\ (b - 1) + 1 = b
    OBVIOUS
  <2>2. older[b - 1] = longer[b]
    BY <2>1
  <2>3. b - 1 \in A
    BY <2>1, <2>2
  <2> QED BY <2>1, <2>3
<1>4. \A i, j \in A : next[i] = next[j] => i = j
  OBVIOUS
<1>5. next \in Bijection(A, B)
  <2>1. next \in [A -> B] /\ \A i, j \in A : i # j => next[i] # next[j]
    BY <1>2, <1>4
  <2> HIDE DEF next, A, B
  <2> QED BY <1>3, <2>1 DEF Bijection, Injection, Surjection, IsInjective
<1> HIDE DEF next
<1>6. Cardinality(A) = Cardinality(B)
  <2> HIDE DEF A, B
  <2>1. ExistsBijection(A, B)
    BY <1>5 DEF ExistsBijection
  <2> QED BY <1>1, <2>1, FS_Bijection
<1>7. CASE item.eventType = "WRONG_WAY"
  <2>1. C = B \cup {1} /\ 1 \notin B
    BY <1>7
  <2> HIDE DEF A, B, C
  <2>2. Cardinality(C) = Cardinality(B) + 1
    BY <1>1, <2>1, FS_AddElement
  <2> QED BY <1>1, <1>6, <1>7, <2>2 DEF A, C
<1>8. CASE item.eventType # "WRONG_WAY"
  <2>1. C = B
    BY <1>8
  <2> HIDE DEF A, B, C
  <2>2. Cardinality(C) = Cardinality(A) + 0
    BY <1>1, <1>6, <2>1
  <2> QED BY <1>8, <2>2 DEF A, C
<1> QED BY <1>7, <1>8

-----------------------------------------------------------------------------
(* The counts of the hours.                                                *)

\* A count of hours, taken apart: one pair for each time an hour was counted.
Times(count) == {pair \in Hours \X Nat : pair[2] \in 1..count[pair[1]]}

\* There are as many pairs of an hour as it was counted.
LEMMA TimesAreFinite ==
  ASSUME NEW count \in [Hours -> Nat]
  PROVE  /\ IsFiniteSet(Times(count))
         /\ \A h \in Hours : count[h] = Cardinality({pair \in Times(count) : pair[1] = h})
<1> DEFINE Of(h) == {pair \in Times(count) : pair[1] = h}
<1>1. ASSUME NEW h \in Hours PROVE IsFiniteSet(Of(h)) /\ Cardinality(Of(h)) = count[h]
  <2> DEFINE f == [i \in 1..count[h] |-> <<h, i>>]
             D == 1..count[h]
  <2>1. IsFiniteSet(D) /\ Cardinality(D) = count[h]
    <3>1. count[h] \in Nat /\ 1 \in Int /\ count[h] \in Int
      OBVIOUS
    <3>2. Cardinality(D) = IF 1 > count[h] THEN 0 ELSE count[h] - 1 + 1
      BY <3>1, FS_Interval
    <3>3. IsFiniteSet(D)
      BY <3>1, FS_Interval
    <3> HIDE DEF D
    <3> QED BY <3>1, <3>2, <3>3
  <2>2. f \in [D -> Of(h)]
    <3>1. ASSUME NEW i \in D PROVE <<h, i>> \in Of(h)
      BY DEF Times
    <3> QED BY <3>1
  <2>3. \A i, j \in D : i # j => f[i] # f[j]
    OBVIOUS
  <2>4. \A pair \in Of(h) : \E i \in D : f[i] = pair
    <3> SUFFICES ASSUME NEW pair \in Of(h) PROVE \E i \in D : f[i] = pair
      OBVIOUS
    <3>1. pair = <<h, pair[2]>> /\ pair[2] \in D
      BY DEF Times
    <3> QED BY <3>1
  <2> HIDE DEF f, D, Of
  <2>5. f \in Bijection(D, Of(h))
    BY <2>2, <2>3, <2>4 DEF Bijection, Injection, Surjection, IsInjective
  <2>6. ExistsBijection(D, Of(h))
    BY <2>5 DEF ExistsBijection
  <2> QED BY <2>1, <2>6, FS_Bijection
<1>2. IsFiniteSet({Of(h) : h \in Hours})
  <2> DEFINE T == {Of(h) : h \in Hours}
             g == [h \in Hours |-> Of(h)]
  <2>1. g \in [Hours -> T] /\ \A s \in T : \E h \in Hours : g[h] = s
    OBVIOUS
  <2>2. IsFiniteSet(Hours)
    BY IngestAssumption
  <2> HIDE DEF g, T
  <2>3. g \in Surjection(Hours, T)
    BY <2>1 DEF Surjection
  <2>4. IsFiniteSet(T)
    BY <2>2, <2>3, FS_Surjection
  <2> QED BY <2>4 DEF T
<1>3. Times(count) = UNION {Of(h) : h \in Hours}
  BY DEF Times
<1>4. \A s \in {Of(h) : h \in Hours} : IsFiniteSet(s)
  BY <1>1
<1> HIDE DEF Of
<1>5. IsFiniteSet(Times(count))
  BY <1>2, <1>3, <1>4, FS_UNION
<1> QED BY <1>1, <1>5 DEF Of

\* The sum over the hours is the number of the pairs.
LEMMA SumIsNumber ==
  ASSUME NEW count \in [Hours -> Nat]
  PROVE  SumFunction(count) = Cardinality(Times(count))
<1> DEFINE R == Times(count)
           at == [h \in Hours |-> h]
           key == [pair \in R |-> pair[1]]
           Step(iter) == iter = [s \in SUBSET Hours |->
                             IF s = {} THEN 0
                             ELSE count[CHOOSE x \in s : TRUE]
                                     + iter[s \ {CHOOSE x \in s : TRUE}]]
<1>1. DOMAIN count = Hours
  OBVIOUS
<1>2. SumFunction(count) = (CHOOSE iter : Step(iter))[Hours]
  BY <1>1 DEF SumFunction, SumFunctionOnSet, FoldFunctionOnSet, MapThenFoldSet
<1>3. SumFunction(count) = (CHOOSE iter : Sums(iter, Hours, count))[Hours]
  BY <1>2 DEF Sums
<1>4. Parts(Hours, count, at, R, key)
  <2>1. IsFiniteSet(Hours) /\ IsFiniteSet(R)
    BY IngestAssumption, TimesAreFinite
  <2>2. ASSUME NEW h \in Hours PROVE count[h] = Cardinality({r \in R : key[r] = at[h]})
    <3>1. {r \in R : key[r] = at[h]} = {pair \in Times(count) : pair[1] = h}
      OBVIOUS
    <3> QED BY <3>1, TimesAreFinite
  <2>3. \A h, k \in Hours : at[h] = at[k] => h = k
    OBVIOUS
  <2> HIDE DEF R, at, key
  <2> QED BY <2>1, <2>2, <2>3 DEF Parts
<1>5. InParts(Hours, at, R, key) = R
  BY DEF InParts, Times
<1> HIDE DEF R, at, key
<1>6. (CHOOSE iter : Sums(iter, Hours, count))[Hours] = Cardinality(InParts(Hours, at, R, key))
  BY <1>4, SumOfParts
<1> QED BY <1>3, <1>5, <1>6 DEF R

\* Counting an hour once more adds one to the sum.
LEMMA OneHourMore ==
  ASSUME NEW count \in [Hours -> Nat], NEW h \in Hours
  PROVE  SumFunction([count EXCEPT ![h] = @ + 1]) = SumFunction(count) + 1
<1> DEFINE more == [count EXCEPT ![h] = @ + 1]
           new == <<h, count[h] + 1>>
<1>1. more \in [Hours -> Nat] /\ more[h] = count[h] + 1 /\ count[h] \in Nat
      /\ \A k \in Hours : k # h => more[k] = count[k]
  OBVIOUS
<1> HIDE DEF more
<1>2. Times(more) = Times(count) \cup {new} /\ new \notin Times(count)
  <2>1. new \notin Times(count)
    BY <1>1 DEF Times
  <2>2. ASSUME NEW pair \in Times(more) PROVE pair \in Times(count) \cup {new}
    <3>1. pair[1] \in Hours /\ pair[2] \in 1..more[pair[1]] /\ pair = <<pair[1], pair[2]>>
      BY DEF Times
    <3>2. CASE pair[1] = h
      BY <1>1, <3>1, <3>2 DEF Times
    <3>3. CASE pair[1] # h
      BY <1>1, <3>1, <3>3 DEF Times
    <3> QED BY <3>2, <3>3
  <2>3. ASSUME NEW pair \in Times(count) PROVE pair \in Times(more)
    <3>1. pair[1] \in Hours /\ pair[2] \in 1..count[pair[1]] /\ pair \in Hours \X Nat
      BY DEF Times
    <3>2. pair[2] \in 1..more[pair[1]]
      <4>1. CASE pair[1] = h
        BY <1>1, <3>1, <4>1
      <4>2. CASE pair[1] # h
        BY <1>1, <3>1, <4>2
      <4> QED BY <4>1, <4>2
    <3> QED BY <3>1, <3>2 DEF Times
  <2>4. new \in Times(more)
    BY <1>1 DEF Times
  <2> HIDE DEF new
  <2> QED BY <2>1, <2>2, <2>3, <2>4
<1>3. IsFiniteSet(Times(count))
  BY TimesAreFinite
<1> HIDE DEF new
<1>4. Cardinality(Times(more)) = Cardinality(Times(count)) + 1
  BY <1>2, <1>3, FS_AddElement
<1>5. SumFunction(more) = SumFunction(count) + 1
  BY <1>1, <1>4, SumIsNumber
<1> QED BY <1>5 DEF more

\* No hour was counted, and the sum is 0.
LEMMA NoHours == SumFunction([h \in Hours |-> 0]) = 0
<1> DEFINE zero == [h \in Hours |-> 0]
<1>1. zero \in [Hours -> Nat] /\ Times(zero) = {}
  BY DEF Times
<1> HIDE DEF zero
<1>2. SumFunction(zero) = 0
  BY <1>1, SumIsNumber, FS_EmptySet
<1> QED BY <1>2 DEF zero

-----------------------------------------------------------------------------
(* What is counted.                                                        *)

\* What the line does is of the assumed kinds.
LEMMA NoiseIsKnown == ASSUME NEW noise \in Noise PROVE IsNoise(noise)
BY NoiseAssumption DEF IsNoise

\* Whatever a payload holds, what is not ignored has no packet or one as it was sent.
LEMMA AdaptedIsSound ==
  ASSUME IngestInv, NEW payload \in Payloads, NEW source,
         ~Ignored(Adapted(payload, source))
  PROVE  Sound(Adapted(payload, source))
<1> DEFINE event == Adapted(payload, source)
<1>1. /\ event.packet = IF payload.hasPacket THEN payload.packet ELSE <<>>
      /\ event.packetValid = IF payload.hasPacket THEN IsValid(payload.packet)
                             ELSE payload.crcStatus = "VALID"
  BY DEF Adapted
<1>2. event.packetValid
  BY DEF Ignored
<1> HIDE DEF event
<1>3. CASE event.packet = <<>>
  BY <1>3 DEF Sound, event
<1>4. CASE event.packet # <<>>
  <2>1. payload.hasPacket /\ event.packet = payload.packet
    BY <1>1, <1>4
  <2>2. payload.packet = line.frame
    <3>1. payload.packet \in {<<>>, line.frame}
      BY <2>1 DEF Payloads
    <3> QED BY <1>4, <2>1, <3>1
  <2>3. IsValid(line.frame)
    BY <1>1, <1>2, <2>1, <2>2
  <2>4. PICK body \in Data, noise \in Noise :
           line = [sent |-> Framed(body), frame |-> Garbled(Framed(body), noise)]
    BY DEF IngestInv, Lines
  <2>5. line.sent = Framed(body) /\ line.frame = Garbled(Framed(body), noise)
    BY <2>4
  <2>6. line.frame = line.sent /\ line.sent[2] = DeviceId
    <3>1. body \in [1..6 -> Bytes]
      BY IngestAssumption
    <3> QED BY <2>3, <2>5, <3>1, NoiseIsKnown, AcceptedIsSent
  <2> QED BY <2>1, <2>2, <2>6 DEF Sound, event
<1> QED BY <1>3, <1>4

\* What comes from a LiDAR has no packet.
LEMMA LidarIsSound == ASSUME NEW type PROVE Sound(LidarEvent(type))
BY DEF Sound, LidarEvent

\* A sound event is counted.
LEMMA CountsKeeps ==
  ASSUME IngestInv, NEW event, Sound(event), Counts(event), UNCHANGED line
  PROVE  IngestInv'
<1> DEFINE h == wrongWayHistory
           g == wrongWayHistory'
           one == IF event.eventType = "WRONG_WAY" THEN 1 ELSE 0
<1>1. MaxHistory \in Nat \ {0}
  BY IngestAssumption
<1>2. Len(h) \in Nat /\ h = [i \in 1..Len(h) |-> h[i]] /\ g = Unshifted(h, event, MaxHistory)
  BY DEF IngestInv, HistoryIsList, Counts
<1>3. /\ Len(g) = IF MaxHistory <= Len(h) THEN MaxHistory ELSE Len(h) + 1
      /\ g = [i \in 1..Len(g) |-> g[i]]
      /\ g[1] = event
      /\ \A i \in 1..(Len(g) - 1) : g[i + 1] = h[i]
  <2> HIDE DEF h, g
  <2> QED BY <1>1, <1>2, UnshiftedIs
<1>4. PICK hour \in Hours :
         kpi' = [kpi EXCEPT !.todaysEvents = @ + 1, !.newEvents = @ + 1,
                            !.wrongWayEvents = IF event.eventType = "WRONG_WAY" THEN @ + 1 ELSE @,
                            !.hourlyEvents[hour] = @ + 1]
  BY DEF Counts
<1>5. /\ kpi.todaysEvents \in Nat /\ kpi.wrongWayEvents \in Nat /\ kpi.newEvents \in Nat
      /\ kpi.hourlyEvents \in [Hours -> Nat]
      /\ kpi = [todaysEvents |-> kpi.todaysEvents, newEvents |-> kpi.newEvents,
                wrongWayEvents |-> kpi.wrongWayEvents, hourlyEvents |-> kpi.hourlyEvents]
  BY DEF IngestInv
<1>6. /\ kpi'.todaysEvents = kpi.todaysEvents + 1
      /\ kpi'.newEvents = kpi.newEvents + 1
      /\ kpi'.wrongWayEvents = IF event.eventType = "WRONG_WAY" THEN kpi.wrongWayEvents + 1
                               ELSE kpi.wrongWayEvents
      /\ kpi'.hourlyEvents = [kpi.hourlyEvents EXCEPT ![hour] = @ + 1]
      /\ kpi' = [todaysEvents |-> kpi'.todaysEvents, newEvents |-> kpi'.newEvents,
                 wrongWayEvents |-> kpi'.wrongWayEvents, hourlyEvents |-> kpi'.hourlyEvents]
  BY <1>4, <1>5
<1>7. kpi'.hourlyEvents \in [Hours -> Nat]
  BY <1>5, <1>6
<1>8. kpi' \in [todaysEvents : Nat, newEvents : Nat, wrongWayEvents : Nat,
                hourlyEvents : [Hours -> Nat]]
  <2>1. kpi'.todaysEvents \in Nat /\ kpi'.newEvents \in Nat /\ kpi'.wrongWayEvents \in Nat
    BY <1>5, <1>6
  <2> QED BY <1>6, <1>7, <2>1
<1>9. Len(g) \in Nat /\ Len(g) >= 1
  BY <1>1, <1>2, <1>3
<1>10. HistoryIsList'
  BY <1>3, <1>9 DEF HistoryIsList
<1>11. HistoryIsSound'
  <2>1. ASSUME NEW i \in 1..Len(g) PROVE Sound(g[i])
    <3>1. CASE i = 1
      BY <1>3, <3>1
    <3>2. CASE i # 1
      <4>1. i - 1 \in 1..(Len(g) - 1) /\ (i - 1) + 1 = i
        BY <1>9, <3>2
      <4>2. i - 1 \in 1..Len(h)
        BY <1>1, <1>2, <1>3, <4>1
      <4>3. g[i] = h[i - 1]
        BY <1>3, <4>1
      <4>4. Sound(h[i - 1])
        BY <4>2 DEF IngestInv, HistoryIsSound
      <4> QED BY <4>3, <4>4
    <3> QED BY <3>1, <3>2
  <2> QED BY <2>1 DEF HistoryIsSound, Sound
<1>12. CountedAreFirst'
  <2> DEFINE n == kpi.todaysEvents
             count == kpi'.todaysEvents
             wrong(l, k) == {i \in 1..k : l[i].eventType = "WRONG_WAY"}
  <2>1. SUFFICES count <= MaxHistory => /\ count <= Len(g)
                                        /\ kpi'.wrongWayEvents = Cardinality(wrong(g, count))
    BY DEF CountedAreFirst, WrongWays
  <2>2. count = n + 1 /\ n \in Nat
    BY <1>5, <1>6
  <2>3. SUFFICES ASSUME count <= MaxHistory
        PROVE  count <= Len(g) /\ kpi'.wrongWayEvents = Cardinality(wrong(g, count))
    OBVIOUS
  <2>4. n <= MaxHistory
    BY <1>1, <2>2, <2>3
  <2>5. n <= Len(h) /\ kpi.wrongWayEvents = Cardinality(wrong(h, n))
    BY <2>4 DEF IngestInv, CountedAreFirst, WrongWays
  <2>6. n + 1 <= Len(g)
    BY <1>1, <1>2, <1>3, <2>2, <2>3, <2>5
  <2>7. \A i \in 1..n : g[i + 1] = h[i]
    <3>1. \A i \in 1..n : i \in 1..(Len(g) - 1)
      BY <1>9, <2>2, <2>6
    <3> QED BY <1>3, <3>1
  <2>8. Cardinality(wrong(g, n + 1)) = Cardinality(wrong(h, n)) + one
    <3>1. Cardinality({i \in 1..(n + 1) : g[i].eventType = "WRONG_WAY"}) =
             Cardinality({i \in 1..n : h[i].eventType = "WRONG_WAY"}) + one
      <4>1. n \in Nat /\ g[1] = event /\ \A i \in 1..n : g[i + 1] = h[i]
        BY <1>3, <2>2, <2>7
      <4> HIDE DEF h, g, n, count, wrong
      <4> QED BY <4>1, OneMoreInFront
    <3> QED BY <3>1
  <2>9. kpi'.wrongWayEvents = kpi.wrongWayEvents + one
    BY <1>5, <1>6
  <2> HIDE DEF wrong, count, n, g, one
  <2> QED BY <2>2, <2>5, <2>6, <2>8, <2>9
<1>13. HoursAddUp'
  <2>1. kpi.todaysEvents = SumFunction(kpi.hourlyEvents)
    BY DEF IngestInv, HoursAddUp
  <2>2. SumFunction(kpi'.hourlyEvents) = SumFunction(kpi.hourlyEvents) + 1
    BY <1>5, <1>6, OneHourMore
  <2> QED BY <1>6, <2>1, <2>2 DEF HoursAddUp
<1>14. (line \in Lines)'
  BY DEF IngestInv, Lines
<1> QED BY <1>8, <1>10, <1>11, <1>12, <1>13, <1>14 DEF IngestInv

\* It holds of the first state.
LEMMA IngestStarts == IngestInit => IngestInv
<1> SUFFICES ASSUME IngestInit PROVE IngestInv
  OBVIOUS
<1>1. /\ line \in Lines /\ wrongWayHistory = <<>> /\ kpi = ZeroKpi
  BY DEF IngestInit
<1>2. /\ kpi.todaysEvents = 0 /\ kpi.wrongWayEvents = 0
      /\ kpi.hourlyEvents = [h \in Hours |-> 0]
      /\ kpi \in [todaysEvents : Nat, newEvents : Nat, wrongWayEvents : Nat,
                  hourlyEvents : [Hours -> Nat]]
  BY <1>1 DEF ZeroKpi
<1>3. Len(wrongWayHistory) = 0
  BY <1>1
<1>4. HistoryIsList
  <2>1. <<>> = [i \in 1..0 |-> <<>>[i]]
    OBVIOUS
  <2> QED BY <1>1, <1>3, <2>1 DEF HistoryIsList
<1>5. HistoryIsSound /\ CountedAreFirst
  <2>1. 1..0 = {} /\ WrongWays(0) = {}
    BY DEF WrongWays
  <2>2. HistoryIsSound
    BY <1>3, <2>1 DEF HistoryIsSound
  <2> QED BY <1>2, <1>3, <2>1, <2>2, FS_EmptySet DEF CountedAreFirst
<1>6. HoursAddUp
  BY <1>2, NoHours DEF HoursAddUp
<1> QED BY <1>1, <1>2, <1>4, <1>5, <1>6 DEF IngestInv

\* A history that is left alone stays what it is.
LEMMA SameHistory ==
  ASSUME HistoryIsList, HistoryIsSound, wrongWayHistory' = wrongWayHistory, line' = line
  PROVE  HistoryIsList' /\ HistoryIsSound'
<1>1. HistoryIsList'
  BY DEF HistoryIsList
<1>2. HistoryIsSound'
  BY DEF HistoryIsSound, Sound
<1> QED BY <1>1, <1>2

\* A reset of the counters.
LEMMA ResetKeeps == ASSUME IngestInv, ResetKpi PROVE IngestInv'
<1>1. kpi' = ZeroKpi /\ wrongWayHistory' = wrongWayHistory /\ line' = line
  BY DEF ResetKpi
<1>2. /\ kpi'.todaysEvents = 0 /\ kpi'.wrongWayEvents = 0
      /\ kpi'.hourlyEvents = [h \in Hours |-> 0]
      /\ kpi' \in [todaysEvents : Nat, newEvents : Nat, wrongWayEvents : Nat,
                   hourlyEvents : [Hours -> Nat]]
  BY <1>1 DEF ZeroKpi
<1>3. HistoryIsList' /\ HistoryIsSound'
  BY <1>1, SameHistory DEF IngestInv
<1>4. Len(wrongWayHistory') \in Nat
  BY <1>3 DEF HistoryIsList
<1>5. CountedAreFirst'
  <2>1. {i \in 1..0 : wrongWayHistory'[i].eventType = "WRONG_WAY"} = {}
    OBVIOUS
  <2>2. WrongWays(kpi.todaysEvents)' = {}
    BY <1>2, <2>1 DEF WrongWays
  <2> QED BY <1>2, <1>4, <2>2, FS_EmptySet DEF CountedAreFirst
<1>6. HoursAddUp'
  BY <1>2, NoHours DEF HoursAddUp
<1>7. (line \in Lines)'
  BY <1>1 DEF IngestInv, Lines
<1> QED BY <1>2, <1>3, <1>5, <1>6, <1>7 DEF IngestInv

\* An event that is ignored.
LEMMA StutterKeeps ==
  ASSUME IngestInv, UNCHANGED <<line, wrongWayHistory, kpi>>
  PROVE  IngestInv'
<1>1. (line \in Lines)'
  BY DEF IngestInv, Lines
<1>2. HistoryIsList' /\ HistoryIsSound'
  BY SameHistory DEF IngestInv
<1>3. WrongWays(kpi.todaysEvents)' = WrongWays(kpi.todaysEvents)
  BY DEF WrongWays
<1>4. CountedAreFirst'
  BY <1>3 DEF IngestInv, CountedAreFirst
<1>5. HoursAddUp' /\ kpi' = kpi
  BY DEF IngestInv, HoursAddUp
<1> QED BY <1>1, <1>2, <1>4, <1>5 DEF IngestInv

\* An event that is taken, counted or not.
LEMMA AppliesKeeps ==
  ASSUME IngestInv, NEW event, ~Ignored(event) => Sound(event), Applies(event)
  PROVE  IngestInv'
<1>1. UNCHANGED line
  BY DEF Applies, Remembers
<1>2. CASE Ignored(event)
  BY <1>1, <1>2, StutterKeeps DEF Applies
<1>3. CASE ~Ignored(event)
  BY <1>1, <1>3, CountsKeeps DEF Applies
<1> QED BY <1>2, <1>3

\* Every step keeps it.
LEMMA IngestStep == IngestInv /\ [IngestNext]_ingestVars => IngestInv'
<1> SUFFICES ASSUME IngestInv, [IngestNext]_ingestVars PROVE IngestInv'
  OBVIOUS
<1>1. CASE IngestControlBoard
  <2>1. PICK payload \in Payloads : Applies(Adapted(payload, "CONTROL_BOARD"))
    BY <1>1 DEF IngestControlBoard
  <2> QED BY <2>1, AdaptedIsSound, AppliesKeeps
<1>2. CASE CreateSerialTest
  <2>1. PICK payload \in Payloads : Applies(Adapted(payload, "CONTROL_BOARD_SERIAL_TEST"))
    BY <1>2 DEF CreateSerialTest
  <2> QED BY <2>1, AdaptedIsSound, AppliesKeeps
<1>3. CASE IngestLidar
  <2>1. PICK type \in {"WRONG_WAY", "NORMAL_DRIVING", "SITUATION_CLEARED"} :
           Applies(LidarEvent(type))
    BY <1>3 DEF IngestLidar
  <2> QED BY <2>1, LidarIsSound, AppliesKeeps
<1>4. CASE PublishWrongWay
  BY <1>4, LidarIsSound, CountsKeeps DEF PublishWrongWay
<1>5. CASE ResetKpi
  BY <1>5, ResetKeeps
<1>6. CASE UNCHANGED ingestVars
  BY <1>6, StutterKeeps DEF ingestVars
<1> QED BY <1>1, <1>2, <1>3, <1>4, <1>5, <1>6 DEF IngestNext

\* For any six bytes of data in a frame, any noise of the kinds a CRC of eight bits is for, any
\* payloads and any limits: a packet gets into the history only as it was sent and under the
\* ID of the control board, and the counters are those of the newest entries.
THEOREM OnlySoundFrames == IngestSpec => []OnlySoundPacketsCount
<1>1. IngestInv => OnlySoundPacketsCount
  BY DEF IngestInv, HistoryIsSound, Sound, CountedAreFirst, WrongWays, HoursAddUp,
         OnlySoundPacketsCount
<1> QED BY <1>1, IngestStarts, IngestStep, PTL DEF IngestSpec
=============================================================================
