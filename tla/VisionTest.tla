----------------------------- MODULE VisionTest -----------------------------
(***************************************************************************)
(* The test service of the vision worker: one thread analyses the film or  *)
(* the camera that is selected, the threads of Flask change the settings   *)
(* under a lock, and a page polls the state and edits the regions of       *)
(* interest (ROIs) of a camera.  The settings are shared by all clients.   *)
(* Pictures are left out; a saved setting is the number of the save.       *)
(***************************************************************************)
EXTENDS Naturals, Sequences

CONSTANTS Nothing, Cameras, Default,    \* Nothing: None, null; Default: camera-1
          Vehicles, Confirm,     \* Confirm: the frames that make a wrong-way drive
          MaxEvents,             \* the length of the list of drives, 50 in the code
          MaxGeneration, MaxSaves    \* bounds

ASSUME VisionAssumption ==
    /\ Default \in Cameras /\ {Confirm, MaxEvents, MaxGeneration, MaxSaves} \subseteq Nat \ {0}
    /\ Nothing \notin [camera : Cameras, kind : {"source", "rois"}]

VARIABLES camera, direction, generation,    \* state of the service
          view,        \* the rest of it, with the pictures
          rois,        \* the ROI file of each camera: [save, of], 0 for no file
          sources,     \* the source file of each camera: [save, mode]
          replacing,  \* a PUT that holds the lock and has replaced its file
          worker,      \* the analysing thread, with its local variables
          session,     \* its VideoSession
          data,        \* what the page knows: the camera selected, whether it has a picture
          poll,        \* the answer to its poll under way
          post,        \* its change of settings under way: [camera, step]
          editor,      \* the ROI editor of the page
          saved,       \* how often something was saved
          unloaded     \* the page saved ROIs when those of its camera had not been loaded

visionVars == <<camera, direction, generation, view, rois, sources, replacing, worker,
                session, data, poll, post, editor, saved, unloaded>>

server == <<camera, direction, generation, view>>
files == <<rois, sources, saved>>
page == <<data, poll, post, editor, unloaded>>

Unlocked == replacing = Nothing
NoView == [of |-> Nothing, tracks |-> {}, events |-> <<>>, picture |-> FALSE, error |-> FALSE]
\* event_logged is that a vehicle has a drive: which one of the session, or 0 for none.
NewVehicle == [state |-> "NORMAL", frames |-> 0, drive |-> 0]
\* saving is Nothing, or the PUT of the editor: [camera, of, step].
Closed == [open |-> FALSE, loads |-> {}, failed |-> FALSE, ready |-> FALSE, draft |-> Nothing,
           saving |-> Nothing]

VisionInit ==
    /\ camera = Default /\ direction = "normal" /\ generation = 0 /\ view = NoView
    /\ rois = [c \in Cameras |-> [save |-> 0, of |-> c]]
    /\ sources = [c \in Cameras |-> [save |-> 0, mode |-> "test"]]
    /\ replacing = Nothing /\ saved = 0
    /\ worker = [step |-> "top", current |-> 0, camera |-> Default, direction |-> "normal"]
    /\ session = Nothing
    /\ data = [camera |-> Default, frame |-> FALSE] /\ poll = Nothing /\ post = Nothing
    /\ editor = Closed /\ unloaded = FALSE

\* What an analysis depends on.
Settings == [camera |-> camera, direction |-> direction,
             rois |-> rois[camera].save, source |-> sources[camera].save]

(* --- the requests of any client --------------------------------------------- *)

\* settings: what was found under the old ones is forgotten.
Settle(c, d) ==
    /\ Unlocked
    /\ generation < MaxGeneration /\ generation' = generation + 1
    /\ camera' = c /\ direction' = d /\ view' = NoView

PostSettings ==
    /\ \E c \in Cameras, d \in {"normal", "reverse"} : Settle(c, d)
    /\ UNCHANGED <<files, replacing, worker, session, page>>

\* camera_source, under the lock: the file is replaced first.
ReplaceSource(c, mode) ==
    /\ Unlocked /\ saved < MaxSaves /\ generation < MaxGeneration
    /\ sources' = [sources EXCEPT ![c] = [save |-> saved + 1, mode |-> mode]]
    /\ replacing' = [camera |-> c, kind |-> "source"]
    /\ saved' = saved + 1

PutSource ==
    /\ \E c \in Cameras, mode \in {"test", "rtsp"} : ReplaceSource(c, mode)
    /\ UNCHANGED <<server, rois, worker, session, page>>

\* camera_rois: likewise, of ROIs that were drawn for camera of.
ReplaceRois(c, of) ==
    /\ Unlocked /\ saved < MaxSaves /\ generation < MaxGeneration
    /\ rois' = [rois EXCEPT ![c] = [save |-> saved + 1, of |-> of]]
    /\ replacing' = [camera |-> c, kind |-> "rois"]
    /\ saved' = saved + 1

PutRois ==
    /\ \E c \in Cameras : ReplaceRois(c, c)
    /\ UNCHANGED <<server, sources, worker, session, page>>

\* Then, if it concerns the selected camera, the analysis is told to start anew. A new
\* source also takes the error back.
TellAnalysis ==
    /\ ~Unlocked /\ replacing' = Nothing
    /\ IF replacing.camera = camera
       THEN /\ generation' = generation + 1
            /\ view' = [NoView EXCEPT !.error = view.error /\ replacing.kind = "rois"]
       ELSE UNCHANGED <<generation, view>>
    /\ UNCHANGED <<camera, direction, files, worker, session, page>>

(* --- the analysing thread ----------------------------------------------------- *)

Goes(step) == worker' = [worker EXCEPT !.step = step]

\* The loop looks at the settings, under the lock.
Look ==
    /\ worker.step = "top" /\ Unlocked
    /\ worker' = [step |-> IF session = Nothing THEN "load"
                           ELSE IF session.generation # generation THEN "load" ELSE "frame",
                  current |-> generation, camera |-> camera, direction |-> direction]
    /\ UNCHANGED <<server, files, replacing, session, page>>

\* Another analysis is needed: its files are read without the lock.
LoadRois ==
    /\ worker.step = "load" /\ Goes("open")
    /\ session' = [generation |-> worker.current, rois |-> rois[worker.camera].save,
                   source |-> sources[worker.camera],
                   vehicles |-> [v \in Vehicles |-> NewVehicle], tracks |-> {},
                   drives |-> 0, events |-> <<>>]
    /\ UNCHANGED <<server, files, replacing, page>>

OpenSource ==
    /\ worker.step = "open" /\ Goes("frame")
    /\ session' = [session EXCEPT !.source = sources[worker.camera]]
    /\ UNCHANGED <<server, files, replacing, page>>

\* WrongWayDetector.update: a vehicle that drives along, or does not move or is in no ROI
\* ("still"), starts over. A confirmed wrong-way drive survives that, but not the reverse
\* frame that comes next: the vehicle is a candidate again, though its event stays logged.
Reversed(v) ==
    [v EXCEPT !.frames = IF @ < Confirm THEN @ + 1 ELSE Confirm,
              !.state = IF v.frames + 1 >= Confirm THEN "WRONG_WAY" ELSE "WRONG_WAY_CANDIDATE"]

Judged(v, seen) ==
    IF seen = "reverse" THEN Reversed(v)
    ELSE [v EXCEPT !.frames = 0, !.state = IF @ = "WRONG_WAY" THEN @ ELSE "NORMAL"]

\* event_started
Starts(v) == v.state = "WRONG_WAY" /\ v.drive = 0

\* appendleft to a deque of MaxEvents, where the oldest falls out.
Listed(events, entry) ==
    <<entry>> \o SubSeq(events, 1, IF Len(events) < MaxEvents THEN Len(events) ELSE MaxEvents - 1)

Sightings == IF session.rois = 0 THEN {"still"} ELSE {"still", "reverse", "along"}

\* VideoSession.next_frame, up to the detections.
NextFrame ==
    /\ worker.step = "frame" /\ Goes("detect")
    /\ session' = [session EXCEPT !.tracks = {}]
    /\ UNCHANGED <<server, files, replacing, page>>

\* A vehicle that is detected in the frame. The number of the drive stands for the time in
\* the entry of the list; a vehicle keeps that of its first, only to be compared with the
\* list.
Detect ==
    /\ worker.step = "detect"
    /\ \E v \in Vehicles \ {t.id : t \in session.tracks}, seen \in Sightings :
          LET judged == Judged(session.vehicles[v], seen)
              new == session.drives + 1
              known == IF Starts(judged) THEN [judged EXCEPT !.drive = IF @ = 0 THEN new ELSE @]
                       ELSE judged
              track == [id |-> v, state |-> known.state, drive |-> known.drive]
          IN session' = [session EXCEPT !.vehicles[v] = known, !.tracks = @ \cup {track},
                !.drives = IF Starts(judged) THEN new ELSE @,
                !.events = IF Starts(judged) THEN Listed(@, [id |-> v, drive |-> new]) ELSE @]
    /\ UNCHANGED <<server, files, replacing, worker, page>>

FrameIsDone ==
    /\ worker.step = "detect" /\ Goes("publish")
    /\ UNCHANGED <<server, files, replacing, session, page>>

\* A film that ends is shown again.
EndOfFilm ==
    /\ worker.step = "frame" /\ session.source.mode = "test"
    /\ session' = Nothing /\ Goes("top")
    /\ UNCHANGED <<server, files, replacing, page>>

\* Mutant: the settings are not looked at again.
PublishAnyway ==
    /\ worker.step = "publish" /\ Unlocked /\ Goes("top")
    /\ view' = [of |-> [camera |-> worker.camera, direction |-> worker.direction,
                        rois |-> session.rois, source |-> session.source.save],
                tracks |-> session.tracks, picture |-> TRUE, error |-> FALSE,
                events |-> session.events]
    /\ UNCHANGED <<camera, direction, generation, files, replacing, session, page>>

\* The result counts if the settings are still those the loop looked at.
Publish ==
    /\ worker.step = "publish" /\ Unlocked /\ Goes("top")
    /\ view' = IF worker.current # generation THEN view
               ELSE [of |-> [camera |-> worker.camera, direction |-> worker.direction,
                             rois |-> session.rois, source |-> session.source.save],
                     tracks |-> session.tracks, picture |-> TRUE, error |-> FALSE,
                     events |-> session.events]
    /\ UNCHANGED <<camera, direction, generation, files, replacing, session, page>>

\* The source cannot be opened, the camera is gone, or the picture cannot be encoded.
InputFails ==
    /\ worker.step \in {"load", "open", "frame", "detect"} /\ Unlocked /\ Goes("top")
    /\ view' = IF worker.current # generation THEN view
               ELSE [view EXCEPT !.error = TRUE, !.picture = FALSE]
    /\ session' = Nothing
    /\ UNCHANGED <<camera, direction, generation, files, replacing, page>>

(* --- the page -------------------------------------------------------------------- *)

\* The page learns which camera is selected. If it is another, an open editor aborts its
\* load and loads the ROIs of that camera; until they come it keeps those it has.
Learns(c, frame) ==
    /\ data' = [camera |-> c, frame |-> frame]
    /\ editor' = IF editor.open /\ c # data.camera
                 THEN [editor EXCEPT !.loads = {c}, !.failed = FALSE] ELSE editor

\* Whether there is a picture depends on the worker, which is anywhere when the page asks.
Poll ==
    /\ poll = Nothing /\ Unlocked
    /\ \E frame \in BOOLEAN : poll' = [camera |-> camera, frame |-> frame]
    /\ UNCHANGED <<server, files, replacing, worker, session, data, post, editor, unloaded>>

PollAnswered ==
    /\ poll # Nothing /\ poll' = Nothing
    /\ Learns(poll.camera, poll.frame)
    /\ UNCHANGED <<server, files, replacing, worker, session, post, unloaded>>

PollFails ==
    /\ poll # Nothing /\ poll' = Nothing
    /\ UNCHANGED <<server, files, replacing, worker, session, data, post, editor, unloaded>>

\* The analysis is restarted; another camera can be chosen while no ROIs are edited.
Restart ==
    /\ post = Nothing
    /\ \E c \in IF editor.open THEN {data.camera} ELSE Cameras :
          post' = [camera |-> c, step |-> "sent"]
    /\ UNCHANGED <<server, files, replacing, worker, session, data, poll, editor, unloaded>>

RestartArrives ==
    /\ post # Nothing /\ post.step = "sent"
    /\ \E d \in {"normal", "reverse"} : Settle(post.camera, d)
    /\ post' = [post EXCEPT !.step = "done"]
    /\ UNCHANGED <<files, replacing, worker, session, data, poll, editor, unloaded>>

RestartAnswered ==
    /\ post # Nothing /\ post' = Nothing
    /\ IF post.step = "done" THEN Learns(post.camera, FALSE) ELSE UNCHANGED <<data, editor>>
    /\ UNCHANGED <<server, files, replacing, worker, session, poll, unloaded>>

Edits(change) ==
    /\ editor' = change
    /\ UNCHANGED <<server, files, replacing, worker, session, data, poll, post>>

EditRois ==
    /\ ~editor.open /\ post = Nothing /\ data.frame
    /\ Edits([Closed EXCEPT !.open = TRUE, !.loads = {data.camera}])
    /\ UNCHANGED unloaded

RoisLoaded ==
    /\ \E c \in editor.loads :
          \/ Edits([editor EXCEPT !.loads = @ \ {c}, !.draft = rois[c].of, !.ready = TRUE])
          \/ Edits([editor EXCEPT !.loads = @ \ {c}, !.failed = TRUE])
    /\ UNCHANGED unloaded

\* defaults: the example takes the place of what was drawn.
LoadDefaults ==
    /\ editor.ready
    /\ Edits([editor EXCEPT !.draft = "example"])
    /\ UNCHANGED unloaded

CloseEditor ==
    /\ editor.open /\ editor.saving = Nothing
    /\ Edits(Closed)
    /\ UNCHANGED unloaded

SaveRois ==
    /\ editor.ready /\ editor.saving = Nothing
    /\ Edits([editor EXCEPT !.saving =
                 [camera |-> data.camera, of |-> editor.draft, step |-> "sent"]])
    /\ unloaded' = (unloaded \/ editor.loads # {} \/ editor.failed)

SaveArrives ==
    /\ editor.saving # Nothing /\ editor.saving.step = "sent"
    /\ ReplaceRois(editor.saving.camera, editor.saving.of)
    /\ editor' = [editor EXCEPT !.saving.step = "done"]
    /\ UNCHANGED <<server, sources, worker, session, data, poll, post, unloaded>>

\* Saved: the editor is closed. It stays open when the ROIs are refused or the answer is lost.
SaveAnswered ==
    /\ editor.saving # Nothing
    /\ \/ editor.saving.step = "done" /\ Unlocked /\ Edits(Closed)
       \/ Edits([editor EXCEPT !.saving = Nothing])
    /\ UNCHANGED unloaded

Clients == PostSettings \/ PutSource \/ PutRois \/ TellAnalysis

Analysis ==
    \/ Look \/ LoadRois \/ OpenSource \/ NextFrame \/ Detect \/ FrameIsDone \/ EndOfFilm
    \/ Publish \/ InputFails

EditingPage ==
    \/ Poll \/ PollAnswered \/ PollFails \/ Restart \/ RestartArrives \/ RestartAnswered
    \/ EditRois \/ RoisLoaded \/ LoadDefaults \/ CloseEditor
    \/ SaveRois \/ SaveArrives \/ SaveAnswered

VisionNext == Clients \/ Analysis \/ EditingPage

VisionSpec == VisionInit /\ [][VisionNext]_visionVars

\* Settings change in the middle of an analysis, files without the lock, cameras under an
\* open editor. Yet what the service shows was found with the settings it has; no vehicle is
\* twice in its list of wrong-way drives or listed anew, however often it turns, and one that
\* it shows driving the wrong way is in the list, unless that is full of later drives; and the
\* ROIs of a camera were drawn for it, unless they were saved before those of a camera that
\* was selected meanwhile had come.
VisionShowsWhatIsSet ==
    /\ (Unlocked /\ view.of # Nothing) => view.of = Settings
    /\ \A i, j \in 1..Len(view.events) : view.events[i].id = view.events[j].id => i = j
    /\ \A t \in view.tracks, i \in 1..Len(view.events) :
          view.events[i].id = t.id => view.events[i].drive = t.drive
    /\ \A t \in view.tracks : t.state = "WRONG_WAY" =>
          \/ \E i \in 1..Len(view.events) : view.events[i].id = t.id
          \/ /\ Len(view.events) = MaxEvents
             /\ \A i \in 1..MaxEvents : view.events[i].drive > t.drive
    /\ unloaded \/ \A c \in Cameras : rois[c].of \in {c, "example"}
=============================================================================
