----------------------- MODULE ZoneControllerProofs -----------------------
(***************************************************************************)
(* Proofs about ZoneController, for any set of tracks and any thresholds:  *)
(* the types; that the gate is opened only when it is clear, which needs   *)
(* that the clear period the code counts never runs ahead of what the      *)
(* frames showed (ClearIsQuiet); what ends a hazard; and that a closed     *)
(* gate is opened again and no command is repeated, which need that the    *)
(* command that is out is the last one given, and that a hazard or a       *)
(* closing keeps the incident open (ReopenInv).                            *)
(***************************************************************************)
EXTENDS ZoneController, TLAPS

-----------------------------------------------------------------------------
(* Ages.                                                                   *)

\* An age that grows stays an age.
LEMMA OlderIsAge ==
    ASSUME NEW bound \in Nat, NEW age \in Ages(bound), NEW d \in Nat
    PROVE  Older(age, d, bound) \in Ages(bound)
BY DEF Older, Ages, Never

\* A count that starts anew stays an age, and is one from then on.
LEMMA SinceIsAge ==
    ASSUME NEW bound \in Nat, NEW age \in Ages(bound)
    PROVE  Since(age) \in 0..bound /\ Since(age) \in Ages(bound)
BY DEF Since, Ages, Never

-----------------------------------------------------------------------------
(* Tracks.                                                                 *)

\* Values a track may hold make a track.
LEMMA TrackIs ==
    ASSUME NEW s \in 0..LostSeconds + 1, NEW r \in Ages(ConfirmSeconds),
           NEW n \in Ages(RecoverySeconds), NEW h \in BOOLEAN
    PROVE  [seen |-> s, reverse |-> r, normal |-> n, hazardous |-> h] \in Track
BY DEF Track

LEMMA AgedIsTrack ==
    ASSUME NEW t \in Track, NEW d \in Nat
    PROVE  Aged(t, d) \in Track
<1>1. t # NoTrack
  BY DEF Track, NoTrack
<1>2. /\ Older(t.reverse, d, ConfirmSeconds) \in Ages(ConfirmSeconds)
      /\ Older(t.normal, d, RecoverySeconds) \in Ages(RecoverySeconds)
  BY ZoneAssumption, OlderIsAge DEF Track
<1>3. Older(t.seen, d, LostSeconds + 1) \in 0..LostSeconds + 1
  BY ZoneAssumption DEF Older, Never, Track
<1>4. t.hazardous \in BOOLEAN
  BY DEF Track
<1> QED
  BY <1>1, <1>2, <1>3, <1>4, TrackIs DEF Aged

LEMMA ObservedIsTrack ==
    ASSUME NEW t \in Track \cup {NoTrack}, NEW motion \in Motions
    PROVE  Observed(t, motion) \in Track \cup {NoTrack}
<1>1. NewTrack \in Track
  <2>1. /\ 0 \in 0..LostSeconds + 1
        /\ Never \in Ages(ConfirmSeconds)
        /\ Never \in Ages(RecoverySeconds)
    BY ZoneAssumption DEF Ages
  <2> QED
    BY <2>1, TrackIs DEF NewTrack
<1>2. ASSUME t \in Track
      PROVE  /\ Seen(Unsure(t)) \in Track
             /\ Reversing(t) \in Track
             /\ Normal(t) \in Track
  <2>1. /\ 0 \in 0..LostSeconds + 1
        /\ Never \in Ages(ConfirmSeconds)
        /\ Never \in Ages(RecoverySeconds)
        /\ t.hazardous \in BOOLEAN
    BY <1>2, ZoneAssumption DEF Ages, Track
  <2>2. Seen(Unsure(t)) \in Track
    <3>1. Seen(Unsure(t)) = [seen |-> 0, reverse |-> Never, normal |-> Never,
                             hazardous |-> t.hazardous]
      BY DEF Seen, Unsure
    <3> QED
      BY <2>1, <3>1, TrackIs
  <2>3. Reversing(t) \in Track
    <3>1. Since(t.reverse) \in Ages(ConfirmSeconds)
      BY <1>2, ZoneAssumption, SinceIsAge DEF Track
    <3>2. (t.hazardous \/ Since(t.reverse) = ConfirmSeconds) \in BOOLEAN
      OBVIOUS
    <3> QED
      BY <2>1, <3>1, <3>2, TrackIs DEF Reversing
  <2>4. Normal(t) \in Track
    <3>1. Since(t.normal) \in Ages(RecoverySeconds)
      BY <1>2, ZoneAssumption, SinceIsAge DEF Track
    <3>2. (t.hazardous /\ Since(t.normal) < RecoverySeconds) \in BOOLEAN
      OBVIOUS
    <3> QED
      BY <2>1, <3>1, <3>2, TrackIs DEF Normal
  <2> QED
    BY <2>2, <2>3, <2>4
<1> QED
  BY <1>1, <1>2 DEF Observed

LEMMA KeptIsTrack ==
    ASSUME NEW t \in Track \cup {NoTrack}
    PROVE  Kept(t) \in Track \cup {NoTrack}
BY DEF Kept, Unsure, Track, Ages, Never

\* What a frame, delivered or not, does to the tracks.
LEMMA TracksStayTracks ==
    ASSUME TypeOK, NEW d \in 1..MaxGap
    PROVE  /\ \A motion \in [Ids -> Motions], exited \in SUBSET Ids :
                 TracksAfter(d, motion, exited) \in [Ids -> Track \cup {NoTrack}]
           /\ [id \in Ids |-> IF tracks[id] = NoTrack THEN NoTrack
                              ELSE Unsure(Aged(tracks[id], d))]
                 \in [Ids -> Track \cup {NoTrack}]
<1>1. d \in Nat
  BY ZoneAssumption
<1>2. \A id \in Ids : Aged(tracks[id], d) \in Track \cup {NoTrack}
  <2> TAKE id \in Ids
  <2>1. CASE tracks[id] = NoTrack
    BY <2>1 DEF Aged
  <2>2. CASE tracks[id] \in Track
    BY <1>1, <2>2, AgedIsTrack
  <2> QED
    BY <2>1, <2>2 DEF TypeOK
<1>3. ASSUME NEW motion \in [Ids -> Motions], NEW exited \in SUBSET Ids
      PROVE  TracksAfter(d, motion, exited) \in [Ids -> Track \cup {NoTrack}]
  <2>1. ASSUME NEW id \in Ids
        PROVE  Kept(Observed(Aged(tracks[id], d), motion[id])) \in Track \cup {NoTrack}
    <3>1. motion[id] \in Motions
      OBVIOUS
    <3> QED
      BY <1>2, <3>1, ObservedIsTrack, KeptIsTrack
  <2> QED
    BY <2>1 DEF TracksAfter
<1>4. ASSUME NEW id \in Ids, tracks[id] # NoTrack
      PROVE  Unsure(Aged(tracks[id], d)) \in Track
  <2>1. tracks[id] \in Track
    BY <1>4 DEF TypeOK
  <2>2. Aged(tracks[id], d) \in Track
    BY <1>1, <2>1, AgedIsTrack
  <2> QED
    BY <2>2 DEF Unsure, Track, Ages, Never
<1> QED
  BY <1>3, <1>4

-----------------------------------------------------------------------------
(* The feedback of the board.                                              *)

LEMMA FeedbackTypes ==
    ASSUME TypeOK, NEW d \in 1..MaxGap, NEW report \in Reports
    PROVE  /\ PendingAfter(d, report) \in Commands \cup {"none"}
           /\ PendingForAfter(d, report) \in Ages(CommandTimeout)
           /\ PendingAfter(d, report) = "none" <=> PendingForAfter(d, report) = Never
           /\ FaultAfter(d, report) \in BOOLEAN
           /\ IncidentAfter(report) \in BOOLEAN
<1>1. /\ CommandTimeout \in Nat
      /\ d \in Nat
  BY ZoneAssumption
<1>2. Older(pendingFor, d, CommandTimeout) \in Ages(CommandTimeout)
  BY <1>1, OlderIsAge DEF TypeOK
<1>3. Never \in Ages(CommandTimeout)
  BY DEF Ages
<1>4. PendingAfter(d, report) \in Commands \cup {"none"}
  BY DEF PendingAfter, TypeOK
<1>5. PendingForAfter(d, report) \in Ages(CommandTimeout)
  BY <1>2, <1>3 DEF PendingForAfter
<1>6. PendingAfter(d, report) = "none" <=> PendingForAfter(d, report) = Never
  <2>1. pendingFor # Never => Older(pendingFor, d, CommandTimeout) # Never
    BY <1>1 DEF Older, Never, Ages, TypeOK
  <2>2. PendingAfter(d, report) # "none" => pendingFor # Never
    BY DEF PendingAfter, TypeOK
  <2> QED
    BY <2>1, <2>2 DEF PendingForAfter
<1>7. FaultAfter(d, report) \in BOOLEAN
  BY DEF FaultAfter, TypeOK
<1>8. IncidentAfter(report) \in BOOLEAN
  BY DEF IncidentAfter, TypeOK
<1> QED
  BY <1>4, <1>5, <1>6, <1>7, <1>8

\* What is remembered of a frame has its type.
LEMMA RecordTypes ==
    ASSUME TypeOK, NEW what \in Commands \cup {"none"}, NEW exited \in SUBSET Ids,
           NEW report \in Reports, Records(what, exited, report)
    PROVE  /\ intent' \in Commands \cup {"none"}
           /\ left' \subseteq Ids
           /\ last' \in Commands \cup {"none"}
           /\ confirmed' \in BOOLEAN
           /\ overlapped' \in BOOLEAN
BY DEF Records, TypeOK

-----------------------------------------------------------------------------
(* The inductive invariant.                                                *)

\* The period after which the code opens the gate is one in which every
\* frame showed a clear zone.
ClearIsQuiet == clearFor # Never => quietFor # Never /\ quietFor >= clearFor

ZoneInv ==
    /\ TypeOK
    /\ ClearIsQuiet
    /\ OpensOnlyWhenClear

LEMMA ZoneInit == Init => ZoneInv
<1> SUFFICES ASSUME Init PROVE ZoneInv
  OBVIOUS
<1>1. TypeOK
  BY DEF Init, TypeOK, Ages, Commands, Never
<1>2. ClearIsQuiet
  BY DEF Init, ClearIsQuiet
<1>3. OpensOnlyWhenClear
  BY DEF Init, OpensOnlyWhenClear
<1> QED
  BY <1>1, <1>2, <1>3 DEF ZoneInv

LEMMA BlindKeeps ==
    ASSUME ZoneInv, NEW d \in 1..MaxGap, NEW report \in Reports, Blind(d, report)
    PROVE  ZoneInv'
<1>0. TypeOK
  BY DEF ZoneInv
<1>1. Records("none", {}, report)
  BY DEF Blind
<1>2. TypeOK'
  <2>1. /\ pending' \in Commands \cup {"none"}
        /\ pendingFor' \in Ages(CommandTimeout)
        /\ (pending = "none" <=> pendingFor = Never)'
        /\ commandFault' \in BOOLEAN
        /\ incident' \in BOOLEAN
    BY <1>0, FeedbackTypes DEF Blind
  <2>2. tracks' \in [Ids -> Track \cup {NoTrack}]
    BY <1>0, TracksStayTracks DEF Blind
  <2>3. /\ clearFor' \in Ages(ClearSeconds)
        /\ quietFor' \in Ages(ClearSeconds)
    BY DEF Blind, ClearWhenBlind, Ages
  <2> QED
    BY <1>0, <1>1, <2>1, <2>2, <2>3, RecordTypes DEF TypeOK
<1>3. ClearIsQuiet'
  BY DEF Blind, ClearWhenBlind, ClearIsQuiet
<1>4. OpensOnlyWhenClear'
  BY <1>1 DEF Records, OpensOnlyWhenClear
<1> QED
  BY <1>2, <1>3, <1>4 DEF ZoneInv

LEMMA FrameKeeps ==
    ASSUME ZoneInv, NEW d \in 1..MaxGap, NEW motion \in [Ids -> Motions],
           NEW exited \in SUBSET Ids, Frame(d, motion, exited)
    PROVE  ZoneInv'
<1> PICK report \in Reports, safe \in BOOLEAN :
        Decide(d, report, safe, Confirms(d, motion), exited)
  BY DEF Frame
<1> DEFINE command == PendingAfter(d, report)
           fault == FaultAfter(d, report)
           open == IncidentAfter(report) \/ Confirms(d, motion)
           danger == \E id \in Ids : Hazardous(tracks'[id])
           candidates == \E id \in Ids : Candidate(tracks'[id])
           clear == MayClear(danger, candidates, open, report, safe)
           since == IF clear THEN Since(Older(clearFor, d, ClearSeconds)) ELSE Never
           what == CASE MustClose(danger, report, command, fault) -> "close"
                     [] clear /\ MayOpen(since, command, fault) -> "open"
                     [] OTHER -> "none"
           quiet == ~danger /\ ~candidates /\ safe /\ report = "closed"
<1>1. /\ incident' = open
      /\ clearFor' = since
      /\ pending' = IF what # "none" THEN what ELSE command
      /\ pendingFor' = IF what # "none" THEN 0 ELSE PendingForAfter(d, report)
      /\ commandFault' \in IF what = "none" THEN {fault} ELSE {fault, TRUE}
      /\ quietFor' = IF quiet THEN Since(Older(quietFor, d, ClearSeconds)) ELSE Never
      /\ Records(what, exited, report)
  BY Zenon DEF Decide
<1>2. /\ TypeOK
      /\ ClearIsQuiet
      /\ d \in Nat
      /\ ClearSeconds \in Nat \ {0}
      /\ CommandTimeout \in Nat
  BY ZoneAssumption DEF ZoneInv
<1>3. clear => quiet
  BY DEF MayClear
<1>4. what \in Commands \cup {"none"}
  BY DEF Commands
<1>5. what = "open" => clear /\ since = ClearSeconds
  BY DEF MayOpen
<1> HIDE DEF clear, quiet, what, danger, candidates
<1>6. /\ Since(Older(clearFor, d, ClearSeconds)) \in 0..ClearSeconds
      /\ Since(Older(quietFor, d, ClearSeconds)) \in 0..ClearSeconds
  BY <1>2, OlderIsAge, SinceIsAge DEF TypeOK
<1>7. TypeOK'
  <2>1. /\ pending' \in Commands \cup {"none"}
        /\ pendingFor' \in Ages(CommandTimeout)
        /\ (pending = "none" <=> pendingFor = Never)'
    <3>1. CASE what = "none"
      BY <1>1, <1>2, <3>1, FeedbackTypes
    <3>2. CASE what # "none"
      BY <1>1, <1>2, <1>4, <3>2 DEF Ages, Never
    <3> QED
      BY <3>1, <3>2
  <2>2. commandFault' \in BOOLEAN
    <3>1. fault \in BOOLEAN
      BY <1>2, FeedbackTypes
    <3> HIDE DEF fault
    <3> QED
      BY <1>1, <3>1
  <2>3. incident' \in BOOLEAN
    BY <1>1
  <2>4. tracks' \in [Ids -> Track \cup {NoTrack}]
    BY <1>2, TracksStayTracks DEF Frame
  <2>5. /\ clearFor' \in Ages(ClearSeconds)
        /\ quietFor' \in Ages(ClearSeconds)
    BY <1>1, <1>6 DEF Ages
  <2>6. /\ intent' \in Commands \cup {"none"}
        /\ left' \subseteq Ids
        /\ last' \in Commands \cup {"none"}
        /\ confirmed' \in BOOLEAN
        /\ overlapped' \in BOOLEAN
    BY <1>1, <1>2, <1>4, RecordTypes
  <2> QED
    BY <2>1, <2>2, <2>3, <2>4, <2>5, <2>6 DEF TypeOK
<1>8. ClearIsQuiet'
  <2>1. CASE ~clear
    BY <1>1, <2>1 DEF ClearIsQuiet
  <2>2. CASE clear
    <3>1. /\ clearFor' = Since(Older(clearFor, d, ClearSeconds))
          /\ quietFor' = Since(Older(quietFor, d, ClearSeconds))
      BY <1>1, <1>3, <2>2
    <3>2. Since(Older(quietFor, d, ClearSeconds)) >= Since(Older(clearFor, d, ClearSeconds))
      BY <1>2 DEF ClearIsQuiet, TypeOK, Since, Older, Ages, Never
    <3> QED
      BY <1>6, <3>1, <3>2 DEF ClearIsQuiet, Never
  <2> QED
    BY <2>1, <2>2
<1>9. OpensOnlyWhenClear'
  <2> SUFFICES ASSUME intent' = "open"
               PROVE  /\ quietFor' = ClearSeconds
                      /\ \A id \in Ids : ~Hazardous(tracks'[id]) /\ ~Candidate(tracks'[id])
    BY Zenon DEF OpensOnlyWhenClear
  <2>1. what = "open"
    BY <1>1 DEF Records
  <2>2. /\ quiet
        /\ clearFor' = ClearSeconds
    BY <1>1, <1>3, <1>5, <2>1
  <2>3. \A id \in Ids : ~Hazardous(tracks'[id]) /\ ~Candidate(tracks'[id])
    BY <2>2 DEF quiet, danger, candidates
  <2>4. quietFor' \in 0..ClearSeconds
    BY <1>1, <1>6, <2>2
  <2> QED
    BY <1>2, <1>8, <2>2, <2>3, <2>4 DEF ClearIsQuiet, Never
<1> QED
  BY <1>7, <1>8, <1>9 DEF ZoneInv

LEMMA ZoneStep == ZoneInv /\ [Next]_vars => ZoneInv'
<1> SUFFICES ASSUME ZoneInv, [Next]_vars PROVE ZoneInv'
  OBVIOUS
<1>1. CASE UNCHANGED vars
  <2>1. TypeOK'
    BY <1>1 DEF ZoneInv, TypeOK, vars, stateVars, historyVars
  <2>2. ClearIsQuiet'
    BY <1>1 DEF ZoneInv, ClearIsQuiet, vars, stateVars, historyVars
  <2>3. OpensOnlyWhenClear'
    BY <1>1 DEF ZoneInv, OpensOnlyWhenClear, vars, stateVars, historyVars
  <2> QED
    BY <2>1, <2>2, <2>3 DEF ZoneInv
<1>2. CASE Next
  BY <1>2, BlindKeeps, FrameKeeps DEF Next
<1> QED
  BY <1>1, <1>2

\* The controller's variables keep their types, and a command is pending
\* exactly as long as its age is counted.
THEOREM TypeCorrect == Spec => []TypeOK
BY ZoneInit, ZoneStep, PTL DEF Spec, ZoneInv

\* The gate is opened only after ClearSeconds in which every frame came and
\* showed neither a hazardous track nor a candidate, with the board confirming
\* that it is safe and the gate closed, whatever the thresholds.
THEOREM OpenedOnlyWhenClear == Spec => []OpensOnlyWhenClear
BY ZoneInit, ZoneStep, PTL DEF Spec, ZoneInv

-----------------------------------------------------------------------------
(* Hazards.                                                                *)

\* What happens to a hazardous track in one frame, in which it has not left.
LEMMA HazardStays ==
    ASSUME NEW t \in Track, t.hazardous, NEW d \in Nat, NEW motion \in Motions
    PROVE  /\ Kept(Observed(Aged(t, d), motion)) # NoTrack
           /\ \/ Kept(Observed(Aged(t, d), motion)).hazardous
              \/ Kept(Observed(Aged(t, d), motion)).normal = RecoverySeconds
<1> DEFINE u == Aged(t, d)
           v == Observed(u, motion)
<1>1. /\ u \in Track
      /\ u.hazardous
  <2>1. t # NoTrack
    BY DEF Track, NoTrack
  <2> QED
    BY <2>1, AgedIsTrack DEF Aged
<1> HIDE DEF u
<1>2. u # NoTrack
  BY <1>1 DEF Track, NoTrack
<1>3. v.hazardous \/ (v.normal = RecoverySeconds /\ v.seen = 0)
  <2>1. CASE motion = "unseen"
    BY <1>1, <2>1 DEF Observed
  <2>2. CASE motion # "unseen" /\ (Lost(u) \/ motion = "unclear")
    <3>1. v = Seen(Unsure(u))
      BY <1>2, <2>2 DEF Observed
    <3>2. Unsure(u).hazardous
      BY <1>1 DEF Unsure
    <3>3. Seen(Unsure(u)).hazardous = Unsure(u).hazardous
      BY DEF Seen, Unsure
    <3> QED
      BY <3>1, <3>2, <3>3
  <2>3. CASE motion = "reverse" /\ ~Lost(u)
    <3>1. v = Reversing(u)
      BY <1>2, <2>3 DEF Observed
    <3>2. (u.hazardous \/ Since(u.reverse) = ConfirmSeconds) = TRUE
      BY <1>1
    <3>3. Reversing(u).hazardous = (u.hazardous \/ Since(u.reverse) = ConfirmSeconds)
      BY DEF Reversing
    <3> QED
      BY <3>1, <3>2, <3>3
  <2>4. CASE motion = "normal" /\ ~Lost(u)
    <3>1. v = Normal(u)
      BY <1>2, <2>4 DEF Observed
    <3>2. Since(u.normal) \in 0..RecoverySeconds
      BY <1>1, ZoneAssumption, SinceIsAge DEF Track
    <3>3. CASE Since(u.normal) < RecoverySeconds
      <4>1. (u.hazardous /\ Since(u.normal) < RecoverySeconds) = TRUE
        BY <1>1, <3>3
      <4>2. Normal(u).hazardous = (u.hazardous /\ Since(u.normal) < RecoverySeconds)
        BY DEF Normal
      <4> QED
        BY <3>1, <4>1, <4>2
    <3>4. CASE ~(Since(u.normal) < RecoverySeconds)
      BY <3>1, <3>2, <3>4, ZoneAssumption DEF Normal
    <3> QED
      BY <3>3, <3>4
  <2> QED
    BY <2>1, <2>2, <2>3, <2>4 DEF Motions
<1>4. v \in Track
  <2>1. v \in Track \cup {NoTrack}
    BY <1>1, ObservedIsTrack
  <2>2. v # NoTrack
    BY <1>1, <1>2 DEF Observed, Seen, Unsure, Reversing, Normal, NoTrack, NewTrack, Track
  <2> QED
    BY <2>1, <2>2
<1> HIDE DEF v
<1>5. v # NoTrack
  BY <1>4 DEF Track, NoTrack
<1>6. Kept(v) # NoTrack /\ (Kept(v).hazardous \/ Kept(v).normal = RecoverySeconds)
  <2>1. CASE ~Lost(v)
    BY <1>3, <1>5, <2>1 DEF Kept
  <2>2. CASE Lost(v)
    <3>1. v.hazardous
      BY <1>3, <2>2, ZoneAssumption DEF Lost
    <3>2. Kept(v) = Unsure(v)
      BY <1>5, <2>2, <3>1 DEF Kept
    <3>3. Unsure(v).hazardous
      BY <3>1 DEF Unsure
    <3>4. Unsure(v) # NoTrack
      BY DEF Unsure, NoTrack
    <3> QED
      BY <3>2, <3>3, <3>4
  <2> QED
    BY <2>1, <2>2
<1> QED
  BY <1>6 DEF v, u

\* Whatever happens in between, a hazard ends only when its track is confirmed
\* to have left or has driven in the right direction for RecoverySeconds.
THEOREM HazardsEndOnlyInSafety == Spec => HazardsAreNotForgotten
<1> DEFINE Ends(id) == Hazardous(tracks[id]) /\ ~Hazardous(tracks'[id])
           Safely(id) == \/ id \in left'
                         \/ tracks'[id] # NoTrack /\ tracks'[id].normal = RecoverySeconds
<1>1. TypeOK /\ [Next]_vars => [\A id \in Ids : Ends(id) => Safely(id)]_vars
  <2> SUFFICES ASSUME TypeOK, Next, NEW id \in Ids, Ends(id) PROVE Safely(id)
    OBVIOUS
  <2>1. /\ tracks[id] \in Track
        /\ tracks[id].hazardous
    BY DEF TypeOK, Hazardous
  <2>2. ASSUME NEW d \in 1..MaxGap, NEW report \in Reports, Blind(d, report)
        PROVE  FALSE
    <3>1. tracks[id] # NoTrack
      BY DEF Hazardous
    <3>2. tracks'[id] = Unsure(Aged(tracks[id], d))
      BY <2>2, <3>1 DEF Blind
    <3>3. Aged(tracks[id], d).hazardous
      <4>1. Aged(tracks[id], d).hazardous = tracks[id].hazardous
        BY <3>1 DEF Aged
      <4> QED
        BY <2>1, <4>1
    <3>4. tracks'[id].hazardous
      BY <3>2, <3>3 DEF Unsure
    <3>5. tracks'[id] # NoTrack
      BY <3>2 DEF Unsure, NoTrack
    <3> QED
      BY <3>4, <3>5 DEF Hazardous
  <2>3. ASSUME NEW d \in 1..MaxGap, NEW motion \in [Ids -> Motions],
               NEW exited \in SUBSET Ids, Frame(d, motion, exited)
        PROVE  Safely(id)
    <3>1. left' = exited
      BY <2>3 DEF Frame, Decide, Records
    <3>2. CASE id \in exited
      BY <3>1, <3>2
    <3>3. CASE id \notin exited
      <4>1. tracks'[id] = Kept(Observed(Aged(tracks[id], d), motion[id]))
        BY <2>3, <3>3 DEF Frame, TracksAfter
      <4>2. /\ tracks'[id] # NoTrack
            /\ tracks'[id].hazardous \/ tracks'[id].normal = RecoverySeconds
        BY <2>1, <4>1, ZoneAssumption, HazardStays
      <4> QED
        BY <4>2 DEF Hazardous
    <3> QED
      BY <3>2, <3>3
  <2> QED
    BY <2>2, <2>3 DEF Next
<1> QED
  BY <1>1, TypeCorrect, PTL DEF Spec, HazardsAreNotForgotten

-----------------------------------------------------------------------------
(* The commands, and the gate that is opened again.                        *)

\* The command that is out is the last that was given; once it is done, the
\* gate has been where the command wanted it.
CommandIsLast ==
    /\ pending # "none" => pending = last
    /\ pending = "none" /\ last # "none" => confirmed

\* A hazard keeps the incident open, unless an opening was completed with it.
HazardHasIncident == \A id \in Ids : Hazardous(tracks[id]) => incident \/ overlapped

\* So does a gate that was closed, and its clear period misses no frame.
ClosedHasIncident ==
    last = "close" => overlapped \/ (incident /\ clearFor = quietFor)

ReopenInv ==
    TypeOK /\ CommandIsLast /\ HazardHasIncident /\ ClosedHasIncident
    /\ ReopenedUnlessOverlapped

\* What step decides in a frame.
LEMMA FrameDecides ==
    ASSUME NEW d \in 1..MaxGap, NEW motion \in [Ids -> Motions],
           NEW exited \in SUBSET Ids, Frame(d, motion, exited)
    PROVE  \E report \in Reports, what \in Commands \cup {"none"},
              clear \in BOOLEAN, quiet \in BOOLEAN :
              /\ incident' = (IncidentAfter(report) \/ Confirms(d, motion))
              /\ quiet => report = "closed" /\ \A id \in Ids : ~Hazardous(tracks'[id])
              /\ clear <=> quiet /\ incident'
              /\ clearFor' = IF clear THEN Since(Older(clearFor, d, ClearSeconds)) ELSE Never
              /\ quietFor' = IF quiet THEN Since(Older(quietFor, d, ClearSeconds)) ELSE Never
              /\ what = "close" => /\ \E id \in Ids : Hazardous(tracks'[id])
                                   /\ report # "closed"
                                   /\ PendingAfter(d, report) # "close"
              /\ what = "open" => /\ clear
                                  /\ PendingAfter(d, report) = "none"
              /\ clear /\ clearFor' = ClearSeconds /\ what = "none"
                   => PendingAfter(d, report) # "none" \/ commandFault'
              /\ pending' = IF what # "none" THEN what ELSE PendingAfter(d, report)
              /\ Records(what, exited, report)
<1> PICK report \in Reports, safe \in BOOLEAN :
        Decide(d, report, safe, Confirms(d, motion), exited)
  BY DEF Frame
<1> DEFINE command == PendingAfter(d, report)
           fault == FaultAfter(d, report)
           open == IncidentAfter(report) \/ Confirms(d, motion)
           danger == \E id \in Ids : Hazardous(tracks'[id])
           candidates == \E id \in Ids : Candidate(tracks'[id])
           clear == MayClear(danger, candidates, open, report, safe)
           since == IF clear THEN Since(Older(clearFor, d, ClearSeconds)) ELSE Never
           what == CASE MustClose(danger, report, command, fault) -> "close"
                     [] clear /\ MayOpen(since, command, fault) -> "open"
                     [] OTHER -> "none"
           quiet == ~danger /\ ~candidates /\ safe /\ report = "closed"
<1>1. /\ incident' = open
      /\ clearFor' = since
      /\ pending' = IF what # "none" THEN what ELSE command
      /\ commandFault' \in IF what = "none" THEN {fault} ELSE {fault, TRUE}
      /\ quietFor' = IF quiet THEN Since(Older(quietFor, d, ClearSeconds)) ELSE Never
      /\ Records(what, exited, report)
  BY Zenon DEF Decide
<1>2. clear <=> quiet /\ open
  BY Zenon DEF MayClear
<1>3. what \in Commands \cup {"none"}
  BY DEF Commands
<1>4. what = "close" => danger /\ report # "closed" /\ command # "close"
  BY DEF MustClose
<1>5. what = "open" => clear /\ command = "none"
  BY DEF MayOpen
<1>6. clear /\ since = ClearSeconds /\ what = "none" => command # "none" \/ fault
  BY DEF MayOpen
<1>7. quiet => report = "closed" /\ ~danger
  OBVIOUS
<1>8. clear \in BOOLEAN /\ quiet \in BOOLEAN
  BY Zenon DEF MayClear
<1> HIDE DEF what, clear, quiet, fault, command, open
<1>9. what = "none" => commandFault' = fault
  BY <1>1
<1> DEFINE given == what
           isClear == clear
           isQuiet == quiet
<1>10. /\ incident' = (IncidentAfter(report) \/ Confirms(d, motion))
       /\ isQuiet => report = "closed" /\ \A id \in Ids : ~Hazardous(tracks'[id])
       /\ isClear <=> isQuiet /\ incident'
       /\ clearFor' = IF isClear THEN Since(Older(clearFor, d, ClearSeconds)) ELSE Never
       /\ quietFor' = IF isQuiet THEN Since(Older(quietFor, d, ClearSeconds)) ELSE Never
       /\ given = "close" => /\ \E id \in Ids : Hazardous(tracks'[id])
                             /\ report # "closed"
                             /\ PendingAfter(d, report) # "close"
       /\ given = "open" => isClear /\ PendingAfter(d, report) = "none"
       /\ isClear /\ clearFor' = ClearSeconds /\ given = "none"
            => PendingAfter(d, report) # "none" \/ commandFault'
       /\ pending' = IF given # "none" THEN given ELSE PendingAfter(d, report)
       /\ Records(given, exited, report)
  BY <1>1, <1>2, <1>4, <1>5, <1>6, <1>7, <1>9 DEF command, open
<1> HIDE DEF given, isClear, isQuiet
<1>11. given \in Commands \cup {"none"} /\ isClear \in BOOLEAN /\ isQuiet \in BOOLEAN
  BY <1>3, <1>8 DEF given, isClear, isQuiet
<1> QED
  BY <1>10, <1>11

\* A track that becomes hazardous in a frame is confirmed in it.
LEMMA NewHazardConfirms ==
    ASSUME TypeOK, NEW d \in 1..MaxGap, NEW motion \in [Ids -> Motions],
           NEW exited \in SUBSET Ids, Frame(d, motion, exited), NEW id \in Ids,
           Hazardous(tracks'[id]), ~Hazardous(tracks[id])
    PROVE  Confirms(d, motion)
<1> DEFINE u == Aged(tracks[id], d)
           v == Observed(u, motion[id])
<1>0. d \in Nat /\ motion[id] \in Motions
  BY ZoneAssumption
<1>1. tracks'[id] = Kept(v)
  BY DEF Frame, TracksAfter, Hazardous
<1>2. CASE tracks[id] = NoTrack
  <2>1. u = NoTrack
    BY <1>2 DEF Aged
  <2>2. v = NoTrack \/ v = NewTrack
    BY <2>1 DEF Observed
  <2>3. Kept(NoTrack) = NoTrack
    BY DEF Kept
  <2>4. ~Lost(NewTrack)
    BY ZoneAssumption DEF Lost, NewTrack
  <2>5. Kept(NewTrack) = NewTrack
    BY <2>4 DEF Kept
  <2> QED
    BY <1>1, <2>2, <2>3, <2>5 DEF Hazardous, NewTrack
<1>3. CASE tracks[id] # NoTrack
  <2>1. tracks[id] \in Track /\ ~tracks[id].hazardous
    BY <1>3 DEF TypeOK, Hazardous
  <2>2. u \in Track /\ u # NoTrack /\ u.hazardous = tracks[id].hazardous
    BY <1>0, <1>3, <2>1, AgedIsTrack DEF Aged, Track, NoTrack
  <2> HIDE DEF u
  <2>3. v # NoTrack /\ v.hazardous
    <3>1. CASE v = NoTrack
      BY <1>1, <3>1 DEF Kept, Hazardous
    <3>2. CASE v # NoTrack
      BY <1>1, <3>2 DEF Kept, Hazardous, Unsure
    <3> QED
      BY <3>1, <3>2
  <2>4. ~(motion[id] = "unseen")
    BY <2>1, <2>2, <2>3 DEF Observed
  <2>5. ~(Lost(u) \/ motion[id] = "unclear")
    <3> SUFFICES ASSUME Lost(u) \/ motion[id] = "unclear" PROVE FALSE
      OBVIOUS
    <3>1. v = Seen(Unsure(u))
      BY <2>2, <2>4 DEF Observed
    <3>2. v.hazardous = u.hazardous
      BY <3>1 DEF Seen, Unsure
    <3> QED
      BY <2>1, <2>2, <2>3, <3>2
  <2>6. motion[id] = "reverse"
    <3> SUFFICES ASSUME motion[id] # "reverse" PROVE FALSE
      OBVIOUS
    <3>1. v = Normal(u)
      BY <2>2, <2>4, <2>5 DEF Observed
    <3>2. v.hazardous = (u.hazardous /\ Since(u.normal) < RecoverySeconds)
      BY <3>1 DEF Normal
    <3> QED
      BY <2>1, <2>2, <2>3, <3>2
  <2>7. v = Reversing(u)
    BY <2>2, <2>5, <2>6 DEF Observed
  <2>8. v.hazardous = (u.hazardous \/ Since(u.reverse) = ConfirmSeconds)
    BY <2>7 DEF Reversing
  <2>9. Since(u.reverse) = ConfirmSeconds
    BY <2>1, <2>2, <2>3, <2>8
  <2> QED
    BY <2>2, <2>5, <2>6, <2>9 DEF Confirms, u
<1> QED
  BY <1>2, <1>3

LEMMA ReopenBlind ==
    ASSUME ReopenInv, NEW d \in 1..MaxGap, NEW report \in Reports, Blind(d, report), TypeOK'
    PROVE  ReopenInv'
<1>0. /\ TypeOK /\ CommandIsLast /\ HazardHasIncident /\ ClosedHasIncident
      /\ ClearSeconds # Never
  BY ZoneAssumption DEF ReopenInv, Never
<1>1. /\ pending' = PendingAfter(d, report) /\ incident' = IncidentAfter(report)
      /\ clearFor' = Never /\ quietFor' = Never
      /\ last' = last /\ confirmed' = (confirmed \/ Reaches(last, report))
      /\ overlapped' = \/ overlapped
                       \/ /\ pending = "open" /\ report = "open"
                          /\ \E id \in Ids : Hazardous(tracks'[id])
  BY DEF Blind, Records, ClearWhenBlind
<1>2. CommandIsLast'
  BY <1>0, <1>1 DEF CommandIsLast, PendingAfter
<1>3. \A id \in Ids : Hazardous(tracks'[id]) => Hazardous(tracks[id])
  <2> SUFFICES ASSUME NEW id \in Ids, Hazardous(tracks'[id]) PROVE Hazardous(tracks[id])
    OBVIOUS
  <2>1. tracks'[id] = IF tracks[id] = NoTrack THEN NoTrack ELSE Unsure(Aged(tracks[id], d))
    BY DEF Blind
  <2> QED
    BY <2>1 DEF Hazardous, Unsure, Aged
<1>4. HazardHasIncident'
  BY <1>0, <1>1, <1>3 DEF HazardHasIncident, IncidentAfter
<1>5. ClosedHasIncident'
  BY <1>0, <1>1 DEF ClosedHasIncident, IncidentAfter, CommandIsLast
<1>6. ReopenedUnlessOverlapped'
  BY <1>0, <1>1 DEF ReopenedUnlessOverlapped
<1> QED
  BY <1>2, <1>4, <1>5, <1>6 DEF ReopenInv

LEMMA ReopenFrame ==
    ASSUME ReopenInv, NEW d \in 1..MaxGap, NEW motion \in [Ids -> Motions],
           NEW exited \in SUBSET Ids, Frame(d, motion, exited), TypeOK'
    PROVE  /\ ReopenInv'
           /\ intent' # "none" /\ intent' = last => confirmed
<1>0. /\ TypeOK /\ CommandIsLast /\ HazardHasIncident /\ ClosedHasIncident
      /\ ClearSeconds # Never /\ ReopenedUnlessOverlapped
  BY ZoneAssumption DEF ReopenInv, Never
<1> PICK report \in Reports, what \in Commands \cup {"none"},
         clear \in BOOLEAN, quiet \in BOOLEAN :
              /\ incident' = (IncidentAfter(report) \/ Confirms(d, motion))
              /\ quiet => report = "closed" /\ \A id \in Ids : ~Hazardous(tracks'[id])
              /\ clear <=> quiet /\ incident'
              /\ clearFor' = IF clear THEN Since(Older(clearFor, d, ClearSeconds)) ELSE Never
              /\ quietFor' = IF quiet THEN Since(Older(quietFor, d, ClearSeconds)) ELSE Never
              /\ what = "close" => /\ \E id \in Ids : Hazardous(tracks'[id])
                                   /\ report # "closed"
                                   /\ PendingAfter(d, report) # "close"
              /\ what = "open" => /\ clear
                                  /\ PendingAfter(d, report) = "none"
              /\ clear /\ clearFor' = ClearSeconds /\ what = "none"
                   => PendingAfter(d, report) # "none" \/ commandFault'
              /\ pending' = IF what # "none" THEN what ELSE PendingAfter(d, report)
              /\ Records(what, exited, report)
  BY FrameDecides
<1>1. /\ intent' = what
      /\ last' = IF what = "none" THEN last ELSE what
      /\ confirmed' = (what = "none" /\ (confirmed \/ Reaches(last, report)))
      /\ overlapped' = \/ overlapped
                       \/ /\ pending = "open" /\ report = "open"
                          /\ \E id \in Ids : Hazardous(tracks'[id])
  BY DEF Records
<1>2. CommandIsLast'
  BY <1>0, <1>1 DEF CommandIsLast, PendingAfter
<1>3. \A id \in Ids : Hazardous(tracks'[id]) => incident' \/ overlapped'
  <2> SUFFICES ASSUME NEW id \in Ids, Hazardous(tracks'[id]) PROVE incident' \/ overlapped'
    OBVIOUS
  <2>1. CASE ~Hazardous(tracks[id])
    BY <1>0, <2>1, NewHazardConfirms
  <2>2. CASE Hazardous(tracks[id])
    BY <1>0, <1>1, <2>2 DEF HazardHasIncident, IncidentAfter
  <2> QED
    BY <2>1, <2>2
<1>4. HazardHasIncident'
  BY <1>3 DEF HazardHasIncident
<1>5. ClosedHasIncident'
  <2> SUFFICES ASSUME last' = "close", ~overlapped'
               PROVE  incident' /\ clearFor' = quietFor'
    BY DEF ClosedHasIncident
  <2>1. CASE what = "close"
    BY <1>3, <2>1
  <2>2. CASE what # "close"
    <3>1. last = "close" /\ what = "none" /\ ~overlapped
      BY <1>1, <2>2
    <3>2. incident /\ clearFor = quietFor
      BY <1>0, <3>1 DEF ClosedHasIncident
    <3>3. incident'
      BY <1>0, <3>1, <3>2 DEF IncidentAfter, CommandIsLast
    <3> QED
      BY <3>2, <3>3
  <2> QED
    BY <2>1, <2>2
<1>6. ReopenedUnlessOverlapped'
  <2> SUFFICES ASSUME last' = "close", quietFor' = ClearSeconds, ~overlapped'
               PROVE  commandFault'
    BY DEF ReopenedUnlessOverlapped
  <2>1. quiet /\ report = "closed" /\ what # "close"
    BY <1>0
  <2>2. what = "none" /\ last = "close"
    BY <1>1, <2>1
  <2>3. clear /\ clearFor' = ClearSeconds
    BY <1>0, <1>5, <2>1 DEF ClosedHasIncident
  <2>4. PendingAfter(d, report) = "none"
    BY <1>0, <2>1, <2>2 DEF PendingAfter, Reaches, CommandIsLast
  <2> QED
    BY <2>2, <2>3, <2>4
<1>7. what # "none" /\ what = last => confirmed
  <2> SUFFICES ASSUME what # "none", what = last PROVE confirmed
    OBVIOUS
  <2>1. CASE pending = "none"
    BY <1>0, <2>1 DEF CommandIsLast
  <2>2. CASE pending # "none"
    <3>1. pending = what
      BY <1>0, <2>2 DEF CommandIsLast
    <3>2. what = "close" \/ what = "open"
      BY DEF Commands
    <3> QED
      BY <3>1, <3>2 DEF PendingAfter, Reaches
  <2> QED
    BY <2>1, <2>2
<1> QED
  BY <1>1, <1>2, <1>4, <1>5, <1>6, <1>7 DEF ReopenInv

LEMMA ReopenInit == Init => ReopenInv
<1> SUFFICES ASSUME Init PROVE ReopenInv
  OBVIOUS
<1>1. TypeOK
  BY ZoneInit DEF ZoneInv
<1>2. \A id \in Ids : ~Hazardous(tracks[id])
  BY DEF Init, Hazardous
<1> QED
  BY <1>1, <1>2 DEF Init, ReopenInv, CommandIsLast, HazardHasIncident, ClosedHasIncident,
                    ReopenedUnlessOverlapped

LEMMA ReopenStep ==
    ASSUME ReopenInv, TypeOK', [Next]_vars
    PROVE  /\ ReopenInv'
           /\ intent' # "none" /\ intent' = last /\ vars' # vars => confirmed
<1>1. CASE UNCHANGED vars
  BY <1>1 DEF ReopenInv, CommandIsLast, HazardHasIncident, ClosedHasIncident,
              ReopenedUnlessOverlapped, vars, stateVars, historyVars
<1>2. ASSUME NEW d \in 1..MaxGap, NEW report \in Reports, Blind(d, report)
      PROVE  ReopenInv' /\ intent' = "none"
  BY <1>2, ReopenBlind DEF Blind, Records
<1>3. ASSUME NEW d \in 1..MaxGap, NEW motion \in [Ids -> Motions],
             NEW exited \in SUBSET Ids, Frame(d, motion, exited)
      PROVE  ReopenInv' /\ (intent' # "none" /\ intent' = last => confirmed)
  BY <1>3, ReopenFrame
<1> QED
  BY <1>1, <1>2, <1>3 DEF Next

LEMMA ReopenInvariant == Spec => []ReopenInv
<1>1. ReopenInv /\ TypeOK' /\ [Next]_vars => ReopenInv'
  BY ReopenStep
<1> QED
  BY <1>1, ReopenInit, TypeCorrect, PTL DEF Spec

\* A gate that was closed for a hazard is opened again once the zone has been
\* clear for ClearSeconds, unless the board failed or an opening was completed
\* with a hazard in the zone, whatever the thresholds and the frames lost.
THEOREM ClosedGateReopens == Spec => []ReopenedUnlessOverlapped
BY ReopenInvariant, PTL DEF ReopenInv

\* No command is given twice in a row before the gate has been where the first
\* one wanted it, however often frames fail or commands time out.
THEOREM CommandsAreNotRepeated == Spec => NoRepeatedCommand
<1>1. ReopenInv /\ TypeOK' /\ [Next]_vars =>
        [intent' # "none" /\ intent' = last => confirmed]_vars
  BY ReopenStep
<1> QED
  BY <1>1, ReopenInvariant, TypeCorrect, PTL DEF Spec, NoRepeatedCommand
=============================================================================
