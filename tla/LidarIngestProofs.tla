------------------------- MODULE LidarIngestProofs -------------------------
(***************************************************************************)
(* LidarIngest for every set of sources, zones and tracks, every payload   *)
(* and any number of requests.                                             *)
(*                                                                         *)
(* That a zone has at most one open incident is not inductive: it rests on *)
(* what an open transaction remembers of the lookup with which it began.   *)
(* LookupHolds says that this stays true while the transaction is open,    *)
(* which needs that no other request of the zone is being processed, hence *)
(* the queue (InOrder) and one LiDAR PC per zone.                          *)
(***************************************************************************)
EXTENDS LidarIngest, FiniteSetTheorems, SequenceTheorems, TLAPS

\* The actions, in a form the case splits can cite one by one.
LEMMA StepCases ==
    ASSUME [Next]_vars
    PROVE  \/ \E r \in Requests : Receive(r)
           \/ \E r \in Requests : Start(r)
           \/ \E r \in Requests : Admit(r)
           \/ \E r \in Requests : TouchDevice(r)
           \/ \E r \in Requests : BeginTransaction(r)
           \/ \E r \in Requests : \E k \in tx[r].todo : SkipStaleObject(r, k)
           \/ \E r \in Requests : \E k \in tx[r].todo : ProcessObject(r, k)
           \/ \E r \in Requests : Commit(r)
           \/ \E r \in Requests : DatabaseError(r)
           \/ \E r \in Requests : LoseAcknowledgement(r)
           \/ \E r \in Requests : Publish(r)
           \/ Restart
           \/ UNCHANGED vars
BY DEF Next, Step

-----------------------------------------------------------------------------
(* Type correctness.                                                       *)

\* Beyond TypeOK: only requests of registered LiDAR PCs get past Admit, and
\* a transaction has only indices of acceptable objects to process.
TypeInv ==
    /\ TypeOK
    /\ \A r \in Requests :
         stage[r] \in {"admitted", "touched", "processing", "committed"}
            => Src(r) \in Sources /\ snap[r].at # 0
    /\ \A r \in Requests : tx[r].todo \subseteq Accepted(r)

LEMMA NoTransactionType == NoTransaction \in Transaction
<1>1. [t \in TrackIds |-> NoTrack] \in [TrackIds -> Track]
  BY DEF NoTrack, Track
<1>2. NoStat \in Stat
  BY DEF NoStat, Stat
<1>3. 0 \in 0..MaxRequests /\ << >> \in Seq(Event) /\ {} \in SUBSET Nat
  BY IngestAssumption
<1> QED
  BY <1>1, <1>2, <1>3 DEF NoTransaction, Transaction

\* What a transaction is when it begins.
LEMMA BegunType ==
    ASSUME NEW i \in 0..MaxRequests, NEW S \in SUBSET Nat
    PROVE  [NoTransaction EXCEPT !.incident = i, !.todo = S] \in Transaction
BY NoTransactionType DEF Transaction

LEMMA LessToDo ==
    ASSUME NEW t \in Transaction, NEW k
    PROVE  [t EXCEPT !.todo = @ \ {k}] \in Transaction
BY DEF Transaction

LEMMA AcceptedObjects ==
    ASSUME snap \in [Requests -> Snapshots], NEW r \in Requests, NEW k \in Accepted(r)
    PROVE  /\ Object(r, k) \in ObjectEntry
           /\ Object(r, k).type \in SupportedTypes
           /\ Object(r, k).track \in TrackIds
<1>1. snap[r] \in Snapshot
  BY IngestAssumption
<1>2. snap[r].objects \in Seq(ObjectEntry)
  BY <1>1 DEF Snapshot
<1>3. Object(r, k) \in ObjectEntry
  BY <1>2 DEF Accepted, Object
<1> QED
  BY <1>3 DEF Accepted, Acceptable, ObjectEntry

LEMMA RowType ==
    ASSUME TypeOK, NEW r \in Requests, Src(r) \in Sources, NEW t \in TrackIds
    PROVE  Row(r, t) \in Track
<1>1. tx[r].rows \in [TrackIds -> Track] /\ tracks[Src(r)] \in [TrackIds -> Track]
  BY DEF TypeOK, Transaction
<1> QED
  BY <1>1 DEF Row

LEMMA RowsAfterType ==
    ASSUME TypeOK, NEW r \in Requests, Src(r) \in Sources
    PROVE  RowsAfter(r) \in [TrackIds -> Track]
<1>1. snap[r].at \in Nat
  BY IngestAssumption DEF TypeOK, Snapshot
<1>2. \A t \in TrackIds : Row(r, t) \in Track
  BY RowType
<1>3. \A t \in TrackIds :
        [Row(r, t) EXCEPT !.active = FALSE, !.endedAt = snap[r].at] \in Track
  BY <1>1, <1>2 DEF Track
<1> QED
  BY <1>2, <1>3 DEF RowsAfter

\* What processing one object makes of the transaction.
Processed(r, k) ==
    [incident |-> IncidentAfter(r, Object(r, k)),
     todo |-> tx[r].todo \ {k},
     rows |-> [tx[r].rows EXCEPT ![Object(r, k).track] =
                 Observed(Row(r, Object(r, k).track), Object(r, k), snap[r].at)],
     events |-> EventsAfter(r, Row(r, Object(r, k).track), Object(r, k)),
     stat |-> StatAfter(tx[r].stat, Row(r, Object(r, k).track), Object(r, k)),
     wrongWay |-> tx[r].wrongWay \/ Object(r, k).type = WrongWay]

LEMMA ProcessObjectEffect ==
    ASSUME TypeOK, NEW r \in Requests, NEW k, ProcessObject(r, k)
    PROVE  tx' = [tx EXCEPT ![r] = Processed(r, k)]
BY DEF ProcessObject, Processed, TypeOK

LEMMA ProcessedType ==
    ASSUME TypeInv, NEW r \in Requests, Src(r) \in Sources, NEW k \in tx[r].todo
    PROVE  Processed(r, k) \in Transaction
<1> DEFINE o == Object(r, k)
           row == Row(r, o.track)
<1>1. /\ TypeOK
      /\ o \in ObjectEntry /\ o.type \in SupportedTypes /\ o.track \in TrackIds
      /\ o.vehicle \in BOOLEAN
  <2>1. TypeOK /\ k \in Accepted(r)
    BY DEF TypeInv
  <2>2. o \in ObjectEntry /\ o.type \in SupportedTypes /\ o.track \in TrackIds
    BY <2>1, AcceptedObjects DEF TypeOK
  <2> QED
    BY <2>1, <2>2 DEF ObjectEntry
<1>2. row \in Track
  BY <1>1, RowType
<1>3. tx[r] \in Transaction
  BY <1>1 DEF TypeOK
<1>4. IncidentAfter(r, o) \in 0..MaxRequests
  BY <1>3, IngestAssumption
     DEF Transaction, IncidentAfter, EnsureActiveIncident, Requests
<1>5. tx[r].todo \ {k} \in SUBSET Nat
  BY <1>3 DEF Transaction
<1>6. Observed(row, o, snap[r].at) \in Track
  <2>1. snap[r].at \in Nat
    BY <1>1, IngestAssumption DEF TypeOK, Snapshot
  <2> QED
    BY <2>1, <1>1, <1>2 DEF Observed, Track
<1>7. [tx[r].rows EXCEPT ![o.track] = Observed(row, o, snap[r].at)] \in [TrackIds -> Track]
  BY <1>3, <1>6 DEF Transaction
<1>8. EventsAfter(r, row, o) \in Seq(Event)
  <2>1. tx[r].events \in Seq(Event)
    BY <1>3 DEF Transaction
  <2>2. [request |-> r, source |-> Src(r), track |-> o.track,
         type |-> o.type, incident |-> IncidentAfter(r, o)] \in Event
    BY <1>1, <1>4 DEF Event
  <2> QED
    BY <2>1, <2>2 DEF EventsAfter
<1>9. StatAfter(tx[r].stat, row, o) \in Stat
  BY <1>3 DEF Transaction, Stat, StatAfter
<1>10. (tx[r].wrongWay \/ o.type = WrongWay) \in BOOLEAN
  OBVIOUS
<1> HIDE DEF o, row
<1> QED
  BY <1>4, <1>5, <1>7, <1>8, <1>9, <1>10 DEF Processed, Transaction, o, row

LEMMA InitTypeInv == Init => TypeInv
<1> SUFFICES ASSUME Init PROVE TypeInv
  OBVIOUS
<1>1. TypeOK
  BY NoTransactionType, IngestAssumption
     DEF Init, TypeOK, Stages, Running, SettledStages, Track, NoTrack, Stat, NoStat,
         Requests, SupportedTypes, Event
<1>2. \A r \in Requests : tx[r].todo \subseteq Accepted(r)
  BY DEF Init, NoTransaction
<1> QED
  BY <1>1, <1>2 DEF TypeInv, Init

\* The variables keep their types: the inductive step.
LEMMA StepTypeInv == TypeInv /\ [Next]_vars => TypeInv'
<1> SUFFICES ASSUME TypeInv, [Next]_vars PROVE TypeInv'
  OBVIOUS
<1> USE IngestAssumption
<1>0. TypeOK
  BY DEF TypeInv
<1>1. ASSUME NEW r \in Requests, Receive(r) PROVE TypeInv'
  BY <1>1, <1>0 DEF TypeInv, TypeOK, Receive, Stages, Src, Accepted, Object
<1>2. ASSUME NEW r \in Requests, Start(r) PROVE TypeInv'
  BY <1>2, <1>0 DEF TypeInv, TypeOK, Start, Stages, Running, Src, Accepted, Object
<1>3. ASSUME NEW r \in Requests, Admit(r) PROVE TypeInv'
  BY <1>3, <1>0 DEF TypeInv, TypeOK, Admit, Admissible, Stages, Running, SettledStages,
                    Src, Accepted, Object
<1>4. ASSUME NEW r \in Requests, TouchDevice(r) PROVE TypeInv'
  <2>1. Src(r) \in Sources /\ snap[r].at # 0
    BY <1>4 DEF TypeInv, TouchDevice
  <2>2. heartbeat' \in [Sources -> 0..MaxRequests]
    <3>1. r \in 0..MaxRequests
      BY DEF Requests
    <3> QED
      BY <1>4, <1>0, <3>1 DEF TypeOK, TouchDevice
  <2> QED
    BY <1>4, <1>0, <2>1, <2>2 DEF TypeInv, TypeOK, TouchDevice, Stages, Running,
                    SettledStages, Src, Accepted, Object
<1>5. ASSUME NEW r \in Requests, BeginTransaction(r) PROVE TypeInv'
  <2>1. PICK i \in 0..MaxRequests :
          tx' = [tx EXCEPT ![r] = [NoTransaction EXCEPT !.incident = i, !.todo = Accepted(r)]]
    <3> DEFINE open == OpenIncidents(ZoneOf[Src(r)])
               found == IF open = {} THEN {0} ELSE open
    <3>1. found \subseteq 0..MaxRequests
      BY DEF OpenIncidents, Requests
    <3>2. \E i \in found :
            tx' = [tx EXCEPT ![r] = [NoTransaction EXCEPT !.incident = i, !.todo = Accepted(r)]]
      BY <1>5 DEF BeginTransaction
    <3> HIDE DEF found
    <3> QED
      BY <3>1, <3>2
  <2>2. [NoTransaction EXCEPT !.incident = i, !.todo = Accepted(r)] \in Transaction
    <3>1. Accepted(r) \in SUBSET Nat
      BY DEF Accepted
    <3> QED
      BY <3>1, BegunType
  <2>3. \A q \in Requests : tx'[q].todo \subseteq Accepted(q)
    BY <2>1, <1>0 DEF TypeInv, TypeOK, NoTransaction
  <2>4. tx' \in [Requests -> Transaction]
    BY <2>1, <2>2, <1>0 DEF TypeOK
  <2> QED
    BY <1>5, <1>0, <2>3, <2>4 DEF TypeInv, TypeOK, BeginTransaction, Stages, Running,
                                  Src, Accepted, Object
<1>6. ASSUME NEW r \in Requests, NEW k \in tx[r].todo, SkipStaleObject(r, k) PROVE TypeInv'
  <2>1. tx' \in [Requests -> Transaction]
    <3>1. [tx[r] EXCEPT !.todo = @ \ {k}] \in Transaction
      BY <1>0, LessToDo DEF TypeOK
    <3>2. tx' = [tx EXCEPT ![r] = [tx[r] EXCEPT !.todo = @ \ {k}]]
      BY <1>6, <1>0 DEF TypeOK, SkipStaleObject
    <3> QED
      BY <1>0, <3>1, <3>2 DEF TypeOK
  <2>2. \A q \in Requests : tx'[q].todo \subseteq tx[q].todo
    BY <1>6, <1>0 DEF TypeOK, SkipStaleObject
  <2> QED
    BY <1>6, <1>0, <2>1, <2>2 DEF TypeInv, TypeOK, SkipStaleObject, Src, Accepted, Object
<1>7. ASSUME NEW r \in Requests, NEW k \in tx[r].todo, ProcessObject(r, k) PROVE TypeInv'
  <2>1. Src(r) \in Sources
    BY <1>7 DEF TypeInv, ProcessObject
  <2>2. tx' = [tx EXCEPT ![r] = Processed(r, k)]
    BY <1>7, <1>0, ProcessObjectEffect
  <2>3. tx' \in [Requests -> Transaction]
    BY <2>1, <2>2, <1>0, ProcessedType DEF TypeOK
  <2>4. \A q \in Requests : tx'[q].todo \subseteq tx[q].todo
    BY <2>2, <1>0 DEF TypeOK, Processed
  <2> QED
    BY <1>7, <1>0, <2>3, <2>4 DEF TypeInv, TypeOK, ProcessObject, Src, Accepted, Object
<1>8. ASSUME NEW r \in Requests, Commit(r) PROVE TypeInv'
  <2>1. Src(r) \in Sources
    BY <1>8 DEF TypeInv, Commit
  <2>2. tracks' \in [Sources -> [TrackIds -> Track]]
    BY <1>8, <1>0, <2>1, RowsAfterType DEF TypeOK, Commit
  <2>3. incidents' \in [Requests -> {"none", "ACTIVE", "RESOLVED"}]
    BY <1>8, <1>0 DEF TypeOK, Commit, IncidentsAfter
  <2>4. events' \in Seq(Event) /\ Len(events') >= Len(events)
    <3>1. tx[r].events \in Seq(Event) /\ events \in Seq(Event)
      BY <1>0 DEF TypeOK, Transaction
    <3>2. Len(tx[r].events) \in Nat /\ Len(events) \in Nat
      BY <3>1, LenProperties
    <3> QED
      BY <1>8, <3>1, <3>2, ConcatProperties DEF Commit
  <2>5. stats' \in [Sources -> Stat]
    <3>1. stats[Src(r)] \in Stat /\ tx[r].stat \in Stat
      BY <1>0, <2>1 DEF TypeOK, Transaction
    <3>2. Plus(stats[Src(r)], tx[r].stat) \in Stat
      BY <3>1 DEF Stat, Plus
    <3> QED
      BY <1>8, <1>0, <3>2 DEF TypeOK, Commit
  <2>6. tx' \in [Requests -> Transaction] /\ \A q \in Requests : tx'[q].todo \subseteq tx[q].todo
    BY <1>8, <1>0, NoTransactionType DEF TypeOK, Commit, NoTransaction
  <2>7. stage' \in [Requests -> Stages]
    BY <1>8, <1>0 DEF TypeOK, Commit, Stages, Running
  <2>8. shown' \subseteq 1..Len(events')
    <3>1. Len(events) \in Nat /\ Len(events') \in Nat
      BY <1>0, <2>4, LenProperties DEF TypeOK
    <3> QED
      BY <1>8, <1>0, <2>4, <3>1 DEF TypeOK, Commit
  <2>9. TypeOK'
    BY <1>8, <1>0, <2>2, <2>3, <2>4, <2>5, <2>6, <2>7, <2>8 DEF TypeOK, Commit
  <2> QED
    BY <1>8, <1>0, <2>1, <2>6, <2>9 DEF TypeInv, TypeOK, Commit, Src, Accepted, Object
<1>9. ASSUME NEW r \in Requests, DatabaseError(r) PROVE TypeInv'
  <2>1. tx' \in [Requests -> Transaction] /\ \A q \in Requests : tx'[q].todo \subseteq tx[q].todo
    BY <1>9, <1>0, NoTransactionType DEF TypeOK, DatabaseError, NoTransaction
  <2> QED
    BY <1>9, <1>0, <2>1 DEF TypeInv, TypeOK, DatabaseError, Stages, SettledStages,
                            Src, Accepted, Object
<1>10. ASSUME NEW r \in Requests, Publish(r) PROVE TypeInv'
  BY <1>10, <1>0 DEF TypeInv, TypeOK, Publish, Alarms, Stages, SettledStages,
                     Src, Accepted, Object
<1>11. ASSUME NEW r \in Requests, LoseAcknowledgement(r) PROVE TypeInv'
  BY <1>11, <1>0 DEF TypeInv, TypeOK, LoseAcknowledgement, Stages, SettledStages,
                     Src, Accepted, Object
<1>12. CASE Restart
  <2>1. tx' \in [Requests -> Transaction] /\ \A q \in Requests : tx'[q].todo \subseteq tx[q].todo
    BY <1>12, <1>0, NoTransactionType DEF TypeOK, Restart, NoTransaction
  <2>2. stage' \in [Requests -> Stages]
    BY <1>12, <1>0 DEF TypeOK, Restart, Stages, SettledStages
  <2>3. \A q \in Requests : stage'[q] \in Running => stage[q] \in Running /\ stage'[q] = stage[q]
    BY <1>12, <1>0 DEF TypeOK, Restart, Running
  <2>4. restarts' \in 0..MaxRestarts
    BY <1>12, <1>0 DEF TypeOK, Restart
  <2> QED
    BY <1>12, <1>0, <2>1, <2>2, <2>3, <2>4 DEF TypeInv, TypeOK, Restart, Running,
                                          Src, Accepted, Object
<1>13. CASE UNCHANGED vars
  BY <1>13, <1>0 DEF TypeInv, TypeOK, vars, Src, Accepted, Object
<1> QED
  BY <1>1, <1>2, <1>3, <1>4, <1>5, <1>6, <1>7, <1>8, <1>9, <1>10, <1>11, <1>12, <1>13,
     StepCases

\* The variables keep their types.
THEOREM TypeCorrect == Spec => []TypeOK
<1>1. Spec => []TypeInv
  BY InitTypeInv, StepTypeInv, PTL DEF Spec
<1> QED
  BY <1>1, PTL DEF TypeInv

-----------------------------------------------------------------------------
(* The incidents.                                                          *)

\* Hypothesis of the theorems on open incidents: as the site is installed,
\* one LiDAR PC watches each zone.  Nothing in the code enforces it.
OnePcPerZone == \A s, t \in Sources : ZoneOf[s] = ZoneOf[t] => s = t

Zone(r) == ZoneOf[Src(r)]

\* A request that runs has only settled ones of its source before it.
InOrder ==
    \A r \in Requests : stage[r] \in Running =>
        \A q \in 1..(r - 1) : Src(q) = Src(r) => Settled(q)

\* A request creates its incident when it commits.
CreatedOnCommit ==
    \A r \in Requests :
        incidents[r] # "none" => stage[r] \in {"committed", "done", "failed", "lost"}

\* While a transaction is open, what it found when it began still holds.
LookupHolds ==
    \A r \in Requests : stage[r] = "processing" =>
        IF tx[r].incident \in {0, r} THEN OpenIncidents(Zone(r)) = {}
                                     ELSE tx[r].incident \in OpenIncidents(Zone(r))

OpenIsUnique ==
    \A i, j \in Requests :
        incidents[i] = "ACTIVE" /\ incidents[j] = "ACTIVE" /\ Zone(i) = Zone(j) => i = j

\* A transaction that saw a vehicle going the wrong way has an incident.
AlarmHasLookup ==
    \A r \in Requests :
        tx[r].wrongWay => tx[r].incident # 0 /\ stage[r] = "processing"

IncidentInv ==
    TypeInv /\ InOrder /\ CreatedOnCommit /\ LookupHolds /\ OpenIsUnique /\ AlarmHasLookup

LEMMA InitIncidentInv == Init => IncidentInv
<1> SUFFICES ASSUME Init PROVE IncidentInv
  OBVIOUS
<1>1. TypeInv
  BY InitTypeInv
<1>2. InOrder /\ CreatedOnCommit /\ LookupHolds /\ OpenIsUnique
  BY DEF Init, InOrder, CreatedOnCommit, LookupHolds, OpenIsUnique, Running
<1>3. AlarmHasLookup
  BY DEF Init, AlarmHasLookup, NoTransaction
<1> QED
  BY <1>1, <1>2, <1>3 DEF IncidentInv

\* Two requests that are being processed at the same time are of two zones.
LEMMA OtherZone ==
    ASSUME OnePcPerZone, TypeInv, InOrder,
           NEW r \in Requests, stage[r] = "processing",
           NEW q \in Requests, stage[q] = "processing", q # r
    PROVE  Zone(q) # Zone(r)
<1>1. Src(q) \in Sources /\ Src(r) \in Sources
  BY DEF TypeInv
<1>2. ~Settled(q) /\ ~Settled(r)
  BY DEF Settled, SettledStages
<1>3. stage[q] \in Running /\ stage[r] \in Running
  BY DEF Running
<1>4. q \in 1..(r - 1) \/ r \in 1..(q - 1)
  BY IngestAssumption DEF Requests
<1>5. Src(q) # Src(r)
  BY <1>2, <1>3, <1>4 DEF InOrder
<1> QED
  BY <1>1, <1>5 DEF OnePcPerZone, Zone

\* One request moves on and the queue stays in order.
LEMMA StaysInOrder ==
    ASSUME InOrder, snap' = snap, NEW r \in Requests, ~Settled(r),
           \A q \in Requests : q # r => stage'[q] = stage[q],
           stage'[r] \in Running => MyTurn(r)
    PROVE  InOrder'
<1>1. \A q \in Requests : Settled(q) => Settled(q)'
  BY DEF Settled
<1> SUFFICES ASSUME NEW p \in Requests, stage'[p] \in Running,
                    NEW q \in 1..(p - 1), Src(q)' = Src(p)'
             PROVE  Settled(q)'
  BY DEF InOrder
<1>2. q \in Requests
  BY IngestAssumption DEF Requests
<1>3. Src(q) = Src(p)
  BY DEF Src
<1>4. CASE p = r
  BY <1>1, <1>2, <1>3, <1>4 DEF MyTurn
<1>5. CASE p # r
  BY <1>1, <1>2, <1>3, <1>5 DEF InOrder
<1> QED
  BY <1>4, <1>5

\* A request that runs has had its turn.
LEMMA RunningIsInTurn ==
    ASSUME InOrder, NEW r \in Requests, stage[r] \in Running
    PROVE  MyTurn(r) /\ ~Settled(r)
BY DEF InOrder, MyTurn, Settled, Running, SettledStages

\* The actions that only move a request on, or roll it back, and touch no
\* incident.
LEMMA StageOnly ==
    ASSUME IncidentInv, TypeInv', UNCHANGED <<snap, incidents>>,
           NEW r \in Requests, ~Settled(r),
           \A q \in Requests : q # r => stage'[q] = stage[q] /\ tx'[q] = tx[q],
           stage'[r] # "processing",
           ~tx'[r].wrongWay \/ (tx'[r] = tx[r] /\ stage[r] # "processing"),
           stage'[r] \in Running => MyTurn(r),
           incidents[r] # "none" => stage'[r] \in {"committed", "done", "failed", "lost"}
    PROVE  IncidentInv'
<1> USE DEF IncidentInv
<1>1. InOrder'
  BY StaysInOrder
<1>2. CreatedOnCommit'
  BY DEF CreatedOnCommit
<1>3. \A z : OpenIncidents(z)' = OpenIncidents(z)
  BY DEF OpenIncidents, Src
<1>4. LookupHolds'
  BY <1>3 DEF LookupHolds, Zone, Src
<1>5. OpenIsUnique'
  BY DEF OpenIsUnique, Zone, Src
<1>6. AlarmHasLookup'
  BY DEF AlarmHasLookup
<1> QED
  BY <1>1, <1>2, <1>4, <1>5, <1>6

LEMMA ReceiveIncidentInv ==
    ASSUME IncidentInv, TypeInv', NEW r \in Requests, Receive(r)
    PROVE  IncidentInv'
<1>1. TypeOK
  BY DEF IncidentInv, TypeInv
<1>2. stage[r] = "none" /\ stage'[r] = "queued"
  BY <1>1 DEF Receive, TypeOK
<1>3. incidents[r] = "none"
  BY <1>2 DEF IncidentInv, CreatedOnCommit
<1> QED
  BY <1>1, <1>2, <1>3, StageOnly
     DEF Receive, TypeOK, Settled, SettledStages, Running

LEMMA StartIncidentInv ==
    ASSUME IncidentInv, TypeInv', NEW r \in Requests, Start(r)
    PROVE  IncidentInv'
<1>1. TypeOK
  BY DEF IncidentInv, TypeInv
<1>2. stage[r] = "queued" /\ stage'[r] = "started"
  BY <1>1 DEF Start, TypeOK
<1>3. incidents[r] = "none"
  BY <1>2 DEF IncidentInv, CreatedOnCommit
<1> QED
  BY <1>1, <1>2, <1>3, StageOnly DEF Start, TypeOK, Settled, SettledStages

LEMMA AdmitIncidentInv ==
    ASSUME IncidentInv, TypeInv', NEW r \in Requests, Admit(r) \/ TouchDevice(r)
    PROVE  IncidentInv'
<1>1. TypeOK
  BY DEF IncidentInv, TypeInv
<1>2. /\ stage[r] \in {"started", "admitted"}
      /\ stage'[r] \in {"admitted", "touched", "failed"}
  BY <1>1 DEF Admit, TouchDevice, TypeOK
<1>3. incidents[r] = "none"
  BY <1>2 DEF IncidentInv, CreatedOnCommit
<1>4. MyTurn(r) /\ ~Settled(r)
  BY <1>2, RunningIsInTurn DEF IncidentInv, Running
<1>5. UNCHANGED <<snap, incidents, tx>>
  BY DEF Admit, TouchDevice
<1>6. \A q \in Requests : q # r => stage'[q] = stage[q]
  BY <1>1 DEF Admit, TouchDevice, TypeOK
<1> QED
  BY <1>2, <1>3, <1>4, <1>5, <1>6, StageOnly

LEMMA PublishIncidentInv ==
    ASSUME IncidentInv, TypeInv', NEW r \in Requests, Publish(r)
    PROVE  IncidentInv'
<1>1. TypeOK
  BY DEF IncidentInv, TypeInv
<1>2. stage[r] = "committed" /\ stage'[r] = "done"
  BY <1>1 DEF Publish, TypeOK
<1> QED
  BY <1>1, <1>2, StageOnly DEF Publish, TypeOK, Settled, SettledStages, Running

LEMMA LoseAcknowledgementIncidentInv ==
    ASSUME IncidentInv, TypeInv', NEW r \in Requests, LoseAcknowledgement(r)
    PROVE  IncidentInv'
<1>1. TypeOK
  BY DEF IncidentInv, TypeInv
<1>2. stage[r] = "committed" /\ stage'[r] = "failed"
  BY <1>1 DEF LoseAcknowledgement, TypeOK
<1> QED
  BY <1>1, <1>2, StageOnly
     DEF LoseAcknowledgement, TypeOK, Settled, SettledStages, Running

LEMMA DatabaseErrorIncidentInv ==
    ASSUME IncidentInv, TypeInv', NEW r \in Requests, DatabaseError(r)
    PROVE  IncidentInv'
<1>1. TypeOK
  BY DEF IncidentInv, TypeInv
<1>2. /\ stage[r] \in {"started", "admitted", "touched", "processing"}
      /\ stage'[r] = "failed"
      /\ ~tx'[r].wrongWay
  BY <1>1 DEF DatabaseError, TypeOK, NoTransaction
<1>3. incidents[r] = "none"
  BY <1>2 DEF IncidentInv, CreatedOnCommit
<1>4. ~Settled(r) /\ stage'[r] \notin Running
  BY <1>2 DEF Settled, SettledStages, Running
<1>5. \A q \in Requests : q # r => stage'[q] = stage[q] /\ tx'[q] = tx[q]
  BY <1>1 DEF DatabaseError, TypeOK
<1>6. UNCHANGED <<snap, incidents>>
  BY DEF DatabaseError
<1> QED
  BY <1>2, <1>3, <1>4, <1>5, <1>6, StageOnly

\* The steps within a transaction: it keeps what it found, or plans the
\* incident it creates.
LEMMA WithinTransaction ==
    ASSUME IncidentInv, TypeInv', UNCHANGED <<snap, incidents>>,
           NEW r \in Requests, stage[r] \in {"touched", "processing"},
           stage'[r] = "processing",
           \A q \in Requests : q # r => stage'[q] = stage[q] /\ tx'[q] = tx[q],
           IF tx'[r].incident \in {0, r} THEN OpenIncidents(Zone(r)) = {}
              ELSE tx'[r].incident \in OpenIncidents(Zone(r)),
           tx'[r].wrongWay => tx'[r].incident # 0
    PROVE  IncidentInv'
<1> USE DEF IncidentInv
<1>1. InOrder'
  <2>1. MyTurn(r) /\ ~Settled(r)
    BY RunningIsInTurn DEF Running
  <2> QED
    BY <2>1, StaysInOrder
<1>2. CreatedOnCommit'
  BY DEF CreatedOnCommit
<1>3. \A z : OpenIncidents(z)' = OpenIncidents(z)
  BY DEF OpenIncidents, Src
<1>4. LookupHolds'
  BY <1>3 DEF LookupHolds, Zone, Src
<1>5. OpenIsUnique'
  BY DEF OpenIsUnique, Zone, Src
<1>6. AlarmHasLookup'
  BY DEF AlarmHasLookup
<1> QED
  BY <1>1, <1>2, <1>4, <1>5, <1>6

LEMMA BeginTransactionIncidentInv ==
    ASSUME IncidentInv, TypeInv', NEW r \in Requests, BeginTransaction(r)
    PROVE  IncidentInv'
<1> DEFINE open == OpenIncidents(Zone(r))
<1>1. TypeOK
  BY DEF IncidentInv, TypeInv
<1>2. stage[r] = "touched" /\ stage'[r] = "processing"
  BY <1>1 DEF BeginTransaction, TypeOK
<1>3. PICK i \in IF open = {} THEN {0} ELSE open :
        tx' = [tx EXCEPT ![r] = [NoTransaction EXCEPT !.incident = i, !.todo = Accepted(r)]]
  BY DEF BeginTransaction, Zone
<1>4. tx'[r].incident = i /\ ~tx'[r].wrongWay
  BY <1>1, <1>3 DEF TypeOK, NoTransaction
<1>5. incidents[r] = "none"
  BY <1>2 DEF IncidentInv, CreatedOnCommit
<1>6. r \notin open /\ 0 \notin open
  BY <1>5, IngestAssumption DEF OpenIncidents, Requests
<1>7. IF i \in {0, r} THEN open = {} ELSE i \in open
  BY <1>3, <1>6
<1>8. \A q \in Requests : q # r => stage'[q] = stage[q] /\ tx'[q] = tx[q]
  BY <1>1, <1>3 DEF BeginTransaction, TypeOK
<1> QED
  BY <1>2, <1>4, <1>7, <1>8, WithinTransaction DEF BeginTransaction

LEMMA SkipStaleObjectIncidentInv ==
    ASSUME IncidentInv, TypeInv', NEW r \in Requests, NEW k, SkipStaleObject(r, k)
    PROVE  IncidentInv'
<1>1. TypeOK
  BY DEF IncidentInv, TypeInv
<1>2. stage[r] = "processing" /\ stage' = stage
  BY DEF SkipStaleObject
<1>3. tx'[r].incident = tx[r].incident /\ tx'[r].wrongWay = tx[r].wrongWay
  BY <1>1 DEF SkipStaleObject, TypeOK, Transaction
<1>4. \A q \in Requests : q # r => tx'[q] = tx[q]
  BY <1>1 DEF SkipStaleObject, TypeOK
<1>5. tx[r].wrongWay => tx[r].incident # 0
  BY DEF IncidentInv, AlarmHasLookup
<1> QED
  BY <1>2, <1>3, <1>4, <1>5, WithinTransaction DEF SkipStaleObject, IncidentInv, LookupHolds

LEMMA ProcessObjectIncidentInv ==
    ASSUME IncidentInv, TypeInv', NEW r \in Requests, NEW k, ProcessObject(r, k)
    PROVE  IncidentInv'
<1> DEFINE o == Object(r, k)
<1>1. TypeOK
  BY DEF IncidentInv, TypeInv
<1>2. stage[r] = "processing" /\ stage' = stage
  BY DEF ProcessObject
<1>3. tx' = [tx EXCEPT ![r] = Processed(r, k)]
  BY <1>1, ProcessObjectEffect
<1>4. /\ tx'[r].incident = IncidentAfter(r, o)
      /\ tx'[r].wrongWay = (tx[r].wrongWay \/ o.type = WrongWay)
  BY <1>1, <1>3 DEF TypeOK, Processed
<1>5. \A q \in Requests : q # r => tx'[q] = tx[q]
  BY <1>1, <1>3 DEF TypeOK
<1>6. r # 0
  BY IngestAssumption DEF Requests
<1>7. /\ \/ IncidentAfter(r, o) = tx[r].incident
         \/ tx[r].incident = 0 /\ IncidentAfter(r, o) = r
      /\ o.type = WrongWay => IncidentAfter(r, o) # 0
  <2> HIDE DEF o
  <2> QED
    BY <1>6 DEF IncidentAfter, EnsureActiveIncident
<1>8. tx[r].wrongWay => tx[r].incident # 0
  BY DEF IncidentInv, AlarmHasLookup
<1> HIDE DEF o
<1>9. IF tx'[r].incident \in {0, r} THEN OpenIncidents(Zone(r)) = {}
         ELSE tx'[r].incident \in OpenIncidents(Zone(r))
  BY <1>2, <1>4, <1>7 DEF IncidentInv, LookupHolds
<1>10. tx'[r].wrongWay => tx'[r].incident # 0
  BY <1>4, <1>6, <1>7, <1>8
<1> QED
  BY <1>2, <1>5, <1>9, <1>10, WithinTransaction DEF ProcessObject

\* What a commit does to the incidents: it touches that of its transaction
\* only, and opens none but the one it planned.
LEMMA CommitEffect ==
    ASSUME TypeOK, NEW r \in Requests, Commit(r)
    PROVE  /\ \A i \in Requests : i # tx[r].incident => incidents'[i] = incidents[i]
           /\ \A i \in Requests : incidents'[i] = "ACTIVE" =>
                incidents[i] = "ACTIVE" \/ (i = r /\ tx[r].incident = r)
           /\ ~ResolvesIncident(r) =>
                /\ \A i \in Requests : incidents[i] = "ACTIVE" => incidents'[i] = "ACTIVE"
                /\ tx[r].incident = r => incidents'[r] = "ACTIVE"
<1>1. incidents' = IncidentsAfter(r)
  BY DEF Commit
<1>2. \A i \in Requests : incidents'[i] =
        IF i = tx[r].incident /\ ResolvesIncident(r) THEN "RESOLVED"
        ELSE IF i = tx[r].incident /\ i = r THEN "ACTIVE"
        ELSE incidents[i]
  BY <1>1 DEF IncidentsAfter
<1> QED
  BY <1>2

LEMMA CommitIncidentInv ==
    ASSUME OnePcPerZone, IncidentInv, TypeInv', NEW r \in Requests, Commit(r)
    PROVE  IncidentInv'
<1> DEFINE mine == tx[r].incident
<1>1. TypeOK
  BY DEF IncidentInv, TypeInv
<1>2. /\ stage[r] = "processing" /\ stage'[r] = "committed"
      /\ \A q \in Requests : q # r => stage'[q] = stage[q] /\ tx'[q] = tx[q]
      /\ ~tx'[r].wrongWay
      /\ snap' = snap
  BY <1>1 DEF Commit, TypeOK, NoTransaction
<1>3. incidents[r] = "none"
  BY <1>2 DEF IncidentInv, CreatedOnCommit
<1>4. InOrder'
  <2>1. MyTurn(r) /\ ~Settled(r)
    BY <1>2, RunningIsInTurn DEF Running, IncidentInv
  <2> QED
    BY <1>2, <2>1, StaysInOrder DEF IncidentInv
<1>5. mine = 0 \/ mine = r \/ mine \in OpenIncidents(Zone(r))
  BY <1>2 DEF IncidentInv, LookupHolds
<1>6. mine = r => OpenIncidents(Zone(r)) = {}
  BY <1>2 DEF IncidentInv, LookupHolds
<1>7. /\ \A i \in Requests : i # mine => incidents'[i] = incidents[i]
      /\ \A i \in Requests : incidents'[i] = "ACTIVE" =>
           incidents[i] = "ACTIVE" \/ (i = r /\ mine = r)
  BY <1>1, CommitEffect
<1>8. mine \in Requests => Zone(mine) = Zone(r)
  BY <1>5, IngestAssumption DEF OpenIncidents, Zone, Requests
<1>9. \A i \in Requests : i = mine => i = r \/ incidents[i] # "none"
  BY <1>5, IngestAssumption DEF OpenIncidents, Requests
<1> HIDE DEF mine
<1>10. CreatedOnCommit'
  BY <1>2, <1>7, <1>9 DEF IncidentInv, CreatedOnCommit
<1>11. OpenIsUnique'
  <2> SUFFICES ASSUME NEW i \in Requests, NEW j \in Requests,
                      incidents'[i] = "ACTIVE", incidents'[j] = "ACTIVE",
                      Zone(i) = Zone(j)
               PROVE  i = j
    BY <1>2 DEF OpenIsUnique, Zone, Src
  <2>1. CASE incidents[i] = "ACTIVE" /\ incidents[j] = "ACTIVE"
    BY <2>1 DEF IncidentInv, OpenIsUnique
  <2>2. CASE i = r /\ mine = r /\ incidents[j] = "ACTIVE"
    <3>1. j \in OpenIncidents(Zone(r))
      BY <2>2 DEF OpenIncidents, Zone
    <3> QED
      BY <2>2, <3>1, <1>6
  <2>3. CASE j = r /\ mine = r /\ incidents[i] = "ACTIVE"
    <3>1. i \in OpenIncidents(Zone(r))
      BY <2>3 DEF OpenIncidents, Zone
    <3> QED
      BY <2>3, <3>1, <1>6
  <2> QED
    BY <1>7, <2>1, <2>2, <2>3
<1>12. LookupHolds'
  <2> SUFFICES ASSUME NEW q \in Requests, stage'[q] = "processing"
               PROVE  IF tx'[q].incident \in {0, q}
                        THEN OpenIncidents(Zone(q))' = {}
                        ELSE tx'[q].incident \in OpenIncidents(Zone(q))'
    BY DEF LookupHolds
  <2>1. q # r /\ stage[q] = "processing" /\ tx'[q] = tx[q]
    BY <1>2
  <2>2. Zone(q) # Zone(r)
    BY <1>2, <2>1, OtherZone DEF IncidentInv
  <2>3. OpenIncidents(Zone(q))' = OpenIncidents(Zone(q))
    <3>1. \A i \in Requests : Zone(i) = Zone(q) => incidents'[i] = incidents[i]
      BY <1>7, <1>8, <2>2
    <3> QED
      BY <1>2, <3>1 DEF OpenIncidents, Zone, Src
  <2> QED
    BY <2>1, <2>3 DEF IncidentInv, LookupHolds
<1>13. AlarmHasLookup'
  BY <1>2 DEF IncidentInv, AlarmHasLookup
<1>14. TypeInv'
  OBVIOUS
<1> QED
  BY <1>4, <1>10, <1>11, <1>12, <1>13, <1>14 DEF IncidentInv

LEMMA RestartIncidentInv ==
    ASSUME IncidentInv, TypeInv', Restart
    PROVE  IncidentInv'
<1>1. TypeOK
  BY DEF IncidentInv, TypeInv
<1>2. \A r \in Requests :
        /\ stage'[r] \notin Running
        /\ stage[r] \in {"committed", "done", "failed", "lost"}
             => stage'[r] \in {"done", "failed", "lost"}
        /\ ~tx'[r].wrongWay
  BY <1>1 DEF Restart, TypeOK, Running, NoTransaction
<1>3. snap' = snap /\ incidents' = incidents
  BY DEF Restart
<1>4. InOrder'
  BY <1>2 DEF InOrder
<1>5. CreatedOnCommit'
  BY <1>2, <1>3 DEF IncidentInv, CreatedOnCommit
<1>6. LookupHolds'
  BY <1>2 DEF LookupHolds, Running
<1>7. OpenIsUnique'
  BY <1>3 DEF IncidentInv, OpenIsUnique, Zone, Src
<1>8. AlarmHasLookup'
  BY <1>2 DEF AlarmHasLookup
<1>9. TypeInv'
  OBVIOUS
<1> QED
  BY <1>4, <1>5, <1>6, <1>7, <1>8, <1>9 DEF IncidentInv

LEMMA StutterIncidentInv ==
    ASSUME IncidentInv, TypeInv', UNCHANGED vars
    PROVE  IncidentInv'
<1>1. UNCHANGED <<snap, stage, tx, incidents>>
  BY DEF vars
<1>2. \A z : OpenIncidents(z)' = OpenIncidents(z)
  BY <1>1 DEF OpenIncidents, Src
<1> QED
  BY <1>1, <1>2 DEF IncidentInv, InOrder, CreatedOnCommit, LookupHolds, OpenIsUnique,
                    AlarmHasLookup, Zone, Src, Settled

LEMMA StepIncidentInv ==
    ASSUME OnePcPerZone
    PROVE  IncidentInv /\ [Next]_vars => IncidentInv'
<1> SUFFICES ASSUME IncidentInv, [Next]_vars PROVE IncidentInv'
  OBVIOUS
<1>1. TypeInv'
  BY StepTypeInv DEF IncidentInv
<1> QED
  BY <1>1, StepCases, ReceiveIncidentInv, StartIncidentInv, AdmitIncidentInv,
     PublishIncidentInv, DatabaseErrorIncidentInv, LoseAcknowledgementIncidentInv,
     BeginTransactionIncidentInv, SkipStaleObjectIncidentInv, ProcessObjectIncidentInv,
     CommitIncidentInv, RestartIncidentInv, StutterIncidentInv

LEMMA IncidentsInvariant ==
    ASSUME OnePcPerZone
    PROVE  Spec => []IncidentInv
<1>1. IncidentInv /\ [Next]_vars => IncidentInv'
  BY StepIncidentInv
<1> QED
  BY <1>1, InitIncidentInv, PTL DEF Spec

\* With one LiDAR PC per zone, a zone never has two open incidents.
THEOREM OneOpenIncident ==
    ASSUME OnePcPerZone
    PROVE  Spec => []OneOpenIncidentPerZone
<1>1. OpenIsUnique => OneOpenIncidentPerZone
  <2> SUFFICES ASSUME OpenIsUnique, NEW z \in Zones
               PROVE  Cardinality(OpenIncidents(z)) <= 1
    BY DEF OneOpenIncidentPerZone
  <2>1. CASE OpenIncidents(z) = {}
    BY <2>1, FS_EmptySet
  <2>2. CASE OpenIncidents(z) # {}
    <3>1. PICK i \in OpenIncidents(z) : TRUE
      BY <2>2
    <3>2. OpenIncidents(z) = {i}
      BY <3>1 DEF OpenIsUnique, OpenIncidents, Zone
    <3>3. Cardinality({i}) = 1
      BY FS_Singleton
    <3> QED
      BY <3>2, <3>3
  <2> QED
    BY <2>1, <2>2
<1> QED
  BY <1>1, IncidentsInvariant, PTL DEF IncidentInv

\* With one LiDAR PC per zone, a snapshot that shows a vehicle going the wrong
\* way leaves its zone with an open incident, whatever else it reports.
THEOREM AlarmKeepsIncident ==
    ASSUME OnePcPerZone
    PROVE  Spec => AlarmLeavesIncidentOpen
<1>1. IncidentInv /\ [Next]_vars =>
        [\A r \in Requests :
           tx[r].wrongWay /\ stage'[r] = "committed" =>
             OpenIncidents(ZoneOf[Src(r)])' # {}]_vars
  <2> SUFFICES ASSUME IncidentInv, [Next]_vars, vars' # vars,
                      NEW r \in Requests, tx[r].wrongWay, stage'[r] = "committed"
               PROVE  OpenIncidents(ZoneOf[Src(r)])' # {}
    OBVIOUS
  <2>1. TypeOK /\ stage[r] = "processing" /\ tx[r].incident # 0
    BY DEF IncidentInv, TypeInv, AlarmHasLookup
  <2>2. Commit(r)
    <3>1. PICK q \in Requests : \/ Receive(q) \/ Start(q) \/ Admit(q) \/ TouchDevice(q)
                                \/ BeginTransaction(q) \/ Commit(q) \/ DatabaseError(q)
                                \/ Publish(q) \/ LoseAcknowledgement(q)
      BY <2>1, StepCases DEF SkipStaleObject, ProcessObject, Restart, TypeOK
    <3> QED
      BY <2>1, <3>1 DEF Receive, Start, Admit, TouchDevice, BeginTransaction, Commit,
                        DatabaseError, Publish, LoseAcknowledgement, TypeOK
  <2>3. ~ResolvesIncident(r)
    BY DEF ResolvesIncident
  <2>4. tx[r].incident \in Requests /\ incidents'[tx[r].incident] = "ACTIVE"
        /\ Zone(tx[r].incident) = Zone(r)
    <3>1. CASE tx[r].incident = r
      BY <3>1, <2>1, <2>2, <2>3, CommitEffect
    <3>2. CASE tx[r].incident # r
      <4>1. tx[r].incident \in OpenIncidents(Zone(r))
        BY <3>2, <2>1 DEF IncidentInv, LookupHolds
      <4> QED
        BY <4>1, <2>1, <2>2, <2>3, CommitEffect DEF OpenIncidents, Zone
    <3> QED
      BY <3>1, <3>2
  <2>5. snap' = snap
    BY <2>2 DEF Commit
  <2> QED
    BY <2>4, <2>5 DEF OpenIncidents, Zone, Src
<1> QED
  BY <1>1, IncidentsInvariant, PTL DEF AlarmLeavesIncidentOpen, Spec
=============================================================================
