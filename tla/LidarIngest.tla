---------------------------- MODULE LidarIngest ----------------------------
(***************************************************************************)
(* What the server does with the snapshots of the LiDAR PCs:               *)
(* receiveWrongWayPayload and processSnapshot of wrongway.service.js, with *)
(* the rows they keep in the database.                                     *)
(*                                                                         *)
(* A request waits for its turn in the queue of its source (SourceQueue    *)
(* shows that the promise chain gives it), and then goes through the       *)
(* awaits of processSnapshot, one action each, so that the requests of     *)
(* other sources, a database error or a restart can come between any two.  *)
(* What its transaction has written so far is in tx[r]: nobody else sees   *)
(* it before the commit, and a rollback forgets it.  The isolation level   *)
(* is PostgreSQL's READ COMMITTED, so a transaction reads the rows others  *)
(* have committed since it began.                                          *)
(*                                                                         *)
(* Requests are numbered in their order of arrival; as receivedAt is       *)
(* stamped on arrival, before the request is queued, the number of a       *)
(* request stands for its receivedAt.  Times are those of the snapshots.   *)
(* Daily statistics are those of one KST day, without the pedestrian       *)
(* columns.  Incident statuses other than ACTIVE and RESOLVED are never    *)
(* written by the code, so the branch of ensureActiveIncident that would   *)
(* reactivate such an incident has no counterpart here.                    *)
(***************************************************************************)
EXTENDS Integers, Sequences, FiniteSets

CONSTANTS
    Sources,          \* device codes registered with deviceType LIDAR_PC
    Zones,
    ZoneOf,           \* [Sources -> Zones]: devices.zone_id
    TrackIds,
    Snapshots,        \* the payloads a LiDAR PC may send, after the adapter
    InactiveTimeout,  \* TRACK_INACTIVE_TIMEOUT_MS
    MaxRequests,      \* bound: requests that arrive in a behaviour
    MaxRestarts       \* bound: restarts of the server process

Requests == 1..MaxRequests

NormalDriving == "normal-driving"
WrongWay == "wrong-way"
SituationEnded == "situation-ended"
SupportedTypes == {NormalDriving, WrongWay, SituationEnded,
                   "pedestrian-entered", "pedestrian-exited"}

\* One entry of the objects array.  identified: it has a track_id and a
\* zone_id; vehicle: its object_class is one of VEHICLE_OBJECT_CLASSES.
ObjectEntry == [track: TrackIds, type: SupportedTypes \cup {"unsupported"},
                identified: BOOLEAN, vehicle: BOOLEAN]

\* at = 0 stands for a timestamp that is missing or not a date.
Snapshot == [source: Sources \cup {"UNKNOWN"}, at: Nat, objects: Seq(ObjectEntry)]

ASSUME IngestAssumption ==
    /\ "UNKNOWN" \notin Sources
    /\ ZoneOf \in [Sources -> Zones]
    /\ Snapshots \subseteq Snapshot
    /\ InactiveTimeout \in Nat
    /\ MaxRequests \in Nat
    /\ MaxRestarts \in Nat

VARIABLES
    snap,        \* [request -> the snapshot it carries], fixed beforehand
    stage,       \* [request -> how far it has come]
    tx,          \* [request -> what its open transaction has read and written]
    heartbeat,   \* [source -> devices.last_seen_at]
    tracks,      \* [source -> [track -> row of vehicle_tracks]]
    incidents,   \* [request -> row of safety_incidents it created]
    events,      \* rows of traffic_events, in the order of their commits
    stats,       \* [source -> its row of daily_traffic_stats]
    shown,       \* events sent to the dashboards, by index in events
    restarts

vars == <<snap, stage, tx, heartbeat, tracks, incidents, events, stats, shown, restarts>>

Src(r) == snap[r].source

\* A row of vehicle_tracks; type "none" stands for no row.  firstVehicle is
\* the object class kept in the raw payload of the first observation.
Track == [type: SupportedTypes \cup {"none"}, lastSeenAt: Nat, active: BOOLEAN,
          endedAt: Nat, firstVehicle: BOOLEAN, firstNormal: BOOLEAN]
NoTrack == [type |-> "none", lastSeenAt |-> 0, active |-> FALSE,
            endedAt |-> 0, firstVehicle |-> FALSE, firstNormal |-> FALSE]
Exists(row) == row.type # "none"

\* incident 0 stands for "no incident".
Event == [request: Requests, source: Sources, track: TrackIds,
          type: SupportedTypes, incident: 0..MaxRequests]
Stat == [total: Nat, normal: Nat, wrongWay: Nat]
NoStat == [total |-> 0, normal |-> 0, wrongWay |-> 0]

\* todo: the objects still to process, by their index.
Transaction == [incident: 0..MaxRequests, todo: SUBSET Nat,
                rows: [TrackIds -> Track], events: Seq(Event), stat: Stat,
                wrongWay: BOOLEAN]
NoTransaction == [incident |-> 0, todo |-> {},
                  rows |-> [t \in TrackIds |-> NoTrack], events |-> << >>,
                  stat |-> NoStat, wrongWay |-> FALSE]

Running == {"started", "admitted", "touched", "processing", "committed"}
SettledStages == {"done", "failed", "lost"}
Stages == {"none", "queued"} \cup Running \cup SettledStages
Settled(r) == stage[r] \in SettledStages

TypeOK ==
    /\ snap \in [Requests -> Snapshots]
    /\ stage \in [Requests -> Stages]
    /\ tx \in [Requests -> Transaction]
    /\ heartbeat \in [Sources -> 0..MaxRequests]
    /\ tracks \in [Sources -> [TrackIds -> Track]]
    /\ incidents \in [Requests -> {"none", "ACTIVE", "RESOLVED"}]
    /\ events \in Seq(Event)
    /\ stats \in [Sources -> Stat]
    /\ shown \subseteq 1..Len(events)
    /\ restarts \in 0..MaxRestarts

Init ==
    /\ snap \in [Requests -> Snapshots]
    /\ stage = [r \in Requests |-> "none"]
    /\ tx = [r \in Requests |-> NoTransaction]
    /\ heartbeat = [s \in Sources |-> 0]
    /\ tracks = [s \in Sources |-> [t \in TrackIds |-> NoTrack]]
    /\ incidents = [r \in Requests |-> "none"]
    /\ events = << >>
    /\ stats = [s \in Sources |-> NoStat]
    /\ shown = {}
    /\ restarts = 0

-----------------------------------------------------------------------------
\* receiveWrongWayPayload: the snapshot is stamped and queued for its source.
Receive(r) ==
    /\ stage[r] = "none"
    /\ \A q \in 1..(r - 1) : stage[q] # "none"
    /\ stage' = [stage EXCEPT ![r] = "queued"]
    /\ UNCHANGED <<snap, tx, heartbeat, tracks, incidents, events, stats, shown, restarts>>

\* Mutant of MyTurn: without the queue, a snapshot is processed as soon as it arrives.
MyTurn_NoQueue(r) == TRUE

\* Mutant of MyTurn: a failed snapshot keeps its place in the queue.
MyTurn_AfterSuccess(r) ==
    \A q \in 1..(r - 1) : Src(q) = Src(r) => stage[q] \in {"done", "lost"}

\* enqueueBySource: every earlier snapshot of the source has been dealt with.
MyTurn(r) == \A q \in 1..(r - 1) : Src(q) = Src(r) => Settled(q)

Start(r) ==
    /\ stage[r] = "queued"
    /\ MyTurn(r)
    /\ stage' = [stage EXCEPT ![r] = "started"]
    /\ UNCHANGED <<snap, tx, heartbeat, tracks, incidents, events, stats, shown, restarts>>

\* validateSnapshot, then findSourceDevice: 400 or 404 before anything is written.
Admissible(r) == snap[r].at # 0 /\ Src(r) \in Sources

Admit(r) ==
    /\ stage[r] = "started"
    /\ stage' = [stage EXCEPT ![r] = IF Admissible(r) THEN "admitted" ELSE "failed"]
    /\ UNCHANGED <<snap, tx, heartbeat, tracks, incidents, events, stats, shown, restarts>>

\* validateObjects keeps the well-formed objects, here their indices.
Acceptable(o) == o.identified /\ o.type \in SupportedTypes
Object(r, k) == snap[r].objects[k]
Accepted(r) == {k \in 1..Len(snap[r].objects) : Acceptable(Object(r, k))}
AllRejected(r) == snap[r].objects # << >> /\ Accepted(r) = {}

\* The sign of life is recorded first; a snapshot without one acceptable
\* object is then refused with 400.
TouchDevice(r) ==
    /\ stage[r] = "admitted"
    /\ heartbeat' = [heartbeat EXCEPT ![Src(r)] = r]
    /\ stage' = [stage EXCEPT ![r] = IF AllRejected(r) THEN "failed" ELSE "touched"]
    /\ UNCHANGED <<snap, tx, tracks, incidents, events, stats, shown, restarts>>

OpenIncidents(z) ==
    {i \in Requests : incidents[i] = "ACTIVE" /\ ZoneOf[Src(i)] = z}

\* findFirst of the newest open incident.  Two are open in a zone only when
\* overlapping transactions created them, and then either may be the newer.
BeginTransaction(r) ==
    /\ stage[r] = "touched"
    /\ LET open == OpenIncidents(ZoneOf[Src(r)])
       IN  \E i \in IF open = {} THEN {0} ELSE open :
             tx' = [tx EXCEPT ![r] = [NoTransaction EXCEPT !.incident = i,
                                                           !.todo = Accepted(r)]]
    /\ stage' = [stage EXCEPT ![r] = "processing"]
    /\ UNCHANGED <<snap, heartbeat, tracks, incidents, events, stats, shown, restarts>>

\* The row of a track as transaction r reads it: its own write, or the
\* latest committed row.
Row(r, t) == IF Exists(tx[r].rows[t]) THEN tx[r].rows[t] ELSE tracks[Src(r)][t]

\* Mutant of IsStale: the check for late snapshots is forgotten.
IsStale_Never(row, at) == FALSE

IsStale(row, at) == Exists(row) /\ row.lastSeenAt > at

\* The row after an observation at time at.
Observed(row, o, at) ==
    [type |-> o.type,
     lastSeenAt |-> at,
     active |-> o.type # SituationEnded,
     endedAt |-> IF o.type = SituationEnded THEN at ELSE 0,
     firstVehicle |-> IF Exists(row) THEN row.firstVehicle ELSE o.vehicle,
     firstNormal |-> IF Exists(row) THEN row.firstNormal ELSE o.type = NormalDriving]

\* Mutant of StateChanged: every observation is taken for a change.
StateChanged_Always(row, o) == TRUE

StateChanged(row, o) ==
    \/ ~Exists(row)
    \/ ~row.active /\ o.type # SituationEnded
    \/ row.type # o.type

RequiresHistory(o) == o.type # NormalDriving

\* Mutant of EnsureActiveIncident: the lookup of the open incident is forgotten.
EnsureActiveIncident_AlwaysNew(r) == r

\* ensureActiveIncident: the open incident, or a new one.
EnsureActiveIncident(r) == IF tx[r].incident = 0 THEN r ELSE tx[r].incident

\* Mutant of IncidentAfter: the event is stored before the incident is ensured.
IncidentAfter_TooLate(r, o) == tx[r].incident

IncidentAfter(r, o) == IF o.type = WrongWay THEN EnsureActiveIncident(r) ELSE tx[r].incident

\* Mutant of StatAfter: the alarm is counted on every snapshot.
StatAfter_EverySnapshot(stat, row, o) ==
    [total |-> stat.total + (IF ~Exists(row) /\ o.vehicle THEN 1 ELSE 0),
     normal |-> stat.normal
                + (IF ~Exists(row) /\ o.vehicle /\ o.type = NormalDriving THEN 1 ELSE 0),
     wrongWay |-> stat.wrongWay + (IF o.type = WrongWay THEN 1 ELSE 0)]

\* The increments of the daily statistics: a vehicle is counted when its
\* track is new, an alarm when its event is stored.
StatAfter(stat, row, o) ==
    LET new == ~Exists(row) /\ o.vehicle
        alarm == StateChanged(row, o) /\ o.type = WrongWay
    IN  [total |-> stat.total + (IF new THEN 1 ELSE 0),
         normal |-> stat.normal + (IF new /\ o.type = NormalDriving THEN 1 ELSE 0),
         wrongWay |-> stat.wrongWay + (IF alarm THEN 1 ELSE 0)]

EventsAfter(r, row, o) ==
    IF StateChanged(row, o) /\ RequiresHistory(o)
    THEN Append(tx[r].events,
                [request |-> r, source |-> Src(r), track |-> o.track,
                 type |-> o.type, incident |-> IncidentAfter(r, o)])
    ELSE tx[r].events

\* The objects are processed in the order of the array.
IsNext(r, k) == k \in tx[r].todo /\ \A j \in tx[r].todo : k <= j

\* processObject on an object older than what is known of its track.
SkipStaleObject(r, k) ==
    /\ stage[r] = "processing"
    /\ IsNext(r, k)
    /\ IsStale(Row(r, Object(r, k).track), snap[r].at)
    /\ tx' = [tx EXCEPT ![r].todo = @ \ {k}]
    /\ UNCHANGED <<snap, stage, heartbeat, tracks, incidents, events, stats, shown, restarts>>

\* processObject on any other object.
ProcessObject(r, k) ==
    /\ stage[r] = "processing"
    /\ IsNext(r, k)
    /\ LET o == Object(r, k)
           row == Row(r, o.track)
       IN  /\ ~IsStale(row, snap[r].at)
           /\ tx' = [tx EXCEPT ![r] =
                       [incident |-> IncidentAfter(r, o),
                        todo |-> @.todo \ {k},
                        rows |-> [@.rows EXCEPT ![o.track] = Observed(row, o, snap[r].at)],
                        events |-> EventsAfter(r, row, o),
                        stat |-> StatAfter(@.stat, row, o),
                        wrongWay |-> @.wrongWay \/ o.type = WrongWay]]
    /\ UNCHANGED <<snap, stage, heartbeat, tracks, incidents, events, stats, shown, restarts>>

\* resolveIncidentIfNeeded looks at every object of the snapshot, also at
\* those that were rejected or skipped as stale.
HasSituationEnded(r) ==
    \E k \in 1..Len(snap[r].objects) : Object(r, k).type = SituationEnded

\* Mutant of ResolvesIncident: wrong-way objects beside the ended one are ignored.
ResolvesIncident_IgnoresAlarms(r) == tx[r].incident # 0 /\ HasSituationEnded(r)

ResolvesIncident(r) ==
    tx[r].incident # 0 /\ ~tx[r].wrongWay /\ HasSituationEnded(r)

IncidentsAfter(r) ==
    [i \in Requests |->
        IF i = tx[r].incident /\ ResolvesIncident(r) THEN "RESOLVED"
        ELSE IF i = tx[r].incident /\ i = r THEN "ACTIVE"
        ELSE incidents[i]]

\* deactivateMissingTracks: not in this snapshot, and not seen lately.
IsMissing(r, row, t) ==
    /\ row.active
    /\ row.lastSeenAt < snap[r].at - InactiveTimeout
    /\ \A k \in Accepted(r) : Object(r, k).track # t

RowsAfter(r) ==
    [t \in TrackIds |->
        IF IsMissing(r, Row(r, t), t)
        THEN [Row(r, t) EXCEPT !.active = FALSE, !.endedAt = snap[r].at]
        ELSE Row(r, t)]

Plus(a, b) == [total |-> a.total + b.total, normal |-> a.normal + b.normal,
               wrongWay |-> a.wrongWay + b.wrongWay]

\* All objects are done: the incident is resolved if the situation ended,
\* missing tracks are deactivated, and the transaction commits.
Commit(r) ==
    /\ stage[r] = "processing"
    /\ tx[r].todo = {}
    /\ tracks' = [tracks EXCEPT ![Src(r)] = RowsAfter(r)]
    /\ incidents' = IncidentsAfter(r)
    /\ events' = events \o tx[r].events
    /\ stats' = [stats EXCEPT ![Src(r)] = Plus(@, tx[r].stat)]
    /\ tx' = [tx EXCEPT ![r] = NoTransaction]
    /\ stage' = [stage EXCEPT ![r] = "committed"]
    /\ UNCHANGED <<snap, heartbeat, shown, restarts>>

\* A query fails, or the transaction is given up: it is rolled back, and the
\* request is answered with an error.
DatabaseError(r) ==
    /\ stage[r] \in {"started", "admitted", "touched", "processing"}
    /\ tx' = [tx EXCEPT ![r] = NoTransaction]
    /\ stage' = [stage EXCEPT ![r] = "failed"]
    /\ UNCHANGED <<snap, heartbeat, tracks, incidents, events, stats, shown, restarts>>

\* Mutant of Alarms: the broadcast stops at the first event that is not an alarm.
Alarms_UpToFirstOther(r) ==
    {i \in 1..Len(events) :
        /\ events[i].request = r
        /\ \A k \in 1..i : events[k].request = r => events[k].type = WrongWay}

\* applyDashboardEffects: of the events just stored, the alarms.
Alarms(r) == {i \in 1..Len(events) : events[i].request = r /\ events[i].type = WrongWay}

\* applyDashboardEffects and notifySnapshotProcessed, after the commit.
Publish(r) ==
    /\ stage[r] = "committed"
    /\ shown' = shown \cup Alarms(r)
    /\ stage' = [stage EXCEPT ![r] = "done"]
    /\ UNCHANGED <<snap, tx, heartbeat, tracks, incidents, events, stats, restarts>>

\* The transaction is committed, but the answer to the commit is lost: what it stored
\* stays, the request is answered with an error, and nothing is published.
LoseAcknowledgement(r) ==
    /\ stage[r] = "committed"
    /\ stage' = [stage EXCEPT ![r] = "failed"]
    /\ UNCHANGED <<snap, tx, heartbeat, tracks, incidents, events, stats, shown, restarts>>

\* The Node process restarts: its queues are gone, open transactions roll back.
Restart ==
    /\ restarts < MaxRestarts
    /\ restarts' = restarts + 1
    /\ stage' = [r \in Requests |-> IF stage[r] \in {"queued"} \cup Running
                                    THEN "lost" ELSE stage[r]]
    /\ tx' = [r \in Requests |-> NoTransaction]
    /\ UNCHANGED <<snap, heartbeat, tracks, incidents, events, stats, shown>>

Step(r) ==
    \/ Start(r)
    \/ Admit(r)
    \/ TouchDevice(r)
    \/ BeginTransaction(r)
    \/ \E k \in tx[r].todo : SkipStaleObject(r, k) \/ ProcessObject(r, k)
    \/ Commit(r)
    \/ Publish(r)

Next ==
    \/ \E r \in Requests : Receive(r) \/ Step(r) \/ DatabaseError(r) \/ LoseAcknowledgement(r)
    \/ Restart

Spec == Init /\ [][Next]_vars

(***************************************************************************)
(* Fairness: a request whose turn has come goes on, since each of its      *)
(* awaits is a database call that returns or fails.  Nothing obliges a     *)
(* LiDAR PC to send, the database to fail or the server to restart.        *)
(***************************************************************************)
FairSpec == Spec /\ \A r \in Requests : WF_vars(Step(r))

-----------------------------------------------------------------------------
\* A wrong-way situation of a zone is one incident: the lookup at the start
\* of a transaction and the insert at its end never make a second open one
\* (comment at wrongway.service.js 502).
OneOpenIncidentPerZone == \A z \in Zones : Cardinality(OpenIncidents(z)) <= 1

\* The daily statistics agree with the rows they summarize: every vehicle
\* track is counted once, as normal if it was first seen so, and every
\* stored alarm once.
StatsMatchRecords ==
    \A s \in Sources :
        /\ stats[s].total =
             Cardinality({t \in TrackIds : tracks[s][t].firstVehicle})
        /\ stats[s].normal =
             Cardinality({t \in TrackIds : /\ tracks[s][t].firstVehicle
                                           /\ tracks[s][t].firstNormal})
        /\ stats[s].wrongWay =
             Cardinality({i \in 1..Len(events) : /\ events[i].source = s
                                                 /\ events[i].type = WrongWay})

\* Every stored alarm belongs to an incident, one of its own zone.
AlarmsHaveIncidents ==
    \A i \in 1..Len(events) : events[i].type = WrongWay =>
        LET inc == events[i].incident
        IN  /\ inc # 0
            /\ incidents[inc] # "none"
            /\ ZoneOf[Src(inc)] = ZoneOf[events[i].source]

\* When a snapshot that shows a vehicle going the wrong way is committed, its
\* zone has an open incident, whatever other objects of it ended (comment at
\* wrongway.service.js 649).
AlarmLeavesIncidentOpen ==
    [][\A r \in Requests :
         tx[r].wrongWay /\ stage'[r] = "committed" =>
             OpenIncidents(ZoneOf[Src(r)])' # {}]_vars

\* Neither a late snapshot nor one that overtook another takes a track or a
\* LiDAR PC back to an earlier time (comments at wrongway.service.js 36, 578).
TimesNeverGoBack ==
    [][\A s \in Sources :
         /\ heartbeat'[s] >= heartbeat[s]
         /\ \A t \in TrackIds : tracks'[s][t].lastSeenAt >= tracks[s][t].lastSeenAt]_vars

\* While a track is active as wrong-way, further snapshots that only repeat
\* it store no second alarm for it (comment at wrongway.service.js 655), also
\* when a request is delivered twice.
NoRepeatedAlarm ==
    [][\A i \in 1..Len(events'), r \in Requests :
         /\ i > Len(events)
         /\ r = events'[i].request
         /\ events'[i].type = WrongWay
         /\ tracks[Src(r)][events'[i].track].active
         /\ tracks[Src(r)][events'[i].track].type = WrongWay
         => \E k \in 1..Len(snap[r].objects) :
                /\ Object(r, k).track = events'[i].track
                /\ Object(r, k).type # WrongWay]_vars

\* An earlier snapshot that failed or was refused holds up no later one.
EveryRequestIsAnswered ==
    \A r \in Requests : stage[r] = "queued" ~> Settled(r)

\* A stored alarm reaches the dashboards, unless the server restarts between
\* the commit and the broadcast, or does not learn of the commit.
StoredAlarmIsShown ==
    \A r \in Requests :
        stage[r] = "committed" ~>
            \/ \A i \in 1..Len(events) :
                 events[i].request = r /\ events[i].type = WrongWay => i \in shown
            \/ stage[r] \in {"lost", "failed"}

\* The requests of a source are dealt with as SerialQueue promises.
Queue == INSTANCE SerialQueue
    WITH Sources <- Sources \cup {"UNKNOWN"},
         source <- [r \in Requests |-> Src(r)],
         phase <- [r \in Requests |->
                     CASE stage[r] = "none" -> "none"
                       [] stage[r] = "queued" -> "queued"
                       [] stage[r] \in Running -> "running"
                       [] OTHER -> "settled"]

QueueIsSerial == Queue!Spec

\* "과거 snapshot이 늦게 도착하면 최신 상태를 과거 값으로 되돌리지 않는다"
\* (wrongway.service.js 578): a track that ended stays ended for a snapshot
\* taken before it ended.
LateSnapshotRevivesNoTrack ==
    [][\A r \in Requests, t \in TrackIds :
         /\ stage[r] = "processing" /\ stage'[r] = "committed"
         /\ ~tracks[Src(r)][t].active
         /\ snap[r].at < tracks[Src(r)][t].endedAt
         => ~tracks'[Src(r)][t].active]_vars

=============================================================================
