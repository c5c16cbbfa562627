------------------------- MODULE LidarRecordsProofs -------------------------
(***************************************************************************)
(* What LidarIngest keeps of the snapshots: tracks, alarms, statistics and *)
(* the order in which the requests of a source are dealt with.             *)
(*                                                                         *)
(* Everything here rests on the queue.  As the requests of one source run  *)
(* one at a time (QueueInv), the rows a transaction has read are still the *)
(* committed ones when it commits (TransactionSteps), so what it has       *)
(* written so far can be related to them: TimesInv, AlarmsInv,             *)
(* IncidentsInv and CountsInv each say how for one of the properties.      *)
(***************************************************************************)
EXTENDS LidarIngestProofs, FunctionTheorems

-----------------------------------------------------------------------------
(* The queue, and what a step does to an open transaction.                 *)

\* Only a request that is being processed has anything uncommitted.
IdleHasNothing == \A r \in Requests : stage[r] # "processing" => tx[r] = NoTransaction

QueueInv == TypeInv /\ InOrder /\ IdleHasNothing


LEMMA InitQueueInv == Init => QueueInv
<1> SUFFICES ASSUME Init PROVE QueueInv
  OBVIOUS
<1>1. InOrder
  BY DEF Init, InOrder, Running
<1>2. IdleHasNothing
  BY DEF Init, IdleHasNothing
<1> QED
  BY <1>1, <1>2, InitTypeInv DEF QueueInv

\* A request moves on: the others stay where they are, and it goes from a
\* stage to the next one, to the end, or into its turn.
LEMMA MovesOn ==
    ASSUME QueueInv, NEW r \in Requests,
           \/ Receive(r) \/ Start(r) \/ Admit(r) \/ TouchDevice(r) \/ BeginTransaction(r)
           \/ (\E k \in tx[r].todo : SkipStaleObject(r, k) \/ ProcessObject(r, k))
           \/ Commit(r) \/ DatabaseError(r) \/ LoseAcknowledgement(r) \/ Publish(r)
    PROVE  /\ snap' = snap
           /\ ~Settled(r)
           /\ \A q \in Requests : q # r => stage'[q] = stage[q] /\ tx'[q] = tx[q]
           /\ stage'[r] \in Running => MyTurn(r)
           /\ stage'[r] # "processing" => tx'[r] = NoTransaction
<1>0. TypeOK /\ (stage[r] # "processing" => tx[r] = NoTransaction)
  BY DEF QueueInv, TypeInv, IdleHasNothing
<1>1. stage[r] \in Running => MyTurn(r) /\ ~Settled(r)
  BY RunningIsInTurn DEF QueueInv
<1>2. CASE Receive(r)
  BY <1>0, <1>1, <1>2 DEF Receive, TypeOK, Settled, SettledStages, Running
<1>3. CASE Start(r)
  BY <1>0, <1>1, <1>3 DEF Start, TypeOK, Settled, SettledStages, Running
<1>4. CASE Admit(r) \/ TouchDevice(r)
  BY <1>0, <1>1, <1>4 DEF Admit, TouchDevice, TypeOK, Settled, SettledStages, Running
<1>5. CASE BeginTransaction(r)
  BY <1>0, <1>1, <1>5 DEF BeginTransaction, TypeOK, Settled, SettledStages, Running
<1>6. ASSUME NEW k \in tx[r].todo, SkipStaleObject(r, k) \/ ProcessObject(r, k)
      PROVE  /\ snap' = snap /\ stage' = stage /\ stage[r] = "processing"
             /\ \A q \in Requests : q # r => tx'[q] = tx[q]
  BY <1>0, <1>6 DEF SkipStaleObject, ProcessObject, TypeOK
<1>7. CASE Commit(r)
  BY <1>0, <1>1, <1>7 DEF Commit, TypeOK, Settled, SettledStages, Running
<1>8. CASE DatabaseError(r)
  BY <1>0, <1>1, <1>8 DEF DatabaseError, TypeOK, Settled, SettledStages, Running
<1>9. CASE LoseAcknowledgement(r) \/ Publish(r)
  BY <1>0, <1>1, <1>9 DEF LoseAcknowledgement, Publish, TypeOK, Settled, SettledStages, Running
<1> QED
  BY <1>1, <1>2, <1>3, <1>4, <1>5, <1>6, <1>7, <1>8, <1>9 DEF Running

LEMMA StepQueueInv == QueueInv /\ [Next]_vars => QueueInv'
<1> SUFFICES ASSUME QueueInv, [Next]_vars PROVE QueueInv'
  OBVIOUS
<1>0. TypeInv' /\ TypeOK
  BY StepTypeInv DEF QueueInv, TypeInv
<1>1. ASSUME NEW r \in Requests,
             /\ snap' = snap
             /\ ~Settled(r)
             /\ \A q \in Requests : q # r => stage'[q] = stage[q] /\ tx'[q] = tx[q]
             /\ stage'[r] \in Running => MyTurn(r)
             /\ stage'[r] # "processing" => tx'[r] = NoTransaction
      PROVE  InOrder' /\ IdleHasNothing'
  <2>1. InOrder'
    BY <1>1, StaysInOrder DEF QueueInv
  <2>2. IdleHasNothing'
    BY <1>1 DEF QueueInv, IdleHasNothing
  <2> QED
    BY <2>1, <2>2
<1>2. CASE Restart
  BY <1>0, <1>2 DEF Restart, TypeOK, InOrder, IdleHasNothing, Running, QueueInv
<1>3. CASE UNCHANGED vars
  <2>1. snap' = snap /\ stage' = stage /\ tx' = tx
    BY <1>3 DEF vars
  <2> QED
    BY <1>0, <2>1 DEF QueueInv, InOrder, IdleHasNothing, Src, Settled
<1> QED
  BY <1>0, <1>1, <1>2, <1>3, MovesOn, StepCases DEF QueueInv

LEMMA QueueInvariant == Spec => []QueueInv
BY InitQueueInv, StepQueueInv, PTL DEF Spec

\* What is committed changes at a commit only.
LEMMA CommittedOnly ==
    ASSUME [Next]_vars
    PROVE  \/ UNCHANGED <<snap, tracks, incidents, events, stats>>
           \/ \E r \in Requests : Commit(r)
BY StepCases, ZenonT(40)
   DEF Receive, Start, Admit, TouchDevice, BeginTransaction, SkipStaleObject, ProcessObject,
       DatabaseError, LoseAcknowledgement, Publish, Restart, vars

\* While a transaction is open, the rows of its source stay as they are, and
\* it changes by what its own request does.
LEMMA TransactionSteps ==
    ASSUME QueueInv, [Next]_vars, NEW r \in Requests, stage'[r] = "processing"
    PROVE  /\ snap' = snap /\ Src(r) \in Sources
           /\ tracks'[Src(r)] = tracks[Src(r)] /\ stats'[Src(r)] = stats[Src(r)]
           /\ \/ stage[r] = "processing" /\ tx'[r] = tx[r]
              \/ BeginTransaction(r)
              \/ \E k \in tx[r].todo : SkipStaleObject(r, k)
              \/ \E k \in tx[r].todo : ProcessObject(r, k)
<1>0. TypeOK /\ TypeInv /\ TypeInv' /\ InOrder
  BY StepTypeInv DEF QueueInv, TypeInv
<1>1. snap' = snap
  BY <1>0, CommittedOnly DEF Commit
<1>2. Src(r) \in Sources
  BY <1>0, <1>1 DEF TypeInv, Src
<1>3. ASSUME NEW q \in Requests, q # r,
             \/ Receive(q) \/ Start(q) \/ Admit(q) \/ TouchDevice(q) \/ BeginTransaction(q)
             \/ (\E k \in tx[q].todo : SkipStaleObject(q, k) \/ ProcessObject(q, k))
             \/ Commit(q) \/ DatabaseError(q) \/ LoseAcknowledgement(q) \/ Publish(q)
      PROVE  stage[r] = "processing" /\ tx'[r] = tx[r]
  BY <1>3, MovesOn
<1>4. \/ stage[r] = "processing" /\ tx'[r] = tx[r]
      \/ BeginTransaction(r)
      \/ \E k \in tx[r].todo : SkipStaleObject(r, k)
      \/ \E k \in tx[r].todo : ProcessObject(r, k)
  <2>1. CASE UNCHANGED vars
    BY <2>1 DEF vars
  <2>2. ~Restart
    BY <1>0 DEF Restart, TypeOK, Running
  <2>3. ~Receive(r) /\ ~Start(r) /\ ~Admit(r) /\ ~TouchDevice(r) /\ ~Commit(r)
        /\ ~DatabaseError(r) /\ ~LoseAcknowledgement(r) /\ ~Publish(r)
    BY <1>0 DEF Receive, Start, Admit, TouchDevice, Commit, DatabaseError,
                LoseAcknowledgement, Publish, TypeOK
  <2> QED
    BY <1>3, <2>1, <2>2, <2>3, StepCases
<1>5. tracks'[Src(r)] = tracks[Src(r)] /\ stats'[Src(r)] = stats[Src(r)]
  <2>1. ASSUME NEW q \in Requests, Commit(q), Src(q) = Src(r) PROVE FALSE
    <3>1. q # r
      BY <1>0, <2>1 DEF Commit, TypeOK
    <3>2. stage[q] = "processing" /\ stage[r] = "processing"
      BY <1>0, <2>1, <3>1 DEF Commit, TypeOK
    <3>3. q \in 1..(r - 1) \/ r \in 1..(q - 1)
      BY <3>1, IngestAssumption DEF Requests
    <3> QED
      BY <1>0, <2>1, <3>2, <3>3 DEF InOrder, Running, Settled, SettledStages
  <2>2. ASSUME NEW q \in Requests, Commit(q), Src(q) # Src(r)
        PROVE  tracks'[Src(r)] = tracks[Src(r)] /\ stats'[Src(r)] = stats[Src(r)]
    BY <1>0, <2>2 DEF Commit, TypeOK
  <2> QED
    BY <2>1, <2>2, CommittedOnly
<1> QED
  BY <1>1, <1>2, <1>4, <1>5

-----------------------------------------------------------------------------
(* The requests of a source, as SerialQueue promises.                      *)

LEMMA StepQueue ==
    ASSUME QueueInv, [Next]_vars
    PROVE  [Queue!Next]_(Queue!vars)
<1> USE IngestAssumption DEF Queue!Requests, Requests
<1>0. TypeOK /\ InOrder
  BY DEF QueueInv, TypeInv
<1> DEFINE Phase(g) == CASE g = "none" -> "none"
                         [] g = "queued" -> "queued"
                         [] g \in Running -> "running"
                         [] OTHER -> "settled"
           seen == [r \in Requests |-> Phase(stage[r])]
<1>1. \A g \in Stages : /\ Phase(g) = "none" <=> g = "none"
                        /\ Phase(g) = "queued" <=> g = "queued"
                        /\ Phase(g) = "running" <=> g \in Running
                        /\ Phase(g) = "settled" <=> g \in SettledStages
  BY DEF Stages, Running, SettledStages
<1>2. \A r \in Requests : seen[r] = Phase(stage[r]) /\ stage[r] \in Stages
  BY <1>0 DEF TypeOK
<1>3. /\ seen \in [Requests -> {"none", "queued", "running", "settled"}]
      /\ seen' = [r \in Requests |-> Phase(stage'[r])]
  OBVIOUS
<1> HIDE DEF Phase
\* One request goes on, or stays where it is in the eyes of the queue.
<1>4. ASSUME NEW r \in Requests, NEW g, stage' = [stage EXCEPT ![r] = g], snap' = snap
      PROVE  /\ seen' = [seen EXCEPT ![r] = Phase(g)]
             /\ UNCHANGED [q \in Requests |-> Src(q)]
  <2>1. \A q \in Requests : stage'[q] = IF q = r THEN g ELSE stage[q]
    BY <1>0, <1>4 DEF TypeOK
  <2>2. \A q \in Requests : seen'[q] = IF q = r THEN Phase(g) ELSE seen[q]
    BY <2>1
  <2>3. seen' = [q \in Requests |-> IF q = r THEN Phase(g) ELSE seen[q]]
    BY <2>2
  <2> QED
    BY <1>4, <2>3 DEF Src
<1>5. ASSUME NEW r \in Requests, NEW g, stage' = [stage EXCEPT ![r] = g], snap' = snap,
             Phase(g) = Phase(stage[r])
      PROVE  UNCHANGED Queue!vars
  <2>1. seen' = seen
    BY <1>3, <1>4, <1>5
  <2> QED
    BY <1>4, <1>5, <2>1 DEF Queue!vars, Phase
<1>6. ASSUME NEW r \in Requests, Receive(r) PROVE Queue!Submit(r)
  <2>1. /\ stage' = [stage EXCEPT ![r] = "queued"] /\ snap' = snap /\ stage[r] = "none"
        /\ \A q \in 1..(r - 1) : stage[q] # "none" /\ q \in Requests
    BY <1>6 DEF Receive
  <2>2. seen[r] = "none" /\ \A q \in 1..(r - 1) : seen[q] # "none"
    BY <1>1, <1>2, <2>1
  <2>3. Phase("queued") = "queued"
    BY DEF Phase, Running
  <2>4. seen' = [seen EXCEPT ![r] = "queued"] /\ UNCHANGED [q \in Requests |-> Src(q)]
    BY <1>4, <2>1, <2>3
  <2> QED
    BY <2>2, <2>4 DEF Queue!Submit, Phase
<1>7. ASSUME NEW r \in Requests, Start(r) PROVE Queue!Begin(r)
  <2>1. /\ stage' = [stage EXCEPT ![r] = "started"] /\ snap' = snap /\ stage[r] = "queued"
        /\ \A q \in 1..(r - 1) : Src(q) = Src(r) => Settled(q)
    BY <1>7 DEF Start, MyTurn
  <2>2. seen[r] = "queued"
    BY <1>1, <1>2, <2>1
  <2>3. \A q \in 1..(r - 1) : Src(q) = Src(r) => seen[q] = "settled"
    BY <1>1, <1>2, <2>1 DEF Settled
  <2>4. Phase("started") = "running"
    BY DEF Phase, Running
  <2>5. seen' = [seen EXCEPT ![r] = "running"] /\ UNCHANGED [q \in Requests |-> Src(q)]
    BY <1>4, <2>1, <2>4
  <2>6. 1..(r - 1) \subseteq Requests
    OBVIOUS
  <2> HIDE DEF seen
  <2>7. \A q \in Queue!Earlier(r) : seen[q] = "settled"
    BY <2>3, <2>6 DEF Queue!Earlier
  <2> QED
    BY <2>2, <2>5, <2>7 DEF Queue!Begin, seen, Phase
<1>8. ASSUME NEW r \in Requests, NEW g \in SettledStages, stage[r] \in Running,
             stage' = [stage EXCEPT ![r] = g], snap' = snap
      PROVE  Queue!Settle(r)
  <2>1. seen[r] = "running"
    BY <1>1, <1>2, <1>8
  <2>2. Phase(g) = "settled"
    BY <1>1 DEF Stages
  <2>3. seen' = [seen EXCEPT ![r] = "settled"] /\ UNCHANGED [q \in Requests |-> Src(q)]
    BY <1>4, <1>8, <2>2
  <2> QED
    BY <2>1, <2>3 DEF Queue!Settle, Phase
\* Within its turn a request is running all along.
<1>9. ASSUME NEW r \in Requests, NEW g \in Running, stage[r] \in Running,
             stage' = [stage EXCEPT ![r] = g], snap' = snap
      PROVE  UNCHANGED Queue!vars
  <2>1. Phase(g) = Phase(stage[r])
    BY <1>1, <1>2, <1>9 DEF Stages
  <2> QED
    BY <1>5, <1>9, <2>1
<1>10. ASSUME NEW r \in Requests, Admit(r) \/ TouchDevice(r)
       PROVE  Queue!Settle(r) \/ UNCHANGED Queue!vars
  <2>1. PICK g \in {"admitted", "touched", "failed"} : stage' = [stage EXCEPT ![r] = g]
    BY <1>10 DEF Admit, TouchDevice
  <2>2. stage[r] \in Running /\ snap' = snap
    BY <1>10 DEF Admit, TouchDevice, Running
  <2>3. CASE g = "failed"
    BY <1>8, <2>1, <2>2, <2>3 DEF SettledStages
  <2>4. CASE g # "failed"
    BY <1>9, <2>1, <2>2, <2>4 DEF Running
  <2> QED
    BY <2>3, <2>4
<1>11. ASSUME NEW r \in Requests, BeginTransaction(r) PROVE UNCHANGED Queue!vars
  BY <1>9, <1>11 DEF BeginTransaction, Running
<1>12. ASSUME stage' = stage, snap' = snap PROVE UNCHANGED Queue!vars
  BY <1>12 DEF Queue!vars, Src
<1>13. ASSUME NEW r \in Requests, NEW k, SkipStaleObject(r, k) \/ ProcessObject(r, k)
       PROVE  UNCHANGED Queue!vars
  BY <1>12, <1>13 DEF SkipStaleObject, ProcessObject
<1>14. ASSUME NEW r \in Requests, Commit(r) PROVE UNCHANGED Queue!vars
  BY <1>9, <1>14 DEF Commit, Running
<1>15. ASSUME NEW r \in Requests, DatabaseError(r) \/ LoseAcknowledgement(r) \/ Publish(r)
       PROVE  Queue!Settle(r)
  BY <1>8, <1>15 DEF DatabaseError, LoseAcknowledgement, Publish, Running, SettledStages
<1>16. CASE Restart
  <2>1. snap' = snap
        /\ stage' = [r \in Requests |-> IF stage[r] \in {"queued"} \cup Running
                                         THEN "lost" ELSE stage[r]]
    BY <1>16 DEF Restart
  <2>2. Phase("lost") = "settled"
    BY DEF Phase, Running
  <2>3. \A r \in Requests :
          Phase(stage'[r]) = IF Phase(stage[r]) = "none" THEN "none" ELSE "settled"
    <3> SUFFICES ASSUME NEW r \in Requests
                 PROVE  Phase(stage'[r]) = IF Phase(stage[r]) = "none" THEN "none" ELSE "settled"
      OBVIOUS
    <3>1. CASE stage[r] \in {"queued"} \cup Running
      BY <1>1, <1>2, <2>1, <2>2, <3>1 DEF Running
    <3>2. CASE stage[r] \notin {"queued"} \cup Running
      <4>1. stage'[r] = stage[r] /\ stage[r] \in {"none"} \cup SettledStages
        BY <1>2, <2>1, <3>2 DEF Stages
      <4> QED
        BY <1>1, <1>2, <4>1 DEF SettledStages
    <3> QED
      BY <3>1, <3>2
  <2>4. seen' = [r \in Requests |-> IF seen[r] = "none" THEN "none" ELSE "settled"]
    BY <1>3, <2>3
  <2>5. Queue!Abandon
    BY <2>1, <2>4 DEF Queue!Abandon, Phase, Src
  <2> QED
    BY <2>5 DEF Queue!Next
<1>17. CASE UNCHANGED vars
  BY <1>12, <1>17 DEF vars
<1> QED
  BY <1>6, <1>7, <1>10, <1>11, <1>13, <1>14, <1>15, <1>16, <1>17, StepCases
     DEF Queue!Next

\* The awaits of processSnapshot, errors and restarts keep the promise of the
\* queue: one snapshot of a source at a time, in the order of arrival.
THEOREM QueueKeepsItsPromise == Spec => QueueIsSerial
<1>1. Init => Queue!Init
  <2> SUFFICES ASSUME Init PROVE Queue!Init
    OBVIOUS
  <2>1. \A r \in Requests : Src(r) \in Sources \cup {"UNKNOWN"}
    BY IngestAssumption DEF Init, Src, Snapshot
  <2>2. [r \in Requests |-> Src(r)] \in [Requests -> Sources \cup {"UNKNOWN"}]
    BY <2>1
  <2>3. \A r \in Requests : stage[r] = "none"
    BY DEF Init
  <2> QED
    BY <2>2, <2>3 DEF Queue!Init, Requests, Queue!Requests, Running
<1> QED
  BY <1>1, StepQueue, QueueInvariant, PTL DEF Spec, QueueIsSerial, Queue!Spec

-----------------------------------------------------------------------------
(* The times of tracks and LiDAR PCs.                                      *)

\* A LiDAR PC's heartbeat is that of a request whose turn has come.
HeartbeatInTurn ==
    \A r \in Requests : Src(r) \in Sources /\ ~Settled(r) => heartbeat[Src(r)] <= r

\* A track without a row has the values of none.
NoRowNoValues ==
    \A s \in Sources, t \in TrackIds : ~Exists(tracks[s][t]) => tracks[s][t] = NoTrack

\* What a transaction writes is no older than what is committed.
WritesAreNewer ==
    \A r \in Requests, t \in TrackIds :
        stage[r] = "processing" /\ Exists(tx[r].rows[t])
            => tx[r].rows[t].lastSeenAt >= tracks[Src(r)][t].lastSeenAt

TimesInv == QueueInv /\ HeartbeatInTurn /\ NoRowNoValues /\ WritesAreNewer

\* What processing an object makes of its transaction.
LEMMA ObjectProcessed ==
    ASSUME QueueInv, NEW r \in Requests, NEW k \in tx[r].todo, ProcessObject(r, k)
    PROVE  /\ stage[r] = "processing" /\ Src(r) \in Sources /\ tx'[r] = Processed(r, k)
           /\ k \in 1..Len(snap[r].objects)
           /\ Object(r, k).track \in TrackIds
           /\ Object(r, k).type \in SupportedTypes
           /\ Object(r, k).vehicle \in BOOLEAN
           /\ ~IsStale(Row(r, Object(r, k).track), snap[r].at)
           /\ Row(r, Object(r, k).track) \in Track
<1>1. TypeOK /\ stage[r] = "processing" /\ Src(r) \in Sources /\ k \in Accepted(r)
  BY DEF ProcessObject, QueueInv, TypeInv
<1>2. tx'[r] = Processed(r, k)
  BY <1>1, ProcessObjectEffect DEF TypeOK
<1>3. /\ Object(r, k) \in ObjectEntry
      /\ Object(r, k).type \in SupportedTypes /\ Object(r, k).track \in TrackIds
  BY <1>1, AcceptedObjects DEF TypeOK
<1>4. Object(r, k).vehicle \in BOOLEAN
  BY <1>3 DEF ObjectEntry
<1>5. k \in 1..Len(snap[r].objects)
  BY <1>1 DEF Accepted
<1>6. ~IsStale(Row(r, Object(r, k).track), snap[r].at)
  BY DEF ProcessObject
<1>7. Row(r, Object(r, k).track) \in Track
  BY <1>1, <1>3, RowType
<1> QED
  BY <1>1, <1>2, <1>3, <1>4, <1>5, <1>6, <1>7

\* An observed track has a row.
LEMMA RowsProcessed ==
    ASSUME QueueInv, NEW r \in Requests, NEW k \in tx[r].todo, ProcessObject(r, k)
    PROVE  LET o == Object(r, k)
               seen == Observed(Row(r, o.track), o, snap[r].at)
           IN  /\ \A t \in TrackIds : tx'[r].rows[t] = IF t = o.track THEN seen ELSE tx[r].rows[t]
               /\ Exists(seen)
<1> DEFINE o == Object(r, k)
           seen == Observed(Row(r, o.track), o, snap[r].at)
<1>1. tx'[r].rows = [tx[r].rows EXCEPT ![o.track] = seen]
  <2>1. tx'[r] = Processed(r, k)
    BY ObjectProcessed
  <2> QED
    BY <2>1 DEF Processed
<1>2. tx[r].rows \in [TrackIds -> Track]
  BY DEF QueueInv, TypeInv, TypeOK, Transaction
<1>3. o.type \in SupportedTypes
  BY ObjectProcessed
<1>4. Exists(seen)
  BY <1>3 DEF Exists, Observed, SupportedTypes, NormalDriving, WrongWay, SituationEnded
<1> HIDE DEF seen, o
<1>5. \A t \in TrackIds : tx'[r].rows[t] = IF t = o.track THEN seen ELSE tx[r].rows[t]
  BY <1>1, <1>2
<1> QED
  BY <1>4, <1>5 DEF seen, o

\* A track without a row keeps none, or gets one.
LEMMA NoRowNoValuesAfter ==
    ASSUME QueueInv, NoRowNoValues, [Next]_vars
    PROVE  NoRowNoValues'
<1>1. ASSUME NEW r \in Requests, Commit(r), NEW s \in Sources, NEW t \in TrackIds,
             ~Exists(tracks'[s][t])
      PROVE  tracks'[s][t] = NoTrack
  <2>1. TypeOK /\ Src(r) \in Sources
    BY <1>1 DEF QueueInv, TypeInv, Commit
  <2>2. CASE s # Src(r)
    BY <1>1, <2>1, <2>2 DEF Commit, TypeOK, NoRowNoValues
  <2>3. CASE s = Src(r)
    <3>1. tracks'[s][t] = RowsAfter(r)[t]
      BY <1>1, <2>1, <2>3 DEF Commit, TypeOK
    <3>2. Row(r, t) \in Track
      BY <2>1, RowType
    <3>3. ~Exists(Row(r, t))
      BY <1>1, <3>1, <3>2 DEF RowsAfter, Exists, Track
    <3>4. Row(r, t) = NoTrack
      BY <2>3, <3>3 DEF Row, NoRowNoValues
    <3> QED
      BY <3>1, <3>4 DEF RowsAfter, IsMissing, NoTrack
  <2> QED
    BY <2>2, <2>3
<1>2. CASE \E r \in Requests : Commit(r)
  BY <1>1, <1>2 DEF NoRowNoValues
<1>3. CASE UNCHANGED <<snap, tracks, incidents, events, stats>>
  BY <1>3 DEF NoRowNoValues
<1> QED
  BY <1>2, <1>3, CommittedOnly

LEMMA HeartbeatInTurnAfter ==
    ASSUME QueueInv, HeartbeatInTurn, [Next]_vars
    PROVE  HeartbeatInTurn'
<1>0. TypeOK /\ InOrder
  BY DEF QueueInv, TypeInv
<1>1. snap' = snap
  BY CommittedOnly DEF Commit
<1>2. \A q \in Requests : Settled(q) => Settled(q)'
  BY <1>0, StepCases DEF Settled, SettledStages, Receive, Start, Admit, TouchDevice,
     BeginTransaction, SkipStaleObject, ProcessObject, Commit, DatabaseError,
     LoseAcknowledgement, Publish, Restart, vars, TypeOK, Running
<1>3. ASSUME NEW r \in Requests, TouchDevice(r) PROVE HeartbeatInTurn'
  <2>1. Src(r) \in Sources /\ heartbeat' = [heartbeat EXCEPT ![Src(r)] = r]
    BY <1>3 DEF TouchDevice, QueueInv, TypeInv
  <2>2. \A q \in Requests : Src(q) = Src(r) /\ ~Settled(q) => r <= q
    <3>1. MyTurn(r)
      BY <1>0, <1>3, RunningIsInTurn DEF TouchDevice, Running
    <3> QED
      BY <3>1, IngestAssumption DEF MyTurn, Requests
  <2>3. heartbeat \in [Sources -> 0..MaxRequests]
    BY <1>0 DEF TypeOK
  <2> QED
    BY <1>1, <1>2, <2>1, <2>2, <2>3 DEF HeartbeatInTurn, Src
<1>4. CASE heartbeat' = heartbeat
  BY <1>1, <1>2, <1>4 DEF HeartbeatInTurn, Src
<1>5. heartbeat' = heartbeat \/ \E r \in Requests : TouchDevice(r)
  BY StepCases DEF Receive, Start, Admit, BeginTransaction, SkipStaleObject, ProcessObject,
     Commit, DatabaseError, LoseAcknowledgement, Publish, Restart, vars
<1> QED
  BY <1>3, <1>4, <1>5

LEMMA WritesAreNewerAfter ==
    ASSUME TimesInv, [Next]_vars
    PROVE  WritesAreNewer'
<1> USE DEF TimesInv
<1> SUFFICES ASSUME NEW r \in Requests, NEW t \in TrackIds, stage'[r] = "processing",
                    Exists(tx'[r].rows[t])
             PROVE  tx'[r].rows[t].lastSeenAt >= tracks'[Src(r)][t].lastSeenAt
  BY TransactionSteps DEF WritesAreNewer, Src
<1>0. TypeOK
  BY DEF QueueInv, TypeInv
<1>1. /\ tracks'[Src(r)] = tracks[Src(r)] /\ Src(r) \in Sources
      /\ \/ stage[r] = "processing" /\ tx'[r] = tx[r]
         \/ BeginTransaction(r)
         \/ \E k \in tx[r].todo : SkipStaleObject(r, k)
         \/ \E k \in tx[r].todo : ProcessObject(r, k)
  BY TransactionSteps
<1>2. CASE stage[r] = "processing" /\ tx'[r] = tx[r]
  BY <1>1, <1>2 DEF WritesAreNewer
<1>3. CASE BeginTransaction(r)
  <2>1. tx'[r].rows[t] = NoTrack
    BY <1>0, <1>3 DEF BeginTransaction, NoTransaction, TypeOK
  <2> QED
    BY <2>1 DEF Exists, NoTrack
<1>4. ASSUME NEW k \in tx[r].todo, SkipStaleObject(r, k)
      PROVE  tx'[r].rows[t].lastSeenAt >= tracks'[Src(r)][t].lastSeenAt
  <2>1. stage[r] = "processing" /\ tx'[r].rows = tx[r].rows
    BY <1>0, <1>4 DEF SkipStaleObject, TypeOK, Transaction
  <2> QED
    BY <1>1, <2>1 DEF WritesAreNewer
<1>5. ASSUME NEW k \in tx[r].todo, ProcessObject(r, k)
      PROVE  tx'[r].rows[t].lastSeenAt >= tracks'[Src(r)][t].lastSeenAt
  <2> DEFINE o == Object(r, k)
             old == Row(r, o.track)
  <2>1. /\ stage[r] = "processing" /\ o.track \in TrackIds
        /\ ~IsStale(old, snap[r].at) /\ old \in Track
        /\ tx'[r].rows[t] = IF t = o.track THEN Observed(old, o, snap[r].at) ELSE tx[r].rows[t]
    BY <1>5, ObjectProcessed, RowsProcessed
  <2>2. CASE t # o.track
    BY <1>1, <2>1, <2>2 DEF WritesAreNewer
  <2>3. CASE t = o.track
    <3>1. tx'[r].rows[t].lastSeenAt = snap[r].at /\ snap[r].at \in Nat
      BY <1>0, <2>1, <2>3, IngestAssumption DEF Observed, TypeOK, Snapshot
    <3>2. old.lastSeenAt <= snap[r].at
      <4>1. CASE Exists(old)
        <5>1. old.lastSeenAt \in Nat /\ ~(old.lastSeenAt > snap[r].at)
          BY <2>1, <4>1 DEF IsStale, Track
        <5> QED
          BY <3>1, <5>1
      <4>2. CASE ~Exists(old)
        <5>1. old = NoTrack
          BY <1>1, <2>1, <4>2 DEF Row, NoRowNoValues
        <5> QED
          BY <3>1, <5>1 DEF NoTrack
      <4> QED
        BY <4>1, <4>2
    <3>3. tracks[Src(r)][t] \in Track /\ old.lastSeenAt >= tracks[Src(r)][t].lastSeenAt
      <4>1. tracks[Src(r)][t] \in Track
        BY <1>0, <1>1 DEF TypeOK
      <4>2. CASE Exists(tx[r].rows[t])
        BY <2>1, <2>3, <4>1, <4>2 DEF Row, WritesAreNewer
      <4>3. CASE ~Exists(tx[r].rows[t])
        BY <2>3, <4>1, <4>3 DEF Row, Track
      <4> QED
        BY <4>1, <4>2, <4>3
    <3> QED
      BY <1>1, <2>1, <3>1, <3>2, <3>3 DEF Track
  <2> QED
    BY <2>2, <2>3
<1> QED
  BY <1>1, <1>2, <1>3, <1>4, <1>5

LEMMA TimesInvariant == Spec => []TimesInv
<1>1. Init => TimesInv
  <2> SUFFICES ASSUME Init PROVE TimesInv
    OBVIOUS
  <2>1. HeartbeatInTurn /\ NoRowNoValues /\ WritesAreNewer
    BY IngestAssumption
       DEF Init, HeartbeatInTurn, NoRowNoValues, WritesAreNewer, Requests
  <2> QED
    BY <2>1, InitQueueInv DEF TimesInv
<1>2. TimesInv /\ [Next]_vars => TimesInv'
  BY StepQueueInv, NoRowNoValuesAfter, HeartbeatInTurnAfter, WritesAreNewerAfter
     DEF TimesInv
<1> QED
  BY <1>1, <1>2, PTL DEF Spec

\* Neither a late snapshot nor one that overtook another takes a track or a
\* LiDAR PC back to an earlier time.
THEOREM TimesOnlyAdvance == Spec => TimesNeverGoBack
<1>1. TimesInv /\ [Next]_vars =>
        [\A s \in Sources :
           /\ heartbeat'[s] >= heartbeat[s]
           /\ \A t \in TrackIds : tracks'[s][t].lastSeenAt >= tracks[s][t].lastSeenAt]_vars
  <2> SUFFICES ASSUME TimesInv, [Next]_vars, NEW s \in Sources
               PROVE  /\ heartbeat'[s] >= heartbeat[s]
                      /\ \A t \in TrackIds :
                           tracks'[s][t].lastSeenAt >= tracks[s][t].lastSeenAt
    OBVIOUS
  <2>0. TypeOK /\ QueueInv
    BY DEF TimesInv, QueueInv, TypeInv
  <2>1. heartbeat'[s] >= heartbeat[s]
    <3>1. ASSUME NEW r \in Requests, TouchDevice(r) PROVE heartbeat'[s] >= heartbeat[s]
      <4>1. ~Settled(r) /\ heartbeat' = [heartbeat EXCEPT ![Src(r)] = r]
        BY <3>1 DEF TouchDevice, Settled, SettledStages
      <4>2. heartbeat \in [Sources -> 0..MaxRequests] /\ r \in Nat
        BY <2>0, IngestAssumption DEF TypeOK, Requests
      <4> QED
        BY <4>1, <4>2, IngestAssumption DEF TimesInv, HeartbeatInTurn
    <3>2. heartbeat' = heartbeat \/ \E r \in Requests : TouchDevice(r)
      BY StepCases DEF Receive, Start, Admit, BeginTransaction, SkipStaleObject,
         ProcessObject, Commit, DatabaseError, LoseAcknowledgement, Publish, Restart, vars
    <3>3. heartbeat[s] >= heartbeat[s]
      BY <2>0, IngestAssumption DEF TypeOK
    <3> QED
      BY <3>1, <3>2, <3>3
  <2>2. ASSUME NEW t \in TrackIds PROVE tracks'[s][t].lastSeenAt >= tracks[s][t].lastSeenAt
    <3>0. tracks[s][t] \in Track /\ tracks[s][t].lastSeenAt >= tracks[s][t].lastSeenAt
      BY <2>0 DEF TypeOK, Track
    <3>1. ASSUME NEW r \in Requests, Commit(r)
          PROVE  tracks'[s][t].lastSeenAt >= tracks[s][t].lastSeenAt
      <4>1. Src(r) \in Sources /\ stage[r] = "processing"
        BY <2>0, <3>1 DEF Commit, QueueInv, TypeInv
      <4>2. CASE s # Src(r)
        BY <2>0, <3>0, <3>1, <4>1, <4>2 DEF Commit, TypeOK
      <4>3. CASE s = Src(r)
        <5>1. tracks'[s][t] = RowsAfter(r)[t]
          BY <2>0, <3>1, <4>1, <4>3 DEF Commit, TypeOK
        <5>2. Row(r, t) \in Track
          BY <2>0, <4>1, RowType
        <5>3. tracks'[s][t].lastSeenAt = Row(r, t).lastSeenAt
          BY <5>1, <5>2 DEF RowsAfter, Track
        <5> QED
          BY <3>0, <4>1, <4>3, <5>3 DEF Row, TimesInv, WritesAreNewer
      <4> QED
        BY <4>2, <4>3
    <3> QED
      BY <3>0, <3>1, CommittedOnly
  <2> QED
    BY <2>1, <2>2
<1> QED
  BY <1>1, TimesInvariant, PTL DEF TimesNeverGoBack, Spec

-----------------------------------------------------------------------------
(* The alarms of a track, and their incidents.                             *)

\* The event that processing an object stores.
NewEvent(r, k) ==
    [request |-> r, source |-> Src(r), track |-> Object(r, k).track,
     type |-> Object(r, k).type, incident |-> IncidentAfter(r, Object(r, k))]

\* Every uncommitted event was there before the step, or was stored by it for
\* an object that changed the state of its track.
LEMMA PendingEvents ==
    ASSUME QueueInv, [Next]_vars, NEW r \in Requests, NEW i \in 1..Len(tx'[r].events)
    PROVE  /\ stage'[r] = "processing"
           /\ \/ /\ stage[r] = "processing"
                 /\ i \in 1..Len(tx[r].events) /\ tx'[r].events[i] = tx[r].events[i]
              \/ \E k \in tx[r].todo :
                   /\ ProcessObject(r, k)
                   /\ StateChanged(Row(r, Object(r, k).track), Object(r, k))
                   /\ tx'[r].events[i] = NewEvent(r, k)
<1>0. TypeOK /\ TypeOK' /\ QueueInv'
  BY StepQueueInv DEF QueueInv, TypeInv
<1>1. stage'[r] = "processing"
  <2> SUFFICES ASSUME stage'[r] # "processing" PROVE FALSE
    OBVIOUS
  <2>1. tx'[r].events = << >>
    BY <1>0 DEF QueueInv, IdleHasNothing, NoTransaction
  <2> QED
    BY <2>1
<1>2. tx[r].events \in Seq(Event) /\ tx'[r].events \in Seq(Event)
  BY <1>0 DEF TypeOK, Transaction
<1>3. CASE stage[r] = "processing" /\ tx'[r].events = tx[r].events
  BY <1>1, <1>3
<1>4. CASE BeginTransaction(r)
  <2>1. tx'[r].events = << >>
    BY <1>0, <1>4 DEF BeginTransaction, NoTransaction, TypeOK
  <2> QED
    BY <2>1
<1>5. ASSUME NEW k \in tx[r].todo, SkipStaleObject(r, k)
      PROVE  stage[r] = "processing" /\ tx'[r].events = tx[r].events
  BY <1>0, <1>5 DEF SkipStaleObject, TypeOK, Transaction
<1>6. ASSUME NEW k \in tx[r].todo, ProcessObject(r, k), tx'[r].events # tx[r].events,
             i \notin 1..Len(tx[r].events) \/ tx'[r].events[i] # tx[r].events[i]
      PROVE  /\ StateChanged(Row(r, Object(r, k).track), Object(r, k))
             /\ tx'[r].events[i] = NewEvent(r, k)
  <2>1. tx'[r].events = EventsAfter(r, Row(r, Object(r, k).track), Object(r, k))
    <3>1. tx'[r] = Processed(r, k)
      BY <1>6, ObjectProcessed
    <3> QED
      BY <3>1 DEF Processed
  <2>2. /\ StateChanged(Row(r, Object(r, k).track), Object(r, k))
        /\ tx'[r].events = Append(tx[r].events, NewEvent(r, k))
    BY <1>6, <2>1 DEF EventsAfter, NewEvent
  <2> QED
    BY <1>2, <1>6, <2>2
<1>7. ASSUME NEW k \in tx[r].todo, ProcessObject(r, k) PROVE stage[r] = "processing"
  BY <1>7 DEF ProcessObject
<1> QED
  BY <1>1, <1>3, <1>4, <1>5, <1>6, <1>7, TransactionSteps

\* A commit adds the events of its transaction, and nothing else does.
LEMMA CommittedEvents ==
    ASSUME QueueInv, [Next]_vars, NEW i \in 1..Len(events')
    PROVE  \/ i \in 1..Len(events) /\ events'[i] = events[i]
           \/ \E r \in Requests : \E j \in 1..Len(tx[r].events) :
                Commit(r) /\ i > Len(events) /\ events'[i] = tx[r].events[j]
<1>0. TypeOK
  BY DEF QueueInv, TypeInv
<1>1. CASE events' = events
  BY <1>1
<1>2. ASSUME NEW r \in Requests, Commit(r), i \notin 1..Len(events) \/ events'[i] # events[i]
      PROVE  \E j \in 1..Len(tx[r].events) : i > Len(events) /\ events'[i] = tx[r].events[j]
  <2>1. events \in Seq(Event) /\ tx[r].events \in Seq(Event)
    BY <1>0 DEF TypeOK, Transaction
  <2>2. Len(events) \in Nat /\ Len(tx[r].events) \in Nat
    BY <2>1, LenProperties
  <2>3. events' = events \o tx[r].events
    BY <1>2 DEF Commit
  <2>4. /\ Len(events') = Len(events) + Len(tx[r].events)
        /\ events'[i] = IF i <= Len(events) THEN events[i]
                                            ELSE tx[r].events[i - Len(events)]
    BY <2>1, <2>2, <2>3, ConcatProperties
  <2>5. i > Len(events)
    BY <1>2, <2>2, <2>4
  <2>6. i - Len(events) \in 1..Len(tx[r].events)
    BY <2>2, <2>4, <2>5
  <2> QED
    BY <2>2, <2>4, <2>5, <2>6
<1> QED
  BY <1>1, <1>2, CommittedOnly

OwnEvents ==
    \A r \in Requests : \A i \in 1..Len(tx[r].events) :
        tx[r].events[i].request = r /\ tx[r].events[i].source = Src(r)

LEMMA OwnEventsAfter ==
    ASSUME QueueInv, OwnEvents, [Next]_vars
    PROVE  OwnEvents'
<1> SUFFICES ASSUME NEW r \in Requests, NEW i \in 1..Len(tx'[r].events)
             PROVE  tx'[r].events[i].request = r /\ tx'[r].events[i].source = Src(r)'
  BY DEF OwnEvents
<1>1. Src(r)' = Src(r)
  BY CommittedOnly DEF Src, Commit
<1>2. CASE i \in 1..Len(tx[r].events) /\ tx'[r].events[i] = tx[r].events[i]
  BY <1>1, <1>2 DEF OwnEvents
<1>3. CASE \E k \in tx[r].todo : tx'[r].events[i] = NewEvent(r, k)
  BY <1>1, <1>3 DEF NewEvent
<1> QED
  BY <1>2, <1>3, PendingEvents

IsAlarm(row) == row.active /\ row.type = WrongWay

\* The snapshot of r shows the track t otherwise than going the wrong way.
ShownOtherwise(r, t) ==
    \E k \in 1..Len(snap[r].objects) : Object(r, k).track = t /\ Object(r, k).type # WrongWay

\* An alarm stays one in the eyes of a transaction that only repeats it.
AlarmIsKept ==
    \A r \in Requests, t \in TrackIds :
        /\ stage[r] = "processing"
        /\ IsAlarm(tracks[Src(r)][t])
        /\ ~ShownOtherwise(r, t)
        => IsAlarm(Row(r, t))

NoSecondAlarm ==
    \A r \in Requests : \A i \in 1..Len(tx[r].events) :
        LET e == tx[r].events[i]
        IN  e.type = WrongWay /\ IsAlarm(tracks[Src(r)][e.track]) => ShownOtherwise(r, e.track)

AlarmsInv == QueueInv /\ AlarmIsKept /\ OwnEvents /\ NoSecondAlarm

LEMMA AlarmIsKeptAfter ==
    ASSUME QueueInv, AlarmIsKept, [Next]_vars
    PROVE  AlarmIsKept'
<1> SUFFICES ASSUME NEW r \in Requests, NEW t \in TrackIds, stage'[r] = "processing",
                    IsAlarm(tracks'[Src(r)'][t]), ~ShownOtherwise(r, t)'
             PROVE  IsAlarm(Row(r, t))'
  BY DEF AlarmIsKept, IsAlarm
<1>0. TypeOK
  BY DEF QueueInv, TypeInv
<1>1. /\ snap' = snap /\ tracks'[Src(r)] = tracks[Src(r)]
      /\ \/ stage[r] = "processing" /\ tx'[r] = tx[r]
         \/ BeginTransaction(r)
         \/ \E k \in tx[r].todo : SkipStaleObject(r, k)
         \/ \E k \in tx[r].todo : ProcessObject(r, k)
  BY TransactionSteps
<1>2. IsAlarm(tracks[Src(r)][t]) /\ ~ShownOtherwise(r, t) /\ Src(r)' = Src(r)
  BY <1>1 DEF ShownOtherwise, Object, Src
<1>3. CASE stage[r] = "processing" /\ tx'[r].rows[t] = tx[r].rows[t]
  BY <1>1, <1>2, <1>3 DEF AlarmIsKept, IsAlarm, Row
<1>4. CASE BeginTransaction(r)
  <2>1. tx'[r].rows[t] = NoTrack
    BY <1>0, <1>4 DEF BeginTransaction, NoTransaction, TypeOK
  <2> QED
    BY <1>1, <1>2, <2>1 DEF Row, Exists, NoTrack, IsAlarm
<1>5. ASSUME NEW k \in tx[r].todo, SkipStaleObject(r, k)
      PROVE  stage[r] = "processing" /\ tx'[r].rows[t] = tx[r].rows[t]
  BY <1>0, <1>5 DEF SkipStaleObject, TypeOK, Transaction
<1>6. ASSUME NEW k \in tx[r].todo, ProcessObject(r, k), tx'[r].rows[t] # tx[r].rows[t]
      PROVE  IsAlarm(Row(r, t))'
  <2> DEFINE o == Object(r, k)
             seen == Observed(Row(r, o.track), o, snap[r].at)
  <2>1. t = o.track /\ tx'[r].rows[t] = seen /\ Exists(seen)
    BY <1>6, RowsProcessed
  <2>2. o.type = WrongWay
    BY <1>2, <1>6, <2>1, ObjectProcessed DEF ShownOtherwise
  <2>3. IsAlarm(seen)
    BY <2>2 DEF Observed, IsAlarm, WrongWay, SituationEnded
  <2> HIDE DEF seen
  <2> QED
    BY <2>1, <2>3 DEF Row, IsAlarm
<1>7. ASSUME NEW k \in tx[r].todo, ProcessObject(r, k) PROVE stage[r] = "processing"
  BY <1>7 DEF ProcessObject
<1> QED
  BY <1>1, <1>3, <1>4, <1>5, <1>6, <1>7

LEMMA NoSecondAlarmAfter ==
    ASSUME AlarmsInv, [Next]_vars
    PROVE  NoSecondAlarm'
<1> USE DEF AlarmsInv
<1> SUFFICES ASSUME NEW r \in Requests, NEW i \in 1..Len(tx'[r].events),
                    NEW e, e = tx'[r].events[i], e.type = WrongWay,
                    IsAlarm(tracks'[Src(r)'][e.track])
             PROVE  ShownOtherwise(r, e.track)'
  BY DEF NoSecondAlarm, IsAlarm
<1>1. stage'[r] = "processing"
  BY PendingEvents
<1>2. /\ snap' = snap /\ Src(r)' = Src(r)
      /\ IsAlarm(tracks[Src(r)][e.track])
      /\ ShownOtherwise(r, e.track)' = ShownOtherwise(r, e.track)
  BY <1>1, TransactionSteps DEF Src, ShownOtherwise, Object, IsAlarm
<1>3. CASE i \in 1..Len(tx[r].events) /\ e = tx[r].events[i]
  BY <1>2, <1>3 DEF NoSecondAlarm
<1>4. ASSUME NEW k \in tx[r].todo, ProcessObject(r, k), e = NewEvent(r, k),
             StateChanged(Row(r, Object(r, k).track), Object(r, k))
      PROVE  ShownOtherwise(r, e.track)
  <2>1. stage[r] = "processing" /\ Object(r, k).track \in TrackIds
    BY <1>4, ObjectProcessed
  <2>2. e.track = Object(r, k).track /\ Object(r, k).type = WrongWay
    BY <1>4 DEF NewEvent
  <2>3. ~IsAlarm(Row(r, e.track))
    BY <1>4, <2>2 DEF StateChanged, IsAlarm, Exists, WrongWay
  <2> QED
    BY <1>2, <2>1, <2>2, <2>3 DEF AlarmIsKept
<1> QED
  BY <1>2, <1>3, <1>4, PendingEvents

LEMMA AlarmsInvariant == Spec => []AlarmsInv
<1>1. Init => AlarmsInv
  <2> SUFFICES ASSUME Init PROVE AlarmsInv
    OBVIOUS
  <2>1. AlarmIsKept
    BY DEF Init, AlarmIsKept
  <2>2. \A r \in Requests : tx[r].events = << >>
    BY DEF Init, NoTransaction
  <2>3. OwnEvents /\ NoSecondAlarm
    BY <2>2 DEF OwnEvents, NoSecondAlarm
  <2> QED
    BY <2>1, <2>3, InitQueueInv DEF AlarmsInv
<1>2. AlarmsInv /\ [Next]_vars => AlarmsInv'
  BY StepQueueInv, AlarmIsKeptAfter, OwnEventsAfter, NoSecondAlarmAfter DEF AlarmsInv
<1> QED
  BY <1>1, <1>2, PTL DEF Spec

\* While a track is active as wrong-way, snapshots that only repeat it store
\* no second alarm for it, however they are delivered.
THEOREM AlarmIsStoredOnce == Spec => NoRepeatedAlarm
<1>1. AlarmsInv /\ [Next]_vars =>
        [\A i \in 1..Len(events'), r \in Requests :
           /\ i > Len(events)
           /\ r = events'[i].request
           /\ events'[i].type = WrongWay
           /\ tracks[Src(r)][events'[i].track].active
           /\ tracks[Src(r)][events'[i].track].type = WrongWay
           => \E k \in 1..Len(snap[r].objects) :
                  /\ Object(r, k).track = events'[i].track
                  /\ Object(r, k).type # WrongWay]_vars
  <2> SUFFICES ASSUME AlarmsInv, [Next]_vars,
                      NEW i \in 1..Len(events'), NEW r \in Requests,
                      i > Len(events), r = events'[i].request, events'[i].type = WrongWay,
                      IsAlarm(tracks[Src(r)][events'[i].track])
               PROVE  ShownOtherwise(r, events'[i].track)
    BY DEF IsAlarm, ShownOtherwise
  <2>0. events \in Seq(Event)
    BY DEF AlarmsInv, QueueInv, TypeInv, TypeOK
  <2>1. Len(events) \in Nat
    BY <2>0, LenProperties
  <2>2. PICK q \in Requests : \E j \in 1..Len(tx[q].events) : events'[i] = tx[q].events[j]
    BY <2>1, CommittedEvents DEF AlarmsInv
  <2>3. q = r
    BY <2>2 DEF AlarmsInv, OwnEvents
  <2> QED
    BY <2>2, <2>3 DEF AlarmsInv, NoSecondAlarm
<1> QED
  BY <1>1, AlarmsInvariant, PTL DEF NoRepeatedAlarm, Spec

\* The incident a transaction found was created and is of its zone; the only
\* other one it may name is its own.
FoundIncident ==
    \A r \in Requests :
        LET i == tx[r].incident
        IN  stage[r] = "processing" /\ i # 0
              => i = r \/ (incidents[i] # "none" /\ Zone(i) = Zone(r))

PendingAlarms ==
    \A r \in Requests : \A i \in 1..Len(tx[r].events) :
        tx[r].events[i].type = WrongWay
            => tx[r].events[i].incident = tx[r].incident /\ tx[r].incident # 0

IncidentsInv == QueueInv /\ OwnEvents /\ FoundIncident /\ PendingAlarms /\ AlarmsHaveIncidents

\* Incidents are never deleted.
LEMMA IncidentsStay ==
    ASSUME QueueInv, [Next]_vars, NEW i \in Requests, incidents[i] # "none"
    PROVE  incidents'[i] # "none" /\ snap' = snap
BY CommittedOnly DEF Commit, IncidentsAfter

LEMMA FoundIncidentAfter ==
    ASSUME QueueInv, FoundIncident, [Next]_vars
    PROVE  FoundIncident'
<1> SUFFICES ASSUME NEW r \in Requests, NEW i, i = tx'[r].incident,
                    stage'[r] = "processing", i # 0, i # r
             PROVE  incidents'[i] # "none" /\ Zone(i)' = Zone(r)'
  BY DEF FoundIncident
<1>0. TypeOK /\ TypeOK'
  BY StepTypeInv DEF QueueInv, TypeInv
<1>1. i \in Requests
  BY <1>0, IngestAssumption DEF TypeOK, Transaction, Requests
<1>2. incidents[i] # "none" /\ Zone(i) = Zone(r)
  <2>1. CASE stage[r] = "processing" /\ tx[r].incident = i
    BY <2>1 DEF FoundIncident
  <2>2. CASE BeginTransaction(r)
    <3>1. i \in OpenIncidents(ZoneOf[Src(r)]) \cup {0}
      BY <1>0, <2>2 DEF BeginTransaction, NoTransaction, TypeOK
    <3> QED
      BY <3>1 DEF OpenIncidents, Zone
  <2>3. ASSUME NEW k \in tx[r].todo, SkipStaleObject(r, k)
        PROVE  stage[r] = "processing" /\ tx[r].incident = i
    BY <1>0, <2>3 DEF SkipStaleObject, TypeOK, Transaction
  <2>4. ASSUME NEW k \in tx[r].todo, ProcessObject(r, k)
        PROVE  stage[r] = "processing" /\ tx[r].incident = i
    <3>1. tx'[r] = Processed(r, k) /\ stage[r] = "processing"
      BY <2>4, ObjectProcessed
    <3>2. i = IncidentAfter(r, Object(r, k))
      BY <3>1 DEF Processed
    <3> QED
      BY <3>1, <3>2 DEF IncidentAfter, EnsureActiveIncident
  <2> QED
    BY <2>1, <2>2, <2>3, <2>4, TransactionSteps
<1> QED
  BY <1>1, <1>2, IncidentsStay DEF Zone, Src

LEMMA PendingAlarmsAfter ==
    ASSUME QueueInv, PendingAlarms, [Next]_vars
    PROVE  PendingAlarms'
<1> SUFFICES ASSUME NEW r \in Requests, NEW i \in 1..Len(tx'[r].events),
                    NEW e, e = tx'[r].events[i], e.type = WrongWay
             PROVE  e.incident = tx'[r].incident /\ tx'[r].incident # 0
  BY DEF PendingAlarms
<1>0. TypeOK /\ 0 \notin Requests
  BY IngestAssumption DEF QueueInv, TypeInv, Requests
<1>1. stage'[r] = "processing"
  BY PendingEvents
<1>2. CASE stage[r] = "processing" /\ i \in 1..Len(tx[r].events) /\ e = tx[r].events[i]
  <2>1. e.incident = tx[r].incident /\ tx[r].incident # 0
    BY <1>2 DEF PendingAlarms
  <2>2. ~BeginTransaction(r)
    BY <1>2 DEF BeginTransaction
  <2>3. ASSUME NEW k \in tx[r].todo, SkipStaleObject(r, k)
        PROVE  tx'[r].incident = tx[r].incident
    BY <1>0, <2>3 DEF SkipStaleObject, TypeOK, Transaction
  <2>4. ASSUME NEW k \in tx[r].todo, ProcessObject(r, k)
        PROVE  tx'[r].incident = tx[r].incident
    <3>1. tx'[r] = Processed(r, k)
      BY <2>4, ObjectProcessed
    <3>2. tx'[r].incident = IncidentAfter(r, Object(r, k))
      BY <3>1 DEF Processed
    <3> QED
      BY <2>1, <3>2 DEF IncidentAfter, EnsureActiveIncident
  <2> QED
    BY <1>1, <2>1, <2>2, <2>3, <2>4, TransactionSteps
<1>3. ASSUME NEW k \in tx[r].todo, ProcessObject(r, k), e = NewEvent(r, k)
      PROVE  e.incident = tx'[r].incident /\ tx'[r].incident # 0
  <2>1. tx'[r] = Processed(r, k)
    BY <1>3, ObjectProcessed
  <2>2. tx'[r].incident = IncidentAfter(r, Object(r, k)) /\ Object(r, k).type = WrongWay
        /\ e.incident = IncidentAfter(r, Object(r, k))
    BY <1>3, <2>1 DEF Processed, NewEvent
  <2> QED
    BY <1>0, <2>2 DEF IncidentAfter, EnsureActiveIncident
<1> QED
  BY <1>2, <1>3, PendingEvents

LEMMA AlarmsHaveIncidentsAfter ==
    ASSUME IncidentsInv, [Next]_vars
    PROVE  AlarmsHaveIncidents'
<1> USE DEF IncidentsInv
<1> SUFFICES ASSUME NEW i \in 1..Len(events'), NEW e, e = events'[i], e.type = WrongWay
             PROVE  /\ e.incident # 0
                    /\ incidents'[e.incident] # "none"
                    /\ ZoneOf[Src(e.incident)'] = ZoneOf[e.source]
  BY DEF AlarmsHaveIncidents
<1>0. TypeOK
  BY DEF QueueInv, TypeInv
<1>1. CASE i \in 1..Len(events) /\ e = events[i]
  <2>1. /\ e.incident # 0 /\ incidents[e.incident] # "none"
        /\ ZoneOf[Src(e.incident)] = ZoneOf[e.source]
    BY <1>1 DEF AlarmsHaveIncidents
  <2>2. e.incident \in Requests
    <3>1. events \in Seq(Event)
      BY <1>0 DEF TypeOK
    <3>2. e \in Event
      BY <1>1, <3>1
    <3> QED
      BY <2>1, <3>2, IngestAssumption DEF Event, Requests
  <2> QED
    BY <2>1, <2>2, IncidentsStay DEF Src
<1>2. ASSUME NEW r \in Requests, Commit(r), NEW j \in 1..Len(tx[r].events),
             e = tx[r].events[j]
      PROVE  /\ e.incident # 0
             /\ incidents'[e.incident] # "none"
             /\ ZoneOf[Src(e.incident)'] = ZoneOf[e.source]
  <2>1. e.incident = tx[r].incident /\ tx[r].incident # 0 /\ e.source = Src(r)
    BY <1>2 DEF PendingAlarms, OwnEvents
  <2>2. stage[r] = "processing" /\ snap' = snap /\ incidents' = IncidentsAfter(r)
    BY <1>2 DEF Commit
  <2>3. tx[r].incident \in Requests
    BY <1>0, <2>1, IngestAssumption DEF TypeOK, Transaction, Requests
  <2>4. CASE tx[r].incident = r
    BY <2>1, <2>2, <2>4 DEF IncidentsAfter, Src
  <2>5. CASE tx[r].incident # r
    <3>1. incidents[tx[r].incident] # "none" /\ Zone(tx[r].incident) = Zone(r)
      BY <2>1, <2>2, <2>5 DEF FoundIncident
    <3> QED
      BY <2>1, <2>2, <2>3, <3>1, IncidentsStay DEF Zone, Src
  <2> QED
    BY <2>4, <2>5
<1> QED
  BY <1>1, <1>2, CommittedEvents

\* Every stored alarm belongs to an incident of its own zone; this needs
\* neither one LiDAR PC per zone nor a server that stays up.
THEOREM AlarmsBelongToIncidents == Spec => []AlarmsHaveIncidents
<1>1. Init => IncidentsInv
  <2> SUFFICES ASSUME Init PROVE IncidentsInv
    OBVIOUS
  <2>1. FoundIncident
    BY DEF Init, FoundIncident
  <2>2. events = << >> /\ \A r \in Requests : tx[r].events = << >>
    BY DEF Init, NoTransaction
  <2>3. OwnEvents /\ PendingAlarms /\ AlarmsHaveIncidents
    BY <2>2 DEF OwnEvents, PendingAlarms, AlarmsHaveIncidents
  <2> QED
    BY <2>1, <2>3, InitQueueInv DEF IncidentsInv
<1>2. IncidentsInv /\ [Next]_vars => IncidentsInv'
  BY StepQueueInv, OwnEventsAfter, FoundIncidentAfter, PendingAlarmsAfter,
     AlarmsHaveIncidentsAfter DEF IncidentsInv
<1> QED
  BY <1>1, <1>2, PTL DEF Spec, IncidentsInv

-----------------------------------------------------------------------------
(* The daily statistics.                                                   *)

\* The vehicle tracks among the rows of a source, those first seen driving
\* normally, and the alarms of a source among the events of a sequence.
Vehicles(rows) == {t \in TrackIds : rows[t].firstVehicle}
NormalVehicles(rows) == {t \in TrackIds : rows[t].firstVehicle /\ rows[t].firstNormal}
AlarmsOf(s, seq) == {i \in 1..Len(seq) : seq[i].source = s /\ seq[i].type = WrongWay}

LEMMA AlarmsOfFinite ==
    ASSUME NEW s, NEW seq \in Seq(Event)
    PROVE  IsFiniteSet(AlarmsOf(s, seq)) /\ Cardinality(AlarmsOf(s, seq)) \in Nat
<1>1. IsFiniteSet(1..Len(seq))
  BY LenProperties, FS_Interval
<1>2. AlarmsOf(s, seq) \in SUBSET (1..Len(seq))
  BY DEF AlarmsOf
<1>3. IsFiniteSet(AlarmsOf(s, seq))
  BY <1>1, <1>2, FS_Subset
<1> QED
  BY <1>3, FS_CardinalityType

\* One more event is one more alarm, or none.
LEMMA AlarmsOfAppend ==
    ASSUME NEW s, NEW seq \in Seq(Event), NEW e \in Event
    PROVE  Cardinality(AlarmsOf(s, Append(seq, e))) =
             Cardinality(AlarmsOf(s, seq))
             + (IF e.source = s /\ e.type = WrongWay THEN 1 ELSE 0)
<1> DEFINE n == Len(seq) + 1
           longer == Append(seq, e)
<1>1. /\ Len(seq) \in Nat /\ Len(longer) = n
      /\ \A i \in 1..Len(seq) : longer[i] = seq[i]
      /\ longer[n] = e
  BY LenProperties, AppendProperties
<1>2. IsFiniteSet(AlarmsOf(s, seq)) /\ Cardinality(AlarmsOf(s, seq)) \in Nat
  BY AlarmsOfFinite
<1> HIDE DEF longer, n
<1>3. \A i : i \in 1..Len(longer) <=> i \in 1..Len(seq) \/ i = n
  BY <1>1 DEF n
<1>4. n \notin AlarmsOf(s, seq)
  BY <1>1 DEF AlarmsOf, n
<1>5. CASE e.source = s /\ e.type = WrongWay
  <2>1. AlarmsOf(s, longer) = AlarmsOf(s, seq) \cup {n}
    BY <1>1, <1>3, <1>5 DEF AlarmsOf
  <2> QED
    BY <1>2, <1>4, <1>5, <2>1, FS_AddElement DEF longer
<1>6. CASE ~(e.source = s /\ e.type = WrongWay)
  <2>1. AlarmsOf(s, longer) = AlarmsOf(s, seq)
    BY <1>1, <1>3, <1>6 DEF AlarmsOf
  <2> QED
    BY <1>2, <1>6, <2>1 DEF longer
<1> QED
  BY <1>5, <1>6

\* The alarms of two sequences, one after the other, add up.
LEMMA AlarmsOfConcat ==
    ASSUME NEW s, NEW u \in Seq(Event), NEW v \in Seq(Event)
    PROVE  Cardinality(AlarmsOf(s, u \o v)) =
             Cardinality(AlarmsOf(s, u)) + Cardinality(AlarmsOf(s, v))
<1> DEFINE n == Len(u)
           moved == {i \in 1..Len(u \o v) : i > n /\ i - n \in AlarmsOf(s, v)}
           shift == [j \in AlarmsOf(s, v) |-> j + n]
<1>1. /\ n \in Nat /\ Len(v) \in Nat /\ Len(u \o v) = n + Len(v)
      /\ \A i \in 1..(n + Len(v)) : (u \o v)[i] = IF i <= n THEN u[i] ELSE v[i - n]
  BY LenProperties, ConcatProperties
<1> HIDE DEF n
<1>2. \A j \in AlarmsOf(s, v) : j \in 1..Len(v) /\ j \in Int
  BY DEF AlarmsOf
<1>3. \A j \in AlarmsOf(s, v) : j + n \in moved
  <2> SUFFICES ASSUME NEW j \in AlarmsOf(s, v) PROVE j + n \in moved
    OBVIOUS
  <2>1. j \in 1..Len(v)
    BY <1>2
  <2>2. j + n \in 1..(n + Len(v)) /\ j + n > n /\ (j + n) - n = j
    BY <1>1, <2>1
  <2> QED
    BY <1>1, <2>2
<1>4. shift \in Bijection(AlarmsOf(s, v), moved)
  <2>1. shift \in [AlarmsOf(s, v) -> moved]
    BY <1>3
  <2>2. \A i, j \in AlarmsOf(s, v) : shift[i] = shift[j] => i = j
    BY <1>1, <1>2
  <2>3. \A i \in moved : \E j \in AlarmsOf(s, v) : shift[j] = i
    <3> SUFFICES ASSUME NEW i \in moved PROVE \E j \in AlarmsOf(s, v) : shift[j] = i
      OBVIOUS
    <3>1. i - n \in AlarmsOf(s, v) /\ i \in Int
      BY <1>1
    <3>2. shift[i - n] = i
      BY <1>1, <3>1
    <3> QED
      BY <3>1, <3>2
  <2> HIDE DEF shift, moved
  <2> QED
    BY <2>1, <2>2, <2>3, Fun_IsBij
<1>5. IsFiniteSet(moved) /\ Cardinality(moved) = Cardinality(AlarmsOf(s, v))
  <2>1. ExistsBijection(AlarmsOf(s, v), moved)
    BY <1>4, Fun_ExistsBij
  <2> HIDE DEF moved
  <2> QED
    BY <2>1, AlarmsOfFinite, FS_Bijection
<1>6. AlarmsOf(s, u \o v) = AlarmsOf(s, u) \cup moved
  <2>1. ASSUME NEW i \in AlarmsOf(s, u \o v) PROVE i \in AlarmsOf(s, u) \cup moved
    <3>1. i \in 1..(n + Len(v)) /\ (u \o v)[i].source = s /\ (u \o v)[i].type = WrongWay
      BY <1>1, <2>1 DEF AlarmsOf
    <3>2. CASE i <= n
      BY <1>1, <3>1, <3>2 DEF AlarmsOf, n
    <3>3. CASE i > n
      <4>1. i - n \in 1..Len(v) /\ (u \o v)[i] = v[i - n]
        BY <1>1, <3>1, <3>3
      <4>2. i - n \in AlarmsOf(s, v)
        BY <3>1, <4>1 DEF AlarmsOf
      <4> QED
        BY <1>1, <3>1, <3>3, <4>2
    <3> QED
      BY <1>1, <3>1, <3>2, <3>3
  <2>2. ASSUME NEW i \in AlarmsOf(s, u) PROVE i \in AlarmsOf(s, u \o v)
    <3>1. i \in 1..n /\ u[i].source = s /\ u[i].type = WrongWay
      BY <2>2 DEF AlarmsOf, n
    <3>2. i \in 1..(n + Len(v)) /\ (u \o v)[i] = u[i]
      BY <1>1, <3>1
    <3> QED
      BY <1>1, <3>1, <3>2 DEF AlarmsOf
  <2>3. ASSUME NEW i \in moved PROVE i \in AlarmsOf(s, u \o v)
    <3>1. i \in 1..(n + Len(v)) /\ i > n /\ i - n \in AlarmsOf(s, v)
      BY <1>1
    <3>2. (u \o v)[i] = v[i - n]
      BY <1>1, <3>1
    <3> QED
      BY <1>1, <3>1, <3>2 DEF AlarmsOf
  <2> QED
    BY <2>1, <2>2, <2>3
<1>7. AlarmsOf(s, u) \cap moved = {}
  BY <1>1 DEF AlarmsOf, n
<1> HIDE DEF moved
<1>8. IsFiniteSet(AlarmsOf(s, u)) /\ Cardinality(AlarmsOf(s, u)) \in Nat
      /\ Cardinality(AlarmsOf(s, v)) \in Nat
  BY AlarmsOfFinite
<1>9. Cardinality(AlarmsOf(s, u) \cup moved) =
        Cardinality(AlarmsOf(s, u)) + Cardinality(moved) - Cardinality(AlarmsOf(s, u) \cap moved)
  BY <1>5, <1>8, FS_Union
<1>10. Cardinality(AlarmsOf(s, u) \cap moved) = 0
  BY <1>7, FS_EmptySet
<1> QED
  BY <1>5, <1>6, <1>8, <1>9, <1>10

\* The rows of its source as transaction r sees them.
View(r) == [t \in TrackIds |-> Row(r, t)]

\* The counts of a transaction are what its rows and events add.
Counted(r) ==
    LET s == Src(r)
    IN  /\ IsFiniteSet(Vehicles(View(r)))
        /\ stats[s].total + tx[r].stat.total = Cardinality(Vehicles(View(r)))
        /\ stats[s].normal + tx[r].stat.normal = Cardinality(NormalVehicles(View(r)))
        /\ tx[r].stat.wrongWay = Cardinality(AlarmsOf(s, tx[r].events))

PendingCounts == \A r \in Requests : stage[r] = "processing" => Counted(r)

FiniteRows == \A s \in Sources : IsFiniteSet(Vehicles(tracks[s]))

CountsInv ==
    QueueInv /\ NoRowNoValues /\ OwnEvents /\ PendingCounts /\ FiniteRows /\ StatsMatchRecords

\* Of finitely many vehicles, those first seen driving normally.
LEMMA NormalFinite ==
    ASSUME NEW rows, IsFiniteSet(Vehicles(rows))
    PROVE  /\ IsFiniteSet(NormalVehicles(rows))
           /\ Cardinality(Vehicles(rows)) \in Nat /\ Cardinality(NormalVehicles(rows)) \in Nat
<1>1. NormalVehicles(rows) \in SUBSET Vehicles(rows)
  BY DEF Vehicles, NormalVehicles
<1>2. IsFiniteSet(NormalVehicles(rows))
  BY <1>1, FS_Subset
<1> QED
  BY <1>2, FS_CardinalityType

\* A transaction that begins has counted nothing yet.
LEMMA CountedAtBegin ==
    ASSUME CountsInv, NEW r \in Requests, BeginTransaction(r)
    PROVE  Counted(r)'
<1> USE DEF CountsInv
<1>0. TypeOK /\ Src(r) \in Sources
  BY DEF QueueInv, TypeInv, BeginTransaction
<1>1. /\ snap' = snap /\ tracks' = tracks /\ stats' = stats
      /\ tx'[r].rows = [t \in TrackIds |-> NoTrack]
      /\ tx'[r].stat = NoStat /\ tx'[r].events = << >>
  BY <1>0 DEF BeginTransaction, NoTransaction, TypeOK
<1>2. Src(r)' = Src(r)
  BY <1>1 DEF Src
<1>3. \A t \in TrackIds : Row(r, t)' = tracks[Src(r)][t]
  BY <1>1, <1>2 DEF Row, Exists, NoTrack
<1>4. /\ Vehicles(View(r))' = Vehicles(tracks[Src(r)])
      /\ NormalVehicles(View(r))' = NormalVehicles(tracks[Src(r)])
  BY <1>3 DEF Vehicles, NormalVehicles, View
<1>5. /\ stats[Src(r)].total = Cardinality(Vehicles(tracks[Src(r)]))
      /\ stats[Src(r)].normal = Cardinality(NormalVehicles(tracks[Src(r)]))
  BY <1>0 DEF StatsMatchRecords, Vehicles, NormalVehicles
<1>6. stats[Src(r)] \in Stat
  BY <1>0 DEF TypeOK
<1>7. AlarmsOf(Src(r), << >>) = {}
  BY DEF AlarmsOf
<1>8. Cardinality(AlarmsOf(Src(r), << >>)) = 0
  BY <1>7, FS_EmptySet
<1>9. IsFiniteSet(Vehicles(tracks[Src(r)]))
  BY <1>0 DEF FiniteRows
<1> QED
  BY <1>1, <1>2, <1>4, <1>5, <1>6, <1>8, <1>9 DEF Counted, NoStat, Stat

\* What is counted when an object is processed.
LEMMA CountedObject ==
    ASSUME CountsInv, NEW r \in Requests, NEW k \in tx[r].todo, ProcessObject(r, k)
    PROVE  Counted(r)'
<1> USE DEF CountsInv
<1> DEFINE o == Object(r, k)
           old == Row(r, o.track)
           seen == Observed(old, o, snap[r].at)
<1>0. TypeOK /\ Src(r) \in Sources /\ stage[r] = "processing"
  BY DEF QueueInv, TypeInv, ProcessObject
<1>1. /\ snap' = snap /\ tracks' = tracks /\ stats' = stats
      /\ tx'[r] = Processed(r, k)
      /\ o.track \in TrackIds /\ o.type \in SupportedTypes /\ o.vehicle \in BOOLEAN
      /\ old \in Track
  BY ObjectProcessed DEF ProcessObject
<1>2. Src(r)' = Src(r)
  BY <1>1 DEF Src
<1>3. /\ tx'[r].stat = StatAfter(tx[r].stat, old, o)
      /\ tx'[r].events = EventsAfter(r, old, o)
  BY <1>1 DEF Processed
<1>4. /\ \A t \in TrackIds : tx'[r].rows[t] = IF t = o.track THEN seen ELSE tx[r].rows[t]
      /\ Exists(seen)
  BY RowsProcessed
<1>5. \A t \in TrackIds : Row(r, t)' = IF t = o.track THEN seen ELSE Row(r, t)
  <2> HIDE DEF seen, o
  <2> QED
    BY <1>1, <1>2, <1>4 DEF Row, Exists
<1>6. /\ stats[Src(r)] \in Stat /\ tx[r].stat \in Stat /\ tx[r].events \in Seq(Event)
  BY <1>0 DEF TypeOK, Transaction
<1>7. Counted(r)
  BY <1>0 DEF PendingCounts
<1>8. /\ IsFiniteSet(Vehicles(View(r))) /\ IsFiniteSet(NormalVehicles(View(r)))
      /\ Cardinality(Vehicles(View(r))) \in Nat /\ Cardinality(NormalVehicles(View(r))) \in Nat
  BY <1>7, NormalFinite DEF Counted
<1>9. ~Exists(old) => ~old.firstVehicle /\ ~old.firstNormal
  BY <1>0, <1>1 DEF Row, NoRowNoValues, NoTrack
<1>10. /\ seen.firstVehicle = IF Exists(old) THEN old.firstVehicle ELSE o.vehicle
       /\ seen.firstNormal = IF Exists(old) THEN old.firstNormal ELSE o.type = NormalDriving
  BY DEF Observed
<1> HIDE DEF o, old, seen
<1>11. /\ \A t \in TrackIds : t \in Vehicles(View(r)) <=> Row(r, t).firstVehicle
       /\ \A t \in TrackIds : t \in NormalVehicles(View(r))
                                 <=> Row(r, t).firstVehicle /\ Row(r, t).firstNormal
       /\ \A t \in TrackIds : t \in Vehicles(View(r))' <=> Row(r, t)'.firstVehicle
       /\ \A t \in TrackIds : t \in NormalVehicles(View(r))'
                                 <=> Row(r, t)'.firstVehicle /\ Row(r, t)'.firstNormal
       /\ Vehicles(View(r)) \subseteq TrackIds /\ Vehicles(View(r))' \subseteq TrackIds
       /\ NormalVehicles(View(r)) \subseteq TrackIds
       /\ NormalVehicles(View(r))' \subseteq TrackIds
  BY DEF Vehicles, NormalVehicles, View
<1>12. Row(r, o.track) = old
  BY DEF old, o
<1>13. Vehicles(View(r))' = IF ~Exists(old) /\ o.vehicle
                            THEN Vehicles(View(r)) \cup {o.track} ELSE Vehicles(View(r))
  BY <1>1, <1>5, <1>9, <1>10, <1>11, <1>12, SMTT(30)
<1>14. NormalVehicles(View(r))' =
         IF ~Exists(old) /\ o.vehicle /\ o.type = NormalDriving
         THEN NormalVehicles(View(r)) \cup {o.track} ELSE NormalVehicles(View(r))
  BY <1>1, <1>5, <1>9, <1>10, <1>11, <1>12, ZenonT(40)
<1>15. ~Exists(old) => o.track \notin Vehicles(View(r)) /\ o.track \notin NormalVehicles(View(r))
  BY <1>1, <1>9, <1>11, <1>12
<1>16. /\ IsFiniteSet(Vehicles(View(r))')
       /\ Cardinality(Vehicles(View(r))') =
            Cardinality(Vehicles(View(r))) + (IF ~Exists(old) /\ o.vehicle THEN 1 ELSE 0)
       /\ Cardinality(NormalVehicles(View(r))') =
            Cardinality(NormalVehicles(View(r)))
            + (IF ~Exists(old) /\ o.vehicle /\ o.type = NormalDriving THEN 1 ELSE 0)
  <2>1. /\ IsFiniteSet(Vehicles(View(r)) \cup {o.track})
        /\ ~Exists(old) => Cardinality(Vehicles(View(r)) \cup {o.track})
                             = Cardinality(Vehicles(View(r))) + 1
    BY <1>8, <1>15, FS_AddElement
  <2>2. ~Exists(old) => Cardinality(NormalVehicles(View(r)) \cup {o.track})
                          = Cardinality(NormalVehicles(View(r))) + 1
    BY <1>8, <1>15, FS_AddElement
  <2>3. Vehicles(View(r))' = Vehicles(View(r)) \/ (~Exists(old) /\ o.vehicle)
    BY <1>13
  <2>4. NormalVehicles(View(r))' = NormalVehicles(View(r))
          \/ (~Exists(old) /\ o.vehicle /\ o.type = NormalDriving)
    BY <1>14
  <2> QED
    BY <1>8, <1>13, <1>14, <2>1, <2>2
<1>17. Cardinality(AlarmsOf(Src(r), tx'[r].events)) =
         Cardinality(AlarmsOf(Src(r), tx[r].events))
         + (IF StateChanged(old, o) /\ o.type = WrongWay THEN 1 ELSE 0)
  <2>1. Cardinality(AlarmsOf(Src(r), tx[r].events)) \in Nat
    BY <1>6, AlarmsOfFinite
  <2>2. CASE StateChanged(old, o) /\ RequiresHistory(o)
    <3>1. tx'[r].events = Append(tx[r].events, NewEvent(r, k))
      BY <1>3, <2>2 DEF EventsAfter, NewEvent, o
    <3>2. NewEvent(r, k).source = Src(r) /\ NewEvent(r, k).type = o.type
      BY DEF NewEvent, o
    <3>3. NewEvent(r, k) \in Event
      <4>1. IncidentAfter(r, o) \in 0..MaxRequests
        BY <1>0, IngestAssumption
           DEF TypeOK, Transaction, IncidentAfter, EnsureActiveIncident, Requests
      <4> QED
        BY <1>0, <1>1, <4>1 DEF NewEvent, Event, o
    <3> QED
      BY <1>6, <2>2, <3>1, <3>2, <3>3, AlarmsOfAppend
  <2>3. CASE ~(StateChanged(old, o) /\ RequiresHistory(o))
    BY <1>3, <2>1, <2>3 DEF EventsAfter, RequiresHistory, NormalDriving, WrongWay
  <2> QED
    BY <2>2, <2>3
<1>18. /\ tx'[r].stat.total =
            tx[r].stat.total + (IF ~Exists(old) /\ o.vehicle THEN 1 ELSE 0)
       /\ tx'[r].stat.normal = tx[r].stat.normal
            + (IF ~Exists(old) /\ o.vehicle /\ o.type = NormalDriving THEN 1 ELSE 0)
       /\ tx'[r].stat.wrongWay = tx[r].stat.wrongWay
            + (IF StateChanged(old, o) /\ o.type = WrongWay THEN 1 ELSE 0)
  BY <1>3 DEF StatAfter
<1>19. /\ stats[Src(r)].total \in Nat /\ stats[Src(r)].normal \in Nat
       /\ tx[r].stat.total \in Nat /\ tx[r].stat.normal \in Nat
  BY <1>6 DEF Stat
<1>20. /\ stats'[Src(r)'].total + tx'[r].stat.total = Cardinality(Vehicles(View(r))')
       /\ stats'[Src(r)'].normal + tx'[r].stat.normal = Cardinality(NormalVehicles(View(r))')
  BY <1>1, <1>2, <1>7, <1>8, <1>16, <1>18, <1>19 DEF Counted
<1>21. tx'[r].stat.wrongWay = Cardinality(AlarmsOf(Src(r), tx'[r].events))
  BY <1>7, <1>17, <1>18 DEF Counted
<1> QED
  BY <1>2, <1>16, <1>20, <1>21 DEF Counted

LEMMA PendingCountsAfter ==
    ASSUME CountsInv, [Next]_vars
    PROVE  PendingCounts'
<1> USE DEF CountsInv
<1> SUFFICES ASSUME NEW r \in Requests, stage'[r] = "processing"
             PROVE  Counted(r)'
  BY DEF PendingCounts
<1>0. TypeOK
  BY DEF QueueInv, TypeInv
<1>1. ASSUME stage[r] = "processing", tx'[r].rows = tx[r].rows,
             tx'[r].stat = tx[r].stat, tx'[r].events = tx[r].events
      PROVE  Counted(r)'
  <2>1. /\ Src(r)' = Src(r) /\ stats'[Src(r)] = stats[Src(r)]
        /\ tracks'[Src(r)] = tracks[Src(r)]
    BY TransactionSteps DEF Src
  <2>2. \A t \in TrackIds : Row(r, t)' = Row(r, t)
    BY <1>1, <2>1 DEF Row
  <2>3. View(r)' = View(r)
    BY <2>2 DEF View
  <2>4. Counted(r)
    BY <1>1 DEF PendingCounts
  <2> QED
    BY <1>1, <2>1, <2>3, <2>4 DEF Counted, Vehicles, NormalVehicles, AlarmsOf
<1>2. ASSUME NEW k \in tx[r].todo, SkipStaleObject(r, k)
      PROVE  /\ stage[r] = "processing" /\ tx'[r].rows = tx[r].rows
             /\ tx'[r].stat = tx[r].stat /\ tx'[r].events = tx[r].events
  BY <1>0, <1>2 DEF SkipStaleObject, TypeOK, Transaction
<1> QED
  BY <1>1, <1>2, CountedAtBegin, CountedObject, TransactionSteps

\* A commit makes of the counts of its transaction those of its source, and
\* leaves those of the others alone.
LEMMA CommittedCounts ==
    ASSUME CountsInv, NEW r \in Requests, Commit(r), NEW s \in Sources
    PROVE  /\ IsFiniteSet(Vehicles(tracks'[s]))
           /\ stats'[s].total = Cardinality(Vehicles(tracks'[s]))
           /\ stats'[s].normal = Cardinality(NormalVehicles(tracks'[s]))
           /\ stats'[s].wrongWay = Cardinality(AlarmsOf(s, events'))
<1> USE DEF CountsInv
<1>0. TypeOK /\ Src(r) \in Sources /\ stage[r] = "processing"
  BY DEF QueueInv, TypeInv, Commit
<1>1. /\ stats[s].total = Cardinality(Vehicles(tracks[s]))
      /\ stats[s].normal = Cardinality(NormalVehicles(tracks[s]))
      /\ stats[s].wrongWay = Cardinality(AlarmsOf(s, events))
      /\ IsFiniteSet(Vehicles(tracks[s]))
  BY DEF StatsMatchRecords, FiniteRows, Vehicles, NormalVehicles, AlarmsOf
<1>2. /\ events \in Seq(Event) /\ tx[r].events \in Seq(Event)
      /\ stats[s] \in Stat /\ tx[r].stat \in Stat
  BY <1>0 DEF TypeOK, Transaction
<1>3. Cardinality(AlarmsOf(s, events')) =
        Cardinality(AlarmsOf(s, events)) + Cardinality(AlarmsOf(s, tx[r].events))
  BY <1>2, AlarmsOfConcat DEF Commit
<1>4. CASE s # Src(r)
  <2>1. stats'[s] = stats[s] /\ tracks'[s] = tracks[s]
    BY <1>0, <1>4 DEF Commit, TypeOK
  <2>2. AlarmsOf(s, tx[r].events) = {}
    BY <1>4 DEF AlarmsOf, OwnEvents
  <2>3. Cardinality(AlarmsOf(s, tx[r].events)) = 0
    BY <2>2, FS_EmptySet
  <2>4. Cardinality(AlarmsOf(s, events)) \in Nat
    BY <1>2, AlarmsOfFinite
  <2> QED
    BY <1>1, <1>3, <2>1, <2>3, <2>4
<1>5. CASE s = Src(r)
  <2>1. Counted(r)
    BY <1>0 DEF PendingCounts
  <2>2. stats'[s] = Plus(stats[s], tx[r].stat) /\ tracks'[s] = RowsAfter(r)
    BY <1>0, <1>5 DEF Commit, TypeOK
  <2>3. \A t \in TrackIds : /\ RowsAfter(r)[t].firstVehicle = Row(r, t).firstVehicle
                            /\ RowsAfter(r)[t].firstNormal = Row(r, t).firstNormal
    <3>1. \A t \in TrackIds : Row(r, t) \in Track
      BY <1>0, RowType
    <3> QED
      BY <3>1 DEF RowsAfter, Track
  <2>4. /\ Vehicles(RowsAfter(r)) = Vehicles(View(r))
        /\ NormalVehicles(RowsAfter(r)) = NormalVehicles(View(r))
    BY <2>3 DEF Vehicles, NormalVehicles, View
  <2>5. /\ stats'[s].total = stats[s].total + tx[r].stat.total
        /\ stats'[s].normal = stats[s].normal + tx[r].stat.normal
        /\ stats'[s].wrongWay = stats[s].wrongWay + tx[r].stat.wrongWay
    BY <2>2 DEF Plus
  <2> QED
    BY <1>1, <1>3, <1>5, <2>1, <2>2, <2>4, <2>5 DEF Counted
<1> QED
  BY <1>4, <1>5

LEMMA CountsAfter ==
    ASSUME CountsInv, [Next]_vars
    PROVE  FiniteRows' /\ StatsMatchRecords'
<1>1. CASE UNCHANGED <<snap, tracks, incidents, events, stats>>
  BY <1>1 DEF CountsInv, FiniteRows, StatsMatchRecords, Vehicles
<1>2. CASE \E r \in Requests : Commit(r)
  BY <1>2, CommittedCounts
     DEF FiniteRows, StatsMatchRecords, Vehicles, NormalVehicles, AlarmsOf
<1> QED
  BY <1>1, <1>2, CommittedOnly

LEMMA InitCountsInv == Init => CountsInv
<1> SUFFICES ASSUME Init PROVE CountsInv
  OBVIOUS
<1>1. NoRowNoValues /\ PendingCounts
  BY DEF Init, NoRowNoValues, PendingCounts
<1>2. \A r \in Requests : tx[r].events = << >>
  BY DEF Init, NoTransaction
<1>3. \A s \in Sources : /\ Vehicles(tracks[s]) = {} /\ NormalVehicles(tracks[s]) = {}
                         /\ AlarmsOf(s, events) = {} /\ stats[s] = NoStat
  BY DEF Init, Vehicles, NormalVehicles, AlarmsOf, NoTrack
<1>4. FiniteRows /\ StatsMatchRecords
  <2>1. \A s \in Sources :
          /\ IsFiniteSet(Vehicles(tracks[s]))
          /\ stats[s].total = Cardinality(Vehicles(tracks[s]))
          /\ stats[s].normal = Cardinality(NormalVehicles(tracks[s]))
          /\ stats[s].wrongWay = Cardinality(AlarmsOf(s, events))
    BY <1>3, FS_EmptySet DEF NoStat
  <2> QED
    BY <2>1 DEF FiniteRows, StatsMatchRecords, Vehicles, NormalVehicles, AlarmsOf
<1> QED
  BY <1>1, <1>2, <1>4, InitQueueInv DEF CountsInv, OwnEvents

\* The daily statistics agree with the rows they summarize, whatever fails,
\* repeats or restarts: each vehicle track counted once, each stored alarm once.
THEOREM StatisticsAgree == Spec => []StatsMatchRecords
<1>1. CountsInv /\ [Next]_vars => CountsInv'
  BY StepQueueInv, NoRowNoValuesAfter, OwnEventsAfter, PendingCountsAfter, CountsAfter
     DEF CountsInv
<1> QED
  BY <1>1, InitCountsInv, PTL DEF Spec, CountsInv
=============================================================================
