------------------------- MODULE SourceQueueProofs -------------------------
(***************************************************************************)
(* The promise chain serializes the requests of a source for every set of  *)
(* sources and any number of requests.  The argument: the entry of a       *)
(* source, when there is one, is its last request; a queued request is     *)
(* chained on its immediate predecessor of the same source; and a request  *)
(* that started or settled has only settled ones before it.  The second    *)
(* fact carries the third along the chain, the first gives the second to   *)
(* the next request, and it survives a cleanup because the deleted entry   *)
(* is the settled request's own.                                           *)
(***************************************************************************)
EXTENDS SourceQueue, TLAPS

\* Requests arrive in the order of their numbers.
ArrivalOrder ==
    \A r \in Requests :
        phase[r] # "none" => \A q \in 1..(r - 1) : phase[q] # "none"

\* A queued request waits for its immediate predecessor, or for nothing.
Chained ==
    \A r \in Requests : phase[r] = "queued" =>
        IF prev[r] = 0
        THEN \A q \in Earlier(r) : Settled(q)
        ELSE /\ prev[r] \in Earlier(r)
             /\ \A q \in Earlier(r) : q <= prev[r]

\* Only settled requests lie before one that has started.
StartedInOrder ==
    \A r \in Requests :
        phase[r] \notin {"none", "queued"} => \A q \in Earlier(r) : Settled(q)

\* The Map's entry is the last request of its source; no entry, no one waits.
TailIsLast ==
    \A s \in Sources :
        IF tail[s] = 0
        THEN \A r \in Requests : source[r] = s => phase[r] = "none" \/ Settled(r)
        ELSE /\ source[tail[s]] = s
             /\ phase[tail[s]] # "none"
             /\ \A r \in Requests : source[r] = s /\ r > tail[s] => phase[r] = "none"

CleanupsAreSettled == \A r \in cleanups : Settled(r)

IInv ==
    /\ TypeOK
    /\ ArrivalOrder
    /\ Chained
    /\ StartedInOrder
    /\ TailIsLast
    /\ CleanupsAreSettled
    /\ NoLeakedEntry

-----------------------------------------------------------------------------
LEMMA InitIInv == Init => IInv
<1> SUFFICES ASSUME Init PROVE IInv
  OBVIOUS
<1>1. TypeOK
  BY SourceQueueAssumption DEF Init, TypeOK, Phases, Requests
<1>2. ArrivalOrder /\ Chained /\ StartedInOrder
  BY DEF Init, ArrivalOrder, Chained, StartedInOrder, Requests
<1>3. TailIsLast /\ CleanupsAreSettled /\ NoLeakedEntry
  BY DEF Init, TailIsLast, CleanupsAreSettled, NoLeakedEntry, Requests
<1> QED
  BY <1>1, <1>2, <1>3 DEF IInv

LEMMA EnqueueIInv ==
    ASSUME IInv, NEW r \in Requests, Enqueue(r)
    PROVE  IInv'
<1> USE SourceQueueAssumption DEF Requests, Settled, SettledPhases, Earlier
<1> DEFINE t == tail[source[r]]
<1>0. TypeOK /\ ArrivalOrder /\ TailIsLast
  BY DEF IInv
<1>1. TypeOK'
  BY <1>0 DEF TypeOK, Enqueue, Previous, Phases
<1>2. t # 0 => /\ t \in 1..(r - 1)
               /\ source[t] = source[r]
               /\ \A q \in Earlier(r) : q <= t
  BY <1>0 DEF TypeOK, ArrivalOrder, TailIsLast, Enqueue
<1>3. t = 0 => \A q \in Earlier(r) : Settled(q)
  BY <1>0 DEF TypeOK, TailIsLast, Enqueue
<1>4. ArrivalOrder'
  BY <1>0 DEF TypeOK, ArrivalOrder, Enqueue
<1>5. Chained'
  BY <1>2, <1>3, <1>0 DEF IInv, TypeOK, Chained, Enqueue, Previous
<1>6. StartedInOrder'
  BY <1>0 DEF IInv, TypeOK, StartedInOrder, Enqueue
<1>7. TailIsLast'
  <2> SUFFICES ASSUME NEW s \in Sources PROVE TailIsLast!(s)'
    BY DEF TailIsLast
  <2>1. CASE s = source[r]
    BY <2>1, <1>0 DEF TypeOK, ArrivalOrder, Enqueue
  <2>2. CASE s # source[r]
    BY <2>2, <1>0 DEF TypeOK, TailIsLast, Enqueue
  <2> QED
    BY <2>1, <2>2
<1>8. CleanupsAreSettled' /\ NoLeakedEntry'
  BY <1>0, SMTT(30) DEF IInv, TypeOK, CleanupsAreSettled, NoLeakedEntry, Enqueue
<1> QED
  BY <1>1, <1>4, <1>5, <1>6, <1>7, <1>8 DEF IInv

\* A released request has only settled ones of its source before it.
LEMMA ReleasedInOrder ==
    ASSUME IInv, NEW r \in Requests, phase[r] = "queued", Released(r)
    PROVE  \A q \in Earlier(r) : Settled(q)
<1> USE SourceQueueAssumption DEF Requests, Settled, SettledPhases, Earlier
<1>1. CASE prev[r] = 0
  BY <1>1 DEF IInv, Chained
<1>2. CASE prev[r] # 0
  <2>1. prev[r] \in Earlier(r) /\ \A q \in Earlier(r) : q <= prev[r]
    BY <1>2 DEF IInv, Chained
  <2>2. prev[r] \in Requests /\ Settled(prev[r])
    BY <1>2, <2>1 DEF Released
  <2>3. \A q \in Earlier(prev[r]) : Settled(q)
    BY <2>2 DEF IInv, StartedInOrder
  <2>4. \A q \in Earlier(r) : q = prev[r] \/ q \in Earlier(prev[r])
    BY <2>1
  <2> QED
    BY <2>2, <2>3, <2>4
<1> QED
  BY <1>1, <1>2

LEMMA StartIInv ==
    ASSUME IInv, NEW r \in Requests, Start(r)
    PROVE  IInv'
<1> USE SourceQueueAssumption DEF Requests, Settled, SettledPhases, Earlier
<1>0. TypeOK
  BY DEF IInv
<1>1. TypeOK'
  BY <1>0 DEF TypeOK, Start, Phases
<1>2. \A q \in Earlier(r) : Settled(q)
  BY ReleasedInOrder DEF Start
<1>3. ArrivalOrder' /\ Chained'
  BY <1>0, SMTT(30) DEF IInv, TypeOK, ArrivalOrder, Chained, Start
<1>4. StartedInOrder'
  BY <1>2, <1>0 DEF IInv, TypeOK, StartedInOrder, Start
<1>5. TailIsLast'
  BY <1>0 DEF IInv, TypeOK, TailIsLast, Start
<1>6. CleanupsAreSettled' /\ NoLeakedEntry'
  BY <1>0 DEF IInv, TypeOK, CleanupsAreSettled, NoLeakedEntry, Start
<1> QED
  BY <1>1, <1>3, <1>4, <1>5, <1>6 DEF IInv

LEMMA FinishIInv ==
    ASSUME IInv, NEW r \in Requests,
           NEW o \in {"fulfilled", "rejected"}, Finish(r, o)
    PROVE  IInv'
<1> USE SourceQueueAssumption DEF Requests, Settled, SettledPhases, Earlier
<1>0. TypeOK
  BY DEF IInv
<1>1. TypeOK'
  BY <1>0 DEF TypeOK, Finish, SchedulesCleanup, Phases
<1>2. ArrivalOrder' /\ Chained' /\ StartedInOrder'
  BY <1>0, SMTT(30) DEF IInv, TypeOK, ArrivalOrder, Chained, StartedInOrder, Finish
<1>3. TailIsLast'
  BY <1>0 DEF IInv, TypeOK, TailIsLast, Finish
<1>4. CleanupsAreSettled' /\ NoLeakedEntry'
  BY <1>0 DEF IInv, TypeOK, CleanupsAreSettled, NoLeakedEntry, Finish, SchedulesCleanup
<1> QED
  BY <1>1, <1>2, <1>3, <1>4 DEF IInv

LEMMA CleanupIInv ==
    ASSUME IInv, NEW r \in Requests, Cleanup(r)
    PROVE  IInv'
<1> USE SourceQueueAssumption DEF Requests, Settled, SettledPhases, Earlier
<1>0. TypeOK
  BY DEF IInv
<1>1. TypeOK'
  BY <1>0 DEF TypeOK, Cleanup, EntryIsOwn
<1>2. ArrivalOrder' /\ Chained' /\ StartedInOrder' /\ CleanupsAreSettled'
  BY <1>0 DEF IInv, TypeOK, ArrivalOrder, Chained, StartedInOrder,
              CleanupsAreSettled, Cleanup
<1>3. TailIsLast'
  \* r is settled and last, so everything of its source has settled.
  <2> SUFFICES ASSUME NEW s \in Sources PROVE TailIsLast!(s)'
    BY DEF TailIsLast
  <2>1. CASE s = source[r] /\ tail[s] = r
    <3>1. Settled(r) /\ \A q \in Earlier(r) : Settled(q)
      BY DEF IInv, StartedInOrder, CleanupsAreSettled, Cleanup
    <3>2. \A q \in Requests : source[q] = s /\ q > r => phase[q] = "none"
      BY <2>1 DEF IInv, TailIsLast
    <3>3. \A q \in Requests : source[q] = s => phase[q] = "none" \/ Settled(q)
      BY <3>1, <3>2, <2>1
    <3>4. tail'[s] = 0 /\ UNCHANGED <<source, phase>>
      BY <2>1, <1>0 DEF TypeOK, Cleanup, EntryIsOwn
    <3> QED
      BY <3>3, <3>4
  <2>2. CASE ~(s = source[r] /\ tail[s] = r)
    BY <2>2, <1>0 DEF IInv, TypeOK, TailIsLast, Cleanup, EntryIsOwn
  <2> QED
    BY <2>1, <2>2
<1>4. NoLeakedEntry'
  BY <1>0 DEF IInv, TypeOK, TailIsLast, NoLeakedEntry, Cleanup, EntryIsOwn
<1> QED
  BY <1>1, <1>2, <1>3, <1>4 DEF IInv

LEMMA RestartIInv ==
    ASSUME IInv, Restart
    PROVE  IInv'
<1> USE SourceQueueAssumption DEF Requests, Settled, SettledPhases, Earlier
<1>0. TypeOK
  BY DEF IInv
<1>1. TypeOK'
  BY <1>0 DEF TypeOK, Restart, Phases
<1>2. \A r \in Requests : phase'[r] = "none" \/ Settled(r)'
  BY <1>0 DEF TypeOK, Restart, Phases
<1>3. ArrivalOrder'
  BY <1>0 DEF IInv, TypeOK, ArrivalOrder, Restart
<1>4. StartedInOrder'
  <2> SUFFICES ASSUME NEW r \in Requests, phase'[r] # "none", NEW q \in Earlier(r)'
               PROVE  Settled(q)'
    BY DEF StartedInOrder
  <2>1. q \in Requests /\ phase'[q] # "none"
    BY <1>3 DEF ArrivalOrder
  <2> QED
    BY <2>1, <1>2
<1>5. Chained'
  <2>1. \A r \in Requests : phase'[r] # "queued"
    BY <1>2
  <2> QED
    BY <2>1 DEF Chained
<1>6. TailIsLast' /\ CleanupsAreSettled' /\ NoLeakedEntry'
  BY <1>2 DEF TailIsLast, CleanupsAreSettled, NoLeakedEntry, Restart
<1> QED
  BY <1>1, <1>3, <1>4, <1>5, <1>6 DEF IInv

\* IInv is inductive.
LEMMA StepIInv == IInv /\ [Next]_vars => IInv'
<1> SUFFICES ASSUME IInv, [Next]_vars PROVE IInv'
  OBVIOUS
<1>1. CASE UNCHANGED vars
  BY <1>1 DEF vars, IInv, TypeOK, ArrivalOrder, Chained, StartedInOrder, TailIsLast,
              CleanupsAreSettled, NoLeakedEntry, Earlier, Settled
<1>2. CASE Next
  BY <1>2, EnqueueIInv, StartIInv, FinishIInv, CleanupIInv, RestartIInv DEF Next
<1> QED
  BY <1>1, <1>2

LEMMA Invariant == Spec => []IInv
BY InitIInv, StepIInv, PTL DEF Spec

\* The variables keep their types.
THEOREM TypeCorrect == Spec => []TypeOK
BY Invariant, PTL DEF IInv

\* At most one request of a source is processed at a time, in arrival order.
THEOREM Serialized == Spec => []OneAtATimeInOrder
<1>1. IInv => OneAtATimeInOrder
  BY DEF IInv, StartedInOrder, OneAtATimeInOrder
<1> QED
  BY <1>1, Invariant, PTL

\* The Map keeps no entry of a source with nothing left to do.
THEOREM EntriesAreReclaimed == Spec => []NoLeakedEntry
BY Invariant, PTL DEF IInv

-----------------------------------------------------------------------------
LEMMA StepPromised ==
    ASSUME IInv, [Next]_vars
    PROVE  [Promised!Next]_(Promised!vars)
<1> USE SourceQueueAssumption DEF Requests, Promised!Requests, Settled, SettledPhases
<1>0. TypeOK
  BY DEF IInv
<1> DEFINE seen == [r \in Requests |-> IF Settled(r) THEN "settled" ELSE phase[r]]
<1>1. ASSUME NEW r \in Requests, Enqueue(r) PROVE Promised!Submit(r)
  <2>1. seen[r] = "none" /\ \A q \in 1..(r - 1) : seen[q] # "none"
    BY <1>1, <1>0 DEF TypeOK, Enqueue
  <2>2. seen' = [seen EXCEPT ![r] = "queued"]
    BY <1>1, <1>0 DEF TypeOK, Enqueue
  <2> QED
    BY <1>1, <2>1, <2>2 DEF Enqueue, Promised!Submit
<1>2. ASSUME NEW r \in Requests, Start(r) PROVE Promised!Begin(r)
  <2>1. seen[r] = "queued"
    BY <1>2 DEF Start
  <2>2. \A q \in Earlier(r) : seen[q] = "settled"
    BY <1>2, ReleasedInOrder DEF Start, Earlier
  <2>3. seen' = [seen EXCEPT ![r] = "running"]
    BY <1>2, <1>0 DEF TypeOK, Start
  <2> QED
    BY <1>2, <2>1, <2>2, <2>3 DEF Start, Earlier, Promised!Begin, Promised!Earlier
<1>3. ASSUME NEW r \in Requests, NEW o \in {"fulfilled", "rejected"}, Finish(r, o)
      PROVE  Promised!Settle(r)
  <2>1. seen[r] = "running"
    BY <1>3 DEF Finish
  <2>2. seen' = [seen EXCEPT ![r] = "settled"]
    BY <1>3, <1>0 DEF TypeOK, Finish
  <2> QED
    BY <1>3, <2>1, <2>2 DEF Finish, Promised!Settle
<1>4. ASSUME NEW r \in Requests, Cleanup(r) PROVE UNCHANGED Promised!vars
  BY <1>4 DEF Cleanup, Promised!vars
<1>5. CASE Restart
  <2>1. Promised!Abandon
    BY <1>5, <1>0 DEF TypeOK, Phases, Restart, Promised!Abandon
  <2> QED
    BY <2>1 DEF Promised!Next
<1>6. CASE UNCHANGED vars
  BY <1>6 DEF vars, Promised!vars
<1>7. CASE Next
  BY <1>7, <1>1, <1>2, <1>3, <1>4, <1>5 DEF Next, Promised!Next
<1> QED
  BY <1>6, <1>7

\* The promise chain implements the one-at-a-time, in-order queue.
THEOREM Implementation == Spec => ImplementsSerialQueue
<1>1. Init => Promised!Init
  BY DEF Init, Promised!Init, Requests, Promised!Requests, Settled, SettledPhases
<1> QED
  BY <1>1, StepPromised, Invariant, PTL DEF Spec, ImplementsSerialQueue, Promised!Spec
=============================================================================
