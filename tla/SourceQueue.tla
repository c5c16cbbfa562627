---------------------------- MODULE SourceQueue ----------------------------
(***************************************************************************)
(* The promise chain of enqueueBySource, wrongway.service.js 37 and        *)
(* 92-105:                                                                 *)
(*                                                                         *)
(*    previous = sourceQueues.get(source) || Promise.resolve()             *)
(*    current  = previous.catch(() => undefined).then(task)                *)
(*    sourceQueues.set(source, current)                                    *)
(*    current.then(cleanup, cleanup)                                       *)
(*                                                                         *)
(* The Map is the variable tail, the promise a task is chained on is prev, *)
(* and 0 stands for "no entry" / an already resolved promise.  A task is   *)
(* started by a microtask after its predecessor settled, and the cleanup   *)
(* of a promise is one more microtask after that; a request may be         *)
(* enqueued between any two of them.                                       *)
(***************************************************************************)
EXTENDS Naturals

CONSTANTS
    Sources,      \* normalized sources, "UNKNOWN" among them
    MaxRequests   \* bound: how many requests arrive in a behaviour

ASSUME SourceQueueAssumption == MaxRequests \in Nat

VARIABLES
    source,       \* [request -> source], fixed before the request arrives
    phase,        \* [request -> Phases]
    prev,         \* [request -> the request it is chained on, 0 for none]
    tail,         \* sourceQueues: [source -> its last request, 0 for no entry]
    cleanups      \* settled requests whose cleanup callback has not run yet

vars == <<source, phase, prev, tail, cleanups>>

Requests == 1..MaxRequests
SettledPhases == {"fulfilled", "rejected", "lost"}
Phases == {"none", "queued", "running"} \cup SettledPhases

Settled(r) == phase[r] \in SettledPhases

TypeOK ==
    /\ source \in [Requests -> Sources]
    /\ phase \in [Requests -> Phases]
    /\ prev \in [Requests -> 0..MaxRequests]
    /\ tail \in [Sources -> 0..MaxRequests]
    /\ cleanups \in SUBSET Requests

Init ==
    /\ source \in [Requests -> Sources]
    /\ phase = [r \in Requests |-> "none"]
    /\ prev = [r \in Requests |-> 0]
    /\ tail = [s \in Sources |-> 0]
    /\ cleanups = {}

\* Mutant of Previous: the new task does not wait for the one before it.
Previous_Ignored(s) == 0

\* The promise the new task is chained on.
Previous(s) == tail[s]

\* The next request arrives and is chained on the last promise of its source.
Enqueue(r) ==
    /\ phase[r] = "none"
    /\ \A q \in 1..(r - 1) : phase[q] # "none"
    /\ prev' = [prev EXCEPT ![r] = Previous(source[r])]
    /\ tail' = [tail EXCEPT ![source[r]] = r]
    /\ phase' = [phase EXCEPT ![r] = "queued"]
    /\ UNCHANGED <<source, cleanups>>

\* Mutant of Released: .then(task) without the .catch.
Released_OnlyAfterSuccess(r) == prev[r] # 0 => phase[prev[r]] = "fulfilled"

\* previous.catch(...).then(task): a rejected predecessor starts it as well.
Released(r) == prev[r] # 0 => Settled(prev[r])

Start(r) ==
    /\ phase[r] = "queued"
    /\ Released(r)
    /\ phase' = [phase EXCEPT ![r] = "running"]
    /\ UNCHANGED <<source, prev, tail, cleanups>>

\* Mutant of SchedulesCleanup: current.then(cleanup) without the second handler.
SchedulesCleanup_OnSuccess(outcome) == outcome = "fulfilled"

\* current.then(cleanup, cleanup): both outcomes schedule the cleanup.
SchedulesCleanup(outcome) == outcome \in {"fulfilled", "rejected"}

\* processSnapshot returns or throws.
Finish(r, outcome) ==
    /\ phase[r] = "running"
    /\ phase' = [phase EXCEPT ![r] = outcome]
    /\ cleanups' = IF SchedulesCleanup(outcome) THEN cleanups \cup {r}
                                                ELSE cleanups
    /\ UNCHANGED <<source, prev, tail>>

\* Mutant of EntryIsOwn: cleanup deletes the entry whoever owns it.
EntryIsOwn_Unchecked(r) == TRUE

\* The entry is deleted only if it still holds this promise.
EntryIsOwn(r) == tail[source[r]] = r

Cleanup(r) ==
    /\ r \in cleanups
    /\ tail' = IF EntryIsOwn(r) THEN [tail EXCEPT ![source[r]] = 0] ELSE tail
    /\ cleanups' = cleanups \ {r}
    /\ UNCHANGED <<source, phase, prev>>

\* The Node process restarts: the Map and every pending promise are gone.
Restart ==
    /\ phase' = [r \in Requests |-> IF phase[r] \in {"queued", "running"}
                                    THEN "lost" ELSE phase[r]]
    /\ tail' = [s \in Sources |-> 0]
    /\ cleanups' = {}
    /\ UNCHANGED <<source, prev>>

Next ==
    \/ \E r \in Requests : \/ Enqueue(r)
                           \/ Start(r)
                           \/ \E o \in {"fulfilled", "rejected"} : Finish(r, o)
                           \/ Cleanup(r)
    \/ Restart

Spec == Init /\ [][Next]_vars

(***************************************************************************)
(* Fairness: the microtasks that start a released task and run a cleanup   *)
(* always get their turn, and a running processSnapshot ends, because each *)
(* await in it is a database call that returns or fails (a Prisma          *)
(* interactive transaction is given up after its timeout).  Arrivals and   *)
(* restarts are not fair.                                                  *)
(***************************************************************************)
Fairness ==
    \A r \in Requests :
        /\ WF_vars(Start(r))
        /\ WF_vars(\E o \in {"fulfilled", "rejected"} : Finish(r, o))
        /\ WF_vars(Cleanup(r))

FairSpec == Spec /\ Fairness

-----------------------------------------------------------------------------
Earlier(r) == {q \in 1..(r - 1) : source[q] = source[r]}

\* Two snapshots of one LiDAR PC never overwrite each other's state: while
\* one of them is being processed every earlier one of that source has
\* settled, hence at most one runs (comment at wrongway.service.js 36).
OneAtATimeInOrder ==
    \A r \in Requests :
        phase[r] = "running" => \A q \in Earlier(r) : Settled(q)

\* sourceQueues does not grow with the sources ever seen: an entry is there
\* only as long as its last request is unsettled or about to be cleaned up.
NoLeakedEntry ==
    \A s \in Sources : tail[s] # 0 => ~Settled(tail[s]) \/ tail[s] \in cleanups

\* A snapshot that was queued is processed to its end whatever happened to
\* the ones before it: a rejected predecessor does not block the queue.
EveryRequestSettles ==
    \A r \in Requests : phase[r] = "queued" ~> Settled(r)

\* The promise chain carries out what SerialQueue promises.
Promised == INSTANCE SerialQueue
    WITH phase <- [r \in Requests |-> IF Settled(r) THEN "settled" ELSE phase[r]]

ImplementsSerialQueue == Promised!Spec
=============================================================================
