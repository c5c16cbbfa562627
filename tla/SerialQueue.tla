---------------------------- MODULE SerialQueue ----------------------------
(***************************************************************************)
(* What the comment above enqueueBySource (wrongway.service.js 92-93)      *)
(* promises about the requests of the LiDAR PCs, and nothing of how it is  *)
(* done: the requests of one source are carried out one at a time and in   *)
(* the order they arrived; the requests of different sources are           *)
(* independent.  Requests are numbered in their order of arrival.          *)
(***************************************************************************)
EXTENDS Naturals

CONSTANTS
    Sources,      \* the normalized source names the server knows a queue for
    MaxRequests   \* bound: how many requests arrive in a behaviour

VARIABLES
    source,       \* the source of each request, fixed before it arrives
    phase         \* "none" before it arrives, then queued, running, settled

vars == <<source, phase>>

Requests == 1..MaxRequests

Earlier(r) == {q \in 1..(r - 1) : source[q] = source[r]}

Init ==
    /\ source \in [Requests -> Sources]
    /\ phase = [r \in Requests |-> "none"]

\* The next request arrives.
Submit(r) ==
    /\ phase[r] = "none"
    /\ \A q \in 1..(r - 1) : phase[q] # "none"
    /\ phase' = [phase EXCEPT ![r] = "queued"]
    /\ UNCHANGED source

\* Its turn comes when every earlier request of its source has settled.
Begin(r) ==
    /\ phase[r] = "queued"
    /\ \A q \in Earlier(r) : phase[q] = "settled"
    /\ phase' = [phase EXCEPT ![r] = "running"]
    /\ UNCHANGED source

Settle(r) ==
    /\ phase[r] = "running"
    /\ phase' = [phase EXCEPT ![r] = "settled"]
    /\ UNCHANGED source

\* The server process restarts: what was queued or running is given up.
Abandon ==
    /\ phase' = [r \in Requests |->
                   IF phase[r] = "none" THEN "none" ELSE "settled"]
    /\ UNCHANGED source

Next ==
    \/ \E r \in Requests : Submit(r) \/ Begin(r) \/ Settle(r)
    \/ Abandon

Spec == Init /\ [][Next]_vars

=============================================================================
