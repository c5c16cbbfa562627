---------------------- MODULE DashboardOverviewProofs ----------------------
(***************************************************************************)
(* Proofs about DashboardOverview, for any queries, any interval and any   *)
(* number of snapshots, requests and failures: the publisher keeps its     *)
(* distance (QueriesAreSpaced), and what the browser shows when the        *)
(* publisher is idle is current (ViewIsCurrent).                           *)
(*                                                                         *)
(* The second needs more than the property says (ViewInv): that no commit  *)
(* is lost between its listener, the timer and the request made while      *)
(* publishing (OwesPush), and that what was asked for after the last push  *)
(* began is as new as that push, unless one more is owed.                  *)
(***************************************************************************)
EXTENDS DashboardOverview, SequenceTheorems, TLAPS

-----------------------------------------------------------------------------
(* The invariants.                                                         *)

Types ==
    /\ version \in Nat
    /\ notices \in Nat
    /\ now \in Nat
    /\ lastPublishedAt \in Nat
    /\ pendingTimer \in Nat
    /\ publishing \in Overview
    /\ requestedWhilePublishing \in BOOLEAN
    /\ polls \in [Polls -> Overview]
    /\ link \in Links
    /\ wire \in Seq(Overview)
    /\ view \in Overview
    /\ status \in {"loading", "ready", "error"}
    /\ sent \in BOOLEAN
    /\ reached \in BOOLEAN
    /\ failures \in Nat

\* The clock has passed everything that carries a time, and a timer that is
\* set leaves the interval between two publications.
Clock ==
    /\ lastPublishedAt <= now /\ MinInterval <= now
    /\ pendingTimer # NoTimer => pendingTimer >= lastPublishedAt + MinInterval
    /\ view.at <= now
    /\ \A k \in Polls : polls[k].at <= now
    /\ \A i \in 1..Len(wire) : wire[i].at <= lastPublishedAt

\* The overview being put together is the publisher's last, and only then can
\* another one have been requested.
Publishing ==
    /\ publishing # None => publishing.pushed /\ publishing.at = lastPublishedAt
    /\ requestedWhilePublishing => publishing # None
    /\ sent \/ publishing # None => lastPublishedAt > 0

TimesInv == Types /\ Clock /\ Publishing

\* A commit that no overview of the publisher can have missed: its listener,
\* a timer or a request to publish again is still there.
OwesPush == notices > 0 \/ pendingTimer # NoTimer \/ requestedWhilePublishing

\* No query of o read anything but the last version, unless one more push is
\* owed.
IsNew(o) == OwesPush \/ \A q \in Queries : o.read[q] \in {NotRead, version}

PublishingIsNew == publishing # None => IsNew(publishing)

\* What was asked for after the last push began is as new as that push.
LaterIsNew ==
    sent \/ publishing # None =>
        /\ view.at > lastPublishedAt => IsNew(view)
        /\ \A k \in Polls : polls[k].at > lastPublishedAt => IsNew(polls[k])

\* Where the overviews come from: a push from the publisher, an answer from a
\* request, and both complete when they are shown.
Sources ==
    /\ view = None \/ IsComplete(view)
    /\ \A i \in 1..Len(wire) : IsComplete(wire[i])
    /\ \A k \in Polls : ~polls[k].pushed

\* The last push is the last thing on the wire, or it has arrived and only
\* something asked for later, or at the same moment, has replaced it.
LastPushArrives ==
    sent /\ reached /\ publishing = None =>
        IF wire = << >>
        THEN /\ view.at >= lastPublishedAt
             /\ view.at = lastPublishedAt /\ view.pushed => IsNew(view)
        ELSE /\ wire[Len(wire)].at = lastPublishedAt
             /\ IsNew(wire[Len(wire)])

ViewInv == TimesInv /\ PublishingIsNew /\ LaterIsNew /\ Sources /\ LastPushArrives

-----------------------------------------------------------------------------
(* Overviews.                                                              *)

\* What is asked for is an overview, with nothing read; None is one too.
LEMMA AskedIsOverview ==
    ASSUME NEW t \in Nat, NEW pushed \in BOOLEAN
    PROVE  /\ Asked(t, pushed) \in Overview
           /\ Asked(t, pushed).at = t
           /\ Asked(t, pushed).pushed = pushed
           /\ \A q \in Queries : Asked(t, pushed).read[q] = NotRead
BY DEF Asked, Overview

LEMMA NoneIsOverview == /\ None \in Overview
                        /\ None.at = 0
                        /\ None.pushed = FALSE
BY AskedIsOverview DEF None

\* A query that reads a version leaves the rest of the overview alone.
LEMMA ReadIsOverview ==
    ASSUME NEW o \in Overview, NEW q \in Queries, NEW v \in Nat
    PROVE  LET r == [o EXCEPT !.read[q] = v] IN
           /\ r \in Overview
           /\ r.at = o.at
           /\ r.pushed = o.pushed
           /\ r.read[q] = v
           /\ \A p \in Queries : p # q => r.read[p] = o.read[p]
BY DEF Overview

LEMMA AppliedIsOne ==
    ASSUME NEW o
    PROVE  Applied(o) = view \/ Applied(o) = o
BY DEF Applied

\* What is on the wire is past.
LEMMA WireIsPast ==
    ASSUME TimesInv
    PROVE  \A i \in 1..Len(wire) : wire[i] \in Overview /\ wire[i].at <= now
<1>1. \A o \in Overview : o.at \in Nat
  BY DEF Overview
<1>2. /\ wire \in Seq(Overview) /\ lastPublishedAt \in Nat /\ now \in Nat
      /\ lastPublishedAt <= now
  BY DEF TimesInv, Types, Clock
<1>3. \A i \in 1..Len(wire) : wire[i] \in Overview /\ wire[i].at <= lastPublishedAt
  BY <1>2 DEF TimesInv, Clock
<1>4. \A n \in Nat : n <= lastPublishedAt => n <= now
  BY <1>2
<1> QED
  BY <1>1, <1>3, <1>4

\* The timer that notify leaves keeps its distance from the last publication.
LEMMA TimerKeepsDistance ==
    ASSUME TimesInv
    PROVE  /\ TimerAfterNotify \in Nat
           /\ TimerAfterNotify # NoTimer
           /\ TimerAfterNotify >= lastPublishedAt + MinInterval
BY OverviewAssumption DEF TimesInv, Types, Clock, TimerAfterNotify, DueAt, NoTimer

-----------------------------------------------------------------------------
(* The clock.                                                              *)

LEMMA StoreKeepsTimes == ASSUME TimesInv, Store PROVE TimesInv'
BY DEF Store, TimesInv, Types, Clock, Publishing, publisherVars, browserVars, historyVars

LEMMA TickKeepsTimes == ASSUME TimesInv, Tick PROVE TimesInv'
<1>1. now \in Nat /\ now' = now + 1
  BY DEF Tick, TimesInv, Types
<1>2. Types' /\ Publishing'
  BY DEF Tick, TimesInv, Types, Publishing, publisherVars, browserVars, historyVars
<1>3. \A n \in Nat : n <= now => n <= now'
  BY <1>1
<1>4. /\ lastPublishedAt \in Nat /\ MinInterval \in Nat /\ view.at \in Nat
      /\ \A k \in Polls : polls[k].at \in Nat
      /\ \A i \in 1..Len(wire) : wire[i].at \in Nat
  <2>1. lastPublishedAt \in Nat /\ MinInterval \in Nat /\ view \in Overview
    BY OverviewAssumption DEF TimesInv, Types
  <2>2. /\ \A k \in Polls : polls[k] \in Overview
        /\ \A i \in 1..Len(wire) : wire[i] \in Overview
    BY DEF TimesInv, Types
  <2>3. \A o \in Overview : o.at \in Nat
    BY DEF Overview
  <2> QED
    BY <2>1, <2>2, <2>3
<1>5. UNCHANGED <<lastPublishedAt, pendingTimer, view, polls, wire>>
  BY DEF Tick, publisherVars, browserVars
<1>6. Clock'
  BY <1>3, <1>4, <1>5 DEF TimesInv, Clock
<1> QED
  BY <1>2, <1>6 DEF TimesInv

LEMMA NotifyKeepsTimes == ASSUME TimesInv, Notify PROVE TimesInv'
BY TimerKeepsDistance
   DEF Notify, TimesInv, Types, Clock, Publishing, browserVars, historyVars

LEMMA StartKeepsTimes == ASSUME TimesInv, StartPublishing PROVE TimesInv'
<1>1. /\ publishing' \in Overview
      /\ publishing'.at = now
      /\ publishing'.pushed = TRUE
  BY AskedIsOverview DEF StartPublishing, TimesInv, Types
<1>2. publishing' # None
  BY <1>1, NoneIsOverview
<1>3. now > 0
  BY OverviewAssumption DEF TimesInv, Types, Clock
<1>4. Types'
  BY <1>1 DEF StartPublishing, TimesInv, Types, browserVars, historyVars, NoTimer
<1>5. Clock'
  BY <1>1, WireIsPast DEF StartPublishing, TimesInv, Types, Clock, browserVars, NoTimer
<1>6. Publishing'
  BY <1>1, <1>2, <1>3 DEF StartPublishing, TimesInv, Publishing
<1> QED
  BY <1>4, <1>5, <1>6 DEF TimesInv

LEMMA RequestKeepsTimes == ASSUME TimesInv, RequestAnother PROVE TimesInv'
BY DEF RequestAnother, RequestedAfter, TimesInv, Types, Clock, Publishing, browserVars,
       historyVars, NoTimer

LEMMA ReadKeepsTimes ==
    ASSUME TimesInv, NEW q \in Queries, ReadForPublish(q)
    PROVE  TimesInv'
<1>1. /\ publishing' \in Overview
      /\ publishing'.at = publishing.at
      /\ publishing'.pushed = publishing.pushed
  BY ReadIsOverview DEF ReadForPublish, TimesInv, Types
<1>2. publishing' # None
  BY <1>1, NoneIsOverview DEF ReadForPublish, TimesInv, Publishing
<1> QED
  BY <1>1, <1>2 DEF ReadForPublish, TimesInv, Types, Clock, Publishing, browserVars, historyVars

LEMMA BroadcastKeepsTimes == ASSUME TimesInv, Broadcast PROVE TimesInv'
<1>1. wire' \in Seq(Overview) /\ \A i \in 1..Len(wire') : wire'[i].at <= lastPublishedAt
  <2>1. /\ publishing \in Overview /\ publishing.at = lastPublishedAt
        /\ lastPublishedAt \in Nat /\ wire \in Seq(Overview)
    BY DEF Broadcast, TimesInv, Types, Clock, Publishing
  <2>2. CASE link = "live"
    <3>1. wire' = Append(wire, publishing)
      BY <2>2 DEF Broadcast
    <3>2. /\ wire' \in Seq(Overview)
          /\ Len(wire') = Len(wire) + 1
          /\ \A i \in 1..Len(wire) : wire'[i] = wire[i]
          /\ wire'[Len(wire) + 1] = publishing
      BY <2>1, <3>1, AppendProperties
    <3> QED
      BY <2>1, <3>2 DEF TimesInv, Clock
  <2>3. CASE link # "live"
    BY <2>3 DEF Broadcast, TimesInv, Types, Clock
  <2> QED
    BY <2>2, <2>3
<1>2. /\ pendingTimer' \in Nat
      /\ pendingTimer' # NoTimer => pendingTimer' >= lastPublishedAt + MinInterval
  BY TimerKeepsDistance DEF Broadcast, EndPublishing, TimesInv, Types, Clock
<1>3. Types'
  BY <1>1, <1>2, NoneIsOverview DEF Broadcast, EndPublishing, TimesInv, Types
<1>4. Clock'
  BY <1>1, <1>2 DEF Broadcast, EndPublishing, TimesInv, Clock
<1>5. Publishing'
  BY DEF Broadcast, EndPublishing, TimesInv, Publishing
<1> QED
  BY <1>3, <1>4, <1>5 DEF TimesInv

LEMMA PublishFailsKeepsTimes == ASSUME TimesInv, PublishFails PROVE TimesInv'
<1>1. /\ pendingTimer' \in Nat
      /\ pendingTimer' # NoTimer => pendingTimer' >= lastPublishedAt + MinInterval
  BY TimerKeepsDistance DEF PublishFails, EndPublishing, TimesInv, Types, Clock
<1>2. Types'
  <2>1. failures' \in Nat
    BY DEF PublishFails, TimesInv, Types
  <2> QED
    BY <1>1, <2>1, NoneIsOverview DEF PublishFails, EndPublishing, TimesInv, Types, browserVars
<1>3. Clock'
  BY <1>1 DEF PublishFails, EndPublishing, TimesInv, Clock, browserVars
<1>4. Publishing'
  BY DEF PublishFails, EndPublishing, TimesInv, Publishing
<1> QED
  BY <1>2, <1>3, <1>4 DEF TimesInv

LEMMA RestartKeepsTimes == ASSUME TimesInv, Restart PROVE TimesInv'
<1>1. /\ polls' \in [Polls -> Overview]
      /\ \A k \in Polls : polls'[k].at = 0
  BY NoneIsOverview DEF Restart
<1>2. wire' = << >> /\ wire' \in Seq(Overview) /\ Len(wire') = 0
  BY DEF Restart
<1>3. Types'
  <2>1. failures' \in Nat /\ pendingTimer' \in Nat /\ lastPublishedAt' \in Nat
    BY DEF Restart, TimesInv, Types, NoTimer
  <2>2. link' \in Links /\ status' \in {"loading", "ready", "error"}
    BY DEF Restart, TimesInv, Types, Links
  <2> QED
    BY <1>1, <1>2, <2>1, <2>2, NoneIsOverview DEF Restart, TimesInv, Types
<1>4. Clock'
  BY <1>1, <1>2 DEF Restart, TimesInv, Types, Clock, NoTimer
<1>5. Publishing'
  BY DEF Restart, TimesInv, Publishing
<1> QED
  BY <1>3, <1>4, <1>5 DEF TimesInv

\* A request of the browser asks now, reads, or is over.
LEMMA PollsKeepTimes ==
    ASSUME TimesInv, NEW k \in Polls, NEW o \in Overview, o.at <= now,
           polls' = [polls EXCEPT ![k] = o],
           UNCHANGED <<version, notices, now, publisherVars, wire, sent>>,
           link' \in Links, view' \in {view, polls[k]},
           status' \in {"loading", "ready", "error"}, reached' \in BOOLEAN, failures' \in Nat
    PROVE  TimesInv'
<1>1. polls' \in [Polls -> Overview] /\ \A j \in Polls : polls'[j].at <= now
  BY DEF TimesInv, Types, Clock
<1>2. view' \in Overview /\ view'.at <= now
  BY DEF TimesInv, Types, Clock
<1> QED
  BY <1>1, <1>2 DEF TimesInv, Types, Clock, Publishing, publisherVars

LEMMA PollKeepsTimes ==
    ASSUME TimesInv, NEW k \in Polls,
           \/ Poll(k) \/ PollAnswered(k) \/ PollFails(k) \/ Open(k)
           \/ \E q \in Queries : ReadForPoll(k, q)
    PROVE  TimesInv'
<1>1. /\ Asked(now, FALSE) \in Overview
      /\ Asked(now, FALSE).at <= now
      /\ None \in Overview
      /\ None.at <= now
  <2>1. now \in Nat /\ FALSE \in BOOLEAN /\ now <= now /\ 0 <= now
    BY DEF TimesInv, Types
  <2> QED
    BY <2>1, AskedIsOverview, NoneIsOverview
<1>2. /\ link \in Links /\ status \in {"loading", "ready", "error"}
      /\ reached \in BOOLEAN /\ failures \in Nat
  BY DEF TimesInv, Types
<1>3. CASE Poll(k)
  BY <1>1, <1>2, <1>3, PollsKeepTimes DEF Poll, historyVars
<1>4. CASE PollAnswered(k)
  BY <1>1, <1>2, <1>4, PollsKeepTimes, AppliedIsOne DEF PollAnswered, historyVars
<1>5. CASE PollFails(k)
  <2>1. failures' \in Nat
    BY <1>2, <1>5 DEF PollFails
  <2> QED
    BY <1>1, <1>2, <1>5, <2>1, PollsKeepTimes DEF PollFails
<1>6. CASE Open(k)
  <2>1. link' \in Links
    BY <1>6 DEF Open, Links
  <2> QED
    BY <1>1, <1>2, <1>6, <2>1, PollsKeepTimes DEF Open, historyVars
<1>7. ASSUME NEW q \in Queries, ReadForPoll(k, q) PROVE TimesInv'
  <2> DEFINE o == [polls[k] EXCEPT !.read[q] = version]
  <2>1. o \in Overview /\ o.at <= now
    BY ReadIsOverview DEF TimesInv, Types, Clock
  <2>2. polls' = [polls EXCEPT ![k] = o]
    BY <1>7 DEF ReadForPoll
  <2> QED
    BY <1>2, <1>7, <2>1, <2>2, PollsKeepTimes DEF ReadForPoll, historyVars
<1> QED
  BY <1>3, <1>4, <1>5, <1>6, <1>7

LEMMA ReceiveKeepsTimes == ASSUME TimesInv, Receive PROVE TimesInv'
<1>1. /\ Head(wire) = wire[1] /\ 1 \in 1..Len(wire)
      /\ wire' \in Seq(Overview)
      /\ wire[1] \in Overview
      /\ \A i \in 1..Len(wire') : wire'[i] = wire[i + 1] /\ i + 1 \in 1..Len(wire)
  BY DEF Receive, TimesInv, Types
<1>2. view' \in Overview /\ view'.at <= now
  BY <1>1, AppliedIsOne, WireIsPast DEF Receive, TimesInv, Types, Clock
<1> QED
  BY <1>1, <1>2
     DEF Receive, TimesInv, Types, Clock, Publishing, publisherVars, historyVars

LEMMA LinkKeepsTimes ==
    ASSUME TimesInv, Disconnect \/ \E ok \in BOOLEAN : Authenticate(ok)
    PROVE  TimesInv'
<1>1. CASE Disconnect
  BY <1>1 DEF Disconnect, TimesInv, Types, Clock, Publishing, publisherVars, Links
<1>2. CASE \E ok \in BOOLEAN : Authenticate(ok)
  BY <1>2
     DEF Authenticate, TimesInv, Types, Clock, Publishing, publisherVars, historyVars, Links
<1> QED
  BY <1>1, <1>2

LEMMA InitTimes == Init => TimesInv
<1> SUFFICES ASSUME Init PROVE TimesInv
  OBVIOUS
<1>1. wire = << >> /\ wire \in Seq(Overview) /\ Len(wire) = 0
  BY DEF Init
<1>2. polls \in [Polls -> Overview] /\ \A k \in Polls : polls[k].at = 0
  BY NoneIsOverview DEF Init
<1>3. MinInterval \in Nat
  BY OverviewAssumption
<1>4. Types
  BY <1>1, <1>2, <1>3, NoneIsOverview DEF Init, Types, NoTimer, Links
<1>5. Clock
  BY <1>1, <1>2, <1>3, NoneIsOverview DEF Init, Clock, NoTimer
<1>6. Publishing
  BY DEF Init, Publishing
<1> QED
  BY <1>4, <1>5, <1>6 DEF TimesInv

LEMMA StepTimes == TimesInv /\ [Next]_vars => TimesInv'
<1> SUFFICES ASSUME TimesInv, [Next]_vars PROVE TimesInv'
  OBVIOUS
<1>1. CASE Next
  BY <1>1, StoreKeepsTimes, TickKeepsTimes, NotifyKeepsTimes, StartKeepsTimes,
     RequestKeepsTimes, ReadKeepsTimes, BroadcastKeepsTimes, PublishFailsKeepsTimes,
     RestartKeepsTimes, PollKeepsTimes, ReceiveKeepsTimes, LinkKeepsTimes
     DEF Next
<1>2. CASE UNCHANGED vars
  BY <1>2
     DEF vars, publisherVars, browserVars, historyVars, TimesInv, Types, Clock, Publishing
<1> QED
  BY <1>1, <1>2

LEMMA TimesInvariant == Spec => []TimesInv
BY InitTimes, StepTimes, PTL DEF Spec

\* As long as the server has not restarted, lastPublishedAt is the time at which
\* the publisher last began.
Remembered == ~afresh => lastPublishedAt = startedAt

LEMMA StepRemembers == Remembered /\ [Next]_vars => Remembered'
<1> SUFFICES ASSUME Remembered, [Next]_vars PROVE Remembered'
  OBVIOUS
<1>1. CASE StartPublishing
  BY <1>1 DEF StartPublishing, Remembered
<1>2. CASE Restart
  BY <1>2 DEF Restart, Remembered
<1>3. CASE ~StartPublishing /\ ~Restart
  <2>1. UNCHANGED <<lastPublishedAt, startedAt, afresh>>
    BY <1>3 DEF vars, Next, Store, Tick, Notify, RequestAnother, Broadcast, PublishFails,
                EndPublishing, ReadForPublish, Poll, PollAnswered, PollFails, Open, ReadForPoll,
                Receive, Disconnect, Authenticate, publisherVars, historyVars, spacingVars
  <2> QED
    BY <2>1 DEF Remembered
<1> QED
  BY <1>1, <1>2, <1>3

LEMMA RememberedInvariant == Spec => []Remembered
<1>1. Init => Remembered
  BY DEF Init, Remembered
<1> QED
  BY <1>1, StepRemembers, PTL DEF Spec

\* A publication begins only when the timer has fired, and the timer is never
\* set for less than minIntervalMs after the last one, whatever was requested
\* while publishing (comment at dashboardOverviewPublisher.js 2): between two
\* publications with no restart in between there are minIntervalMs.
THEOREM PublisherKeepsItsInterval == Spec => QueriesAreSpaced
<1>1. TimesInv /\ Remembered /\ [Next]_vars =>
        [publishing = None /\ publishing' # None =>
           afresh \/ now - startedAt >= MinInterval]_vars
  <2> SUFFICES ASSUME TimesInv, Remembered, Next, publishing = None, publishing' # None, ~afresh
               PROVE  now - startedAt >= MinInterval
    OBVIOUS
  <2>1. StartPublishing
    BY DEF Next, Store, Tick, Notify, RequestAnother, Broadcast, PublishFails, EndPublishing,
           Restart, ReadForPublish, Poll, PollAnswered, PollFails, Open, ReadForPoll, Receive,
           Disconnect, Authenticate, publisherVars
  <2>2. /\ pendingTimer >= lastPublishedAt + MinInterval
        /\ now >= pendingTimer
        /\ lastPublishedAt \in Nat /\ now \in Nat /\ pendingTimer \in Nat
    BY <2>1 DEF StartPublishing, TimesInv, Types, Clock
  <2>3. lastPublishedAt = startedAt
    BY DEF Remembered
  <2> QED
    BY <2>2, <2>3, OverviewAssumption
<1> QED
  BY <1>1, TimesInvariant, RememberedInvariant, PTL DEF Spec, QueriesAreSpaced

-----------------------------------------------------------------------------
(* What is new stays new.                                                  *)

\* Whatever happens but a new publication or a restart, an overview that was
\* as new as the database still is, or one more push is owed.
LEMMA NewStaysNew ==
    ASSUME TimesInv, [Next]_vars, ~StartPublishing, ~Restart, NEW o \in Overview, IsNew(o)
    PROVE  IsNew(o)'
<1>1. CASE Store
  <2>1. OwesPush'
    BY <1>1 DEF Store, OwesPush, TimesInv, Types
  <2> QED
    BY <2>1 DEF IsNew
<1>2. CASE Notify
  <2>1. OwesPush'
    BY <1>2, TimerKeepsDistance DEF Notify, OwesPush
  <2> QED
    BY <2>1 DEF IsNew
<1>3. CASE RequestAnother
  <2>1. OwesPush'
    BY <1>3 DEF RequestAnother, RequestedAfter, OwesPush
  <2> QED
    BY <2>1 DEF IsNew
<1>4. CASE EndPublishing /\ UNCHANGED <<version, notices>>
  <2>1. OwesPush => OwesPush'
    BY <1>4, TimerKeepsDistance DEF EndPublishing, OwesPush
  <2> QED
    BY <1>4, <2>1 DEF IsNew
<1>5. CASE UNCHANGED <<version, notices, pendingTimer, requestedWhilePublishing>>
  BY <1>5 DEF IsNew, OwesPush
<1>6. \/ Store \/ Notify \/ RequestAnother
      \/ EndPublishing /\ UNCHANGED <<version, notices>>
      \/ UNCHANGED <<version, notices, pendingTimer, requestedWhilePublishing>>
  BY DEF Next, Tick, Broadcast, PublishFails, ReadForPublish, Poll, PollAnswered, PollFails,
         Open, ReadForPoll, Receive, Disconnect, Authenticate, publisherVars, vars
<1> QED
  BY <1>1, <1>2, <1>3, <1>4, <1>5, <1>6

\* What has only just been asked for is new, and what reads a query stays so.
LEMMA AskedIsNew ==
    ASSUME NEW t \in Nat, NEW pushed \in BOOLEAN
    PROVE  IsNew(Asked(t, pushed))
BY AskedIsOverview DEF IsNew

LEMMA ReadIsNew ==
    ASSUME Types, NEW o \in Overview, NEW q \in Queries, IsNew(o)
    PROVE  IsNew([o EXCEPT !.read[q] = version])
<1> DEFINE r == [o EXCEPT !.read[q] = version]
<1>1. r.read[q] = version /\ \A p \in Queries : p # q => r.read[p] = o.read[p]
  <2>1. version \in Nat
    BY DEF Types
  <2> QED
    BY <2>1, ReadIsOverview, ZenonT(40)
<1> HIDE DEF r
<1>2. IsNew(r)
  BY <1>1 DEF IsNew
<1> QED
  BY <1>2 DEF r

-----------------------------------------------------------------------------
(* The invariant of the view, one part at a time.                          *)

LEMMA StepPublishingIsNew ==
    ASSUME TimesInv, PublishingIsNew, [Next]_vars
    PROVE  PublishingIsNew'
<1>1. CASE StartPublishing
  <2>1. publishing' = Asked(now, TRUE) /\ now \in Nat /\ TRUE \in BOOLEAN
    BY <1>1 DEF StartPublishing, TimesInv, Types
  <2>2. \A q \in Queries : publishing'.read[q] = NotRead
    BY <2>1, AskedIsOverview
  <2> QED
    BY <2>2 DEF PublishingIsNew, IsNew
<1>2. CASE publishing' = None
  BY <1>2 DEF PublishingIsNew
<1>3. ASSUME NEW q \in Queries, ReadForPublish(q) PROVE PublishingIsNew'
  <2> DEFINE r == [publishing EXCEPT !.read[q] = version]
  <2>1. IsNew(r)
    BY <1>3, ReadIsNew DEF ReadForPublish, PublishingIsNew, TimesInv, Types
  <2>2. publishing' = r
    BY <1>3 DEF ReadForPublish
  <2>3. UNCHANGED <<version, notices, pendingTimer, requestedWhilePublishing>>
    BY <1>3 DEF ReadForPublish
  <2> HIDE DEF r
  <2>4. IsNew(publishing)'
    BY <2>1, <2>2, <2>3 DEF IsNew, OwesPush
  <2> QED
    BY <2>4 DEF PublishingIsNew
<1>4. CASE publishing' = publishing /\ ~StartPublishing /\ ~Restart
  <2>1. publishing \in Overview
    BY DEF TimesInv, Types
  <2>2. publishing # None => IsNew(publishing)'
    <3>1. \A o \in Overview : IsNew(o) => (OwesPush' \/ \A q \in Queries :
                                             o.read[q] \in {NotRead, version'})
      BY <1>4, NewStaysNew DEF IsNew
    <3> QED
      BY <1>4, <2>1, <3>1 DEF PublishingIsNew, IsNew
  <2> QED
    BY <1>4, <2>2 DEF PublishingIsNew
<1>5. \/ StartPublishing \/ publishing' = None
      \/ \E q \in Queries : ReadForPublish(q)
      \/ publishing' = publishing /\ ~StartPublishing /\ ~Restart
  BY DEF Next, Store, Tick, Notify, RequestAnother, Broadcast, PublishFails, EndPublishing,
         Restart, Poll, PollAnswered, PollFails, Open, ReadForPoll, Receive, Disconnect,
         Authenticate, publisherVars, vars
<1> QED
  BY <1>1, <1>2, <1>3, <1>4, <1>5

\* What a step that neither publishes anew nor restarts does to the requests
\* and to the view.
LEMMA BrowserMoves ==
    ASSUME TimesInv, [Next]_vars, ~StartPublishing, ~Restart
    PROVE  /\ lastPublishedAt' = lastPublishedAt
           /\ sent' \/ publishing' # None => sent \/ publishing # None
           /\ \A k \in Polls :
                \/ polls'[k] = polls[k]
                \/ polls'[k] = None
                \/ polls'[k] = Asked(now, FALSE)
                \/ /\ \E q \in Queries : polls'[k] = [polls[k] EXCEPT !.read[q] = version]
                   /\ UNCHANGED <<version, notices, pendingTimer, requestedWhilePublishing>>
           /\ \/ view' = view
              \/ \E k \in Polls : PollAnswered(k)
              \/ Receive
<1>1. /\ lastPublishedAt' = lastPublishedAt
      /\ sent' \/ publishing' # None => sent \/ publishing # None
  <2>1. \/ UNCHANGED <<lastPublishedAt, publishing, sent>>
        \/ UNCHANGED lastPublishedAt /\ publishing # None
    BY DEF Next, Store, Tick, Notify, RequestAnother, Broadcast, PublishFails, EndPublishing,
           ReadForPublish, Poll, PollAnswered, PollFails, Open, ReadForPoll, Receive,
           Disconnect, Authenticate, publisherVars, historyVars, vars
  <2> QED
    BY <2>1
<1>2. \/ view' = view
      \/ \E k \in Polls : PollAnswered(k)
      \/ Receive
  BY DEF Next, Store, Tick, Notify, RequestAnother, Broadcast, PublishFails, ReadForPublish,
         Poll, PollFails, Open, ReadForPoll, Disconnect, Authenticate, browserVars, vars
<1>3. ASSUME NEW k \in Polls
      PROVE  \/ polls'[k] = polls[k]
             \/ polls'[k] = None
             \/ polls'[k] = Asked(now, FALSE)
             \/ /\ \E q \in Queries : polls'[k] = [polls[k] EXCEPT !.read[q] = version]
                /\ UNCHANGED <<version, notices, pendingTimer, requestedWhilePublishing>>
  <2>1. CASE UNCHANGED polls
    BY <2>1
  <2>2. CASE \E j \in Polls : Poll(j) \/ Open(j)
    <3>1. polls \in [Polls -> Overview]
      BY DEF TimesInv, Types
    <3> QED
      BY <2>2, <3>1 DEF Poll, Open
  <2>3. CASE \E j \in Polls : PollAnswered(j) \/ PollFails(j)
    <3>1. polls \in [Polls -> Overview]
      BY DEF TimesInv, Types
    <3> QED
      BY <2>3, <3>1 DEF PollAnswered, PollFails
  <2>4. ASSUME NEW j \in Polls, NEW q \in Queries, ReadForPoll(j, q)
        PROVE  \/ polls'[k] = polls[k]
               \/ /\ polls'[k] = [polls[k] EXCEPT !.read[q] = version]
                  /\ UNCHANGED <<version, notices, pendingTimer, requestedWhilePublishing>>
    BY <2>4 DEF ReadForPoll, publisherVars
  <2>5. \/ UNCHANGED polls
        \/ \E j \in Polls : Poll(j) \/ Open(j) \/ PollAnswered(j) \/ PollFails(j)
        \/ \E j \in Polls, q \in Queries : ReadForPoll(j, q)
    BY DEF Next, Store, Tick, Notify, RequestAnother, Broadcast, PublishFails, ReadForPublish,
           Receive, Disconnect, Authenticate, browserVars, vars
  <2> QED
    BY <2>1, <2>2, <2>3, <2>4, <2>5
<1> QED
  BY <1>1, <1>2, <1>3

LEMMA StepLaterIsNew ==
    ASSUME TimesInv, LaterIsNew, [Next]_vars
    PROVE  LaterIsNew'
<1>1. CASE StartPublishing
  <2>1. /\ lastPublishedAt' = now /\ now \in Nat
        /\ view' = view /\ view.at \in Nat /\ view.at <= now
        /\ \A k \in Polls : polls'[k] = polls[k] /\ polls[k].at \in Nat /\ polls[k].at <= now
    BY <1>1 DEF StartPublishing, browserVars, TimesInv, Types, Clock, Overview
  <2> QED
    BY <2>1 DEF LaterIsNew
<1>2. CASE Restart
  BY <1>2 DEF Restart, LaterIsNew
<1>3. CASE ~StartPublishing /\ ~Restart
  <2> SUFFICES ASSUME (sent \/ publishing # None)'
               PROVE  (/\ view.at > lastPublishedAt => IsNew(view)
                       /\ \A k \in Polls :
                            polls[k].at > lastPublishedAt => IsNew(polls[k]))'
    BY DEF LaterIsNew
  <2>1. /\ sent \/ publishing # None
        /\ lastPublishedAt' = lastPublishedAt /\ lastPublishedAt \in Nat
    BY <1>3, BrowserMoves DEF TimesInv, Types
  <2>2. \A o \in Overview :
          IsNew(o) => OwesPush' \/ \A q \in Queries : o.read[q] \in {NotRead, version'}
    BY <1>3, NewStaysNew DEF IsNew
  <2>3. ASSUME view'.at > lastPublishedAt PROVE IsNew(view)'
    <3>1. CASE view' = view
      <4>1. view \in Overview /\ IsNew(view)
        BY <2>1, <2>3, <3>1 DEF LaterIsNew, TimesInv, Types
      <4> QED
        BY <2>2, <3>1, <4>1 DEF IsNew
    <3>2. ASSUME NEW k \in Polls, view' = polls[k] PROVE IsNew(view)'
      <4>1. polls[k] \in Overview /\ IsNew(polls[k])
        BY <2>1, <2>3, <3>2 DEF LaterIsNew, TimesInv, Types
      <4> QED
        BY <2>2, <3>2, <4>1 DEF IsNew
    <3>3. ASSUME Receive PROVE view' = view
      <4>1. /\ Head(wire) = wire[1] /\ 1 \in 1..Len(wire) /\ wire[1] \in Overview
            /\ wire[1].at <= lastPublishedAt
        BY <3>3 DEF Receive, TimesInv, Types, Clock
      <4>2. wire[1].at \in Nat
        BY <4>1 DEF Overview
      <4>3. view' = view \/ view' = wire[1]
        BY <3>3, <4>1, AppliedIsOne DEF Receive
      <4> QED
        BY <2>1, <2>3, <4>1, <4>2, <4>3
    <3>4. \/ view' = view
          \/ \E k \in Polls : view' = polls[k]
          \/ Receive
      BY <1>3, BrowserMoves, AppliedIsOne DEF PollAnswered
    <3> QED
      BY <3>1, <3>2, <3>3, <3>4
  <2>4. ASSUME NEW k \in Polls, polls'[k].at > lastPublishedAt PROVE IsNew(polls[k])'
    <3>1. CASE polls'[k] = polls[k]
      <4>1. polls[k] \in Overview /\ IsNew(polls[k])
        BY <2>1, <2>4, <3>1 DEF LaterIsNew, TimesInv, Types
      <4> QED
        BY <2>2, <3>1, <4>1 DEF IsNew
    <3>2. CASE polls'[k] = None
      BY <2>1, <2>4, <3>2, NoneIsOverview
    <3>3. CASE polls'[k] = Asked(now, FALSE)
      <4>1. now \in Nat /\ FALSE \in BOOLEAN
        BY DEF TimesInv, Types
      <4>2. \A q \in Queries : Asked(now, FALSE).read[q] = NotRead
        BY <4>1, AskedIsOverview
      <4> QED
        BY <3>3, <4>2 DEF IsNew
    <3>4. ASSUME NEW q \in Queries, polls'[k] = [polls[k] EXCEPT !.read[q] = version],
                 UNCHANGED <<version, notices, pendingTimer, requestedWhilePublishing>>
          PROVE  IsNew(polls[k])'
      <4> DEFINE r == [polls[k] EXCEPT !.read[q] = version]
      <4>1. polls[k] \in Overview /\ Types /\ version \in Nat
        BY DEF TimesInv, Types
      <4>2. r.at = polls[k].at
        BY <4>1, ReadIsOverview
      <4>3. IsNew(polls[k])
        BY <2>1, <2>4, <3>4, <4>2 DEF LaterIsNew
      <4>4. IsNew(r)
        BY <4>1, <4>3, ReadIsNew
      <4> HIDE DEF r
      <4>5. polls'[k] = r
        BY <3>4 DEF r
      <4> QED
        BY <3>4, <4>4, <4>5 DEF IsNew, OwesPush
    <3> QED
      BY <1>3, <3>1, <3>2, <3>3, <3>4, BrowserMoves
  <2> QED
    BY <2>1, <2>3, <2>4
<1> QED
  BY <1>1, <1>2, <1>3

LEMMA StepSources ==
    ASSUME TimesInv, Sources, [Next]_vars
    PROVE  Sources'
<1>1. view' = None \/ IsComplete(view')
  <2>1. CASE view' = view
    BY <2>1 DEF Sources
  <2>2. ASSUME NEW k \in Polls, PollAnswered(k) PROVE view' = view \/ IsComplete(view')
    BY <2>2, AppliedIsOne DEF PollAnswered
  <2>3. CASE Receive
    <3>1. Head(wire) = wire[1] /\ 1 \in 1..Len(wire)
      BY <2>3 DEF Receive, TimesInv, Types
    <3> QED
      BY <2>3, <3>1, AppliedIsOne DEF Receive, Sources
  <2>4. StartPublishing \/ Restart => view' = view
    BY DEF StartPublishing, Restart, browserVars
  <2> QED
    BY <2>1, <2>2, <2>3, <2>4, BrowserMoves DEF Sources
<1>2. \A i \in 1..Len(wire') : IsComplete(wire'[i])
  <2>1. CASE Broadcast
    <3>1. CASE link = "live"
      <4>1. /\ Len(wire') = Len(wire) + 1
            /\ \A i \in 1..Len(wire) : wire'[i] = wire[i]
            /\ wire'[Len(wire) + 1] = publishing
            /\ Len(wire) \in Nat
        BY <2>1, <3>1, AppendProperties DEF Broadcast, TimesInv, Types
      <4>2. IsComplete(publishing)
        BY <2>1 DEF Broadcast
      <4> QED
        BY <4>1, <4>2 DEF Sources
    <3>2. CASE link # "live"
      BY <2>1, <3>2 DEF Broadcast, Sources
    <3> QED
      BY <3>1, <3>2
  <2>2. CASE Receive
    <3>1. \A i \in 1..Len(wire') : wire'[i] = wire[i + 1] /\ i + 1 \in 1..Len(wire)
      BY <2>2 DEF Receive, TimesInv, Types
    <3> QED
      BY <3>1 DEF Sources
  <2>3. CASE wire' = << >>
    BY <2>3
  <2>4. CASE wire' = wire
    BY <2>4 DEF Sources
  <2>5. \/ Broadcast \/ Receive \/ wire' = << >> \/ wire' = wire
    BY DEF Next, Store, Tick, Notify, StartPublishing, RequestAnother, PublishFails, Restart,
           ReadForPublish, Poll, PollAnswered, PollFails, Open, ReadForPoll, Disconnect,
           Authenticate, browserVars, vars
  <2> QED
    BY <2>1, <2>2, <2>3, <2>4, <2>5
<1>3. ASSUME NEW k \in Polls PROVE ~polls'[k].pushed
  <2>1. CASE polls'[k] = polls[k]
    BY <2>1 DEF Sources
  <2>2. CASE polls'[k] = None
    BY <2>2, NoneIsOverview
  <2>3. CASE polls'[k] = Asked(now, FALSE)
    <3>1. now \in Nat /\ FALSE \in BOOLEAN
      BY DEF TimesInv, Types
    <3> QED
      BY <2>3, <3>1, AskedIsOverview
  <2>4. ASSUME NEW q \in Queries, polls'[k] = [polls[k] EXCEPT !.read[q] = version]
        PROVE  ~polls'[k].pushed
    <3>1. polls[k] \in Overview /\ version \in Nat
      BY DEF TimesInv, Types
    <3>2. polls'[k].pushed = polls[k].pushed
      BY <2>4, <3>1, ReadIsOverview
    <3> QED
      BY <3>2 DEF Sources
  <2>5. StartPublishing => polls'[k] = polls[k]
    BY DEF StartPublishing, browserVars
  <2>6. Restart => polls'[k] = None
    BY DEF Restart
  <2> QED
    BY <2>1, <2>2, <2>3, <2>4, <2>5, <2>6, BrowserMoves
<1> QED
  BY <1>1, <1>2, <1>3 DEF Sources

\* The last push stays the last thing on the wire until it arrives, and what
\* then replaces it was asked for later or at the same moment.
LEMMA StepLastPushArrives ==
    ASSUME ViewInv, [Next]_vars
    PROVE  LastPushArrives'
<1> DEFINE New(o) == OwesPush' \/ \A q \in Queries : o.read[q] \in {NotRead, version'}
           Arrives == IF wire' = << >>
                      THEN /\ view'.at >= lastPublishedAt'
                           /\ view'.at = lastPublishedAt' /\ view'.pushed => New(view')
                      ELSE /\ wire'[Len(wire')].at = lastPublishedAt'
                           /\ New(wire'[Len(wire')])
<1> SUFFICES ASSUME sent', reached', publishing' = None
             PROVE  Arrives
  BY DEF LastPushArrives, IsNew
<1>1. /\ Types /\ TimesInv
      /\ wire \in Seq(Overview) /\ Len(wire) \in Nat
      /\ view \in Overview /\ lastPublishedAt \in Nat
      /\ \A i \in 1..Len(wire) : wire[i] \in Overview
      /\ \A o \in Overview : o.at \in Nat
  <2>1. Types /\ TimesInv
    BY DEF ViewInv, TimesInv
  <2>2. /\ wire \in Seq(Overview) /\ view \in Overview /\ lastPublishedAt \in Nat
    BY <2>1 DEF Types
  <2>3. \A o \in Overview : o.at \in Nat
    BY DEF Overview
  <2>4. Len(wire) \in Nat /\ \A i \in 1..Len(wire) : wire[i] \in Overview
    BY <2>2
  <2> QED
    BY <2>1, <2>2, <2>3, <2>4
<1>2. ~StartPublishing /\ ~Restart
  <2>1. now \in Nat /\ TRUE \in BOOLEAN
    BY DEF ViewInv, TimesInv, Types
  <2>2. StartPublishing => publishing'.pushed = TRUE
    BY <2>1, AskedIsOverview DEF StartPublishing
  <2> QED
    BY <2>2, NoneIsOverview DEF Restart
<1>3. lastPublishedAt' = lastPublishedAt
  BY <1>1, <1>2, BrowserMoves
<1>4. \A o \in Overview : IsNew(o) => New(o)
  BY <1>1, <1>2, NewStaysNew DEF IsNew
<1>5. CASE Broadcast
  <2>1. /\ publishing \in Overview /\ publishing.at = lastPublishedAt
        /\ New(publishing)
    BY <1>4, <1>5 DEF Broadcast, ViewInv, TimesInv, Types, Publishing, PublishingIsNew
  <2>2. wire' = Append(wire, publishing)
    BY <1>5 DEF Broadcast
  <2>3. /\ Len(wire') = Len(wire) + 1
        /\ wire'[Len(wire) + 1] = publishing
        /\ wire' # << >>
    BY <1>1, <2>1, <2>2, AppendProperties
  <2> QED
    BY <1>3, <2>1, <2>3
<1>6. CASE publishing = None /\ sent /\ reached
  <2>1. /\ wire = << >> => /\ view.at >= lastPublishedAt
                           /\ view.at = lastPublishedAt /\ view.pushed => New(view)
        /\ wire # << >> => /\ wire[Len(wire)].at = lastPublishedAt
                           /\ New(wire[Len(wire)])
    <3>1. wire # << >> => Len(wire) \in 1..Len(wire)
      BY <1>1
    <3> QED
      BY <1>1, <1>4, <1>6, <3>1 DEF ViewInv, LastPushArrives
  <2>2. CASE wire' = wire /\ view' = view
    BY <1>3, <2>1, <2>2
  <2>3. ASSUME NEW k \in Polls, PollAnswered(k) PROVE Arrives
    <3>1. wire' = wire /\ view' = IF view.at > polls[k].at THEN view ELSE polls[k]
      BY <2>3 DEF PollAnswered, browserVars, Applied
    <3>2. ~polls[k].pushed /\ polls[k] \in Overview
      BY <1>1 DEF ViewInv, Sources, Types
    <3> QED
      BY <1>1, <1>3, <2>1, <3>1, <3>2
  <2>4. CASE Receive
    <3>1. /\ wire # << >> /\ wire' = Tail(wire)
          /\ Head(wire) = wire[1]
          /\ view' = IF view.at > wire[1].at THEN view ELSE wire[1]
      BY <1>1, <2>4 DEF Receive, Applied
    <3>2. CASE Len(wire) = 1
      <4>1. wire' = << >>
        BY <1>1, <3>1, <3>2
      <4>2. wire[1].at = lastPublishedAt /\ New(wire[1])
        BY <2>1, <3>1, <3>2
      <4> QED
        BY <1>1, <1>3, <3>1, <4>1, <4>2
    <3>3. CASE Len(wire) # 1
      <4>1. PICK n \in Nat \ {0} : n = Len(wire)
        BY <1>1, <3>1, EmptySeq
      <4>2. n >= 2
        BY <3>3, <4>1
      <4>3. /\ Len(wire') = n - 1
            /\ \A i \in 1..(n - 1) : wire'[i] = wire[i + 1]
        BY <1>1, <3>1, <4>1, HeadTailProperties
      <4>4. n - 1 \in 1..(n - 1) /\ (n - 1) + 1 = n
        BY <4>2
      <4>5. wire'[n - 1] = wire[n] /\ wire' # << >>
        BY <4>2, <4>3, <4>4
      <4> QED
        BY <1>3, <2>1, <3>1, <4>1, <4>3, <4>5
    <3> QED
      BY <3>2, <3>3
  <2>5. CASE Disconnect
    BY <1>3, <2>1, <2>5 DEF Disconnect
  <2>6. \/ wire' = wire /\ view' = view
        \/ \E k \in Polls : PollAnswered(k)
        \/ Receive \/ Disconnect
    BY <1>2, <1>6 DEF Next, Store, Tick, Notify, RequestAnother, Broadcast, PublishFails,
       ReadForPublish, Poll, PollFails, Open, ReadForPoll, Authenticate, browserVars, vars
  <2> QED
    BY <2>2, <2>3, <2>4, <2>5, <2>6
<1>7. Broadcast \/ (publishing = None /\ sent /\ reached)
  <2>1. ASSUME NEW q \in Queries, ReadForPublish(q) PROVE FALSE
    <3>1. /\ publishing # None /\ publishing \in Overview /\ version \in Nat
          /\ publishing' = [publishing EXCEPT !.read[q] = version]
      BY <1>1, <2>1 DEF ReadForPublish, Types
    <3>2. publishing'.pushed
      BY <1>1, <3>1, ReadIsOverview DEF TimesInv, Publishing
    <3> QED
      BY <3>2, NoneIsOverview
  <2>2. ~PublishFails
    BY DEF PublishFails
  <2> QED
    BY <1>2, <2>1, <2>2 DEF Next, Store, Tick, Notify, RequestAnother, Poll, PollAnswered,
       PollFails, Open, ReadForPoll, Receive, Disconnect, Authenticate, publisherVars,
       historyVars, vars
<1> QED
  BY <1>5, <1>6, <1>7

LEMMA InitView == Init => ViewInv
<1> SUFFICES ASSUME Init PROVE ViewInv
  OBVIOUS
<1>1. Len(wire) = 0 /\ \A k \in Polls : polls[k] = None
  BY DEF Init
<1> QED
  BY <1>1, InitTimes, NoneIsOverview
     DEF Init, ViewInv, PublishingIsNew, LaterIsNew, Sources, LastPushArrives

LEMMA ViewInvariant == Spec => []ViewInv
<1>1. ViewInv /\ [Next]_vars => ViewInv'
  BY StepTimes, StepPublishingIsNew, StepLaterIsNew, StepSources, StepLastPushArrives
     DEF ViewInv
<1> QED
  BY <1>1, InitView, PTL DEF Spec

\* Whenever the publisher has nothing left to do and the last push was not
\* lost, the browser shows every snapshot committed, whatever its own requests
\* brought in between; the one exception is an answer asked for in the very
\* millisecond of that push (comments at dashboardOverviewPublisher.js 3 and
\* useDashboardOverview.js 12).
THEOREM IdlePublisherLeavesCurrentView == Spec => []ViewIsCurrent
<1>1. ViewInv => ViewIsCurrent
  <2> SUFFICES ASSUME ViewInv, Idle, sent, reached, wire = << >>,
                      view.pushed \/ view.at # lastPublishedAt
               PROVE  Current(view)
    BY DEF ViewIsCurrent
  <2>1. ~OwesPush
    BY DEF Idle, OwesPush, ViewInv, TimesInv, Publishing
  <2>2. /\ view.at \in Nat /\ lastPublishedAt \in Nat
        /\ lastPublishedAt > 0
    BY DEF ViewInv, TimesInv, Types, Publishing, Overview
  <2>3. view.at >= lastPublishedAt
    BY DEF Idle, ViewInv, LastPushArrives
  <2>4. IsNew(view)
    BY <2>2, <2>3 DEF Idle, ViewInv, LaterIsNew, LastPushArrives
  <2>5. IsComplete(view)
    BY <2>2, <2>3, NoneIsOverview DEF ViewInv, Sources
  <2> QED
    BY <2>1, <2>4, <2>5 DEF IsNew, IsComplete, Current
<1> QED
  BY <1>1, ViewInvariant, PTL
=============================================================================
