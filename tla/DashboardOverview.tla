------------------------- MODULE DashboardOverview -------------------------
(***************************************************************************)
(* How what a snapshot stored reaches a browser: the listener that         *)
(* wrongway.service.js calls after a commit, the publisher of              *)
(* dashboardOverviewPublisher.js, the broadcast of websocket.js, the       *)
(* overview request that a browser also makes on its own, and              *)
(* useDashboardOverview.js, which decides what to show.                    *)
(*                                                                         *)
(* The database is a version number: the snapshots committed so far.  An   *)
(* overview is put together by several queries (Promise.all in             *)
(* getDashboardOverview); each reads the version of its own moment, while  *)
(* generatedAt is the time at which the overview was asked for.            *)
(*                                                                         *)
(* Date.now() is the variable now; it never goes back, and a timer fires   *)
(* at its time or later.  setTimeout(0) fires after 1 ms, as Node makes it.*)
(***************************************************************************)
EXTENDS Integers, Sequences

CONSTANTS
    Queries,        \* the queries of getDashboardOverview
    MinInterval,    \* minIntervalMs
    MaxSnapshots,   \* bound: snapshots committed
    MaxTime,        \* bound: the clock stops here unless a timer is due
    MaxPolls,       \* bound: overview requests of the browser in flight
    MaxFailures     \* bound: failed overviews and requests, lost connections
                    \* and restarts of the server, together

ASSUME OverviewAssumption ==
    /\ MinInterval \in Nat \ {0}
    /\ MaxSnapshots \in Nat
    /\ MaxTime \in Nat
    /\ MaxPolls \in Nat
    /\ MaxFailures \in Nat

NotRead == -1
\* at is generatedAt; pushed tells the overviews of the publisher from the
\* answers to requests.
Overview == [at: Nat, read: [Queries -> Nat \cup {NotRead}], pushed: BOOLEAN]
Asked(t, pushed) == [at |-> t, read |-> [q \in Queries |-> NotRead], pushed |-> pushed]
None == Asked(0, FALSE)
IsComplete(o) == \A q \in Queries : o.read[q] # NotRead

NoTimer == 0
Polls == 1..MaxPolls

VARIABLES
    version,          \* snapshots committed
    notices,          \* commits whose listener has not been called yet
    now,              \* Date.now()
    lastPublishedAt,
    pendingTimer,     \* the time it is set to, or NoTimer
    publishing,       \* the overview being put together, or None
    requestedWhilePublishing,
    polls,            \* [request of the browser -> its overview, or None]
    link,             \* the browser's WebSocket
    wire,             \* overviews sent on it and not yet received
    view,             \* the overview the browser shows, or None
    status,           \* the status it shows
    sent,             \* the last broadcast is the last one due
    reached,          \* and was sent to this browser
    failures,
    startedAt,        \* when the publisher last began to ask the database
    afresh            \* the server has restarted since

publisherVars == <<lastPublishedAt, pendingTimer, publishing, requestedWhilePublishing>>
browserVars == <<polls, link, wire, view, status>>
spacingVars == <<startedAt, afresh>>
historyVars == <<sent, reached, failures, spacingVars>>
vars == <<version, notices, now, publisherVars, browserVars, historyVars>>

Links == {"down", "open", "live", "refused"}

Init ==
    /\ version = 0
    /\ notices = 0
    /\ now = MinInterval
    /\ lastPublishedAt = 0
    /\ pendingTimer = NoTimer
    /\ publishing = None
    /\ requestedWhilePublishing = FALSE
    /\ polls = [k \in Polls |-> None]
    /\ link = "down"
    /\ wire = << >>
    /\ view = None
    /\ status = "loading"
    /\ sent = FALSE
    /\ reached = FALSE
    /\ failures = 0
    /\ startedAt = 0 /\ afresh = FALSE

-----------------------------------------------------------------------------
(* The server.                                                             *)

\* The transaction of a snapshot commits.
Store ==
    /\ version < MaxSnapshots
    /\ version' = version + 1
    /\ notices' = notices + 1
    /\ UNCHANGED <<now, publisherVars, browserVars, historyVars>>

Tick ==
    /\ now < MaxTime \/ pendingTimer > now
    /\ now' = now + 1
    /\ UNCHANGED <<version, notices, publisherVars, browserVars, historyVars>>

\* Mutant of DueAt: the minimum interval is forgotten.
DueAt_AtOnce == now + 1

\* When the timer that notify sets will fire.
DueAt == IF lastPublishedAt + MinInterval > now THEN lastPublishedAt + MinInterval
                                                ELSE now + 1

\* notify: a timer that is already set serves this call too.
TimerAfterNotify == IF pendingTimer # NoTimer THEN pendingTimer ELSE DueAt

\* The listener of a committed snapshot is called, a microtask later.
Notify ==
    /\ notices > 0
    /\ notices' = notices - 1
    /\ pendingTimer' = TimerAfterNotify
    /\ UNCHANGED <<version, now, lastPublishedAt, publishing, requestedWhilePublishing,
                   browserVars, historyVars>>

\* Mutant of RequestedAfter: publish returns when one is under way, and that is all.
RequestedAfter_Dropped == requestedWhilePublishing

\* publish, called while another one is under way.
RequestedAfter == TRUE

\* The timer fires and calls publish.
StartPublishing ==
    /\ pendingTimer # NoTimer /\ now >= pendingTimer
    /\ publishing = None
    /\ pendingTimer' = NoTimer
    /\ publishing' = Asked(now, TRUE)
    /\ lastPublishedAt' = now
    /\ startedAt' = now /\ afresh' = FALSE
    /\ UNCHANGED <<version, notices, now, requestedWhilePublishing, browserVars,
                   sent, reached, failures>>

RequestAnother ==
    /\ pendingTimer # NoTimer /\ now >= pendingTimer
    /\ publishing # None
    /\ pendingTimer' = NoTimer
    /\ requestedWhilePublishing' = RequestedAfter
    /\ UNCHANGED <<version, notices, now, lastPublishedAt, publishing,
                   browserVars, historyVars>>

\* One query of the publisher's getOverview reads the database.
ReadForPublish(q) ==
    /\ publishing # None
    /\ publishing.read[q] = NotRead
    /\ publishing' = [publishing EXCEPT !.read[q] = version]
    /\ UNCHANGED <<version, notices, now, lastPublishedAt, pendingTimer,
                   requestedWhilePublishing, browserVars, historyVars>>

\* The finally block of publish.
EndPublishing ==
    /\ publishing' = None
    /\ requestedWhilePublishing' = FALSE
    /\ pendingTimer' = IF requestedWhilePublishing THEN TimerAfterNotify ELSE pendingTimer
    /\ UNCHANGED lastPublishedAt

\* The overview is complete and is broadcast to the authenticated clients.
Broadcast ==
    /\ publishing # None
    /\ IsComplete(publishing)
    /\ wire' = IF link = "live" THEN Append(wire, publishing) ELSE wire
    /\ sent' = TRUE
    /\ reached' = (link = "live")
    /\ EndPublishing
    /\ UNCHANGED <<version, notices, now, polls, link, view, status, failures, spacingVars>>

\* A query of getOverview fails: the publisher only logs it.
PublishFails ==
    /\ publishing # None
    /\ failures < MaxFailures
    /\ failures' = failures + 1
    /\ sent' = FALSE
    /\ EndPublishing
    /\ UNCHANGED <<version, notices, now, browserVars, reached, spacingVars>>

\* The Node process restarts: the publisher starts anew, and connections and
\* requests are cut off.
Restart ==
    /\ failures < MaxFailures
    /\ failures' = failures + 1
    /\ notices' = 0
    /\ lastPublishedAt' = 0
    /\ pendingTimer' = NoTimer
    /\ publishing' = None
    /\ requestedWhilePublishing' = FALSE
    /\ link' = IF link \in {"open", "live"} THEN "down" ELSE link
    /\ wire' = << >>
    /\ status' = IF \E k \in Polls : polls[k] # None THEN "error" ELSE status
    /\ polls' = [k \in Polls |-> None]
    /\ sent' = FALSE
    /\ afresh' = TRUE
    /\ UNCHANGED <<version, now, view, reached, startedAt>>

-----------------------------------------------------------------------------
(* The browser.                                                            *)

\* Mutant of Applied: the overview that arrives last is shown.
Applied_AsTheyArrive(o) == o

\* applyOverview: an overview older than the one shown is ignored.
Applied(o) == IF view.at > o.at THEN view ELSE o

\* Mutant of MayPoll: a live WebSocket is trusted to bring everything.
MayPoll_WhenNotLive(k) == polls[k] = None /\ link # "live"

\* load runs every FALLBACK_REFRESH_MS, whether the WebSocket is up or not,
\* and whether an earlier request has been answered or not.
MayPoll(k) == polls[k] = None

\* A request of the fallback timer reaches the server.
Poll(k) ==
    /\ MayPoll(k)
    /\ polls' = [polls EXCEPT ![k] = Asked(now, FALSE)]
    /\ UNCHANGED <<version, notices, now, publisherVars, link, wire, view, status, historyVars>>

ReadForPoll(k, q) ==
    /\ polls[k] # None
    /\ polls[k].read[q] = NotRead
    /\ polls' = [polls EXCEPT ![k].read[q] = version]
    /\ UNCHANGED <<version, notices, now, publisherVars, link, wire, view, status, historyVars>>

\* The response arrives; responses and pushes arrive in any order.
PollAnswered(k) ==
    /\ polls[k] # None
    /\ IsComplete(polls[k])
    /\ view' = Applied(polls[k])
    /\ status' = "ready"
    /\ polls' = [polls EXCEPT ![k] = None]
    /\ UNCHANGED <<version, notices, now, publisherVars, link, wire, historyVars>>

\* The view is kept when a request fails.
PollFails(k) ==
    /\ polls[k] # None
    /\ failures < MaxFailures
    /\ failures' = failures + 1
    /\ status' = "error"
    /\ polls' = [polls EXCEPT ![k] = None]
    /\ UNCHANGED <<version, notices, now, publisherVars, link, wire, view,
                   sent, reached, spacingVars>>

\* A push arrives on the WebSocket.
Receive ==
    /\ wire # << >>
    /\ view' = Applied(Head(wire))
    /\ status' = "ready"
    /\ wire' = Tail(wire)
    /\ UNCHANGED <<version, notices, now, publisherVars, polls, link, historyVars>>

\* onopen: the handshake is done and the browser asks for an overview.  The
\* server has not checked the ticket yet, so it still leaves this client out
\* of its broadcasts.
Open(k) ==
    /\ link = "down"
    /\ polls[k] = None
    /\ link' = "open"
    /\ polls' = [polls EXCEPT ![k] = Asked(now, FALSE)]
    /\ UNCHANGED <<version, notices, now, publisherVars, wire, view, status, historyVars>>

\* verifyAndConsumeWebSocketTicket succeeds, or the client is closed with
\* 1008 and does not reconnect.
Authenticate(ok) ==
    /\ link = "open"
    /\ link' = IF ok THEN "live" ELSE "refused"
    /\ UNCHANGED <<version, notices, now, publisherVars, polls, wire, view, status, historyVars>>

\* The connection is lost with what was on it; scheduleReconnect follows.
Disconnect ==
    /\ link \in {"open", "live"}
    /\ failures < MaxFailures
    /\ failures' = failures + 1
    /\ link' = "down"
    /\ wire' = << >>
    /\ reached' = (reached /\ wire = << >>)
    /\ UNCHANGED <<version, notices, now, publisherVars, polls, view, status, sent, spacingVars>>

-----------------------------------------------------------------------------
Next ==
    \/ Store \/ Tick \/ Notify
    \/ StartPublishing \/ RequestAnother \/ Broadcast \/ PublishFails \/ Restart
    \/ \E q \in Queries : ReadForPublish(q)
    \/ \E k \in Polls : \/ Poll(k) \/ PollAnswered(k) \/ PollFails(k) \/ Open(k)
                        \/ \E q \in Queries : ReadForPoll(k, q)
    \/ Receive \/ Disconnect
    \/ \E ok \in BOOLEAN : Authenticate(ok)

Spec == Init /\ [][Next]_vars

(***************************************************************************)
(* Fairness: time passes, timers and microtasks get their turn, the        *)
(* queries of an overview return (a failure is a step of its own, and      *)
(* bounded), and the fallback timer of the browser keeps asking.  Nothing  *)
(* obliges the WebSocket to come up.                                       *)
(***************************************************************************)
Fairness ==
    /\ WF_vars(Tick) /\ WF_vars(Notify)
    /\ WF_vars(StartPublishing) /\ WF_vars(RequestAnother) /\ WF_vars(Broadcast)
    /\ \A q \in Queries : WF_vars(ReadForPublish(q))
    /\ \A k \in Polls : /\ WF_vars(Poll(k))
                        /\ WF_vars(PollAnswered(k))
                        /\ \A q \in Queries : WF_vars(ReadForPoll(k, q))
    /\ WF_vars(Receive)

FairSpec == Spec /\ Fairness

-----------------------------------------------------------------------------
\* The publisher has nothing left to do.
Idle == notices = 0 /\ pendingTimer = NoTimer /\ publishing = None

Current(o) == \A q \in Queries : o.read[q] = version

\* No request to publish is dropped: whenever the publisher is idle, the last
\* thing this browser was sent, if nothing was lost, showed every snapshot
\* committed, and the browser shows it now, whatever its own requests brought
\* in between (comments at dashboardOverviewPublisher.js 3 and
\* useDashboardOverview.js 12).  The one exception is an answer generated in
\* the same millisecond as that push, which may arrive after it and replace it.
ViewIsCurrent ==
    Idle /\ sent /\ reached /\ wire = << >> =>
        Current(view) \/ (~view.pushed /\ view.at = lastPublishedAt)

\* The publisher leaves the minimum interval between the times at which it begins to ask the
\* database, however commits, failures and requests made while publishing fall (comment at
\* dashboardOverviewPublisher.js 2).  Only a restart of the server in between may shorten it:
\* the publisher has then forgotten when it last asked.
QueriesAreSpaced ==
    [][publishing = None /\ publishing' # None => afresh \/ now - startedAt >= MinInterval]_vars

\* Once the snapshots stop, the browser shows the last one for good, even if
\* a push failed or the WebSocket was down (comment at
\* useDashboardOverview.js 4-5).
ViewCatchesUp == <>[]Current(view)
=============================================================================
