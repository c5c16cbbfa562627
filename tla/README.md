# Formal model of the LiDAR dashboard

TLA+ modules for the wrong-way detection system of this repository, the TLC
configurations that check them on small instances, and TLAPS proofs of what matters
most for instances of any size. Paths below are relative to the repository; `S/` stands
for `dashboard/server/src/`, `web/` for `dashboard/dashboard-web/src/`.

Run everything from this directory:

    tlc -config MCLidarIngest.cfg MCLidarIngest      # one run
    tlc -config MCEvents.cfg MCEvents                # events, pages, detectors
    tlapm LidarIngestProofs.tla                      # one proof module

`PROJECT.json` lists the runs with the properties of each, for every property a mutant
of the model that the property rejects, the source lines of every definition, the
hazards the properties are aimed at, and the theorems.

## 1. The system

A LiDAR PC per zone sends a snapshot of the objects it sees every second. The Node
server stores tracks, incidents, events and statistics in PostgreSQL, and pushes
alarms and an overview to the dashboards in the browsers. Operators send commands
(gate, signs, siren) to the integrated control board over TCP; the board and other
field devices report through bridges. A camera worker decides on its own when the gate
of its zone must close and may open. Accounts, sessions and signup requests guard all
this; operators review events and read statistics.

| part | state it keeps | operations | talks to |
|---|---|---|---|
| LiDAR ingest queue `S/domains/wrongway/wrongway.service.js` 37, 94-105 | a Map of promises, one per source, in memory | enqueue, settle, clean up | the ingest |
| LiDAR ingest, same file, with `adapters/lidarHttp.adapter.js` | rows of devices, vehicle_tracks, safety_incidents, traffic_events, daily_traffic_stats | receive and process a snapshot, in one transaction with one write before it | the listener and the broadcaster, after the commit |
| event history, review and test stream, same file | traffic_events, event_logs; a timer and a record in memory | list, read, change the status or memo; start, tick, stop | operators, the ingest |
| overview push `S/realtime/dashboardOverviewPublisher.js`, `websocket.js`, `S/domains/dashboard-overview` | a timer, two flags, the last time; the connected clients | notify, publish, broadcast, authenticate | PostgreSQL, browsers |
| dashboard `web/features/dashboard/useDashboardOverview.js`, `web/pages/Dashboard` | the overview shown, a WebSocket, a retry timer, alarm cards, recent events | poll every 5 s, receive, reconnect, close a card | the server |
| control board commands `S/domains/control-board` | the last 50 commands, in memory; a socket per command | send, list, find | the board, by TCP |
| external ingest `S/domains/external-ingest`, mock state `S/domains/mock-lidar` | rings of 50, 30 and 30 entries, counters, gate and sign of a mock | ingest a packet or an event, reset | dashboards |
| gate controller `dashboard/vision-worker/vision_worker/core.py`, `worker.py` | tracks, pending command, fault, incident, clear period | one step per frame | the board, by an interface |
| vision test service `dashboard/vision-worker/vision_worker/test_server.py`, its detector and page | a session, settings behind a lock, files of regions and sources | analyse, select, draw, save | the page |
| sessions `S/domains/auth`, accounts `S/domains/users` | users, session versions, refresh tokens, tickets, reset codes, audit log | log in and out, refresh, tickets, reset; create, change, deactivate | browsers, mail |
| signup `S/domains/signup-requests` | email codes with attempts, requests | send and verify a code, request, approve, reject, expire, anonymize | mail, accounts |
| request limits, mailer `S/middlewares`, `S/utils/mailer.js` | counters per address, mail and account, in memory | count, give back | every public request |
| HTTP client `web/shared/api/http.js`, `AuthProvider` | access token, a shared refresh promise, the user | request, refresh once, retry | sessions |
| pages `web/pages` | lists, details, forms, modals, requests under way | load, filter, select, edit, save | the server |
| statistics `S/domains/statistics` | none | aggregate by hour, day, week, month in Korean time | - |
| demo server | dictionaries of a camera detector, timers | detect, alert, reset | the board, by a serial line |

What makes these hard, and what each must guarantee:

- **Ingest queue.** Promises chained per source, map entries deleted by callbacks that
  run later. Snapshots of a source must be processed one at a time in order of arrival,
  a failure must not block the next, and entries must not pile up.
- **Ingest.** About ten awaits per snapshot, other LiDAR PCs and restarts between them,
  late and repeated snapshots, rollbacks, a commit whose answer is lost. One open
  incident per zone; alarms have an incident; statistics agree with rows; nothing goes
  back in time; an alarm is stored once and shown.
- **Overview.** Pushes and answers to polls overtake each other; snapshots commit while
  an overview is read; pushes fail or are missed. The browser must not go back, and
  must end up with the latest data.
- **Control board.** Several sockets at once, timeouts racing answers, a board that
  closes, an in-memory history, garbled frames. Everyone is answered in time and
  truthfully, and only a sound frame counts.
- **Gate controller.** Safety: never open on a hazard, never forget a hazard, never
  repeat a command blindly; but open again in the end.
- **Sessions, accounts, signup.** Reads before slow hashing, used after; codes guessed
  in parallel; decisions of two administrators on one request or on each other; one
  refresh for many failed requests. A code serves once, an approval makes one account,
  one session is left, an administrator remains.
- **Events and statistics.** Two saves of one event, pages of a list that grows, buckets
  that must meet at the boundaries of hours, days, weeks and months of another time zone.
- **Pages.** Answers that arrive after the filter, the selection, the form or the modal
  they were asked for has changed. A page shows, and a form sends, what its controls say.
- **Detectors.** Threads that share dictionaries or settings with web requests.

## 2. Modules

    SerialQueue  <-- implemented by --  SourceQueue            SourceQueueProofs
         ^------------- implemented by -- LidarIngest          LidarIngestProofs
                                                               LidarRecordsProofs
    DashboardOverview                                          DashboardOverviewProofs
    ControlBoard                                               ControlBoardProofs
    ZoneController                                             ZoneControllerProofs

    EmailCodes <- SignupRequests, PasswordReset     |
    Sessions  AccountAdmin  RequestLimits           |- MCAccounts <- AccountsProofs
    HttpClient  SignupPage  ResetPage  ManageUser   |

    ControlBoardPacket <- ExternalIngest*           |
    EventReview*  EventHistory*  TestStream*        |
    Statistics*                                     |- MCEvents    EventsProofs
    Listings  EventPage  AlarmCards                 |
       StatisticsChart            <- EventPages*    |
    DemoDetector*  VisionTest*                      |
                                     (* extended by EventsProofs)

`A <- B` says that B extends A. An `MC` module instantiates specifications for TLC.
`SerialQueue` is an abstract specification: a queue per source whose head runs alone. It
joins the two halves of the ingest: `SourceQueue` shows that the promise chain
implements it, and `LidarIngest`, which models waiting by "no earlier unsettled request
of my source", is shown to implement it as well, so the details of the chain need not
be repeated there.

`MCAccounts` and `MCEvents` each hold components that share no state in the code. Their
variable `scene` says which component moves in a behaviour; the others keep an initial
state. Components that do interact are in one module, or in modules that extend each
other: signup requests and password resets share the table of codes and its maintenance;
accounts, tokens and tickets are all in `Sessions`.

### SourceQueue

`phase[r]` is the life of a request, `tail` the Map `sourceQueues` (0 for no entry),
`prev[r]` the promise it is chained on, `pending` the cleanup callbacks that have not
run. `Enqueue`, `Start`, `Finish(ok)` and `Cleanup` are the four moments of
`enqueueBySource`: the call, the chained function being run, its promise settling, and
the two-armed `then` that deletes the entry if it is still its own. `Restart` empties
memory. `Previous`, `Released`, `SchedulesCleanup` and `EntryIsOwn` name the four
decisions of the code, and the mutants get each one wrong.

### LidarIngest

One action per await of `processSnapshot`: `Receive`, `Start`, `Admit` (validation),
`TouchDevice` (the heartbeat, outside the transaction), `BeginTransaction` (with the
lookup of the open incident), `ProcessObject` or `SkipStaleObject` for each object in
order, `Commit` (with the end of the incident and the missing tracks), `Publish`.
`DatabaseError` fails any of them before the commit and rolls back;
`LoseAcknowledgement` fails the request after it, and what was committed stays;
`Restart` loses queue and transactions. `tx[r]` holds what an open transaction has
written: invisible before the commit (READ COMMITTED), and forgotten by a rollback.
Requests are numbered in order of arrival; the number also stands for `receivedAt`. A
snapshot carries one of a few times, so it can be late, repeated, or later than the
inactivity timeout.

### DashboardOverview and AlarmCards

The database is a version number: how many snapshots are committed. An overview is a
vector of versions, one per query of the `Promise.all`, each read at its own moment,
and the time it was asked for (`generatedAt`). `pendingTimer` is the time the timer is
set to, `publishing` the overview in progress. The browser has a link (down, open but
not yet authenticated, live, refused for good), messages on the wire, polls in flight,
and the view. `sent` and `reached` are history: whether the last push due was sent,
and to this browser. So are `startedAt` and `afresh`, when a publication last began and
whether the server has restarted since: unlike `lastPublishedAt` they outlive a restart,
so the property on spacing says itself what a restart excuses. `Applied` is the comparison of `applyOverview`.

`AlarmCards` is the other half of the page, in more detail on the connection (ticket,
opening, live; the retry timer with its doubling delay) and with visits of the page that
end while a ticket is awaited: the cards, and the list of recent events that is loaded
anew whenever the first card changes.

### ControlBoard, ControlBoardPacket and ExternalIngest

One socket per command. The handlers of a socket settle one promise and what follows
runs before any other event, so handler and answer are one action: `AckArrives`,
`TimedOut`, `SocketError`, with `Answer` as their common end. `idle` is the idle timer,
restarted when the socket connects; `waited` counts since the request. The board may send
anything on a connection (`Replies`), or end it without a byte (`BoardCloses`). The
server takes the first chunk for the ACK whatever it is and does not look at what the
parser made of it, and the format of an ACK is undecided
(`docs/specs/dashboard-control-board-protocol.md` 10, 26-27). So the model
does not say what the board does with a command, and `AckIsOwnReply` promises only what
the server can know: an acknowledgement is what came on the command's own connection.
`count` and `order` are history: the order in which commands were answered.

`ControlBoardPacket` is the frame as a pure function: CRC-8 bit by bit, building (`Framed`)
and parsing with the checks of the code in their order. The parser looks neither at the type
nor at the selection, so what is sent may be any six bytes: a command of the
dashboard (`CommandData`), a response of the board, which has type 0x20, a selection the
dashboard never sends, or a frame of another device. Exclusive or is defined there by the
bits of its operands, since the provers know nothing of the community module for bits. In
`ExternalIngest` a line between the board and the server garbles frames: one wrong byte,
two wrong bits wherever they are, or a burst of at most eight bits across two bytes, which
is what a CRC of eight bits is for (`NoiseAssumption`), and a missing end. Packets and
events change the counters and the rings of the mock state; every sound frame with the ID
of the board counts, a response log to a command that was counted already too.

### ZoneController

One action per frame, `Frame` with detections or `Blind` without, in the order of the
code: feedback, timeout, tracks, exits, loss, decision. Times are ages, counted up to
the threshold they are compared with, which keeps the state finite without bounding
the length of a run. The gate itself is not modelled: `board.status` may report
anything at any frame, since operators move the gate too. `quietFor` is an independent
record of how long the frames have shown a clear zone; the properties compare it with
what the code's own `clear_since` leads to. `last`, `confirmed`, `overlapped`, `left`
and `intent` are history too.

### Accounts on the server

- `EmailCodes`: the rows of `email_verifications` and the two handlers both services
  share. A handler is a record whose step names what it does after its next await; one
  step is one statement or one commit. A mail is delivered, fails, or times out and may
  still arrive.
- `SignupRequests`: request, approval, rejection, expiry, the hourly maintenance and a
  restart, each with the conditional update that decides a race. `PasswordReset`: the
  code, the reset token (a JWT, which only its life ends) and the new password.
- `Sessions`: login, refresh, logout, change of the password, update and deactivation of
  the account, tickets, the check of an access token. A revocation sees the rows that
  existed when its statement began and then waits for the row of the user: two steps.
  `overlapped` records that a request decided on what another one changed meanwhile.
- `AccountAdmin`: callers who are accounts themselves create, update and deactivate
  accounts and page through their list; the guards are those of the service in their
  order, and the audit log is written with the change.
- `RequestLimits`: the limiters of each public route, in order, as windows per key, with
  the statuses that give a request back.

### Accounts in the browser

- `HttpClient`: requests that fail with 401, the one refresh they share, the opening of
  the page, login and logout, and a server that sees which tokens are valid.
- `SignupPage`, `ResetPage`: forms that are edited while their checks are under way, and
  the refs each answer is compared with. `ManageUser`: the modal of the settings page,
  six requests and their late answers, with its forms as they are drawn over each other
  (what is covered cannot be clicked) and what closing a dialog leaves behind.

### Events, statistics and pages

- `EventReview`: two operators, each with a page that shows a status and a draft; the
  service reads, updates and logs in one transaction that locks nothing.
- `EventHistory`: count and select are two statements, rows arrive between and after
  them, rows with equal keys come in an order the database chooses but for the tie-break
  of the query. `TestStream`: ticks that overlap; `outrun` and `late` record that they did,
within the last run or from an earlier one into it.
- `Statistics`: ranges, buckets and overlaps on a calendar whose hours, days, weeks and
  months are short, in a zone that is ahead of UTC. `FirstDay` lists where the months
  begin, `Tables` what the table of hourly rows may hold, one row for an hour of a day,
  and the loop of `buildBuckets` is a recursive function of its cursor. `StatisticsChart`: the page, with the
  window that is dragged over a series.
- `Listings`: four pages that keep a list in step with their controls in four ways
  (numbered requests, numbered and aborted ones, an aborted effect, an unmounted one).
  `EventPage`: the detail beside a list. `EventPages` puts the pages side by side: any of
  them may move, and none shares state with another.
- `DemoDetector`: the loop of the demo between requests that clear its dictionaries one
  by one. `torn` records the vehicles whose entry went away between the two looks of one
  judgement, `lostReset` that the last command to end an alarm did not reach the board.
- `VisionTest`: the analysing thread, clients that change settings under the lock
  and files without it, and the page with its editor. A frame is a step that takes it
  (`NextFrame`), one per vehicle that is detected (`Detect`, with the detector's counter,
  its states and the list of drives that drops the oldest), and one that ends it
  (`FrameIsDone`). A drive has a number, which stands for its time.

## 3. Runs

| run | instance | shows |
|---|---|---|
| `source_queue` | 2 sources, 4 requests | serialization, no leaked entries, progress, refinement of `SerialQueue` |
| `ingest` | 2 LiDAR PCs with a zone each, 2 tracks, 11 snapshots, 3 requests, 1 restart | seven properties of the stored data |
| `ingest_live` | the same with 5 snapshots | every request is answered; stored alarms are shown |
| `ingest_shared_zone` | 2 LiDAR PCs in one zone | violation, see section 5 |
| `ingest_late_snapshot` | as `ingest` | violation, see section 5 |
| `dashboard_overview` | 2 queries, 2 snapshots, 1 poll in flight, 1 failure or restart, interval of 2 | spacing, no lost update, the view catches up |
| `control_board` | 3 commands, history of 2, timeout of 1 tick | answers, history, waiting times |
| `control_board_closed` | 2 commands, timeout of 2 | violation, see section 5 |
| `zone_controller` | 2 vehicles, frames 1 or 2 s apart, thresholds of 1 to 3 s | opening, hazards, repetition, reopening |
| `zone_controller_reopen` | the same | violation, see section 5 |
| `accounts` | 2 callers on 1 address and account, 2 codes, 2 guesses, 3 ticks; 2 administrators; limits of 1 and 2 in windows of 2; a tab with 2 requests; 2 identifiers and addresses per form; 3 accounts per modal | codes, approvals, sessions, tickets, administration, limits, sign-outs, forms |
| `events` | garbled frames; 2 operators, 2 log entries; 3 events, pages of 1; a calendar of 4-minute hours; 3 choices or loads per page; 2 stored alarms, 2 visits; 1 track of the demo; 2 vehicles, a list of 1 drive | packets, audit log, history, buckets, lists and charts, alarm cards, detectors, stream |

A property of `accounts` or `events` states one question; where several components answer
it, it joins a named property of each (`CodesAreSpentOnce`, `PagesShowWhatIsAskedFor`,
`FormsActOnWhatIsShown`).

Why the bounds are enough:

- Four requests let one arrive between the end of its predecessor and that
  predecessor's cleanup, with another of the same source behind it; the proofs remove
  the bound.
- Three snapshots are an alarm, its change and a late or repeated third; the second
  LiDAR PC is there for interleavings, and the two-zone results are proved for all sizes.
  The time 3 is later than the inactivity timeout of 1 counted from time 1.
- Two queries can read different versions; two snapshots let one commit while the
  overview of the other is put together; one poll can overtake a push, and be overtaken.
  The clock stops at 3 unless a timer is due, which leaves room for two publications.
- Three commands and a history of two push one out while the sockets of others are
  open. With a timeout of one tick the connection is made before the timer is due or
  when it is; the bound on waiting is proved for any timeout.
- Two vehicles: one can hold the gate closed after the other has left. A command
  timeout of three seconds is longer than the confirmation of a hazard, as with the
  defaults (5 s and 1 s); with a shorter one, no hazard can be confirmed while a
  command is under way, and the case behind `zone_controller_reopen` would be missed.
- Races over a row are between two: two callers apply with the same identifier, address
  and number, guess the same code, decide the same request, act on each other. Two codes
  are one that a second mail replaced. Three ticks pass every life of one tick and leave
  one after it. Three session versions let a session end twice.
- A page has at most three loads or choices under way in turn: an answer of the choice
  before last can come after that of the last. Two identifiers (or addresses) are what is
  typed and what it is changed to.
- What is sent is one of six frames: two commands, a response of the board, two
  selections or modes the dashboard never sends, and a frame of another device. They are
  garbled by one or two wrong bits, by an inverted byte, by bursts from one byte into
  the next and by a missing end; the masks are the extremes of a byte, and the proof
  covers all of them.
- Months of three to five days, days of two hours, weeks of three days: every boundary
  coincides with every other or not, at all remainders.
- Three events, pages of one, and an arrival at any moment: a page that is shifted by an
  arrival is followed by another. Two events have the same time, and two the same zone.
- Two alarms are one that overtakes the other in the list; two visits let a ticket of the
  first arrive in the second.
- The demo has one track and a clock of four, a delay before and after a reset; with two
  tracks the run does not end in minutes. They share the loop and the board, and the proof is
  for any number.
- Two vehicles, of which a second frame confirms a wrong-way drive, and a list of one drive
  let the second drive push the first out, and a confirmed vehicle become a candidate again.

`accounts` uses symmetry in the two callers; the values are interchangeable, and no
liveness is checked there. `CHECK_DEADLOCK FALSE` stands where the bounded behaviours
end: all requests have arrived and are settled, all commands are answered, all visits made.

The types of `SourceQueue`, `LidarIngest`, `ControlBoard` and `ZoneController` are proved
(section 6) and therefore are not in the configurations.

## 4. Fairness

- `SourceQueue`, `LidarIngest`: a request whose turn has come takes its next step;
  each is a database call that returns or fails. Nothing makes a LiDAR PC send, the
  database fail or the server restart.
- `DashboardOverview`: time passes, due timers and microtasks run, queries return, and
  the fallback poll keeps asking. Nothing makes the WebSocket come up or an
  authentication succeed.
- `ControlBoard`: time passes and due timers fire. Nothing makes the board connect,
  answer, fail or close.
- All other modules state safety only.

## 5. What the runs found

Four statements of the repository are not what the code does.

1. *An alarm secures an incident* (comment `wrongway.service.js` 649). With two LiDAR
   PCs in one zone, the transaction of one can resolve the incident (line 707: by id,
   without a condition) that the other has already picked up for its alarm. The alarm
   commits and the zone has no open incident. Run `ingest_shared_zone`. With one LiDAR PC
   per zone this is proved not to happen.
2. *A late snapshot does not take the latest state back* (comment 578). The guard of
   line 579 looks at `lastSeenAt` only; a track ended as missing at a later time is made
   active again by a snapshot taken before that. Run `ingest_late_snapshot`.
3. *A board that gives no ACK does not keep us waiting* (comment
   `controlBoardTcp.client.js` 33). If it ends the connection without a byte, no handler
   settles the promise, and the idle timer ends with the socket. Run
   `control_board_closed`.
4. *The gate opens again after exit, safety and delay* (test `test_core.py` 28-33). A
   hazard confirmed after the open command and before its completion loses its incident
   at line 72 of `core.py`; the gate is closed for it and never opened again. Run
   `zone_controller_reopen`; `ReopenedUnlessOverlapped` shows it is the only way.

Seen on the way, without a run of their own: the comment at `wrongway.service.js` 503
speaks of reactivating a resolved incident, which its query excludes; a command that
times out before it is connected is recorded as `sent-timeout`, as line 52 of the client
says, though the comment at `controlBoard.service.js` 134 takes that status for a
transmission; a refusal or noise of the board is recorded as `ack-received`; a socket reset
after the write is recorded as `send-failed`, against the comment at 161; `timeoutMs`
given as the string "0" switches the idle timer off; `generatedAt` is the time of the
question, so of two overviews asked for in the same millisecond the one with older data
can win until the next poll (`ViewIsCurrent` excludes exactly that); after a close with
1008 a dashboard lives on its polls; `command_fault` is never reset, and while it is set
no close is requested either; `VisionWorker.process` never passes `exited`; the 1 s test
stream (line 939) lets ticks overlap.

In the code modelled since:

- Sessions. A login that compares the old password while it is changed leaves a session
  of the old password; a refresh that overlaps a logout mints an access token of the new
  version; an update of an account that read it before a deactivation revokes nothing;
  connections outlive the session they were opened with. `OneSessionUnlessOverlapped` is
  stated for requests that do not overlap, and says so.
- Codes. After a resend the old code can still be verified by a request that has read it,
  against the comment at `signupRequests.service.js` 381; a mail that fails together with
  the deletion of its code leaves the cool-down; a mail that timed out may arrive with a
  code that was deleted.
- Administration. Two super administrators can deactivate each other at the same moment.
  The list of accounts has no tie-break (`users.service.js` 257, unlike the events' list): two
  accounts created in the same millisecond could change places between pages. The model
  numbers accounts as they are created, and `PagesHoldEveryAccount` is about that.
- Request limits. A success that is given back after its window makes room in the next.
- Client. A refresh that fails late, or an opening of the page that does, signs out a
  login made meanwhile.
- Settings page. Escape closes the modal while a (de)activation runs; the detail of an
  account saved and deactivated at once can fill the next modal; creating an account
  reloads the list with the query of its render; an edit form with an old `isActive`
  activates the account again.
- Signup requests page. A decision reloads with the tab and page of its own render, and
  aborts the newer load. Signup form: it can end up verified with an empty, disabled
  address; the current password, edited while it is verified, is marked verified.
- Reset page. An address edited while its code is sent shows an address no code was
  mailed to, with no way back.
- Event history. A load from before a save shows the state before it; the status can be
  changed while it is saved. `WrongwayLogPage` calls `map` on the envelope of its answer,
  so its list stays empty. Count and select of a page, and the two selects of an
  `include`, are snapshots of their own.
- Dashboard. An expired ticket closes with 1008, after which there is no attempt to
  reconnect; alarms during a lost connection become no cards.
- Statistics page. A failed load shows sample data, and the next poll of the state clears
  the error; a drag back to its origin leaves the window one off; a window dragged in a
  custom range that lies mostly ahead survives other choices.
- Test stream. Overlapping ticks repeat a sequence number, and the count falls behind; a late
  tick of a stopped run sets the count of the next, which may then be too high.
- Packets. The examples at `swagger.js` 3525 and `docs/ai/project-notes.md` 33, 41 and 49
  do not carry the CRC that the code computes (and that `replay.js` 41 has). The response
  logs of `project-notes.md` 41 are counted as events of their own beside the commands
  they answer.
- Ingest. A payload without `objects` throws before it is queued.
- Demo detector. A reset while boxes are drawn ends the thread; a cleared time reads as
  long ago, so a danger is announced at once; the timer of one track silences the alarm
  of another; the cleanup is never called.
- Vision test. `vision-worker/README.md` 52 says that a confirmed wrong-way vehicle stays so
  under its ID. In `detector.py` it does while it stands still or drives along, but the
  reverse frame after that starts to count anew (lines 51-56) and shows it as a candidate,
  though its drive stays listed and is not listed again. The model follows the code, and
  `VisionShowsWhatIsSet` says of a vehicle shown driving the wrong way that it is listed,
  not the reverse.
- Vision page. Saving a source sets the page back to frame 0; the camera can change under
  an editor whose regions have not come, which `VisionShowsWhatIsSet` excludes.

## 6. Proofs

Every safety invariant and action property that a passing run checks is a theorem for all
values of the constants. A property is seldom inductive; the table says with
what it is, and why that is needed.

| module | theorem | argument |
|---|---|---|
| `SourceQueueProofs` | `TypeCorrect`, `Serialized`, `EntriesAreReclaimed`, `Implementation` | A queued request is chained on its immediate predecessor (`Chained`), the entry of a source is its last request (`TailIsLast`), and what has started has only settled requests before it (`StartedInOrder`); each needs the others. The refinement maps every step to a step of `SerialQueue` or to a stutter. |
| `LidarIngestProofs` | `TypeCorrect` | With: only admitted requests are processed, and only acceptable objects. |
| | `OneOpenIncident`, `AlarmKeepsIncident` | At most one open incident is not inductive: a transaction inserts one if its lookup found none. `LookupHolds` says that what an open transaction looked up is still so, which needs that no other request of the zone runs: the queue (`InOrder`) and the hypothesis `OnePcPerZone`. |
| `LidarRecordsProofs` | `QueueKeepsItsPromise` | The refinement of `SerialQueue`, step by step: a head that settles, by whatever error, leaves nothing uncommitted (`IdleHasNothing`). |
| | `TimesOnlyAdvance` | The heartbeat is written before the transaction and the rows after it: a transaction writes nothing older than what is committed (`WritesAreNewer`), since only the head of a source moves (`HeartbeatInTurn`). |
| | `AlarmIsStoredOnce` | A transaction decides by what it read and stores at the commit: until then an alarm it repeats stays one (`AlarmIsKept`), and its own events are of tracks it has passed (`OwnEvents`). |
| | `AlarmsBelongToIncidents` | The incident that a transaction found exists and is of its zone, also if another one has resolved it (`FoundIncident`); so `OnePcPerZone` is not needed here. |
| | `StatisticsAgree` | The counts a transaction will add are what its rows and events add to those committed (`PendingCounts`), by bijections between the rows before and after. |
| `ControlBoardProofs` | `TypeCorrect`, `NoLongWait` | Until it connects a socket was idle since its request; afterwards the request is older by one timeout at most (`WaitMatchesIdle`). |
| | `RepliesAreTrue` | What is connected was written, what waits has been given no answer and no bytes (`UnansweredHasNone`), and only an arriving chunk is passed on. |
| | `HistoryIsTrue` | Answers are numbered. The list is in the order of these numbers (`ListedInOrder`), so what a full list drops is older than all that stays (`MissingAreOlder`). |
| `ZoneControllerProofs` | `TypeCorrect`, `OpenedOnlyWhenClear` | The clear period the code counts never exceeds the one the frames showed (`ClearIsQuiet`). |
| | `HazardsEndOnlyInSafety` | By following a hazardous track through one frame (`HazardStays`). |
| | `ClosedGateReopens`, `CommandsAreNotRepeated` | A closed gate has an incident whose clear period misses no frame (`ClosedHasIncident`), for a hazard keeps it open unless an opening overlapped it (`HazardHasIncident`); the command that is out is the last that was given (`CommandIsLast`). |
| `DashboardOverviewProofs` | `PublisherKeepsItsInterval` | A timer that is set leaves the interval after the last publication (`Clock`), only a publication under way can have a request to publish again (`Publishing`), and until a restart the publisher remembers when the last one began (`Remembered`). |
| | `IdlePublisherLeavesCurrentView` | Queries may read before or after a commit. Unless one more push is owed (`OwesPush`: a listener, the timer or the flag), what is being put together has read nothing but the last version, and the last push is the last thing on the wire or has been replaced by something at least as new (`LastPushArrives`). |
| `AccountsProofs` | `EveryCodeServesOnce` | A row counts its guesses in the update that claims one (`CodesInv`), and whatever used a code has deleted its row for good (`SpentInv`). |
| | `ApprovalsMakeOneAccount` | Requests are numbered in turn, and the conditional update lets each leave PENDING once. |
| | `OneSessionIsLeft` | What a handler has read still holds unless another commit crossed it (`UncrossedKnows`); stated also for an inactive account, whose tokens must not come back with it. |
| | `TicketsOpenOne` | A used ticket has one connection or one handler that reads the account, never both. |
| | `AdministratorsRemain` | A commit decided by what still holds is asked for by an administrator who stays, or changes neither role nor state (`JobsAreAdmitted`). For the pages: accounts are numbered by their creation (`CreatedInTurn`), so the place of an account is the number of newer ones, whatever page is asked for. |
| | `LimitsOfRoutes` | In a window, what was let through and what is on its way between limiters are together no more than the counter, and with what was given back late no more than the limit (`WindowHolds`). |
| | `SignOutsHaveCause` | A refresh with the cookie of a session is refused only when the session is over (`RefusedIsOver`), and sessions do not come back. |
| | `FormsSendWhatIsShown` | The refs an answer is compared with are those of the form; one request of each kind counts (`SignupFormInv`, `ResetFormInv`, `ModalInv`). |
| `EventsProofs` | `AuditIsTrue` | What a transaction will log as the status before is the status, unless another one has written since (`ReadIsCurrent`), and the last entry ends where the event is. |
| | `HistoryReachesTheEnd` | What matched at first and is not read yet has at least the pages read before it (`UnreadIsAhead`): its place is a cardinality, which arrivals only raise, and which the tie-break by id makes the same in every order the database may choose (`PlaceOfRow`, `OneOrder`). |
| | `StreamStatusCanBeTrusted` | Unless one of an earlier run was under way at the start, every snapshot under way has read a count of no more than is stored (`OwnAreUnderWay`), so the count never passes that; and unless ticks overlapped, it is the next one (`NextIsUnderWay`). |
| | `DetectorEscalatesAndEnds` | The loop judges in steps between which dictionaries are cleared: a second stage about to be announced is due (`SecondStageIsDue`) unless the entry of that very vehicle was gone at the second look, a stage announced has a time, and no timer sets off an alarm (`TimersEnd`). |
| | `ServiceShowsWhatIsSet` | What the thread looked at is what is set until the lock is taken (`LookIsCurrent`, `SessionIsCurrent`); a vehicle has at most one drive, and the list holds the latest drives (`ListOf`), in the session as in the view (`Shows`); the editor holds regions of its camera (`EditorInv`). With the page and the analysis at once, which the run looks at one by one. |
| | `PagesShowWhatIsAsked` | For each page the request whose answer will be shown is the one of the present controls: `LatestIsShown`, `ListIsAwaited`, `DetailInv`, `ChartInv`; one attempt per visit and a timer whenever there is none (`ConnectionInv`); a list of recent events that was read holds the alarms of all cards (`ReadHoldsTheCards`). |
| | `ChartIsPartition` | While a request is under way the tables stay, so all is about the operators. Every instant of a range somebody may ask for has a bucket (`IsRange`, proved of the four ways to ask), and the loop of `buildBuckets` returns the beginnings of these buckets, no more and no less (`CursorsAre`). The hour of a row has a part of a bucket exactly if the bucket is the row's (`RowOverlaps`), as buckets of every unit consist of whole hours. The sums are cardinalities of sets that the buckets split (`SumOfParts`). |
| | `OnlySoundFrames` | Linearity: the CRCs of what was sent and of what came in differ by what the wrong bytes alone leave behind (`CrcsDiffer`), since a step of the division adds up bit by bit (`DividedLinear`) and loses nothing (`DividedInjective`). One wrong byte leaves something in every byte that follows (`ByteShows`); a wrong bit leaves bytes that are never a single bit within the frame (`TracesHold`, forty values, `BitsShow`); a short burst leaves no byte that its second half could cancel (`BurstsShow`). So an accepted frame is the one that was sent, whatever its six bytes were (`AcceptedIsSent`). For the counters: what was counted is at the head of the history (`CountedAreFirst`), and the hours add up to the day (`HoursAddUp`). |

The lemmas these share: what appending, cutting and joining do to the audit logs, histories
and pages; cardinalities of sets that gain or lose a row; places in an ordered list as
numbers of earlier rows; and that a page boundary (`TotalPages`) leaves no row out and
takes none twice. Where a fact is about every turn of a loop or every part of a sum, the
proof takes the least number it fails for (`LeastNumber`, from the library's theorem on
minimal elements) instead of an induction theorem, which the provers cannot instantiate;
that a recursive function is what it is said to be follows by exhibiting a function that
solves its equation.

Assumptions: those named in the modules, on the constants only (bounds are naturals,
thresholds positive, every LiDAR PC has a zone; accounts and events are finite in
number, events have different integers as identifiers, as primary keys are, and the
statuses of the schema; months follow each other, days are whole hours, and who asks for
a chart, and the dates he enters, lie within the months of the model; the table holds
one row for an hour of a day, as its unique index has it for a zone; the hours of the
counters are finite in number, and the line garbles a frame in one of the ways above,
since no CRC of eight bits detects all others; the request that opens a tab is none of a
page; no card is not an alarm), and `OnePcPerZone` as a hypothesis of two theorems. The
seed data satisfies it; run `ingest_shared_zone` shows that it is needed. No theorem has
another hypothesis. The specifications that the theorems of `EventsProofs` are about are
those of the components; `AccountsProofs` is about the composition in `MCAccounts`, with
the invariant of each component blind to the scene.

A lost acknowledgement of a commit (`LoseAcknowledgement`) does not touch the argument
on incidents: what an open transaction found still holds, since the request that fails
this way has settled like one that is done.

Model-checked only:

- All liveness (`EveryRequestSettles`, `EveryRequestIsAnswered`, `StoredAlarmIsShown`,
  `ViewCatchesUp`, `AnsweredUnlessClosed`), which is out of the prover's reach.
- That a list of accounts can be put in order at all: the theorem on pages is about every
  order that the database may answer with.

## 7. What is not modelled, and the plan

Not modelled, since they keep no state of the domain or only display it: routing, logging,
the text and layout of mails and pages, the API documentation, seeds, scripts, read-only
services (sites, zones, devices, health), `WrongwayLogPage` and `DevicesPage`, the badge
of pending requests in the layout, pictures, geometry and the tracker of the detectors.
The dialog for the source of a camera is left out because what it does to the page's
frame is a matter of display.

Left out of modelled parts: the test payloads, the pedestrian columns and the change of day of the
statistics' counters; the state and log messages of the WebSocket; most fields of forms; a
restart during a control board command, which empties its history; hexadecimal text of
packets.

Next, in order:

1. An abstract specification of a session (who may act, since when not) that `Sessions`
   and `HttpClient` implement, with the refinement proved.
2. One of a list that follows its controls, for the four ways of `Listings`.
3. Liveness of the pages: a load that does not fail ends.
