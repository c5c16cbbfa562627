------------------------------- MODULE MCEvents -------------------------------
(***************************************************************************)
(* What becomes of events, at TLC's size: frames and payloads from outside,*)
(* the review of an event, its history, the statistics, the pages that     *)
(* show them, the detector of the demo, the test stream and the test       *)
(* service of the vision worker.  They share no state, so each behaviour   *)
(* is one of them, the scene, and the others keep an initial state.        *)
(***************************************************************************)
EXTENDS ExternalIngest, EventReview, EventHistory, Statistics, EventPages, DemoDetector,
        TestStream, VisionTest, TLC

VARIABLE scene

vars == <<ingestVars, reviewVars, historyVars, statisticsVars, chartVars, listVars, eventPageVars,
          cardVars, detectorVars, streamVars, visionVars, scene>>

\* Two of the dashboard's commands, a response of the board, another selection with a reserved
\* byte, a mode there is not, and a device whose ID differs in one bit.
MCData ==
    {CommandData(c) : c \in {"STAGE_2_ON", "SYSTEM_RESET"}}
    \cup {<<161, 32, 1, 1, 2, 0>>, <<161, 16, 2, 1, 16, 255>>, <<161, 16, 7, 1, 1, 0>>,
          <<160, 16, 1, 1, 2, 0>>}

\* One or two wrong bits, a byte inverted, a burst across two bytes, a missing end; and no
\* noise at all.
Bits == {1, 4, 16, 128}
Noisy(i, mask, j, other, length) ==
    [byte |-> i, mask |-> mask, other |-> j, otherMask |-> other, length |-> length]
MCNoise ==
    {Noisy(1, 0, 1, 0, n) : n \in 1..10}
    \cup {Noisy(i, m, i, 0, 10) : i \in 1..10, m \in Bits \cup {255}}
    \cup {Noisy(i, m, j, n, 10) : i \in {5}, j \in {4, 6, 8}, m \in {1}, n \in Bits}
    \cup {Noisy(2, 1, j, n, 10) : j \in {4, 8}, n \in Bits}
    \cup {Noisy(i, m[1], i + 1, m[2], 10) : i \in 3..7, m \in {<<1, 224>>, <<15, 240>>, <<127, 128>>}}

\* Months of a few days of two hours.
MCFirstDay == <<0, 4, 7, 12, 16>>
MCTables == {{}, Rows}
MCNows == {28, 43, 51, 52, 94}
MCInputs ==
    {[at |-> DayStart(d), hasTime |-> FALSE] : d \in 1..9} \cup
    {[at |-> t, hasTime |-> TRUE] : t \in {9, 13, 20, 23, 24, 30, 37, 60}}

\* Two events at the same time, two of the same zone, two that a filter tells apart.
Event(id, type, at, zone) == [id |-> id, type |-> type, at |-> at, zone |-> zone]
MCPool == {Event(1, "wrong-way", 1, 1), Event(2, "wrong-way-level-2", 1, 9),
           Event(3, "pedestrian-entered", 2, 9)}
Filter(type, state, zone, from, to) ==
    [eventType |-> type, status |-> state, zone |-> zone, from |-> from, to |-> to]
MCHistoryFilters ==
    {Filter({}, {}, {}, {}, {}), Filter({"wrong-way"}, {}, {}, {}, {}),
     Filter({"pedestrian"}, {}, {9}, {}, {}), Filter({}, {"NEW"}, {}, {1}, {1})}

MCStoredAlarms == <<"a", "b">>

\* Series that fit into the window, that do not, and that lie mostly ahead.
SeriesAnswer(length, lastPast, unit) == [length |-> length, lastPast |-> lastPast, unit |-> unit]
MCSeriesOf ==
    [daily |-> {SeriesAnswer(31, 9, "day"), SeriesAnswer(31, 23, "day")},
     weekly |-> {SeriesAnswer(52, 51, "week")}, monthly |-> {SeriesAnswer(36, 35, "month")},
     custom |-> {SeriesAnswer(0, -1, "hour"), SeriesAnswer(30, 5, "hour"),
                 SeriesAnswer(40, 39, "hour"), SeriesAnswer(20, 19, "day")}]
MCShifts == {-3, 3}

\* What the other scenes begin with.
SomeLine == CHOOSE l \in Lines : TRUE
SomeQuery == CHOOSE q \in [filters : HistoryFilters, sortBy : SortFields,
                           sortOrder : SortOrders] : TRUE

Init ==
    /\ scene \in {"ingest", "review", "history", "statistics", "chart", "listing", "event page",
                  "alarms", "detector", "stream", "vision service", "vision page"}
    /\ scene # "ingest" => line = SomeLine
    /\ IngestInit
    /\ HistoryInit
    /\ scene # "history" =>
          /\ table = [i \in {e.id : e \in Pool} |-> "absent"]
          /\ query = SomeQuery
    /\ StatisticsInit
    /\ scene # "statistics" => hourRows = {}
    /\ ListInit
    /\ scene # "listing" =>
          kind = "users" /\ shown = First(CHOOSE f \in Filters : TRUE) /\ lastPage = 1
    /\ ReviewInit /\ ChartInit /\ EventPageInit /\ CardInit /\ DetectorInit /\ StreamInit
    /\ VisionInit

Ingest ==
    /\ scene = "ingest" /\ IngestNext
    /\ UNCHANGED <<reviewVars, historyVars, statisticsVars, chartVars, listVars, eventPageVars,
                   cardVars, detectorVars, streamVars, visionVars, scene>>

Review ==
    /\ scene = "review" /\ ReviewNext
    /\ UNCHANGED <<ingestVars, historyVars, statisticsVars, chartVars, listVars, eventPageVars,
                   cardVars, detectorVars, streamVars, visionVars, scene>>

History ==
    /\ scene = "history" /\ HistoryNext
    /\ UNCHANGED <<ingestVars, reviewVars, statisticsVars, chartVars, listVars, eventPageVars,
                   cardVars, detectorVars, streamVars, visionVars, scene>>

Counting ==
    /\ scene = "statistics" /\ StatisticsNext
    /\ UNCHANGED <<ingestVars, reviewVars, historyVars, chartVars, listVars, eventPageVars,
                   cardVars, detectorVars, streamVars, visionVars, scene>>

Charting ==
    /\ scene = "chart" /\ ChartNext
    /\ UNCHANGED <<ingestVars, reviewVars, historyVars, statisticsVars, listVars, eventPageVars,
                   cardVars, detectorVars, streamVars, visionVars, scene>>

Listing ==
    /\ scene = "listing" /\ ListNext
    /\ UNCHANGED <<ingestVars, reviewVars, historyVars, statisticsVars, chartVars, eventPageVars,
                   cardVars, detectorVars, streamVars, visionVars, scene>>

PageOfEvents ==
    /\ scene = "event page" /\ EventPageNext
    /\ UNCHANGED <<ingestVars, reviewVars, historyVars, statisticsVars, chartVars, listVars,
                   cardVars, detectorVars, streamVars, visionVars, scene>>

Alarms ==
    /\ scene = "alarms" /\ CardNext
    /\ UNCHANGED <<ingestVars, reviewVars, historyVars, statisticsVars, chartVars, listVars,
                   eventPageVars, detectorVars, streamVars, visionVars, scene>>

Detector ==
    /\ scene = "detector" /\ DetectorNext
    /\ UNCHANGED <<ingestVars, reviewVars, historyVars, statisticsVars, chartVars, listVars,
                   eventPageVars, cardVars, streamVars, visionVars, scene>>

Streaming ==
    /\ scene = "stream" /\ StreamNext
    /\ UNCHANGED <<ingestVars, reviewVars, historyVars, statisticsVars, chartVars, listVars,
                   eventPageVars, cardVars, detectorVars, visionVars, scene>>

\* The page and the analysis meet only in the service, whose clients both scenes have.
Vision ==
    /\ \/ scene = "vision service" /\ (Clients \/ Analysis)
       \/ scene = "vision page" /\ (Clients \/ EditingPage)
    /\ UNCHANGED <<ingestVars, reviewVars, historyVars, statisticsVars, chartVars, listVars,
                   eventPageVars, cardVars, detectorVars, streamVars, scene>>

Next ==
    \/ Ingest \/ Review \/ History \/ Counting \/ Charting \/ Listing \/ PageOfEvents
    \/ Alarms \/ Detector \/ Streaming \/ Vision

Spec == Init /\ [][Next]_vars
=============================================================================
