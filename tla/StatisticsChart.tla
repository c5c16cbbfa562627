--------------------------- MODULE StatisticsChart ---------------------------
(***************************************************************************)
(* The chart of the statistics page.  Period, zone and range are chosen;   *)
(* each choice empties the page and asks for the summary and the series of *)
(* it, and samples stand in until they come.  A window of the series is    *)
(* shown, at first the latest past part of it, which is moved by dragging. *)
(* What a series counts is in Statistics: here it has a length, the index  *)
(* of its last bucket that has begun, and the unit of its buckets.         *)
(***************************************************************************)
EXTENDS Integers, FiniteSets

CONSTANTS Zones,
          Dates,         \* what the inputs of the range may hold, 0 if they are empty
          SeriesOf,      \* what the server may answer: for each period, a set of series
          Shifts,        \* how far the pointer is dragged, in buckets
          MaxChoices     \* bound on the choices

Periods == {"daily", "weekly", "monthly", "custom"}

ASSUME ChartAssumption ==
    /\ Dates \subseteq Nat /\ Shifts \subseteq Int \ {0} /\ MaxChoices \in Nat
    /\ \A period \in Periods : \A series \in SeriesOf[period] :
          series.length \in Nat /\ series.lastPast \in Int

VARIABLES choice,         \* [period, zone, start, end]
          zonesLoaded,
          statisticsLoads,    \* the choices whose answers would be shown
          chart,          \* seriesResponse, with the choice it answers, if any
          summarised,     \* summary, as the choice it is of, if any
          chartFailed,         \* errorMessage
          windowStart, drag,    \* chartWindowStart, chartDragState as startWindowStart or -1
          dragged, choices      \* moved since it was put to its default; choices so far

chartVars == <<choice, zonesLoaded, statisticsLoads, chart, summarised, chartFailed, windowStart,
               drag, dragged, choices>>

AllZones == "all"
\* EMPTY_SERIES_RESPONSE
NoSeries == [of |-> {}, length |-> 0, lastPast |-> -1, unit |-> "hour"]

\* statisticsSeries: without buckets a sample, none of which has a date.
SampleLength == [daily |-> 24, weekly |-> 7, monthly |-> 12, custom |-> 0]
SeriesShown(c, period) ==
    IF c.length > 0 THEN c ELSE [c EXCEPT !.length = SampleLength[period]]

\* getCustomWindowSize
CustomWindowSize(unit) == CASE unit = "hour" -> 24 [] unit = "day" -> 14 [] OTHER -> 12

\* getChartWindowSize
WindowSize(period, unit) ==
    CASE period = "daily" -> 10
      [] period = "custom" -> CustomWindowSize(unit)
      [] OTHER -> 12

AtMost(n, m) == IF n > m THEN m ELSE n
AtLeast(n, m) == IF n < m THEN m ELSE n

\* maxChartWindowStart, defaultChartWindowStart, for a series in a period
MaxStart(c, period) == AtLeast(SeriesShown(c, period).length - WindowSize(period, c.unit), 0)
DefaultStart(c, period) ==
    IF SeriesShown(c, period).lastPast < 0 THEN MaxStart(c, period)
    ELSE AtMost(AtLeast(c.lastPast - WindowSize(period, c.unit) + 1, 0), MaxStart(c, period))

\* canPanSeries, and what is shown, by its first bucket
CanPan == MaxStart(chart, choice.period) > 0
FirstShown == IF CanPan THEN AtMost(AtLeast(windowStart, 0), MaxStart(chart, choice.period)) ELSE 0

ChartInit ==
    /\ choice = [period |-> "daily", zone |-> AllZones, start |-> 1, end |-> 2]
    /\ zonesLoaded = FALSE
    /\ statisticsLoads = {choice}
    /\ chart = NoSeries /\ summarised = {} /\ chartFailed = FALSE
    /\ windowStart = DefaultStart(NoSeries, "daily") /\ drag = -1
    /\ dragged = FALSE /\ choices = 0

\* The effect of the window: it goes to its default when that, the range or the unit of the
\* series is another one in one of the renders that follow.
WindowAfter(defaults, same, last) ==
    IF same /\ Cardinality(defaults) = 1 THEN UNCHANGED <<windowStart, drag, dragged>>
    ELSE windowStart' = last /\ drag' = -1 /\ dragged' = FALSE

\* The cleanup of the effect: no other answer is taken.
Awaited(c) == {c}

\* A choice renders the page with the series of the one before, and then without any.
Choose(c) ==
    /\ choices < MaxChoices /\ choices' = choices + 1
    /\ c # choice /\ choice' = c
    /\ statisticsLoads' = Awaited(c)
    /\ chart' = NoSeries /\ summarised' = {}
    /\ LET last == DefaultStart(NoSeries, c.period)
       IN WindowAfter({DefaultStart(chart, choice.period), DefaultStart(chart, c.period), last},
              <<c.start, c.end>> = <<choice.start, choice.end>> /\ chart.unit = "hour", last)
    /\ UNCHANGED <<zonesLoaded, chartFailed>>

ChoosePeriod ==
    \E period \in Periods : Choose([choice EXCEPT !.period = period])

ChooseZone ==
    \E zone \in {AllZones} \cup (IF zonesLoaded THEN Zones ELSE {}) :
        Choose([choice EXCEPT !.zone = zone])

\* normalizeCustomRange, or what the other input does: a range that would go backwards is
\* one moment.
ChangeRange ==
    /\ choice.period = "custom"
    /\ \E date \in Dates :
          \/ Choose([choice EXCEPT !.start = date,
                         !.end = IF date > @ /\ @ # 0 THEN date ELSE @])
          \/ Choose([choice EXCEPT !.start = IF date # 0 /\ date < @ THEN date ELSE @,
                         !.end = date])

ZonesAnswered ==
    /\ ~zonesLoaded /\ zonesLoaded' = TRUE
    /\ UNCHANGED <<choice, statisticsLoads, chart, summarised, chartFailed, windowStart, drag,
                   dragged, choices>>

\* Both requests of a choice were answered.
StatisticsAnswered ==
    /\ \E c \in statisticsLoads, s \in SeriesOf[choice.period] :
          /\ statisticsLoads' = statisticsLoads \ {c}
          /\ chart' = [of |-> {c}, length |-> s.length, lastPast |-> s.lastPast, unit |-> s.unit]
          /\ summarised' = {c}
    /\ chartFailed' = FALSE
    /\ WindowAfter({DefaultStart(chart, choice.period), DefaultStart(chart', choice.period)},
           chart'.unit = chart.unit, DefaultStart(chart', choice.period))
    /\ UNCHANGED <<choice, zonesLoaded, choices>>

\* One of them failed; the samples stay.
StatisticsFail ==
    /\ \E c \in statisticsLoads : statisticsLoads' = statisticsLoads \ {c}
    /\ chartFailed' = TRUE
    /\ UNCHANGED <<choice, zonesLoaded, chart, summarised, windowStart, drag, dragged, choices>>

\* The state of the dashboard is loaded every so often, for the sample of the daily chart;
\* its outcome replaces any message.
StatePolled ==
    /\ chartFailed' \in BOOLEAN
    /\ UNCHANGED <<choice, zonesLoaded, statisticsLoads, chart, summarised, windowStart, drag,
                   dragged, choices>>

\* handleCustomChartPointerDown
PointerDown ==
    /\ CanPan /\ drag' = windowStart
    /\ UNCHANGED <<choice, zonesLoaded, statisticsLoads, chart, summarised, chartFailed, windowStart,
                   dragged, choices>>

\* handleCustomChartPointerMove: by less than a bucket, it does nothing.
PointerMove ==
    /\ drag # -1
    /\ \E shift \in Shifts :
          windowStart' = AtMost(AtLeast(drag - shift, 0), MaxStart(chart, choice.period))
    /\ dragged' = TRUE
    /\ UNCHANGED <<choice, zonesLoaded, statisticsLoads, chart, summarised, chartFailed, drag,
                   choices>>

\* clearCustomChartDrag
PointerUp ==
    /\ drag # -1 /\ drag' = -1
    /\ UNCHANGED <<choice, zonesLoaded, statisticsLoads, chart, summarised, chartFailed, windowStart,
                   dragged, choices>>

ChartNext ==
    \/ ChoosePeriod \/ ChooseZone \/ ChangeRange \/ ZonesAnswered
    \/ StatisticsAnswered \/ StatisticsFail \/ StatePolled
    \/ PointerDown \/ PointerMove \/ PointerUp

ChartSpec == ChartInit /\ [][ChartNext]_chartVars

\* Periods, zones and ranges are chosen while earlier choices are still answered. The series
\* and the summary are those of the present choice, whose range does not go backwards. Until
\* it is dragged, the window ends with the last bucket that has begun, also when another
\* series takes the place of the one before; and it never reaches past the series.
ChartIsOfTheRangeChosen ==
    /\ chart.of \cup summarised \subseteq {choice}
    /\ 0 \in {choice.start, choice.end} \/ choice.start <= choice.end
    /\ CanPan /\ ~dragged => FirstShown = DefaultStart(chart, choice.period)
    /\ FirstShown + WindowSize(choice.period, chart.unit) <= SeriesShown(chart, choice.period).length
       \/ ~CanPan
=============================================================================
