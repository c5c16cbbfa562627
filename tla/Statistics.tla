----------------------------- MODULE Statistics -----------------------------
(***************************************************************************)
(* The statistics service: hourly rows of passed vehicles and the recorded *)
(* events are counted in a range and spread over the buckets of a chart.   *)
(* An instant is a number of minutes in UTC; hours, days, weeks and months *)
(* are as short as the configuration wants, and the calendar is that of    *)
(* Korea, Offset minutes ahead.                                            *)
(***************************************************************************)
EXTENDS Integers, Sequences, FiniteSetsExt

CONSTANTS Hour, Day, Offset,    \* in minutes
          WeekDays,             \* days of a week; day 0 is its last, a Sunday
          FirstDay,             \* the first day of each month, and of the one after the last
          HourlyUpTo, DailyUpTo,       \* days: 3 and 90 in the code
          WeeksShown, MonthsShown,     \* 52 and 36 in the code
          Tables,               \* what traffic_statistics may hold
          EventIds,             \* the ids of traffic_events
          Inputs,               \* the instants a user enters: [at, hasTime]
          Nows                  \* the instants at which somebody asks

ASSUME CalendarAssumption ==
    /\ {Hour, Day, WeekDays, HourlyUpTo, DailyUpTo, WeeksShown, MonthsShown} \subseteq Nat \ {0}
    /\ Offset \in Nat /\ Day % Hour = 0 /\ Offset % Hour = 0
    /\ FirstDay \in Seq(Int) /\ Len(FirstDay) > 1
    /\ \A m, n \in 1..Len(FirstDay) : m < n => FirstDay[m] < FirstDay[n]

VARIABLES hourRows,      \* traffic_statistics: the hours with vehicles, [statDate, hourSlot]
          events,    \* traffic_events that count: [id, wrongWay, occurredAt, receivedAt, falseAlarm]
          asked,     \* the range of the request under way: [startAt, endAt, bucketUnit]
          answer     \* its series and the totals of its summary

statisticsVars == <<hourRows, events, asked, answer>>

Null == 0 - 1
NoRange == [startAt |-> 0, endAt |-> 0, bucketUnit |-> "none"]
NoAnswer == [series |-> {}, vehicles |-> 0, wrongWays |-> 0, pedestrians |-> 0]

(* --- the calendar ----------------------------------------------------------- *)

DayOf(t) == (t + Offset) \div Day
DayStart(d) == d * Day - Offset
StartOfKstHour(t) == ((t + Offset) \div Hour) * Hour - Offset
StartOfKstDay(t) == DayStart(DayOf(t))

\* Mutant: a Sunday belongs to the week that follows.
StartOfNextWeek(t) == StartOfKstDay(t) + (1 - (DayOf(t) % WeekDays)) * Day

\* Weeks begin on Monday.
StartOfKstWeek(t) ==
    LET day == DayOf(t) % WeekDays
    IN  StartOfKstDay(t) + (IF day = 0 THEN 1 - WeekDays ELSE 1 - day) * Day

Months == 1..(Len(FirstDay) - 1)
LiesIn(t, m) == FirstDay[m] <= DayOf(t) /\ DayOf(t) < FirstDay[m + 1]
MonthOf(t) == CHOOSE m \in Months : LiesIn(t, m)
StartOfKstMonth(t) == DayStart(FirstDay[MonthOf(t)])
AddKstMonths(t, n) == DayStart(FirstDay[MonthOf(t) + n])

(* --- getRangeForPeriod ------------------------------------------------------- *)

CustomBucketUnit(startAt, endAt) ==
    LET daySpan == (endAt - startAt + Day - 1) \div Day
    IN  IF daySpan <= HourlyUpTo THEN "hour" ELSE IF daySpan <= DailyUpTo THEN "day" ELSE "month"

Daily(now) ==
    [startAt |-> StartOfKstMonth(now), endAt |-> AddKstMonths(now, 1), bucketUnit |-> "day"]

Weekly(now) ==
    [startAt |-> StartOfKstWeek(now) - (WeeksShown - 1) * WeekDays * Day,
     endAt |-> StartOfKstWeek(now) + WeekDays * Day, bucketUnit |-> "week"]

Monthly(now) ==
    [startAt |-> AddKstMonths(now, 1 - MonthsShown), endAt |-> AddKstMonths(now, 1),
     bucketUnit |-> "month"]

\* An end with a time includes that minute, an end without one includes that day.
Custom(start, end) ==
    LET endAt == end.at + (IF end.hasTime THEN 1 ELSE Day)
    IN  [startAt |-> start.at, endAt |-> endAt,
         bucketUnit |-> CustomBucketUnit(start.at, endAt)]

\* Whoever asks, and whatever is asked for, lies within the months of the model; a date
\* without a time is the beginning of its day.
ASSUME InstantsAssumption ==
    /\ \A now \in Nows : now \in Int /\ \E m \in Months : m >= MonthsShown /\ LiesIn(now, m)
    /\ \A input \in Inputs :
          /\ input \in [at : Int, hasTime : BOOLEAN]
          /\ \E m \in Months : LiesIn(input.at, m)
          /\ input.hasTime \/ input.at = StartOfKstDay(input.at)

(* --- rows and events in a range ----------------------------------------------- *)

\* A row for each hour of each day.
Rows == [statDate : {DayStart(d) : d \in FirstDay[1]..(FirstDay[Len(FirstDay)] - 1)},
         hourSlot : 0..(Day \div Hour - 1)]

ASSUME TablesAssumption == \A rows \in Tables : rows \subseteq Rows

RowStart(row) == StartOfKstDay(row.statDate) + row.hourSlot * Hour

\* The query takes whole days, shouldIncludeRowInRange the hours that overlap the range.
RowsIn(range) ==
    {row \in hourRows :
        /\ StartOfKstDay(range.startAt) <= row.statDate
        /\ row.statDate < StartOfKstDay(range.endAt - 1) + Day
        /\ RowStart(row) + Hour > range.startAt /\ RowStart(row) < range.endAt}

\* A LiDAR timestamp that was no date leaves the time the server received the event.
EventAt(event) == IF event.occurredAt # Null THEN event.occurredAt ELSE event.receivedAt

CountedEvents(range) ==
    {event \in events :
        /\ ~(event.wrongWay /\ event.falseAlarm)
        /\ range.startAt <= EventAt(event) /\ EventAt(event) < range.endAt}

(* --- buckets -------------------------------------------------------------------- *)

\* The key of a bucket is where it begins.
BucketStart(t, unit) ==
    CASE unit = "hour" -> StartOfKstHour(t)
      [] unit = "day" -> StartOfKstDay(t)
      [] unit = "week" -> StartOfKstWeek(t)
      [] unit = "month" -> StartOfKstMonth(t)

BucketEnd(start, unit) ==
    CASE unit = "hour" -> start + Hour
      [] unit = "day" -> start + Day
      [] unit = "week" -> start + WeekDays * Day
      [] unit = "month" -> AddKstMonths(start, 1)

\* The loop of buildBuckets: from the start of the range, each where the last one ended.
Cursors(range) ==
    LET first == BucketStart(range.startAt, range.bucketUnit)
        from[start \in {t \in Int : first <= t}] ==
            IF start >= range.endAt THEN {}
            ELSE {start} \cup from[BucketEnd(start, range.bucketUnit)]
    IN  from[first]

\* getRowBucketStart: larger buckets than an hour go by the day of the row.
RowBucketStart(row, unit) ==
    IF unit = "hour" THEN RowStart(row) ELSE BucketStart(StartOfKstDay(row.statDate), unit)

\* mergeRowsIntoBuckets; what has no bucket is skipped.
Series(range) ==
    {[startAt |-> start, endAt |-> BucketEnd(start, range.bucketUnit),
      value |-> Cardinality({row \in RowsIn(range) : RowBucketStart(row, range.bucketUnit) = start}),
      counted |-> {event \in CountedEvents(range) :
                      BucketStart(EventAt(event), range.bucketUnit) = start}]
        : start \in Cursors(range)}

(* --- requests -------------------------------------------------------------------- *)

StatisticsInit ==
    /\ hourRows \in Tables
    /\ events = {}
    /\ asked = NoRange /\ answer = NoAnswer

Asks(range) ==
    /\ asked = NoRange
    /\ asked' = range
    /\ LET wrongWays == {event \in CountedEvents(range) : event.wrongWay} IN
       answer' = [series |-> Series(range), vehicles |-> Cardinality(RowsIn(range)),
                  wrongWays |-> Cardinality(wrongWays),
                  pedestrians |-> Cardinality(CountedEvents(range) \ wrongWays)]
    /\ UNCHANGED <<hourRows, events>>

GetTrafficSeries == \E now \in Nows : Asks(Daily(now)) \/ Asks(Weekly(now)) \/ Asks(Monthly(now))

\* An end before the start is refused.
GetCustomSeries ==
    \E start, end \in Inputs : start.at <= end.at /\ Asks(Custom(start, end))

\* An event is recorded, or an operator finds it to be a false alarm, or not to be one.
RecordEvent ==
    /\ asked = NoRange
    /\ \E id \in EventIds \ {event.id : event \in events}, received \in Nows,
          wrongWay \in BOOLEAN, occurredAt \in {Null} \cup Nows :
          events' = events \cup {[id |-> id, wrongWay |-> wrongWay, occurredAt |-> occurredAt,
                                  receivedAt |-> received, falseAlarm |-> FALSE]}
    /\ UNCHANGED <<hourRows, asked, answer>>

ReviewEvent ==
    /\ asked = NoRange
    /\ \E event \in events :
          events' = (events \ {event}) \cup {[event EXCEPT !.falseAlarm = ~@]}
    /\ UNCHANGED <<hourRows, asked, answer>>

\* The answer is sent, nothing of it is kept.
Answer ==
    /\ asked # NoRange
    /\ asked' = NoRange /\ answer' = NoAnswer
    /\ UNCHANGED <<hourRows, events>>

StatisticsNext ==
    GetTrafficSeries \/ GetCustomSeries \/ RecordEvent \/ ReviewEvent \/ Answer

StatisticsSpec == StatisticsInit /\ [][StatisticsNext]_statisticsVars

\* Ranges that begin or end within an hour, a day or a month, at its boundary or in another
\* year: the buckets of the chart are a partition of the range, what lies in a bucket is
\* counted in that bucket and nowhere else, and the chart adds up to the summary.
ChartPartitionsRange ==
    asked # NoRange =>
        LET overlaps(row, from, to) == RowStart(row) + Hour > from /\ RowStart(row) < to
        IN  /\ \A t \in asked.startAt..(asked.endAt - 1) :
                  Cardinality({b \in answer.series : b.startAt <= t /\ t < b.endAt}) = 1
            /\ \A b \in answer.series : b.startAt < asked.endAt /\ b.endAt > asked.startAt
            /\ \A b \in answer.series :
                  /\ \A e \in b.counted : b.startAt <= EventAt(e) /\ EventAt(e) < b.endAt
                  /\ b.value = Cardinality({row \in hourRows : overlaps(row, b.startAt, b.endAt)
                                          /\ overlaps(row, asked.startAt, asked.endAt)})
            /\ answer.vehicles = MapThenSumSet(LAMBDA b : b.value, answer.series)
            /\ answer.wrongWays + answer.pedestrians
                  = MapThenSumSet(LAMBDA b : Cardinality(b.counted), answer.series)
=============================================================================
