----------------------------- MODULE EventPages -----------------------------
(***************************************************************************)
(* The pages that show events, side by side: the lists (Listings), the     *)
(* details of an event (EventPage), the statistics (StatisticsChart) and   *)
(* the alarms of the dashboard (AlarmCards).  Each page is a route of its  *)
(* own with state of its own, so the pages behave as each one alone does,  *)
(* in whatever order they take their steps.                                *)
(***************************************************************************)
EXTENDS Listings, EventPage, AlarmCards, StatisticsChart

PagesSpec == ListSpec /\ EventPageSpec /\ ChartSpec /\ CardSpec

\* Filters, pages, zones and selections change while requests for the former ones are still
\* on their way, and alarms come while lists are loaded: whatever answer is last, each page
\* shows what was asked for last, and no alarm of which it has a card is missing in its list.
PagesShowWhatIsAskedFor ==
    /\ ListIsTheOneAskedFor
    /\ DetailIsOfTheEventSelected
    /\ ChartIsOfTheRangeChosen
    /\ AlarmsStayInView
=============================================================================
