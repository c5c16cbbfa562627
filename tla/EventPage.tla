------------------------------ MODULE EventPage ------------------------------
(***************************************************************************)
(* What the event history page shows of one event: the list is loaded      *)
(* again whenever its filters, order or page change, an event of it is     *)
(* selected, and the details of that event are loaded on their own; its    *)
(* raw payload opens in a dialog.  The status form is in EventReview.      *)
(***************************************************************************)
EXTENDS Naturals, Sequences, SequencesExt

CONSTANTS Events, ListLength, MaxReloads    \* the last is a bound

ASSUME EventPageAssumption == {ListLength, MaxReloads} \subseteq Nat \ {0}

VARIABLES reloads,          \* how often the list was asked for
          listing,          \* the load of the list is under way: loading
          items, selectedId,
          detail,           \* eventDetail: an event, or none
          detailLoads,      \* the requests for details that are not aborted
          detailLoading,
          rawOpen           \* rawPayloadOpen

eventPageVars == <<reloads, listing, items, selectedId, detail, detailLoads, detailLoading, rawOpen>>

NoEvent == "none"
Lists == {l \in UNION {[1..n -> Events] : n \in 0..ListLength} : IsInjective(l)}

\* The event whose details are shown: the first one if that selected is not in the list.
SelectedOf(list, id) ==
    IF id \in ToSet(list) THEN id ELSE IF list = <<>> THEN NoEvent ELSE list[1]
Selected == SelectedOf(items, selectedId)

EventPageInit ==
    /\ reloads = 1 /\ listing = TRUE
    /\ items = <<>> /\ selectedId = NoEvent
    /\ detail = NoEvent /\ detailLoads = {} /\ detailLoading = FALSE /\ rawOpen = FALSE

\* The cleanup of the effect aborts the request before.
LoadsOf(id) == {id}

\* The effect of the details runs if another event is selected, and without any it only
\* empties them.
ShowsSelected(list, id) ==
    LET selected == SelectedOf(list, id) IN
    /\ items' = list /\ selectedId' = id
    /\ CASE selected = Selected -> UNCHANGED <<detail, detailLoads, detailLoading, rawOpen>>
         [] selected # Selected /\ selected = NoEvent ->
              detail' = NoEvent /\ detailLoads' = {} /\ UNCHANGED <<detailLoading, rawOpen>>
         [] OTHER ->
              /\ detail' = NoEvent /\ detailLoads' = LoadsOf(selected)
              /\ detailLoading' = TRUE /\ rawOpen' = FALSE

\* Another filter, order or page: the load before is aborted.
AskEvents ==
    /\ reloads < MaxReloads /\ reloads' = reloads + 1
    /\ listing' = TRUE
    /\ UNCHANGED <<items, selectedId, detail, detailLoads, detailLoading, rawOpen>>

\* The selection stays if it can.
EventsLoaded ==
    /\ listing /\ listing' = FALSE
    /\ \E list \in Lists : ShowsSelected(list, SelectedOf(list, selectedId))
    /\ UNCHANGED reloads

EventsFail ==
    /\ listing /\ listing' = FALSE
    /\ UNCHANGED <<reloads, items, selectedId, detail, detailLoads, detailLoading, rawOpen>>

SelectEvent ==
    /\ \E id \in ToSet(items) \ {Selected} : ShowsSelected(items, id)
    /\ UNCHANGED <<reloads, listing>>

\* The details come, or fail; an event may have none.
DetailLoaded ==
    /\ \E id \in detailLoads :
          /\ detailLoads' = detailLoads \ {id}
          /\ detail' \in {id, detail, NoEvent}
    /\ detailLoading' = FALSE
    /\ UNCHANGED <<reloads, listing, items, selectedId, rawOpen>>

\* Escape or a button closes the dialog; what was copied is not kept here.
RawPayload ==
    /\ rawOpen \/ detail # NoEvent
    /\ rawOpen' = ~rawOpen
    /\ UNCHANGED <<reloads, listing, items, selectedId, detail, detailLoads, detailLoading>>

EventPageNext ==
    AskEvents \/ EventsLoaded \/ EventsFail \/ SelectEvent \/ DetailLoaded \/ RawPayload

EventPageSpec == EventPageInit /\ [][EventPageNext]_eventPageVars

\* Lists and details are answered in any order while events are selected. The details, and
\* the raw payload in the dialog, are those of the selected event; and if the page says
\* that it is loading them, it is, unless no event is left to load them for.
DetailIsOfTheEventSelected ==
    /\ detail \in {NoEvent, Selected}
    /\ detailLoading => detailLoads # {} \/ Selected = NoEvent
    /\ Selected # NoEvent /\ rawOpen => detail = Selected
=============================================================================
