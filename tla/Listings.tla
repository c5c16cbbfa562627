------------------------------ MODULE Listings ------------------------------
(***************************************************************************)
(* How a page of the dashboard keeps its list in step with its filters.    *)
(* Four pages do it in four ways: the settings page numbers its requests,  *)
(* the signup requests page numbers and aborts them, the event log aborts  *)
(* in the cleanup of its effect, the statistics page marks the effect as   *)
(* unmounted.  One page is open; kind says which.  A query is a filter and *)
(* a page number.                                                          *)
(***************************************************************************)
EXTENDS Naturals

CONSTANTS Filters, MaxPage, MaxLoads    \* the last two are bounds

ASSUME ListingAssumption == {MaxPage, MaxLoads} \subseteq Nat \ {0}

VARIABLES kind,      \* "users", "signups", "events" or "statistics"
          shown,     \* the query in the controls of the page
          typed,     \* the search text of the event log, before the debounce
          rows,      \* the query the list is an answer to
          failed,    \* the last request for the list failed, and the page said so
          latest,    \* listRequestId, requestSequenceRef, or the number of the effect
          loads,     \* the requests that can still be answered: [id, query, corrected]
          decision,  \* approve, reject or (de)activate: the query shown when it was made
          modal,     \* what covers the controls of the settings page, "none" for nothing
          crossed,   \* the list was last asked for with the query of an old decision
          lastPage   \* of the server

listVars == <<kind, shown, typed, rows, failed, latest, loads, decision, modal, crossed, lastPage>>

Queries == [filter : Filters, page : 1..MaxPage]
NoQuery == [filter |-> "none", page |-> 0]
First(f) == [filter |-> f, page |-> 1]
Aborts == {"signups", "events", "statistics"}

ListInit ==
    /\ kind \in {"users"} \cup Aborts
    /\ shown \in {First(f) : f \in Filters} /\ typed = shown.filter
    /\ rows = NoQuery /\ failed = FALSE
    /\ latest = 1 /\ loads = {[id |-> 1, query |-> shown, corrected |-> FALSE]}
    /\ decision = NoQuery /\ modal = "none" /\ crossed = FALSE
    /\ lastPage \in 1..MaxPage

\* Mutant: the load before is not aborted.
LoadInParallel(query) ==
    /\ latest < MaxLoads
    /\ latest' = latest + 1
    /\ loads' = loads \cup {[id |-> latest + 1, query |-> query, corrected |-> FALSE]}
    /\ failed' = FALSE
    /\ crossed' = (query # shown')

\* A load begins; where the page aborts, the one before will not be answered.
Load(query) ==
    /\ latest < MaxLoads
    /\ latest' = latest + 1
    /\ loads' = (IF kind \in Aborts THEN {} ELSE loads) \cup
                  {[id |-> latest + 1, query |-> query, corrected |-> FALSE]}
    /\ failed' = FALSE
    /\ crossed' = (query # shown')

Asked(query) ==
    /\ shown' = query
    /\ Load(query)
    /\ UNCHANGED <<kind, rows, decision, lastPage>>

(* --- settings page --------------------------------------------------------- *)

Reachable == modal = "none"

ChangeUserStatusFilter ==
    /\ kind = "users" /\ Reachable
    /\ \E f \in Filters : Asked(First(f)) /\ typed' = f
    /\ UNCHANGED modal

ChangeUserPage ==
    /\ kind = "users" /\ Reachable
    /\ \E p \in (1..MaxPage) \ {shown.page} : Asked([shown EXCEPT !.page = p])
    /\ UNCHANGED <<typed, modal>>

\* loadUsers: a late answer is ignored, a page that is gone is corrected once.
UsersAnswered(load) ==
    /\ kind = "users"
    /\ IF load.id # latest THEN loads' = loads \ {load} /\ UNCHANGED <<shown, rows, failed>>
       ELSE IF load.query.page > lastPage /\ ~load.corrected
       THEN /\ loads' = (loads \ {load}) \cup
                  {[load EXCEPT !.query.page = lastPage, !.corrected = TRUE]}
            /\ UNCHANGED <<shown, rows, failed>>
       ELSE /\ loads' = loads \ {load}
            /\ IF load.query.page > lastPage
               THEN failed' = TRUE /\ UNCHANGED <<shown, rows>>
               ELSE /\ rows' = load.query
                    /\ shown' = [shown EXCEPT !.page = load.query.page]
                    /\ UNCHANGED failed
    /\ UNCHANGED <<kind, typed, latest, decision, modal, crossed, lastPage>>

\* openCreateModal
OpenCreateModal ==
    /\ kind = "users" /\ Reachable
    /\ modal' = "create"
    /\ UNCHANGED <<kind, shown, typed, rows, failed, latest, loads, decision, crossed, lastPage>>

\* closeCreateModal and the Escape key, which wait for a creation under way.
CloseCreateModal ==
    /\ modal = "create"
    /\ modal' = "none"
    /\ UNCHANGED <<kind, shown, typed, rows, failed, latest, loads, decision, crossed, lastPage>>

\* Handlers keep the query of the render they were made in.
Decides(inModal) ==
    /\ decision = NoQuery
    /\ decision' = shown /\ modal' = inModal
    /\ UNCHANGED <<kind, shown, typed, rows, failed, latest, loads, crossed, lastPage>>

\* handleCreateUser, with a form that is complete
CreateUser == modal = "create" /\ Decides("creating")

\* handleDeactivateUser and handleActivateUser
DecideOnUser == kind = "users" /\ modal \in {"none", "account"} /\ Decides("account")

\* The Escape key closes the modal of an account, even when it is waiting for a decision.
EscapeModal ==
    /\ modal = "account"
    /\ modal' = "none"
    /\ UNCHANGED <<kind, shown, typed, rows, failed, latest, loads, decision, crossed, lastPage>>

(* --- signup requests page ---------------------------------------------------- *)

ChangeSignupStatus ==
    /\ kind = "signups"
    /\ \E f \in Filters \ {shown.filter} : Asked(First(f)) /\ typed' = f
    /\ UNCHANGED modal

ChangeSignupPage ==
    /\ kind = "signups"
    /\ \E p \in (1..MaxPage) \ {shown.page} : Asked([shown EXCEPT !.page = p])
    /\ UNCHANGED <<typed, modal>>

\* handleApprove, handleReject: the tabs stay usable while the server decides.
DecideOnSignup == kind = "signups" /\ rows # NoQuery /\ Decides("none")

\* Decided or created: the modal closes, and the list is loaded with the query the handler
\* has kept.
ReloadAfterDecision ==
    /\ decision # NoQuery
    /\ decision' = NoQuery
    /\ modal' = IF modal = "create" THEN modal ELSE "none"
    /\ UNCHANGED <<kind, shown, typed, rows, lastPage>>
    /\ Load(decision)

DecisionFails ==
    /\ decision # NoQuery
    /\ decision' = NoQuery
    /\ modal' = IF modal = "creating" THEN "create" ELSE modal
    /\ UNCHANGED <<kind, shown, typed, rows, failed, latest, loads, crossed, lastPage>>

(* --- event log page ---------------------------------------------------------- *)

\* A key in the search field: the effect of 300 ms starts anew.
TypeSearch ==
    /\ kind = "events"
    /\ \E f \in Filters \ {typed} : typed' = f
    /\ UNCHANGED <<kind, shown, rows, failed, latest, loads, decision, modal, crossed, lastPage>>

\* The search text has not changed for 300 ms: the query is that text, from page 1.
Debounced ==
    /\ kind = "events" /\ shown # First(typed)
    /\ Asked(First(typed))
    /\ UNCHANGED <<typed, modal>>

ChangeEventPage ==
    /\ kind = "events"
    /\ \E p \in (1..MaxPage) \ {shown.page} : Asked([shown EXCEPT !.page = p])
    /\ UNCHANGED <<typed, modal>>

(* --- statistics page --------------------------------------------------------- *)

\* The effect empties the charts before it asks for both series.
ChangePeriod ==
    /\ kind = "statistics"
    /\ \E f \in Filters \ {shown.filter} :
          shown' = First(f) /\ Load(First(f)) /\ typed' = f
    /\ rows' = NoQuery
    /\ UNCHANGED <<kind, decision, modal, lastPage>>

(* --- answers ------------------------------------------------------------------ *)

\* The pages that abort show what still comes in.
Answered(load) ==
    /\ kind \in Aborts
    /\ loads' = loads \ {load}
    /\ rows' = load.query
    /\ UNCHANGED <<kind, shown, typed, failed, latest, decision, modal, crossed, lastPage>>

\* A failure counts if the request is the last one.
LoadFails(load) ==
    /\ loads' = loads \ {load}
    /\ failed' = (failed \/ load.id = latest)
    /\ UNCHANGED <<kind, shown, typed, rows, latest, decision, modal, crossed, lastPage>>

\* Rows appear and disappear at the server.
ListGrowsOrShrinks ==
    /\ lastPage' \in (1..MaxPage) \ {lastPage}
    /\ UNCHANGED <<kind, shown, typed, rows, failed, latest, loads, decision, modal, crossed>>

ListNext ==
    \/ ChangeUserStatusFilter \/ ChangeUserPage
    \/ OpenCreateModal \/ CloseCreateModal \/ CreateUser \/ DecideOnUser \/ EscapeModal
    \/ ChangeSignupStatus \/ ChangeSignupPage \/ DecideOnSignup
    \/ ReloadAfterDecision \/ DecisionFails
    \/ TypeSearch \/ Debounced \/ ChangeEventPage \/ ChangePeriod
    \/ \E load \in loads : UsersAnswered(load) \/ Answered(load) \/ LoadFails(load)
    \/ ListGrowsOrShrinks

ListSpec == ListInit /\ [][ListNext]_listVars

\* Filters change while lists are on their way, pages disappear, answers come late and in
\* any order. When a page has come to rest and its last request did not fail, its list
\* is the one its controls ask for; unless the page loaded it for a decision that was taken
\* under other controls.
ListIsTheOneAskedFor ==
    (loads = {} /\ ~failed) => (rows = shown \/ crossed)
=============================================================================
