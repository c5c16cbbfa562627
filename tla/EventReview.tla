----------------------------- MODULE EventReview -----------------------------
(***************************************************************************)
(* Operators review one traffic event on their event log pages: each sees  *)
(* a status, drafts another one or a memo and saves.  The service reads    *)
(* the event, writes it when the status changes and adds an entry to the   *)
(* event log, in a transaction that locks nothing before it writes.        *)
(***************************************************************************)
EXTENDS Naturals, Sequences

CONSTANTS Operators, Statuses, InitialStatus, MaxLogs    \* the last is a bound

ASSUME ReviewAssumption == InitialStatus \in Statuses /\ MaxLogs \in Nat \ {0}

VARIABLES status,       \* traffic_events.status
          eventLogs,    \* event_logs of the event: [previous, next, action]
          pages,        \* what each operator sees and drafts
          saves,        \* the transaction of each operator
          unseen        \* some entry was logged over a change its author had not read

reviewVars == <<status, eventLogs, pages, saves, unseen>>

NoSave == [step |-> "off", read |-> InitialStatus, next |-> InitialStatus, memo |-> FALSE,
           stale |-> FALSE]
\* The effect on selected.status: what is drafted starts again from what is shown.
Showing(s) == [shown |-> s, draft |-> s, memo |-> FALSE]

ReviewInit ==
    /\ status = InitialStatus
    /\ eventLogs = <<>>
    /\ pages = [o \in Operators |-> Showing(InitialStatus)]
    /\ saves = [o \in Operators |-> NoSave]
    /\ unseen = FALSE

\* A list is loaded, perhaps while a save is under way.
ReloadPage(o) ==
    /\ pages[o].shown # status
    /\ pages' = [pages EXCEPT ![o] = Showing(status)]
    /\ UNCHANGED <<status, eventLogs, saves, unseen>>

DraftStatus(o) ==
    /\ \E s \in Statuses \ {pages[o].draft} : pages' = [pages EXCEPT ![o].draft = s]
    /\ UNCHANGED <<status, eventLogs, saves, unseen>>

DraftMemo(o) ==
    /\ pages' = [pages EXCEPT ![o].memo = ~@]
    /\ UNCHANGED <<status, eventLogs, saves, unseen>>

\* saveEventStatus: there must be something to save, one save at a time.
SaveEventStatus(o) ==
    /\ saves[o] = NoSave
    /\ pages[o].draft # pages[o].shown \/ pages[o].memo
    /\ saves' = [saves EXCEPT ![o] =
          [NoSave EXCEPT !.step = "sent", !.next = pages[o].draft, !.memo = pages[o].memo]]
    /\ UNCHANGED <<status, eventLogs, pages, unseen>>

\* Mutant: the status before is the one the page showed.
ReadPage(o) ==
    /\ saves[o].step = "sent"
    /\ saves' = [saves EXCEPT ![o].read = pages[o].shown, ![o].step =
          IF pages[o].shown # saves[o].next \/ saves[o].memo THEN "write" ELSE "done"]
    /\ UNCHANGED <<status, eventLogs, pages, unseen>>

\* updateEventStatus reads the event; with nothing to change or to note it is over.
ReadEvent(o) ==
    /\ saves[o].step = "sent"
    /\ saves' = [saves EXCEPT ![o].read = status, ![o].step =
          IF status # saves[o].next \/ saves[o].memo THEN "write" ELSE "done"]
    /\ UNCHANGED <<status, eventLogs, pages, unseen>>

\* The writes, committed together. What others have read may be old from now on.
CommitStatus(o) ==
    /\ saves[o].step = "write"
    /\ Len(eventLogs) < MaxLogs
    /\ LET changed == saves[o].read # saves[o].next IN
          /\ status' = IF changed THEN saves[o].next ELSE status
          /\ eventLogs' = Append(eventLogs,
                [previous |-> saves[o].read, next |-> saves[o].next,
                 action |-> IF changed THEN "EVENT_STATUS_CHANGED" ELSE "EVENT_MEMO_ADDED"])
    /\ unseen' = (unseen \/ saves[o].stale)
    /\ saves' = [p \in Operators |->
          IF p = o THEN [saves[p] EXCEPT !.step = "done"]
          ELSE [saves[p] EXCEPT !.stale = @ \/ (saves[p].step = "write" /\ status' # status)]]
    /\ UNCHANGED pages

\* The answer replaces the item on the page by the event as the save left it.
StatusSaved(o) ==
    /\ saves[o].step = "done"
    /\ pages' = [pages EXCEPT ![o] =
          IF @.shown # saves[o].next THEN Showing(saves[o].next) ELSE [@ EXCEPT !.memo = FALSE]]
    /\ saves' = [saves EXCEPT ![o] = NoSave]
    /\ UNCHANGED <<status, eventLogs, unseen>>

\* The request fails before it commits, or its answer is lost after.
SaveFails(o) ==
    /\ saves[o] # NoSave
    /\ saves' = [saves EXCEPT ![o] = NoSave]
    /\ UNCHANGED <<status, eventLogs, pages, unseen>>

ReviewNext ==
    \E o \in Operators :
        \/ ReloadPage(o) \/ DraftStatus(o) \/ DraftMemo(o)
        \/ SaveEventStatus(o) \/ ReadEvent(o) \/ CommitStatus(o) \/ StatusSaved(o) \/ SaveFails(o)

ReviewSpec == ReviewInit /\ [][ReviewNext]_reviewVars

\* The status an entry left behind.
Ended(i) == IF i = 0 THEN InitialStatus ELSE eventLogs[i].next

\* The audit log explains the status, although operators save at the same time from pages
\* that are out of date: the status is what the last change in the log says, and every
\* entry starts where the one before it ended, unless its transaction had read the event
\* before another one changed it.
AuditExplainsStatus ==
    /\ LET changes == {i \in 1..Len(eventLogs) : eventLogs[i].action = "EVENT_STATUS_CHANGED"}
       IN  status = IF changes = {} THEN InitialStatus
                    ELSE Ended(CHOOSE i \in changes : \A j \in changes : j <= i)
    /\ ~unseen => \A i \in 1..Len(eventLogs) : eventLogs[i].previous = Ended(i - 1)
=============================================================================
