------------------------------ MODULE AlarmCards ------------------------------
(***************************************************************************)
(* The alarms of wrong-way drives on the dashboard page: its WebSocket,    *)
(* which is opened with a ticket and again after it was lost, the cards of *)
(* the alarms, and the list of recent events, which is loaded every so     *)
(* often and anew when another alarm comes first.  Each visit of the page  *)
(* begins with no cards; what an earlier visit awaited may still come.     *)
(***************************************************************************)
EXTENDS Integers, Sequences, SequencesExt

CONSTANTS StoredAlarms, OtherAlarms,    \* those of the database, as they are stored; the others
          RecentLimit, VisibleLimit,    \* RECENT_EVENT_LIMIT, MAX_VISIBLE_ALERTS
          LongestDelay,                 \* 30 s
          MaxLoading, MaxFaults, MaxVisits, MaxPushes    \* bounds

NoCard == "none"

ASSUME CardAssumption ==
    /\ IsInjective(StoredAlarms) /\ ToSet(StoredAlarms) \cap OtherAlarms = {}
    /\ StoredAlarms \in Seq(ToSet(StoredAlarms))
    /\ NoCard \notin ToSet(StoredAlarms) \cup OtherAlarms
    /\ {RecentLimit, VisibleLimit, LongestDelay, MaxLoading, MaxVisits} \subseteq Nat \ {0}
    /\ {MaxFaults, MaxPushes} \subseteq Nat

VARIABLES occurred,      \* the events of the database, the latest occurrence first
          announcing,    \* those that are stored and still to be announced
          pushes, faults,    \* how often something was announced, and went wrong
          visit,         \* the visit of the page: [number, there]
          attempts,      \* connections: [visit, step]
          retry,         \* the timer, its delay or 0; the next delay; refused: closed by 1008
          incoming,      \* what was sent on the WebSocket
          cards, chosen, minimised,    \* activeEvents, selectedEventId, panelMinimized
          recentLoads,         \* requests for the list, with their answers
          recent, answered    \* the list; whether it was loaded since the first card is the first

cardVars == <<occurred, announcing, pushes, faults, visit, attempts, retry, incoming, cards,
              chosen, minimised, recentLoads, recent, answered>>

database == <<occurred, announcing, pushes>>
connection == <<attempts, retry, incoming>>
panel == <<chosen, minimised>>
list == <<recentLoads, recent, answered>>

NewLoad == [read |-> FALSE, items |-> <<>>]
NoRetry == [timer |-> 0, next |-> 1, refused |-> FALSE]
Attempt(step) == [visit |-> visit.number, step |-> step]

CardInit ==
    /\ occurred = <<>> /\ announcing = {} /\ pushes = 0 /\ faults = 0
    /\ visit = [number |-> 1, there |-> TRUE]
    /\ attempts = <<[visit |-> 1, step |-> "ticket"]>>
    /\ retry = NoRetry /\ incoming = <<>>
    /\ cards = <<>> /\ chosen = NoCard /\ minimised = FALSE
    /\ recentLoads = <<NewLoad>> /\ recent = <<>> /\ answered = FALSE

(* --- the server -------------------------------------------------------------- *)

\* A snapshot is committed with an event, which may have occurred before others did.
StoreAlarm ==
    LET a == StoredAlarms[Len(occurred) + 1]
    IN /\ Len(occurred) < Len(StoredAlarms)
       /\ \E i \in 1..(Len(occurred) + 1) : occurred' = InsertAt(occurred, i, a)
       /\ announcing' = announcing \cup {a}
       /\ UNCHANGED <<pushes, faults, visit, connection, cards, panel, list>>

Live == {i \in DOMAIN attempts : attempts[i].step = "live"}

\* broadcastDashboardEvent: to the clients whose ticket was accepted.
Announce(a) ==
    /\ \/ a \in announcing /\ announcing' = announcing \ {a} /\ UNCHANGED pushes
       \/ a \in OtherAlarms /\ pushes < MaxPushes /\ pushes' = pushes + 1 /\ UNCHANGED announcing
    /\ incoming' = IF Live = {} THEN incoming ELSE Append(incoming, a)
    /\ UNCHANGED <<occurred, faults, visit, attempts, retry, cards, panel, list>>

(* --- the WebSocket of the page ------------------------------------------------- *)

\* connectWebSocket after a delay that doubles with retryCount up to its limit; one timer
\* serves.
ScheduleReconnect ==
    LET doubled == 2 * retry.next
    IN retry' = IF ~visit.there \/ retry.timer # 0 THEN retry
                ELSE [retry EXCEPT
                         !.timer = retry.next,
                         !.next = IF doubled > LongestDelay THEN LongestDelay ELSE doubled]

Ends(i) == attempts' = RemoveAt(attempts, i)
IsHere(i) == visit.there /\ attempts[i].visit = visit.number

TicketAnswered(i) ==
    /\ attempts[i].step = "ticket" /\ IsHere(i)
    /\ attempts' = [attempts EXCEPT ![i].step = "opening"]
    /\ UNCHANGED <<database, faults, visit, retry, incoming, cards, panel, list>>

\* No ticket, or none that can be used; nobody waits for it any longer.
TicketFails(i) ==
    /\ attempts[i].step = "ticket" /\ Ends(i)
    /\ IF IsHere(i) THEN faults < MaxFaults /\ faults' = faults + 1 /\ ScheduleReconnect
                    ELSE UNCHANGED <<faults, retry>>
    /\ UNCHANGED <<database, visit, incoming, cards, panel, list>>

\* onopen; the server has yet to look at the ticket.
Opens(i) ==
    /\ attempts[i].step = "opening"
    /\ attempts' = [attempts EXCEPT ![i].step = "open"]
    /\ retry' = [retry EXCEPT !.next = 1]
    /\ UNCHANGED <<database, faults, visit, incoming, cards, panel, list>>

TicketAccepted(i) ==
    /\ attempts[i].step = "open"
    /\ attempts' = [attempts EXCEPT ![i].step = "live"]
    /\ UNCHANGED <<database, faults, visit, retry, incoming, cards, panel, list>>

\* Closed with 1008: there is no other attempt.
TicketRefused(i) ==
    /\ attempts[i].step = "open" /\ Ends(i)
    /\ retry' = [retry EXCEPT !.refused = TRUE]
    /\ UNCHANGED <<database, faults, visit, incoming, cards, panel, list>>

\* onclose: what was under way is lost.
Closes(i) ==
    /\ attempts[i].step \in {"opening", "open", "live"} /\ Ends(i)
    /\ faults < MaxFaults /\ faults' = faults + 1
    /\ ScheduleReconnect
    /\ incoming' = <<>>
    /\ UNCHANGED <<database, visit, cards, panel, list>>

RetryTimerFires ==
    /\ retry.timer # 0 /\ retry' = [retry EXCEPT !.timer = 0]
    /\ attempts' = Append(attempts, Attempt("ticket"))
    /\ UNCHANGED <<database, faults, visit, incoming, cards, panel, list>>

(* --- the list of recent events --------------------------------------------------- *)

\* The effect of the list runs again: its requests are aborted and another is made.
Reloaded == <<NewLoad>>

\* refreshKey: the first card.
RefreshKey(sequence) == IF sequence = <<>> THEN NoCard ELSE sequence[1]
ShowCards(next) ==
    /\ cards' = next
    /\ IF RefreshKey(next) = RefreshKey(cards) THEN UNCHANGED <<recentLoads, answered>>
       ELSE recentLoads' = Reloaded /\ answered' = FALSE

LoadAgain ==
    /\ visit.there /\ Len(recentLoads) < MaxLoading
    /\ recentLoads' = Append(recentLoads, NewLoad)
    /\ UNCHANGED <<database, faults, visit, connection, cards, panel, recent, answered>>

ReadRecent(i) ==
    /\ ~recentLoads[i].read
    /\ recentLoads' = [recentLoads EXCEPT ![i] = [read |-> TRUE, items |-> SubSeq(occurred, 1,
                     IF Len(occurred) < RecentLimit THEN Len(occurred) ELSE RecentLimit)]]
    /\ UNCHANGED <<database, faults, visit, connection, cards, panel, recent, answered>>

RecentAnswered(i) ==
    /\ recentLoads[i].read /\ recentLoads' = RemoveAt(recentLoads, i)
    /\ recent' = recentLoads[i].items /\ answered' = TRUE
    /\ UNCHANGED <<database, faults, visit, connection, cards, panel>>

\* The list stays.
RecentFails(i) ==
    /\ faults < MaxFaults /\ faults' = faults + 1
    /\ recentLoads' = RemoveAt(recentLoads, i)
    /\ UNCHANGED <<database, visit, connection, cards, panel, recent, answered>>

(* --- the cards ---------------------------------------------------------------------- *)

\* onmessage: a new alarm comes first, one that is known stays where it is, either is shown.
Receive ==
    /\ incoming # <<>> /\ incoming' = Tail(incoming)
    /\ LET a == Head(incoming)
       IN ShowCards(IF a \in ToSet(cards) THEN cards ELSE <<a>> \o cards) /\ chosen' = a
    /\ minimised' = FALSE
    /\ UNCHANGED <<database, faults, visit, attempts, retry, recent>>

\* selectedEvent: the newest if that chosen has been closed.
SelectedEvent == IF chosen \in ToSet(cards) THEN chosen ELSE cards[1]

SelectCard ==
    /\ ~minimised
    /\ \E i \in 1..VisibleLimit :
          i <= Len(cards) /\ chosen # cards[i] /\ chosen' = cards[i]
    /\ UNCHANGED <<database, faults, visit, connection, cards, minimised, list>>

CloseAlert ==
    /\ cards # <<>> /\ ~minimised
    /\ \E i \in DOMAIN cards : cards[i] = SelectedEvent /\ ShowCards(RemoveAt(cards, i))
    /\ UNCHANGED <<database, faults, visit, connection, panel, recent>>

MinimiseOrNot ==
    /\ cards # <<>> /\ minimised' = ~minimised
    /\ UNCHANGED <<database, faults, visit, connection, cards, chosen, list>>

\* The cleanups of the effects: the WebSocket is closed, if there is one, and the state of the
\* page is gone; a request for a ticket goes on.
Sockets == {i \in DOMAIN attempts : attempts[i].step # "ticket"}
Leave ==
    /\ visit.there /\ visit' = [visit EXCEPT !.there = FALSE]
    /\ IF Sockets = {} THEN UNCHANGED attempts ELSE \E i \in Sockets : Ends(i)
    /\ retry' = NoRetry /\ incoming' = <<>>
    /\ cards' = <<>> /\ chosen' = NoCard /\ minimised' = FALSE
    /\ recentLoads' = <<>> /\ recent' = <<>> /\ answered' = FALSE
    /\ UNCHANGED <<database, faults>>

Enter ==
    /\ ~visit.there /\ visit.number < MaxVisits
    /\ visit' = [number |-> visit.number + 1, there |-> TRUE]
    /\ attempts' = Append(attempts, [visit |-> visit.number + 1, step |-> "ticket"])
    /\ recentLoads' = <<NewLoad>>
    /\ UNCHANGED <<database, faults, retry, incoming, cards, panel, recent, answered>>

CardNext ==
    \/ StoreAlarm
    \/ \E a \in ToSet(StoredAlarms) \cup OtherAlarms : Announce(a)
    \/ \E i \in DOMAIN attempts :
          \/ TicketAnswered(i) \/ TicketFails(i) \/ Opens(i)
          \/ TicketAccepted(i) \/ TicketRefused(i) \/ Closes(i)
    \/ RetryTimerFires
    \/ LoadAgain
    \/ \E i \in DOMAIN recentLoads : ReadRecent(i) \/ RecentAnswered(i) \/ RecentFails(i)
    \/ Receive \/ SelectCard \/ CloseAlert \/ MinimiseOrNot
    \/ Leave \/ Enter

CardSpec == CardInit /\ [][CardNext]_cardVars

(* --- what must hold ------------------------------------------------------------------- *)

OccurredLater(b, a) ==
    \E i, j \in DOMAIN occurred : i < j /\ occurred[i] = b /\ occurred[j] = a

\* The list shows the event, or is full of later ones.
Holds(sequence, a) ==
    \/ a \in ToSet(sequence)
    \/ Len(sequence) = RecentLimit /\ \A b \in ToSet(sequence) : OccurredLater(b, a)

\* As soon as the list was loaded for the first card, no answer that is older than an alarm
\* takes the alarm out of it: each card of a stored event is in the list, unless the list is
\* full of events that occurred later.
RecentListHoldsTheCards ==
    answered => \A a \in ToSet(cards) \cap ToSet(StoredAlarms) : Holds(recent, a)

\* Whatever is lost and retried, a page has one connection, attempt or timer for the next,
\* until it is refused; a page that was left has none, though its ticket comes later.
OneConnection ==
    LET mine == {i \in DOMAIN attempts : attempts[i].visit = visit.number}
        others == {i \in DOMAIN attempts : attempts[i].visit # visit.number \/ ~visit.there}
    IN /\ \A i \in others : attempts[i].step = "ticket"
       /\ visit.there /\ ~retry.refused => (mine = {} <=> retry.timer # 0)
       /\ \A i, j \in mine : i = j

AlarmsStayInView == RecentListHoldsTheCards /\ OneConnection
=============================================================================
