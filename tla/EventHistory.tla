---------------------------- MODULE EventHistory ----------------------------
(***************************************************************************)
(* Somebody reads the event history page after page, while events are      *)
(* stored and reviewed.  Each request counts what matches and then selects *)
(* a page of it: two statements, each with the rows of its own moment.     *)
(* The order of rows that a query leaves open is the database's choice.    *)
(***************************************************************************)
EXTENDS Integers, Sequences, FiniteSets, SequencesExt

CONSTANTS Pool,         \* events that may be stored: [id, type, at, zone]; zone 9: none
          HistoryFilters, SortFields, SortOrders,    \* the queries
          HistoryLimit,                       \* limit: rows on a page
          Reviews                             \* the statuses that events pass through

ASSUME HistoryAssumption ==
    /\ HistoryLimit \in Nat \ {0}
    /\ IsFiniteSet(Pool)
    /\ \A e \in Pool : e.id \in Int /\ e.at \in Int /\ e.zone \in Int
    /\ \A e, f \in Pool : e.id = f.id => e = f
    /\ Reviews \subseteq {"CONFIRMED", "FALSE_ALARM", "NEW", "RESOLVED"}
    /\ SortFields \subseteq {"occurredAt", "zone", "status"} /\ SortOrders \subseteq {"asc", "desc"}

VARIABLES table,       \* the status of each event, or "absent"
          query,      \* what the reader asks for
          reader      \* how far the reader has come

historyVars == <<table, query, reader>>

InTable == {e \in Pool : table[e.id] # "absent"}

(* --- createEventHistoryWhere, createEventHistoryOrderBy --------------------- *)

\* A pedestrian is one who enters or leaves; old wrong-way events had two levels. An empty
\* set, or no bound, is a filter that was not given.
TypesOf(eventType) ==
    CASE eventType = "pedestrian" -> {"pedestrian-entered", "pedestrian-exited"}
      [] eventType = "wrong-way" -> {"wrong-way", "wrong-way-level-1", "wrong-way-level-2"}
      [] OTHER -> {eventType}

Where(filters, e) ==
    /\ \A t \in filters.eventType : e.type \in TypesOf(t)
    /\ \A s \in filters.status : table[e.id] = s
    /\ \A z \in filters.zone : e.zone = z
    /\ \A from \in filters.from : e.at >= from
    /\ \A to \in filters.to : e.at <= to

Matching == {e \in InTable : Where(query.filters, e)}

\* Statuses sort by their letters.
Sorted == <<"CONFIRMED", "FALSE_ALARM", "NEW", "RESOLVED">>
Rank(s) == CHOOSE i \in DOMAIN Sorted : Sorted[i] = s
ValueOf(e) == CASE query.sortBy = "occurredAt" -> e.at
                [] query.sortBy = "zone" -> e.zone
                [] query.sortBy = "status" -> Rank(table[e.id])

\* Mutant: nothing orders rows of the same value.
PrimaryOrder(e, f) ==
    IF query.sortOrder = "asc" THEN ValueOf(e) <= ValueOf(f) ELSE ValueOf(e) >= ValueOf(f)

\* The id, in the same direction, orders rows of the same value.
OrderBy(e, f) ==
    LET up(a, b) == ValueOf(a) < ValueOf(b) \/ (ValueOf(a) = ValueOf(b) /\ a.id < b.id)
    IN IF query.sortOrder = "asc" THEN up(e, f) ELSE up(f, e)

Orders == {s \in SetToSeqs(Matching) : \A i, j \in DOMAIN s : i < j => OrderBy(s[i], s[j])}

(* --- getEventHistory ------------------------------------------------------------ *)

TotalPages(total) == (total + HistoryLimit - 1) \div HistoryLimit

HistoryInit ==
    /\ query \in [filters : HistoryFilters, sortBy : SortFields, sortOrder : SortOrders]
    /\ \E present \in SUBSET Pool :
          table = [i \in {e.id : e \in Pool} |->
                     IF i \in {e.id : e \in present} THEN "NEW" ELSE "absent"]
    /\ reader = [step |-> "off", page |-> 0, total |-> 0, first |-> {}, read |-> <<>>, notes |-> {}]

AskHistory ==
    /\ reader.step = "off"
    /\ reader' = [reader EXCEPT !.step = "count", !.page = 1, !.first = Matching]
    /\ UNCHANGED <<table, query>>

CountEvents ==
    /\ reader.step = "count"
    /\ reader' = [reader EXCEPT !.step = "select", !.total = Cardinality(Matching)]
    /\ UNCHANGED <<table, query>>

\* createEventHistoryResponse: the reader goes on if the answer says hasNext.
FindEvents ==
    /\ reader.step = "select"
    /\ \E s \in Orders :
          LET skip == (reader.page - 1) * HistoryLimit
              last == IF skip + HistoryLimit < Len(s) THEN skip + HistoryLimit ELSE Len(s)
              hasNext == reader.page < TotalPages(reader.total)
          IN reader' = [reader EXCEPT !.read = @ \o SubSeq(s, skip + 1, last),
                                      !.step = IF hasNext THEN "count" ELSE "done",
                                      !.page = IF hasNext THEN @ + 1 ELSE @]
    /\ UNCHANGED <<table, query>>

\* An answer of 400 or 500: the reader gives up.
HistoryFails ==
    /\ reader.step \in {"count", "select"}
    /\ reader' = [reader EXCEPT !.step = "off", !.page = 0, !.total = 0, !.first = {}, !.read = <<>>,
                                !.notes = {}]
    /\ UNCHANGED <<table, query>>

Notes(note) == [reader EXCEPT !.notes = IF reader.step = "off" THEN @ ELSE @ \cup note]

\* An event is stored, whenever it occurred.
StoreEvent ==
    /\ \E e \in Pool \ InTable : table' = [table EXCEPT ![e.id] = "NEW"]
    /\ reader' = Notes(IF reader.step = "select" THEN {"arrival", "between"} ELSE {"arrival"})
    /\ UNCHANGED query

ReviewStored ==
    /\ \E e \in InTable, s \in Reviews : table[e.id] # s /\ table' = [table EXCEPT ![e.id] = s]
    /\ reader' = Notes({"review"})
    /\ UNCHANGED query

HistoryNext ==
    AskHistory \/ CountEvents \/ FindEvents \/ HistoryFails \/ StoreEvent \/ ReviewStored

HistorySpec == HistoryInit /\ [][HistoryNext]_historyVars

\* Who turns the pages to the end has seen every event that matched when he began, even if
\* others are stored meanwhile, unless one came between the count and the select of a page
\* or an event was reviewed. And if nothing happens, each once, in the order asked for.
HistoryIsReadToTheEnd ==
    reader.step = "done" =>
        /\ reader.notes \subseteq {"arrival"} => reader.first \subseteq ToSet(reader.read)
        /\ reader.notes = {} => reader.read \in Orders
=============================================================================
