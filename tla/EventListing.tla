---------------------------- MODULE EventListing ----------------------------
(***************************************************************************)
(* The read side of the listener while the rest of it writes: a client of  *)
(* the HTTP server that pages through GET /events, and GetEventStats,      *)
(* which runs one statement after the other on a table that changes        *)
(* between them.                                                           *)
(*                                                                         *)
(* Writers are the statements of StorageBackend that change the events: a  *)
(* save of a log (again), UpdateEvent, and the deletions of a              *)
(* reorganization, of the retention and by id.                             *)
(***************************************************************************)
EXTENDS EventTable

CONSTANTS
  Limits,     \* the values of ?limit= that clients send
  Retention   \* TRUE: there are deletions

ASSUME ListingAssumption == Limits \subseteq Int /\ Retention \in BOOLEAN

VARIABLES
  backend,    \* "sqlite" or "postgres"
  rows,       \* the logs that have a row
  processed,  \* those that are processed
  ranged,     \* those whose timestamp is in the range of the statistics
  client,     \* the client that pages
  stats       \* GetEventStats: the next statement and what it has counted

table == <<rows, processed, ranged>>
vars == <<backend, table, client, stats>>

S == INSTANCE SQLiteQueries
P == INSTANCE PostgreSQLQueries
F == INSTANCE EventFilter

SQLite == backend = "sqlite"

GetEvents(f) == IF SQLite THEN S!GetEvents(f, rows, processed)
                          ELSE P!GetEvents(f, rows, processed)
GetEventCount(f) == IF SQLite THEN S!GetEventCount(f, rows, processed)
                              ELSE P!GetEventCount(f, rows, processed)
GetEventByHash(tx) == IF SQLite THEN S!GetEventByHash(tx, rows)
                                ELSE P!GetEventByHash(tx, rows)
SearchEvents(q, f) == IF SQLite THEN S!SearchEvents(q, f, rows)
                                ELSE P!SearchEvents(q, f, rows)

(* seen: the rows the client got; there: history, the rows that were       *)
(* there throughout; disturbed: history, a row went away, or a page was    *)
(* short because its rows could not be read to the end.                    *)
NoClient == [pc |-> "idle", limit |-> 0, offset |-> 0, seen |-> {}, there |-> {},
             disturbed |-> FALSE]

NoStats == [pc |-> "idle", total |-> 0, byType |-> 0, byContract |-> 0,
            processed |-> 0, failed |-> 0, disturbed |-> FALSE]

Init ==
  /\ backend \in {"sqlite", "postgres"}
  /\ rows = {} /\ processed = {} /\ ranged = {}
  /\ client = NoClient
  /\ stats = NoStats

-----------------------------------------------------------------------------
(* The writers.                                                            *)

(* A row of the log, parsed before or after the time the statistics reach  *)
(* to.  SQLite replaces a row that is there, with a new id and a new time; *)
(* PostgreSQL refuses.                                                     *)
Save(log) ==
  /\ log \in rows => SQLite
  /\ rows' = rows \cup {log}
  /\ processed' = processed \ {log}
  /\ ranged' \in {ranged \cup {log}, ranged \ {log}}
  /\ stats' = [stats EXCEPT !.disturbed = @ \/ (stats.pc # "idle" /\ log \in rows)]
  /\ UNCHANGED <<backend, client>>

(* Mutant: it does not matter whether there is a row to update.            *)
MarkProcessedUnread(log) ==
  /\ processed' = processed \cup {log}
  /\ UNCHANGED <<backend, rows, ranged, client, stats>>

MarkProcessed(log) ==
  /\ log \in rows
  /\ processed' = processed \cup {log}
  /\ UNCHANGED <<backend, rows, ranged, client, stats>>

Delete(gone) ==
  /\ Retention
  /\ rows' = rows \ gone
  /\ processed' = processed \ gone
  /\ ranged' = ranged \ gone
  /\ client' = [client EXCEPT !.there = @ \ gone, !.disturbed = @ \/ client.pc # "idle"]
  /\ stats' = [stats EXCEPT !.disturbed = @ \/ stats.pc # "idle"]
  /\ UNCHANGED backend

(* By id in both back ends; the range and the retention are placeholders   *)
(* in PostgreSQL.                                                          *)
DeleteEvent == \E log \in rows : Delete({log})

DeleteEventsByBlockRange == \E from, to \in {log.block : log \in Logs} :
  LET gone == {log \in rows : log.block \in from .. to}
  IN  SQLite /\ gone # {} /\ Delete(gone)

Cleanup == \E gone \in SUBSET rows : SQLite /\ gone # {} /\ Delete(gone)

-----------------------------------------------------------------------------
(* listEventsHandler, as a client uses it: it goes on from one offset to   *)
(* the next until a page is not full.  A request that fails is sent again. *)

StartPaging == \E limit \in Limits :
  /\ client.pc = "idle"
  /\ client' = [NoClient EXCEPT !.pc = "paging", !.limit = limit, !.there = rows]
  /\ UNCHANGED <<backend, table, stats>>

(* It is not full, or there was no limit. *)
LastPage(page) == client.limit <= 0 \/ Cardinality(page) < client.limit

(* Mutant: the offset of the next page counts what the client has seen.    *)
ReceivedCountingSeen(page, disturbed) ==
  /\ client' = [client EXCEPT
       !.pc = IF LastPage(page) THEN "done" ELSE "paging",
       !.offset = Cardinality(client.seen \cup page) + 1,
       !.seen = @ \cup page,
       !.disturbed = @ \/ disturbed]
  /\ UNCHANGED <<backend, table, stats>>

(* The client received a page. *)
Received(page, disturbed) ==
  /\ client' = [client EXCEPT
       !.pc = IF LastPage(page) THEN "done" ELSE "paging",
       !.offset = @ + client.limit,
       !.seen = @ \cup page,
       !.disturbed = @ \/ disturbed]
  /\ UNCHANGED <<backend, table, stats>>

ListEvents ==
  /\ client.pc = "paging"
  /\ \E page \in GetEvents([Everything EXCEPT !.limit = client.limit,
                                              !.offset = client.offset]) :
       Received(page, FALSE)

(* rows.Next() answers false when the connection breaks, too, and nobody   *)
(* asks rows.Err(): the page ends there and is answered like any other.    *)
ListEventsCutShort ==
  /\ client.pc = "paging" /\ client.limit > 0
  /\ \E n \in 0 .. client.limit - 1 : \E page \in Pages(rows, n, client.offset) :
       Received(page, TRUE)

-----------------------------------------------------------------------------
(* GetEventStats of SQLite (PostgreSQL answers an empty record): each step *)
(* is a statement over the events in the range.  A group is counted by the *)
(* statement's column; what is kept here is the sum of its groups.         *)

Counted(field, n, next) ==
  /\ stats' = [stats EXCEPT ![field] = n, !.pc = next]
  /\ UNCHANGED <<backend, table, client>>

CountTotal ==
  /\ SQLite /\ stats.pc = "idle"
  /\ stats' = [NoStats EXCEPT !.pc = "byType", !.total = Cardinality(ranged)]
  /\ UNCHANGED <<backend, table, client>>

CountByType == stats.pc = "byType" /\ Counted("byType", Cardinality(ranged), "byContract")

CountByContract ==
  stats.pc = "byContract" /\ Counted("byContract", Cardinality(ranged), "byHour")

(* The driver stores a time as Time.String() spells it, of which strftime  *)
(* makes no hour but NULL; the Scan of that into a string fails, and the   *)
(* loop goes on without the group: EventsByHour stays empty.               *)
CountByHour ==
  /\ stats.pc = "byHour"
  /\ stats' = [stats EXCEPT !.pc = "processed"]
  /\ UNCHANGED <<backend, table, client>>

CountProcessed ==
  /\ stats.pc = "processed"
  /\ Counted("processed", Cardinality(ranged \cap processed), "failed")

(* Mutant: the failed are what the total leaves.                           *)
CountFailedOfTheRows ==
  stats.pc = "failed" /\ Counted("failed", Cardinality(ranged), "done")

CountFailed ==
  stats.pc = "failed" /\ Counted("failed", Cardinality(ranged \ processed), "done")

(* A count whose groups cannot all be read: it is cut short like a page,   *)
(* or goes on after a Scan that failed.                                    *)
CountCutShort ==
  \E place \in {<<"byType", "byContract">>, <<"byContract", "byHour">>} :
    /\ stats.pc = place[1]
    /\ \E n \in 0 .. Cardinality(ranged) - 1 :
         stats' = [stats EXCEPT ![place[1]] = n, !.pc = place[2], !.disturbed = TRUE]
    /\ UNCHANGED <<backend, table, client>>

(* A statement that fails ends it, but the last two: theirs counts as 0.   *)
StatementFails ==
  \/ /\ stats.pc \in {"byType", "byContract", "byHour"}
     /\ stats' = NoStats
     /\ UNCHANGED <<backend, table, client>>
  \/ stats.pc = "processed" /\ Counted("processed", 0, "failed")
  \/ stats.pc = "failed" /\ Counted("failed", 0, "done")

Next ==
  \/ \E log \in Logs : Save(log) \/ MarkProcessed(log)
  \/ DeleteEvent \/ DeleteEventsByBlockRange \/ Cleanup
  \/ StartPaging \/ ListEvents \/ ListEventsCutShort
  \/ CountTotal \/ CountByType \/ CountByContract \/ CountByHour
  \/ CountProcessed \/ CountFailed \/ CountCutShort \/ StatementFails

Spec == Init /\ [][Next]_vars
-----------------------------------------------------------------------------
Clients == [pc : {"idle", "paging", "done"}, limit : Limits \cup {0}, offset : Int,
            seen : SUBSET Logs, there : SUBSET Logs, disturbed : BOOLEAN]

StatsPlaces == {"idle", "byType", "byContract", "byHour", "processed", "failed", "done"}

Stats == [pc : StatsPlaces, total : Nat, byType : Nat, byContract : Nat,
          processed : Nat, failed : Nat, disturbed : BOOLEAN]

(* The state has the shape the code gives it. *)
TypeOK ==
  /\ backend \in {"sqlite", "postgres"}
  /\ rows \subseteq Logs
  /\ processed \subseteq rows
  /\ ranged \subseteq rows
  /\ client \in Clients
  /\ stats \in Stats

(* A client that pages through GET /events by offset while blocks are      *)
(* saved, saved again and processed misses no event that was there all the *)
(* time: saves push rows to later pages, never to earlier ones.  It may    *)
(* miss one when a row was deleted, a page was cut short, or its place is  *)
(* shared with the row of a fork.                                          *)
PagingSkipsNothing ==
  client.pc = "done" /\ ~client.disturbed =>
    \A log \in client.there \ client.seen : \E other \in rows : Ties(log, other)

(* The statistics are read in seven statements and no transaction.  While  *)
(* rows are only added and processed, the sum by type is no less than the  *)
(* total and the sum by contract no less than that by type, and no event   *)
(* is counted both as processed and as failed.  (It may be counted as      *)
(* neither, and none is counted by hour, see CountByHour.)                 *)
StatsAddUp ==
  stats.pc = "done" /\ ~stats.disturbed =>
    /\ stats.total <= stats.byType
    /\ stats.byType <= stats.byContract
    /\ stats.processed + stats.failed <= Cardinality(ranged)

(* The ways to ask for events agree, in both back ends: the count is that  *)
(* of the rows listed without a limit ("Event count mismatch",             *)
(* storage_test.go:124), the filter in memory passes the same events, an   *)
(* event that is listed is found by the hash of its transaction and by a   *)
(* search for its name or address, however the letters are spelled.  (Not  *)
(* so a filter by contract: GetEvents looks for the lowered address, rows  *)
(* have the checksummed one.)                                              *)
AsCriteria(f) ==
  [contracts |-> {f.contract} \ {Any}, signatures |-> {}, fields |-> {},
   names |-> IF f.name = Any THEN {} ELSE {Text(f.name, FALSE)},
   from |-> f.from, to |-> f.to]

Blocks == {log.block : log \in Logs}

QueriesAgree ==
  client = NoClient /\ stats = NoStats =>
    /\ \A c \in DigitsOnly \cup {Any}, n \in Names \cup {Any},
          from, to \in Blocks \cup {Any}, p \in BOOLEAN \cup {Any} :
         LET f == [Everything EXCEPT !.contract = c, !.name = n, !.from = from,
                                     !.to = to, !.processed = p]
         IN  \A found \in GetEvents(f) :
               /\ Cardinality(found) = GetEventCount(f)
               /\ p = Any => found = F!FilterEvents(rows, AsCriteria(f))
               /\ F!ValidFilter(AsCriteria(f)) \/ found = {}
    /\ \A log \in rows, lower \in BOOLEAN :
         /\ \A found \in GetEventByHash(log.tx) : \E e \in found : e.tx = log.tx
         /\ \A text \in {log.name, log.contract} :
              \A found \in SearchEvents(Text(text, lower), Everything) : log \in found
=============================================================================
