--------------------------- MODULE StorageBackend ---------------------------
(***************************************************************************)
(* The two back ends of storage.Storage at work: a database/sql pool whose *)
(* connections run statements and transactions at the same time, the       *)
(* migrations of every start, and a process that may end at any moment.    *)
(*                                                                         *)
(* A call outside a transaction is one statement and one action.           *)
(* SaveEvents and Cleanup begin a transaction on a connection of their     *)
(* own, run one action per statement and commit in another.  SQLite has    *)
(* one writer: while a transaction has written, every other write fails    *)
(* (SQLITE_BUSY, no busy timeout is set).  PostgreSQL lets the others      *)
(* write and makes those wait that insert a log the transaction inserted.  *)
(***************************************************************************)
EXTENDS StorageTables, Sequences

CONSTANTS
  Conns,        \* connections of the pool (SetMaxOpenConns)
  Batches       \* the batches of ids that SaveEvents is called with

ASSUME BackendAssumption ==
  \A batch \in Batches :
    /\ batch \subseteq Ids /\ batch # {}
    /\ OnePerLog(batch)

VARIABLES
  backend,      \* "sqlite" or "postgres": which one NewStorage returned
  phase,        \* "down" (db is nil), "migrating" or "ready"
  next,         \* the next migration to apply
  tables,       \* what is committed
  fk,           \* the connections that ran PRAGMA foreign_keys=ON
  tx,           \* the transaction open on each connection
  reply         \* the last answer to a caller

vars == <<backend, phase, next, tables, fk, tx, reply>>
process == <<backend, phase, next>>

S == INSTANCE SQLiteStatements
P == INSTANCE PostgreSQLStatements

Migrations == 6

(* What PostgreSQL answers "ok" to and does not do. *)
Placeholders == {"DeleteEventsByBlockRange", "SaveNotification",
                 "UpdateNotificationStatus", "Cleanup", "LogEvent",
                 "StoreProcessingResult"}

stubs == IF backend = "postgres" THEN Placeholders ELSE {}

Idle == [op |-> "none", batch |-> {}, todo |-> {}, view |-> NoRows]

(* The next statement of a transaction. *)
TxOps == {"none", "Insert", "CleanNotifications", "CleanStatuses", "Commit"}

Reply(op, batch, result) == [op |-> op, batch |-> batch, result |-> result]
NoReply == Reply("none", {}, "none")
Failure == Reply("none", {}, "error")

Answer(op, out) ==
  Reply(IF out.result = "ok" THEN op ELSE "none", {}, out.result)

Init ==
  /\ backend \in {"sqlite", "postgres"}
  /\ phase = "down" /\ next = 1
  /\ tables = NoRows
  /\ fk = {}
  /\ tx = [c \in Conns |-> Idle]
  /\ reply = NoReply

-----------------------------------------------------------------------------
(* The start of the process, its end, and the pool.                        *)

(* Connect: SQLite's pragma runs on one connection of the pool. *)
Connect ==
  /\ phase = "down"
  /\ phase' = "migrating" /\ next' = 1
  /\ \E c \in Conns : fk' = IF backend = "sqlite" THEN {c} ELSE {}
  /\ UNCHANGED <<backend, tables, tx, reply>>

SeedCursor(t) == IF backend = "sqlite" THEN S!SeedCursor(t) ELSE P!SeedCursor(t)

(* Mutant: the start is over one script too late. *)
ApplyMigrationPastTheLast ==
  /\ phase = "migrating"
  /\ tables' = IF next = 5 THEN SeedCursor(tables) ELSE tables
  /\ IF next > Migrations THEN phase' = "ready" /\ UNCHANGED next
                          ELSE next' = next + 1 /\ UNCHANGED phase
  /\ UNCHANGED <<backend, fk, tx, reply>>

(* Migrate runs every script at every start, each IF NOT EXISTS; only 005 *)
(* inserts a row.  A failed script ends the start, and with it main.      *)
ApplyMigration ==
  /\ phase = "migrating"
  /\ tables' = IF next = 5 THEN SeedCursor(tables) ELSE tables
  /\ IF next = Migrations THEN phase' = "ready" /\ UNCHANGED next
                          ELSE next' = next + 1 /\ UNCHANGED phase
  /\ UNCHANGED <<backend, fk, tx, reply>>

(* Close, with which main ends, or a crash: what is not committed is gone. *)
(* (A transaction that is open when Close sets db to nil may still commit: *)
(* that is a Commit and then Close.)                                       *)
Exit ==
  /\ phase # "down"
  /\ phase' = "down" /\ next' = 1
  /\ tx' = [c \in Conns |-> Idle]
  /\ fk' = {}
  /\ reply' = NoReply
  /\ UNCHANGED <<backend, tables>>

(* The pool closes an idle connection (SetMaxIdleConns,                    *)
(* SetConnMaxLifetime) and opens another, which has run no pragma.         *)
Replace(c) ==
  /\ phase = "ready" /\ c \in fk /\ tx[c] = Idle
  /\ fk' = fk \ {c}
  /\ UNCHANGED <<process, tables, tx, reply>>

-----------------------------------------------------------------------------
(* One statement, outside a transaction.                                   *)

SQLite == backend = "sqlite"

Locked == SQLite /\ \E c \in Conns : tx[c] # Idle

Unlocked == ~Locked

Statement(c, op, out) ==
  /\ phase = "ready" /\ tx[c] = Idle /\ Unlocked
  /\ tables' = out.tables
  /\ reply' = Answer(op, out)
  /\ UNCHANGED <<process, fk, tx>>

(* A log another transaction has inserted and not committed: PostgreSQL   *)
(* makes the insertion wait for its end.                                  *)
Inserting(log) ==
  backend = "postgres" /\ \E c \in Conns : \E e \in tx[c].batch : e.log = log

(* Any statement may fail: the lock, the disk, the context of the caller. *)
StatementFails(c) ==
  /\ phase = "ready" /\ tx[c] = Idle
  /\ reply' = Failure
  /\ UNCHANGED <<process, tables, fk, tx>>

SaveEvent(c) == \E id \in Ids :
  LET e == Row(id, FALSE)
  IN  /\ ~Inserting(e.log)
      /\ Statement(c, "SaveEvent",
                   IF SQLite THEN S!SaveEvent(tables, e, c \in fk)
                             ELSE P!SaveEvent(tables, e))

UpdateEvent(c) == \E id \in Ids :
  LET e == Row(id, TRUE)
  IN  Statement(c, "UpdateEvent", IF SQLite THEN S!UpdateEvent(tables, e)
                                            ELSE P!UpdateEvent(tables, e))

MarkEventProcessed(c) == \E id \in Ids :
  SQLite /\ Statement(c, "UpdateEvent", S!MarkEventProcessed(tables, id))

DeleteEvent(c) == \E id \in Ids :
  Statement(c, "DeleteEvent", IF SQLite THEN S!DeleteEvent(tables, id, c \in fk)
                                        ELSE P!DeleteEvent(tables, id))

DeleteEventsByBlockRange(c) == \E from, to \in Logs :
  Statement(c, "DeleteEventsByBlockRange",
            IF SQLite THEN S!DeleteEventsByBlockRange(tables, from, to, c \in fk)
                      ELSE P!DeleteEventsByBlockRange(tables))

(* A notification is made for an event that was processed, and ages. *)
SaveNotification(c) == \E n \in Notifications :
  /\ n.status = "pending" /\ n.attempts = 0
  /\ n.old => n.event.scan < Cutoff
  /\ Statement(c, "SaveNotification",
               IF SQLite THEN S!SaveNotification(tables, n, c \in fk)
                         ELSE P!SaveNotification(tables))

UpdateNotificationStatus(c) == \E id \in NoteIds, status \in {"sent", "failed"} :
  /\ \A n \in tables.notifications : n.id = id => n.attempts < MaxAttempts
  /\ Statement(c, "UpdateNotificationStatus",
               IF SQLite THEN S!UpdateNotificationStatus(tables, id, status)
                         ELSE P!UpdateNotificationStatus(tables))

SaveContract(c) == \E k \in Contracts :
  Statement(c, "SaveContract", IF SQLite THEN S!SaveContract(tables, k)
                                         ELSE P!SaveContract(tables, k))

UpdateContract(c) == \E k \in Contracts :
  Statement(c, "UpdateContract", IF SQLite THEN S!UpdateContract(tables, k)
                                           ELSE P!UpdateContract(tables, k))

DeleteContract(c) == \E a \in Addresses :
  Statement(c, "DeleteContract", IF SQLite THEN S!DeleteContract(tables, a)
                                           ELSE P!DeleteContract(tables, a))

SetLatestProcessedBlock(c) == \E n \in Blocks :
  Statement(c, "SetLatestProcessedBlock",
            IF SQLite THEN S!SetLatestProcessedBlock(tables, n)
                      ELSE P!SetLatestProcessedBlock(tables, n))

SetBlockProcessingStatus(c) == \E s \in Statuses :
  Statement(c, "SetBlockProcessingStatus",
            IF SQLite THEN S!SetBlockProcessingStatus(tables, s)
                      ELSE P!SetBlockProcessingStatus(tables, s))

LogEvent(c) ==
  Statement(c, "LogEvent", IF SQLite THEN S!LogEvent(tables) ELSE P!LogEvent(tables))

StoreProcessingResult(c) ==
  Statement(c, "StoreProcessingResult",
            IF SQLite THEN S!StoreProcessingResult(tables)
                      ELSE P!StoreProcessingResult(tables))

(* PostgreSQL's Cleanup is a placeholder: no transaction at all. *)
CleanupPlaceholder(c) ==
  ~SQLite /\ Statement(c, "Cleanup", P!Cleanup(tables))

-----------------------------------------------------------------------------
(* Transactions.  BEGIN takes nothing in either back end, so a transaction *)
(* starts with its first statement.                                        *)

(* A statement of the transaction on c went well and left the tables so:  *)
(* what comes next, the batch of the call, what is still to be inserted.   *)
Wrote(c, view, op, batch, todo) ==
  /\ tx' = [tx EXCEPT ![c] = [op |-> op, batch |-> batch, todo |-> todo, view |-> view]]
  /\ reply' = NoReply
  /\ UNCHANGED <<process, tables, fk>>

Starts(c) == phase = "ready" /\ tx[c] = Idle

(* SaveEvents of SQLite: one INSERT OR REPLACE per event, in any order.   *)
Insert(c, t, batch, todo) == \E e \in todo :
  LET out == S!SaveEvent(t, e, c \in fk)
  IN  /\ out.result = "ok"
      /\ Wrote(c, out.tables, IF todo = {e} THEN "Commit" ELSE "Insert",
               batch, todo \ {e})

New(batch) == {Row(id, FALSE) : id \in batch}

BeginSaveEvents(c) ==
  /\ SQLite /\ Starts(c) /\ Unlocked
  /\ \E batch \in Batches : Insert(c, tables, New(batch), New(batch))

InsertNext(c) ==
  /\ tx[c].op = "Insert"
  /\ Insert(c, tx[c].view, tx[c].batch, tx[c].todo)

(* SaveEvents of PostgreSQL: the rows are copied in together, and wait    *)
(* for other transactions that copied one of their logs.                  *)
CopyIn(c) ==
  /\ backend = "postgres" /\ Starts(c)
  /\ \E batch \in Batches :
       /\ \A e \in New(batch) : ~Inserting(e.log)
       /\ P!CopyAccepts(tables, New(batch))
       /\ Wrote(c, NoRows, "Commit", New(batch), {})

(* Cleanup of SQLite: the old events, notifications and statuses, then    *)
(* the time of the cleanup, which nothing reads.                          *)
CleanEvents(c) ==
  LET out == S!CleanupEvents(tables, c \in fk)
  IN  /\ SQLite /\ Starts(c) /\ Unlocked
      /\ out.result = "ok"
      /\ Wrote(c, out.tables, "CleanNotifications", {}, {})

CleanNotifications(c) ==
  /\ tx[c].op = "CleanNotifications"
  /\ Wrote(c, S!CleanupNotifications(tx[c].view).tables, "CleanStatuses", {}, {})

CleanStatuses(c) ==
  /\ tx[c].op = "CleanStatuses"
  /\ Wrote(c, S!CleanupStatuses(tx[c].view).tables, "Commit", {}, {})

(* What the commit on c makes of the tables. *)
Committed(c) ==
  IF SQLite THEN tx[c].view ELSE P!Copied(tables, tx[c].batch)

Commit(c) ==
  /\ tx[c].op = "Commit"
  /\ tables' = Committed(c)
  /\ tx' = [tx EXCEPT ![c] = Idle]
  /\ reply' = Reply(IF tx[c].batch = {} THEN "Cleanup" ELSE "SaveEvents",
                    tx[c].batch, "ok")
  /\ UNCHANGED <<process, fk>>

(* Mutant: the statements are run on the pool and not on the transaction.  *)
RollbackKeeping(c) ==
  /\ tx[c] # Idle
  /\ tables' = Committed(c)
  /\ tx' = [tx EXCEPT ![c] = Idle]
  /\ reply' = Failure
  /\ UNCHANGED <<process, fk>>

(* A statement failed, or the context ended: the deferred Rollback. *)
Rollback(c) ==
  /\ tx[c] # Idle
  /\ tx' = [tx EXCEPT ![c] = Idle]
  /\ reply' = Failure
  /\ UNCHANGED <<process, tables, fk>>

Next ==
  \/ Connect \/ ApplyMigration \/ Exit
  \/ \E c \in Conns :
       \/ Replace(c) \/ StatementFails(c)
       \/ SaveEvent(c) \/ UpdateEvent(c) \/ MarkEventProcessed(c)
       \/ DeleteEvent(c) \/ DeleteEventsByBlockRange(c)
       \/ SaveNotification(c) \/ UpdateNotificationStatus(c)
       \/ SaveContract(c) \/ UpdateContract(c) \/ DeleteContract(c)
       \/ SetLatestProcessedBlock(c) \/ SetBlockProcessingStatus(c)
       \/ LogEvent(c) \/ StoreProcessingResult(c) \/ CleanupPlaceholder(c)
       \/ BeginSaveEvents(c) \/ InsertNext(c) \/ CopyIn(c)
       \/ CleanEvents(c) \/ CleanNotifications(c) \/ CleanStatuses(c)
       \/ Commit(c) \/ Rollback(c)

Spec == Init /\ [][Next]_vars
-----------------------------------------------------------------------------
(* The state has the shape the code gives it.                              *)
TypeOK ==
  /\ backend \in {"sqlite", "postgres"}
  /\ phase \in {"down", "migrating", "ready"}
  /\ next \in 1 .. Migrations
  /\ tables \in Tables
  /\ fk \subseteq Conns
  /\ tx \in [Conns -> [op : TxOps, batch : SUBSET Events, todo : SUBSET Events,
                       view : Tables]]
  /\ reply.result \in {"none", "ok", "notfound", "error"}

(* However often a log is parsed and saved, by whichever statement, on     *)
(* whichever connection, committed or not: its event has one row.  The     *)
(* unique index says so; each back end must keep its own inserts to it.    *)
OneRowPerLog ==
  \A t \in {tables} \cup {tx[c].view : c \in Conns} :
    OnePerLog(t.events)

(* Both back ends implement the tables of module Storage: transactions,    *)
(* their rollback, the lock, the migrations of every start and a crash at  *)
(* any moment never show as half an operation, as an answer "ok" without   *)
(* its effect (but for PostgreSQL's placeholders), nor as a lost row.      *)
Promise == INSTANCE Storage
ImplementsStorage == Promise!Spec
=============================================================================
