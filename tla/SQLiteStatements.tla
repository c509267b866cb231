-------------------------- MODULE SQLiteStatements --------------------------
(***************************************************************************)
(* What each statement of the SQLite back end does to the tables.          *)
(*                                                                         *)
(* fk says whether the connection that runs the statement has the pragma   *)
(* foreign_keys: without it SQLite checks no reference.  The reference of  *)
(* a notification to its event has no ON DELETE clause, so with the pragma *)
(* a statement that would leave a notification without its event fails as  *)
(* a whole.                                                                *)
(***************************************************************************)
EXTENDS StorageTables

(* The rows INSERT OR REPLACE deletes first: same id or same log.          *)
Replaced(t, e) == {d \in t.events : Id(d) = Id(e) \/ d.log = e.log}

(* Deleting the events of these ids and inserting others. *)
ChangeEvents(t, gone, new, fk) ==
  LET lost == {Id(d) : d \in gone} \ {Id(e) : e \in new}
  IN  IF fk /\ Referenced(t, lost)
        THEN Error(t)
        ELSE Ok([t EXCEPT !.events = (@ \ gone) \cup new])

SaveEvent(t, e, fk) == ChangeEvents(t, Replaced(t, e), {e}, fk)

(* UpdateEvent writes every column of the row with the event's id. *)
UpdateEvent(t, e) ==
  LET old == {d \in t.events : Id(d) = Id(e)}
  IN  IF old = {} THEN NotFound(t)
                  ELSE Ok([t EXCEPT !.events = (@ \ old) \cup {e}])

MarkEventProcessed(t, id) ==
  LET old == {d \in t.events : Id(d) = id}
  IN  IF old = {} THEN NotFound(t)
                  ELSE Ok([t EXCEPT !.events = (@ \ old) \cup {Row(id, TRUE)}])

DeleteEvent(t, id, fk) ==
  LET old == {d \in t.events : Id(d) = id}
  IN  IF old = {} THEN NotFound(t) ELSE ChangeEvents(t, old, {}, fk)

DeleteEventsByBlockRange(t, from, to, fk) ==
  ChangeEvents(t, {d \in t.events : d.log \in from .. to}, {}, fk)

(* INSERT OR REPLACE of the whole row, attempts and all. *)
SaveNotification(t, n, fk) ==
  IF fk /\ \A e \in t.events : Id(e) # n.event
    THEN Error(t)
    ELSE Ok([t EXCEPT !.notifications = {m \in @ : m.id # n.id} \cup {n}])

UpdateNotificationStatus(t, id, status) ==
  LET old == {n \in t.notifications : n.id = id}
      Updated(n) == [n EXCEPT !.status = status, !.attempts = @ + 1]
  IN  IF old = {} THEN NotFound(t)
        ELSE Ok([t EXCEPT !.notifications = (@ \ old) \cup {Updated(n) : n \in old}])

SetBlockProcessingStatus(t, s) ==
  Ok([t EXCEPT !.statuses = {r \in @ : r.block # s.block} \cup {s}])

SaveContract(t, c) ==
  Ok([t EXCEPT !.contracts = {d \in @ : d.address # c.address} \cup {c}])

UpdateContract(t, c) ==
  LET old == {d \in t.contracts : d.address = c.address}
  IN  IF old = {} THEN NotFound(t)
                  ELSE Ok([t EXCEPT !.contracts = (@ \ old) \cup {c}])

DeleteContract(t, address) ==
  LET old == {d \in t.contracts : d.address = address}
  IN  IF old = {} THEN NotFound(t) ELSE Ok([t EXCEPT !.contracts = @ \ old])

(* An UPDATE: a missing row is not inserted, and nobody looks whether one  *)
(* was affected.                                                           *)
SetLatestProcessedBlock(t, n) ==
  Ok([t EXCEPT !.cursor = IF @ = NoCursor THEN @ ELSE n])

(* LogEvent and StoreProcessingResult insert into logs and                 *)
(* processing_results, tables that no migration creates.                   *)
LogEvent(t) == Error(t)
StoreProcessingResult(t) == Error(t)

(* The statements of Cleanup, in their order. *)
CleanupEvents(t, fk) == ChangeEvents(t, {e \in t.events : Expired(e)}, {}, fk)
CleanupNotifications(t) ==
  Ok([t EXCEPT !.notifications = {n \in @ : ~n.old}])
CleanupStatuses(t) == Ok([t EXCEPT !.statuses = {s \in @ : ~s.old}])

(* Migration 005: the table, and INSERT OR IGNORE of the cursor. *)
SeedCursor(t) == [t EXCEPT !.cursor = IF @ = NoCursor THEN 0 ELSE @]

=============================================================================
