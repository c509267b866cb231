------------------------ MODULE PostgreSQLStatements ------------------------
(***************************************************************************)
(* What each statement of the PostgreSQL back end does to the tables.      *)
(*                                                                         *)
(* Twelve methods are placeholders that return nil: they answer "ok" and   *)
(* do nothing.  Foreign keys are always checked, but no notification is    *)
(* ever stored, so nothing refers to an event.                             *)
(***************************************************************************)
EXTENDS StorageTables

(* ON CONFLICT (id) only: a row of the same log with another id violates   *)
(* the unique index and the statement fails.                               *)
SaveEvent(t, e) ==
  IF \E d \in t.events : d.log = e.log /\ Id(d) # Id(e)
    THEN Error(t)
    ELSE Ok([t EXCEPT !.events = {d \in @ : Id(d) # Id(e)} \cup {e}])

(* Mutant: COPY checked against the primary key only. *)
CopyAcceptsById(t, batch) == \A e \in batch, d \in t.events : Id(d) # Id(e)

(* COPY has no conflict clause: the id and the log must both be new.       *)
CopyAccepts(t, batch) == \A e \in batch, d \in t.events : d.log # e.log

Copied(t, batch) == [t EXCEPT !.events = @ \cup batch]

UpdateEvent(t, e) ==
  LET old == {d \in t.events : Id(d) = Id(e)}
  IN  IF old = {} THEN NotFound(t)
                  ELSE Ok([t EXCEPT !.events = (@ \ old) \cup {e}])

DeleteEvent(t, id) ==
  LET old == {d \in t.events : Id(d) = id}
  IN  IF old = {} THEN NotFound(t) ELSE Ok([t EXCEPT !.events = @ \ old])

SaveContract(t, c) ==
  Ok([t EXCEPT !.contracts = {d \in @ : d.address # c.address} \cup {c}])

UpdateContract(t, c) ==
  LET old == {d \in t.contracts : d.address = c.address}
  IN  IF old = {} THEN NotFound(t)
                  ELSE Ok([t EXCEPT !.contracts = (@ \ old) \cup {c}])

DeleteContract(t, address) ==
  LET old == {d \in t.contracts : d.address = address}
  IN  IF old = {} THEN NotFound(t) ELSE Ok([t EXCEPT !.contracts = @ \ old])

(* An upsert: the row of the cursor is inserted when it is missing. *)
SetLatestProcessedBlock(t, n) == Ok([t EXCEPT !.cursor = n])

SetBlockProcessingStatus(t, s) ==
  Ok([t EXCEPT !.statuses = {r \in @ : r.block # s.block} \cup {s}])

(* The placeholders that should change the tables. *)
DeleteEventsByBlockRange(t) == Ok(t)
SaveNotification(t) == Ok(t)
UpdateNotificationStatus(t) == Ok(t)
Cleanup(t) == Ok(t)
LogEvent(t) == Ok(t)
StoreProcessingResult(t) == Ok(t)

(* Migration 005: ON CONFLICT DO NOTHING. *)
SeedCursor(t) == [t EXCEPT !.cursor = IF @ = NoCursor THEN 0 ELSE @]
=============================================================================
