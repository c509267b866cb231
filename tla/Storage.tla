------------------------------ MODULE Storage ------------------------------
(***************************************************************************)
(* What storage.Storage promises to its callers, whatever the back end: a  *)
(* set of tables that every call changes at once and entirely, or not at   *)
(* all when it reports an error, and that survive a restart.               *)
(*                                                                         *)
(* There are no connections here, no transactions and no migrations.  The  *)
(* one concession is stubs, the operations a back end only pretends to do. *)
(* A call of SaveEvents or Cleanup, the only ones with several statements, *)
(* takes effect between its start and its answer.                          *)
(***************************************************************************)
EXTENDS StorageTables

VARIABLES
  stubs,      \* operations that answer "ok" and do nothing
  tables,     \* the rows
  reply       \* the last answer: what took effect, on what batch, the result

vars == <<stubs, tables, reply>>

Reply(op, batch, result) == [op |-> op, batch |-> batch, result |-> result]
NoReply == Reply("none", {}, "none")

Operations == {"SaveEvent", "SaveEvents", "UpdateEvent", "DeleteEvent",
  "DeleteEventsByBlockRange", "SaveNotification", "UpdateNotificationStatus",
  "SaveContract", "UpdateContract", "DeleteContract", "SetLatestProcessedBlock",
  "SetBlockProcessingStatus", "Cleanup", "LogEvent", "StoreProcessingResult"}

Init ==
  /\ stubs \subseteq Operations
  /\ tables = NoRows
  /\ reply = NoReply

(* An operation takes effect and says so; a stub only says so. *)
DoneBatch(op, batch, new) ==
  /\ reply' = Reply(op, batch, "ok")
  /\ tables' = IF op \in stubs THEN tables ELSE new
  /\ UNCHANGED stubs

Done(op, new) == DoneBatch(op, {}, new)

(* No effect, and the caller learns it, or a call begins or is cut short.  *)
Refused ==
  /\ reply' \in {Reply("none", {}, r) : r \in {"none", "error", "notfound"}}
  /\ UNCHANGED <<stubs, tables>>

(***************************************************************************)
(* Saving an event replaces what is known of its log: there is one row per *)
(* log, under the id it was saved with last.                               *)
(***************************************************************************)
WithEvents(t, batch) ==
  [t EXCEPT !.events = {d \in @ : \A e \in batch : e.log # d.log} \cup batch]

SaveEvent == \E e \in tables'.events : Done("SaveEvent", WithEvents(tables, {e}))

SaveEvents == \E batch \in SUBSET tables'.events :
  /\ batch # {} /\ OnePerLog(batch)
  /\ DoneBatch("SaveEvents", batch, WithEvents(tables, batch))

HasEvent(id) == \E e \in tables.events : Id(e) = id

UpdateEvent == \E e \in Events :
  /\ HasEvent(Id(e))
  /\ Done("UpdateEvent", WithEvents(tables, {e}))

WithoutEvents(t, gone) == [t EXCEPT !.events = @ \ gone]

DeleteEvent == \E id \in Ids :
  /\ HasEvent(id)
  /\ Done("DeleteEvent", WithoutEvents(tables, {e \in tables.events : Id(e) = id}))

DeleteEventsByBlockRange == \E from, to \in Logs :
  Done("DeleteEventsByBlockRange",
       WithoutEvents(tables, {e \in tables.events : e.log \in from .. to}))

SaveNotification == \E n \in Notifications :
  Done("SaveNotification",
       [tables EXCEPT !.notifications = {m \in @ : m.id # n.id} \cup {n}])

(* One more attempt is counted, whatever came of it. *)
Attempted(n, status) == [n EXCEPT !.status = status, !.attempts = @ + 1]

WithAttempt(t, id, status) ==
  [t EXCEPT !.notifications = {IF n.id = id THEN Attempted(n, status) ELSE n : n \in @}]

UpdateNotificationStatus == \E id \in NoteIds, status \in {"sent", "failed"} :
  Done("UpdateNotificationStatus", WithAttempt(tables, id, status))

SaveContract == \E c \in Contracts, op \in {"SaveContract", "UpdateContract"} :
  Done(op, [tables EXCEPT !.contracts =
              {d \in @ : d.address # c.address} \cup {c}])

DeleteContract == \E a \in Addresses :
  Done("DeleteContract", [tables EXCEPT !.contracts = {c \in @ : c.address # a}])

SetLatestProcessedBlock == \E n \in Blocks :
  Done("SetLatestProcessedBlock", [tables EXCEPT !.cursor = n])

SetBlockProcessingStatus == \E s \in Statuses :
  Done("SetBlockProcessingStatus",
       [tables EXCEPT !.statuses = {r \in @ : r.block # s.block} \cup {s}])

(* Everything older than the retention goes, in the three tables together. *)
Cleaned(t) ==
  [t EXCEPT !.events = {e \in @ : ~Expired(e)},
            !.notifications = {n \in @ : ~n.old},
            !.statuses = {s \in @ : ~s.old}]

Cleanup == Done("Cleanup", Cleaned(tables))

Unsupported ==
  \E op \in {"LogEvent", "StoreProcessingResult"} \cap stubs : Done(op, tables)

(* The first migration seeds the cursor; no later one touches a row. *)
Migrate ==
  /\ tables.cursor = NoCursor
  /\ tables' = [tables EXCEPT !.cursor = 0]
  /\ UNCHANGED <<stubs, reply>>

Next ==
  \/ SaveEvent \/ SaveEvents \/ UpdateEvent \/ DeleteEvent \/ DeleteEventsByBlockRange
  \/ SaveNotification \/ UpdateNotificationStatus
  \/ SaveContract \/ DeleteContract
  \/ SetLatestProcessedBlock \/ SetBlockProcessingStatus
  \/ Cleanup \/ Unsupported \/ Migrate \/ Refused

Spec == Init /\ [][Next]_vars
=============================================================================
