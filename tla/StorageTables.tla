--------------------------- MODULE StorageTables ---------------------------
(***************************************************************************)
(* The tables of the database as both back ends see them: the columns that *)
(* some statement reads back or some constraint is about.                  *)
(*                                                                         *)
(* A log of the chain is a number, that of its block: one log per block is *)
(* enough to tell ranges of blocks apart.  The parser gives an event a     *)
(* fresh id and the time of the day whenever it parses a log, so an id is  *)
(* the log and the scan that parsed it, scans being numbered in time; the  *)
(* unique index on (block_hash, tx_hash, log_index) is about the log alone.*)
(***************************************************************************)
EXTENDS Integers, FiniteSets

CONSTANTS
  Ids,          \* ids of events: a log, by block number, and a scan of it
  Cutoff,       \* events of earlier scans are older than the retention
  NoteIds,      \* ids of notifications
  MaxAttempts,  \* bound: attempts counted in a notification
  Addresses,    \* contract addresses
  Blocks        \* blocks with a status row, and values of the cursor

ASSUME StorageAssumption ==
  /\ Ids \subseteq [log : Nat, scan : Nat] /\ IsFiniteSet(Ids)
  /\ Cutoff \in Nat /\ MaxAttempts \in Nat
  /\ Blocks \subseteq Nat

Logs == {id.log : id \in Ids}

Id(e) == [log |-> e.log, scan |-> e.scan]
Row(id, processed) ==
  [log |-> id.log, scan |-> id.scan, processed |-> processed]
Events == {Row(id, p) : id \in Ids, p \in BOOLEAN}

Notifications == [id : NoteIds, event : Ids, status : {"pending", "sent", "failed"},
                  attempts : 0 .. MaxAttempts, old : BOOLEAN]
Statuses == [block : Blocks, old : BOOLEAN]
Contracts == [address : Addresses, active : BOOLEAN]

NoCursor == -1        \* the row of latest_processed_block does not exist

Tables == [events : SUBSET Events, notifications : SUBSET Notifications,
           statuses : SUBSET Statuses, contracts : SUBSET Contracts,
           cursor : Blocks \cup {0, NoCursor}]

NoRows == [events |-> {}, notifications |-> {}, statuses |-> {},
           contracts |-> {}, cursor |-> NoCursor]

(* The timestamp of an event is that of its parsing (parser.go:82). *)
Expired(e) == e.scan < Cutoff

OnePerLog(events) == \A d, e \in events : d.log = e.log => d = e

(* Some notification refers to one of these events. *)
Referenced(t, ids) == \E n \in t.notifications : n.event \in ids

(***************************************************************************)
(* A statement leaves its tables in some state and answers: "ok",          *)
(* "notfound" (no row was affected) or "error" (and then nothing changed). *)
(***************************************************************************)
Ok(t) == [tables |-> t, result |-> "ok"]
NotFound(t) == [tables |-> t, result |-> "notfound"]
Error(t) == [tables |-> t, result |-> "error"]
=============================================================================
