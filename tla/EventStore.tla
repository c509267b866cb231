----------------------------- MODULE EventStore -----------------------------
(***************************************************************************)
(* What the storage layer does to the tables the monitor depends on.       *)
(*                                                                         *)
(* The code has two implementations of storage.Storage, SQLite and         *)
(* PostgreSQL, that differ where it matters; Backend selects one.  A row   *)
(* of the events table is identified by the unique index on                *)
(* (block_hash, tx_hash, log_index), that is, by the log it came from.     *)
(***************************************************************************)
EXTENDS Integers

CONSTANT Backend      \* "sqlite" or "postgres" (StorageConfig.Type)

ASSUME BackendAssumption == Backend \in {"sqlite", "postgres"}

(* A block hash names a block: its height and the fork it belongs to.      *)
Hash(n, fork) == [number |-> n, fork |-> fork]

(* What GetBlockHash answers when the events table has no row of a block.  *)
NoHash == [number |-> -1, fork |-> -1]

(***************************************************************************)
(* SaveEvents: one transaction.  SQLite replaces a row with the same       *)
(* unique key; PostgreSQL's COPY aborts the transaction on one.            *)
(***************************************************************************)
SaveEventsAccepts(table, batch) ==
  Backend = "sqlite" \/ batch \cap table = {}

(* Mutant: the transaction is never committed. *)
SaveEventsUncommitted(table, batch) == table

SaveEvents(table, batch) == table \cup batch

(* DeleteEventsByBlockRange: an empty stub in PostgreSQL. *)
DeleteEventsByBlockRange(table, from, to) ==
  IF Backend = "sqlite" THEN {e \in table : e.number \notin from .. to}
                        ELSE table

(***************************************************************************)
(* GetBlockHash: the hash of some row of that height (LIMIT 1, no order);  *)
(* without a row the answer is "" and no error.  A stub in PostgreSQL.     *)
(***************************************************************************)
GetBlockHash(table, n) ==
  LET hashes == {Hash(e.number, e.fork) : e \in {r \in table : r.number = n}}
  IN  IF Backend = "sqlite" /\ hashes # {} THEN hashes ELSE {NoHash}

(* Mutant: the stub of PostgreSQL in both implementations. *)
GetAllContractsStub(contracts) == {}

(* GetAllContracts, what a starting monitor loads: a stub in PostgreSQL.   *)
GetAllContracts(contracts) ==
  IF Backend = "sqlite" THEN contracts ELSE {}
=============================================================================
