---------------------------- MODULE SQLiteQueries ----------------------------
(***************************************************************************)
(* The queries of the SQLite back end: each is the set of answers it may   *)
(* give, an answer being a set of rows.  No answer: the statement fails.   *)
(***************************************************************************)
EXTENDS EventTable

Selected(f, rows, processed) ==
  {log \in rows :
     /\ f.contract = Any \/ Hex(log.contract) = ToLower(Hex(f.contract))
     /\ f.name = Any \/ log.name = f.name
     /\ f.from = Any \/ log.block >= f.from
     /\ f.to = Any \/ log.block <= f.to
     /\ f.processed = Any \/ (log \in processed) = f.processed}

(* OFFSET without LIMIT is no SQL for SQLite. *)
GetEvents(f, rows, processed) ==
  IF f.limit <= 0 /\ f.offset > 0
    THEN {}
    ELSE Listed(f, Selected(f, rows, processed))

(* Mutant: the conditions were copied up to the last one. *)
GetEventCountUpToTheLast(f, rows, processed) ==
  Cardinality(Selected([f EXCEPT !.processed = Any], rows, processed))

(* The same conditions, and neither order nor limit. *)
GetEventCount(f, rows, processed) ==
  Cardinality(Selected(f, rows, processed))

(* The first row of the transaction, in no order, or none. *)
GetEventByHash(tx, rows) ==
  LET found == {log \in rows : log.tx = tx}
  IN  IF found = {} THEN {{}} ELSE {{log} : log \in found}

(* LIKE '%query%', which folds the case; of the rest of the filter only    *)
(* the limit and the offset count.                                         *)
SearchEvents(query, f, rows) ==
  IF f.limit <= 0 /\ f.offset > 0
    THEN {}
    ELSE Listed(f, {log \in rows : query = Any \/
           \E text \in {Text(log.name, FALSE), Hex(log.contract), Text(log.tx, TRUE)} :
             EqualFold(query, text)})
=============================================================================
