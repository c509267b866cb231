-------------------------- MODULE PostgreSQLQueries --------------------------
(***************************************************************************)
(* The queries of the PostgreSQL back end, in the form of SQLiteQueries.   *)
(***************************************************************************)
EXTENDS EventTable

Selected(f, rows, processed) ==
  {log \in rows :
     /\ f.contract = Any \/ Hex(log.contract) = ToLower(Hex(f.contract))
     /\ f.name = Any \/ log.name = f.name
     /\ f.from = Any \/ log.block >= f.from
     /\ f.to = Any \/ log.block <= f.to
     /\ f.processed = Any \/ (log \in processed) = f.processed}

GetEvents(f, rows, processed) == Listed(f, Selected(f, rows, processed))

GetEventCount(f, rows, processed) ==
  Cardinality(Selected(f, rows, processed))

GetEventByHash(tx, rows) ==
  LET found == {log \in rows : log.tx = tx}
  IN  IF found = {} THEN {{}} ELSE {{log} : log \in found}

(* ILIKE '%query%'. *)
SearchEvents(query, f, rows) ==
  Listed(f, {log \in rows : query = Any \/
    \E text \in {Text(log.name, FALSE), Hex(log.contract), Text(log.tx, TRUE)} :
      EqualFold(query, text)})
=============================================================================
