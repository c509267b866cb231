-------------------------- MODULE MCStorageBackend --------------------------
(***************************************************************************)
(* StorageBackend on two connections, two logs, parsed by a scan that is   *)
(* beyond the retention, one of them again by a later scan, one            *)
(* notification and one contract.                                          *)
(***************************************************************************)
EXTENDS StorageBackend, TLC

Log(n, scan) == [log |-> n, scan |-> scan]

MCIds == {Log(1, 1), Log(1, 2), Log(2, 1)}

MCBatches == {{Log(1, 1), Log(2, 1)}, {Log(1, 2)}}

(* Bound: besides events, at most two of the other tables have rows. *)
AtMostTwoTables ==
  Cardinality({x \in {"notifications", "contracts", "statuses"} :
                 tables[x] # {}} \cup {x \in {"cursor"} : tables[x] > 0}) <= 2

Symmetry == Permutations(Conns)
=============================================================================
