--------------------------- MODULE MCEventListing ---------------------------
(***************************************************************************)
(* EventListing over four logs of two blocks, two of which a fork left at  *)
(* the same place, of two contracts, one with an address of digits.        *)
(***************************************************************************)
EXTENDS EventListing

CONSTANTS digits, letters, transfer, approval

Log(block, index, tx, contract, name) ==
  [block |-> block, index |-> index, tx |-> tx, contract |-> contract,
   name |-> name, fields |-> {"value"}]

MCLogs == {Log(1, 0, "t1", digits, transfer), Log(1, 1, "t1", letters, approval),
           Log(2, 0, "t2", letters, transfer), Log(2, 0, "t3", digits, transfer)}

MCDigitsOnly == {digits}

(* Bound: the client and the statistics read the table one at a time, as   *)
(* neither changes what the other sees; the statistics are of at most two  *)
(* rows, and what is in their range does not matter to the client.         *)
OneReader ==
  /\ client.pc = "idle" \/ stats.pc = "idle"
  /\ client.pc # "idle" => ranged = {}
  /\ stats.pc # "idle" => Cardinality(rows) <= 2
=============================================================================
