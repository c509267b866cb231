----------------------------- MODULE EventTable -----------------------------
(***************************************************************************)
(* The events table as its queries see it.  A row is the log it is of      *)
(* (there is one per log, see StorageBackend); what of it may change, the  *)
(* time of its parsing and whether it is processed, is given beside.       *)
(*                                                                         *)
(* A text is known up to the case of its letters: an address is stored as  *)
(* Address.Hex() spells it, with capitals where the checksum puts them,    *)
(* and some callers lower it first.                                        *)
(***************************************************************************)
EXTENDS Integers, FiniteSets

CONSTANTS
  Logs,        \* logs of the chain: block, index, tx, contract and name
  DigitsOnly,  \* contracts whose address has no letters
  Any          \* what a filter leaves open

ASSUME TableAssumption ==
  /\ IsFiniteSet(Logs)
  /\ \A log \in Logs : log.block \in Nat /\ log.index \in Nat

Contracts == {log.contract : log \in Logs}
Names == {log.name : log \in Logs}

Text(of, lower) == [of |-> of, lower |-> lower]
ToLower(text) == [text EXCEPT !.lower = TRUE]
EqualFold(s, t) == ToLower(s) = ToLower(t)

Hex(contract) == Text(contract, contract \in DigitsOnly)

(* models.EventFilter *)
Filters == [contract : Contracts \cup {Any}, name : Names \cup {Any},
            from : Nat \cup {Any}, to : Nat \cup {Any},
            processed : BOOLEAN \cup {Any}, limit : Int, offset : Int]

Everything == [contract |-> Any, name |-> Any, from |-> Any, to |-> Any,
               processed |-> Any, limit |-> 0, offset |-> 0]

-----------------------------------------------------------------------------
(* ORDER BY block_number DESC, log_index ASC: no order between two rows of *)
(* one block number and index, which a fork leaves behind.                 *)
Before(d, e) ==
  \/ d.block > e.block
  \/ d.block = e.block /\ d.index < e.index

Ties(d, e) == d # e /\ d.block = e.block /\ d.index = e.index

(* What the first n rows may be. *)
Heads(rows, n) ==
  {head \in SUBSET rows :
     /\ Cardinality(head) = IF n < Cardinality(rows) THEN n ELSE Cardinality(rows)
     /\ \A d \in head, e \in rows \ head : ~Before(e, d)}

(* LIMIT limit OFFSET offset of the rows, in one of their orders. *)
Pages(rows, limit, offset) ==
  UNION {{head \ skipped : skipped \in {s \in Heads(rows, offset) : s \subseteq head}} :
           head \in Heads(rows, offset + limit)}

(* A clause is only added for a positive number. *)
Limit(f, rows) == IF f.limit > 0 THEN f.limit ELSE Cardinality(rows)
Offset(f) == IF f.offset > 0 THEN f.offset ELSE 0

Listed(f, rows) == Pages(rows, Limit(f, rows), Offset(f))
=============================================================================
