------------------------------ MODULE BlockScan ------------------------------
(***************************************************************************)
(* What the monitor promises of the chain it follows: it attempts the      *)
(* confirmed blocks in order, none left out, and its cursor only ever      *)
(* moves forward over attempted blocks until it has caught up.             *)
(***************************************************************************)
EXTENDS Integers

VARIABLES
  confirmed,   \* the number of the last block with enough confirmations
  attempted,   \* the blocks ProcessBlock has returned for
  cursor       \* the latest processed block

scan == <<confirmed, attempted, cursor>>

Init ==
  /\ confirmed \in Nat
  /\ attempted = {}
  /\ cursor = 0

Confirm ==
  /\ confirmed' \in Nat
  /\ confirmed' >= confirmed
  /\ UNCHANGED <<attempted, cursor>>

(* A block is attempted once it is confirmed and its predecessors have     *)
(* been attempted.                                                         *)
Attempt(n) ==
  /\ n <= confirmed
  /\ 1 .. (n - 1) \subseteq attempted
  /\ attempted' = attempted \cup {n}
  /\ UNCHANGED <<confirmed, cursor>>

Advance ==
  /\ cursor' \in (cursor + 1) .. confirmed
  /\ 1 .. cursor' \subseteq attempted
  /\ UNCHANGED <<confirmed, attempted>>

Next ==
  \/ Confirm
  \/ \E n \in 1 .. confirmed : Attempt(n)
  \/ Advance

Safety == Init /\ [][Next]_scan

(* A confirmed block is not left unattempted for ever, nor the cursor      *)
(* behind the attempted blocks.                                            *)
Liveness ==
  /\ WF_scan(\E n \in 1 .. confirmed : n \notin attempted /\ Attempt(n))
  /\ WF_scan(Advance)

Spec == Safety /\ Liveness
=============================================================================
