---------------------------- MODULE RetryBackoff ----------------------------
(***************************************************************************)
(* calculateRetryDelay of the webhook sender: an int64 that is shifted, so *)
(* that bits fall off at the left and the highest is the sign.             *)
(***************************************************************************)
EXTENDS Integers

CONSTANTS
  Width,      \* bits of a time.Duration: 64
  BaseDelay,  \* notifications.retry_delay
  MaxDelay    \* 30 seconds

ASSUME BackoffAssumption ==
  /\ Width \in Nat /\ Width >= 2
  /\ BaseDelay \in Nat /\ MaxDelay \in Nat

Power2[n \in Nat] == IF n = 0 THEN 1 ELSE 2 * Power2[n - 1]

(* The signed number of Width bits that is congruent to n. *)
Wrap(n) ==
  LET bits == n % Power2[Width]
  IN  IF bits < Power2[Width - 1] THEN bits ELSE bits - Power2[Width]

ShiftLeft(n, by) == Wrap(n * Power2[by])

(* Mutant: the cap comes before the shift. *)
CalculateRetryDelayCappedFirst(attempt) ==
  LET delay == IF BaseDelay > MaxDelay THEN MaxDelay ELSE BaseDelay
  IN  ShiftLeft(delay, attempt - 2)

(* The cap comes after the shift.  attempt is 2 or more. *)
CalculateRetryDelay(attempt) ==
  LET delay == ShiftLeft(BaseDelay, attempt - 2)
  IN  IF delay > MaxDelay THEN MaxDelay ELSE delay

(* The comment above the line has base_delay * 2^(attempt-1).              *)
CommentedDelay(attempt) ==
  LET delay == ShiftLeft(BaseDelay, attempt - 1)
  IN  IF delay > MaxDelay THEN MaxDelay ELSE delay

(* Twice the delay, up to the cap; the base delay, up to the cap.          *)
Doubled(delay) == IF 2 * delay > MaxDelay THEN MaxDelay ELSE 2 * delay

Capped == IF BaseDelay > MaxDelay THEN MaxDelay ELSE BaseDelay

(* No pause before attempt n overflows. *)
NoOverflow(n) == n >= 2 => BaseDelay * Power2[n - 2] < Power2[Width - 1]
=============================================================================
