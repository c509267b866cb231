------------------------- MODULE RetryBackoff_proofs -------------------------
(***************************************************************************)
(* What calculateRetryDelay computes, for every base delay, cap and width. *)
(* Powers of two are a recursive function, so its equation and its type    *)
(* come first, by induction.                                               *)
(***************************************************************************)
EXTENDS RetryBackoff, FiniteSetTheorems, TLAPS

(* Induction over the naturals, for a set.  If x were left out, so would   *)
(* be the predecessor of each number left out below it; going down by one  *)
(* maps those numbers into themselves, one to one and so onto, but nothing *)
(* goes down to x.                                                         *)
LEMMA Induction ==
  ASSUME NEW S, 0 \in S, \A n \in Nat : n \in S => n + 1 \in S
  PROVE  Nat \subseteq S
<1> SUFFICES ASSUME NEW x \in Nat, x \notin S PROVE FALSE
  OBVIOUS
<1> DEFINE Out == {i \in 0 .. x : i \notin S}
           down == [i \in Out |-> i - 1]
<1>1. \A i \in Out : i - 1 \in Out
  <2> SUFFICES ASSUME NEW i \in Out PROVE i - 1 \in Out
    OBVIOUS
  <2>1. i \in Nat /\ i <= x /\ i # 0
    OBVIOUS
  <2>2. i - 1 \in Nat /\ (i - 1) + 1 = i
    BY <2>1
  <2>3. QED
    BY <2>1, <2>2
<1>2. IsFiniteSet(Out)
  <2>1. IsFiniteSet(0 .. x)
    BY FS_Interval
  <2>2. Out \in SUBSET (0 .. x)
    OBVIOUS
  <2>3. QED
    BY <2>1, <2>2, FS_Subset
<1>3. down \in Injection(Out, Out)
  <2>1. down \in [Out -> Out]
    BY <1>1
  <2>2. \A i, j \in Out : down[i] = down[j] => i = j
    OBVIOUS
  <2>3. QED
    BY <2>1, <2>2 DEF Injection, IsInjective
<1>4. down \in Surjection(Out, Out)
  BY <1>2, <1>3, FS_Injection
<1>5. PICK i \in Out : down[i] = x
  <2>1. x \in Out
    OBVIOUS
  <2> HIDE DEF down, Out
  <2>2. QED
    BY <1>4, <2>1 DEF Surjection
<1>6. QED
  BY <1>5
-----------------------------------------------------------------------------
(* The powers up to n, as a function. *)
Powers(n, h) ==
  /\ h \in [0 .. n -> Nat]
  /\ h[0] = 1
  /\ \A i \in 1 .. n : h[i] = 2 * h[i - 1]

LEMMA PowersExist == \A n \in Nat : \E h : Powers(n, h)
<1> DEFINE S == {n \in Nat : \E h : Powers(n, h)}
<1>1. 0 \in S
  <2>1. Powers(0, [i \in 0 .. 0 |-> 1])
    BY DEF Powers
  <2>2. QED
    BY <2>1
<1>2. ASSUME NEW n \in Nat, n \in S PROVE n + 1 \in S
  <2>1. PICK h : Powers(n, h)
    BY <1>2
  <2> DEFINE more == [i \in 0 .. n + 1 |-> IF i <= n THEN h[i] ELSE 2 * h[n]]
  <2>2. h[n] \in Nat /\ \A i \in 0 .. n : h[i] \in Nat
    BY <2>1 DEF Powers
  <2>3. more \in [0 .. n + 1 -> Nat] /\ more[0] = 1
    BY <2>1, <2>2 DEF Powers
  <2>4. ASSUME NEW i \in 1 .. n + 1 PROVE more[i] = 2 * more[i - 1]
    <3>1. i - 1 \in 0 .. n /\ i \in 0 .. n + 1 /\ more[i - 1] = h[i - 1]
      OBVIOUS
    <3>2. CASE i <= n
      <4>1. i \in 1 .. n
        BY <3>2
      <4>2. QED
        BY <2>1, <3>1, <3>2, <4>1 DEF Powers
    <3>3. CASE i = n + 1
      BY <3>1, <3>3
    <3>4. QED
      BY <3>2, <3>3
  <2>5. Powers(n + 1, more)
    BY <2>3, <2>4 DEF Powers
  <2>6. QED
    BY <2>5
<1>3. Nat \subseteq S
  <2> HIDE DEF S
  <2>1. QED
    BY <1>1, <1>2, Induction
<1>4. QED
  BY <1>3

LEMMA PowersAgree ==
  ASSUME NEW m \in Nat, NEW n \in Nat, NEW g, NEW h, Powers(m, g), Powers(n, h)
  PROVE  \A i \in Nat : i <= m /\ i <= n => g[i] = h[i]
<1> DEFINE S == {i \in Nat : i <= m /\ i <= n => g[i] = h[i]}
<1>1. 0 \in S
  BY DEF Powers
<1>2. ASSUME NEW i \in Nat, i \in S PROVE i + 1 \in S
  <2> SUFFICES ASSUME i + 1 <= m, i + 1 <= n PROVE g[i + 1] = h[i + 1]
    OBVIOUS
  <2>1. g[i] = h[i]
    BY <1>2
  <2>2. i + 1 \in 1 .. m /\ i + 1 \in 1 .. n /\ (i + 1) - 1 = i
    OBVIOUS
  <2>3. g[i + 1] = 2 * g[i] /\ h[i + 1] = 2 * h[i]
    BY <2>2 DEF Powers
  <2>4. QED
    BY <2>1, <2>3
<1>3. Nat \subseteq S
  <2> HIDE DEF S
  <2>1. QED
    BY <1>1, <1>2, Induction
<1>4. QED
  BY <1>3

LEMMA Power2Equation ==
  Power2 = [n \in Nat |-> IF n = 0 THEN 1 ELSE 2 * Power2[n - 1]]
<1> DEFINE upTo(n) == CHOOSE h : Powers(n, h)
           power == [n \in Nat |-> upTo(n)[n]]
<1>1. \A n \in Nat : Powers(n, upTo(n))
  BY PowersExist
<1>2. ASSUME NEW n \in Nat
      PROVE  power[n] = IF n = 0 THEN 1 ELSE 2 * power[n - 1]
  <2>1. CASE n = 0
    BY <1>1, <2>1 DEF Powers
  <2>2. CASE n # 0
    <3>1. n - 1 \in Nat /\ n \in 1 .. n
      BY <2>2
    <3>2. Powers(n, upTo(n)) /\ Powers(n - 1, upTo(n - 1))
      BY <1>1, <3>1
    <3> HIDE DEF upTo
    <3>3. upTo(n)[n - 1] = upTo(n - 1)[n - 1]
      BY <3>1, <3>2, PowersAgree
    <3>4. upTo(n)[n] = 2 * upTo(n)[n - 1]
      BY <3>1, <3>2 DEF Powers
    <3>5. QED
      BY <2>2, <3>1, <3>3, <3>4
  <2>3. QED
    BY <2>1, <2>2
<1>3. power = [n \in Nat |-> IF n = 0 THEN 1 ELSE 2 * power[n - 1]]
  <2> HIDE DEF upTo
  <2>1. power = [n \in Nat |-> power[n]]
    OBVIOUS
  <2> HIDE DEF power
  <2>2. QED
    BY <1>2, <2>1
<1>4. \E g : g = [n \in Nat |-> IF n = 0 THEN 1 ELSE 2 * g[n - 1]]
  <2> HIDE DEF power
  <2>1. QED
    BY <1>3
<1>5. QED
  BY <1>4 DEF Power2

LEMMA Power2Steps ==
  /\ Power2[0] = 1
  /\ \A n \in Nat : Power2[n + 1] = 2 * Power2[n]
<1>1. ASSUME NEW n \in Nat PROVE Power2[n] = IF n = 0 THEN 1 ELSE 2 * Power2[n - 1]
  <2> DEFINE body(i) == IF i = 0 THEN 1 ELSE 2 * Power2[i - 1]
  <2>1. Power2 = [i \in Nat |-> body(i)]
    BY Power2Equation
  <2> HIDE DEF body
  <2>2. Power2[n] = body(n)
    BY <2>1
  <2>3. QED
    BY <2>2 DEF body
<1>2. ASSUME NEW n \in Nat PROVE Power2[n + 1] = 2 * Power2[n]
  <2>1. n + 1 \in Nat /\ n + 1 # 0 /\ (n + 1) - 1 = n
    OBVIOUS
  <2>2. QED
    BY <1>1, <2>1
<1>3. QED
  BY <1>1, <1>2

LEMMA Power2Positive == \A n \in Nat : Power2[n] \in Nat \ {0}
<1> DEFINE S == {n \in Nat : Power2[n] \in Nat \ {0}}
<1>1. 0 \in S
  BY Power2Steps
<1>2. ASSUME NEW n \in Nat, n \in S PROVE n + 1 \in S
  <2>1. Power2[n] \in Nat \ {0} /\ Power2[n + 1] = 2 * Power2[n]
    BY <1>2, Power2Steps
  <2>2. QED
    BY <2>1
<1>3. Nat \subseteq S
  <2> HIDE DEF S
  <2>1. QED
    BY <1>1, <1>2, Induction
<1>4. QED
  BY <1>3

(* A power is no greater than a later one. *)
LEMMA Power2Grows ==
  ASSUME NEW m \in Nat, NEW n \in Nat, m <= n
  PROVE  Power2[m] <= Power2[n]
<1> DEFINE S == {d \in Nat : Power2[m] <= Power2[m + d]}
<1>1. 0 \in S
  BY Power2Positive
<1>2. ASSUME NEW d \in Nat, d \in S PROVE d + 1 \in S
  <2>1. m + d \in Nat /\ m + (d + 1) = (m + d) + 1
    OBVIOUS
  <2>2. Power2[m + (d + 1)] = 2 * Power2[m + d]
    BY <2>1, Power2Steps
  <2>3. Power2[m] \in Nat /\ Power2[m + d] \in Nat /\ Power2[m] <= Power2[m + d]
    BY <1>2, <2>1, Power2Positive
  <2>4. QED
    BY <2>2, <2>3
<1>3. n - m \in Nat /\ m + (n - m) = n
  OBVIOUS
<1>4. Nat \subseteq S
  <2> HIDE DEF S
  <2>1. QED
    BY <1>1, <1>2, Induction
<1>5. QED
  BY <1>3, <1>4
-----------------------------------------------------------------------------
LEMMA Constants ==
  /\ Width \in Nat /\ Width - 1 \in Nat /\ (Width - 1) + 1 = Width
  /\ BaseDelay \in Nat /\ MaxDelay \in Nat
BY BackoffAssumption

(* A number below the sign bit is what it was. *)
LEMMA WrapIsIdentity ==
  ASSUME NEW n \in Nat, n < Power2[Width - 1]
  PROVE  Wrap(n) = n
<1>1. Power2[Width] = 2 * Power2[Width - 1] /\ Power2[Width - 1] \in Nat
  BY Constants, Power2Steps, Power2Positive
<1>2. n < Power2[Width] /\ Power2[Width] \in Nat
  BY <1>1
<1>3. n % Power2[Width] = n
  BY <1>2
<1>4. QED
  BY <1>3 DEF Wrap

(* Without overflow an attempt's shift is its product. *)
LEMMA ShiftIsProduct ==
  ASSUME NEW n \in Nat, NoOverflow(n), NEW attempt \in 2 .. n
  PROVE  /\ ShiftLeft(BaseDelay, attempt - 2) = BaseDelay * Power2[attempt - 2]
         /\ BaseDelay * Power2[attempt - 2] \in Nat
<1>1. attempt - 2 \in Nat /\ n - 2 \in Nat /\ attempt - 2 <= n - 2 /\ n >= 2
  OBVIOUS
<1>2. /\ Power2[attempt - 2] \in Nat /\ Power2[n - 2] \in Nat
      /\ Power2[attempt - 2] <= Power2[n - 2]
  BY <1>1, Power2Positive, Power2Grows
<1>3. /\ BaseDelay * Power2[attempt - 2] \in Nat
      /\ BaseDelay * Power2[attempt - 2] <= BaseDelay * Power2[n - 2]
      /\ BaseDelay * Power2[n - 2] \in Nat
  <2> DEFINE a == Power2[attempt - 2]  b == Power2[n - 2]
  <2>1. a \in Nat /\ b \in Nat /\ a <= b /\ BaseDelay \in Nat
    BY <1>2, Constants
  <2> HIDE DEF a, b
  <2>2. BaseDelay * a \in Nat /\ BaseDelay * b \in Nat /\ BaseDelay * a <= BaseDelay * b
    BY <2>1
  <2>3. QED
    BY <2>2 DEF a, b
<1>4. BaseDelay * Power2[n - 2] < Power2[Width - 1] /\ Power2[Width - 1] \in Nat
  BY <1>1, Constants, Power2Positive DEF NoOverflow
<1>5. BaseDelay * Power2[attempt - 2] < Power2[Width - 1]
  BY <1>3, <1>4
<1>6. QED
  BY <1>3, <1>5, WrapIsIdentity DEF ShiftLeft

(* In the code the first pause is the base delay, each further one twice   *)
(* the one before, up to the cap, and none is left out where a delay is    *)
(* configured, as long as the shift does not overflow                      *)
(* (calculateRetryDelay).                                                  *)
THEOREM DelaysDouble ==
  ASSUME NEW n \in Nat, NoOverflow(n), NEW attempt \in 2 .. n
  PROVE  /\ CalculateRetryDelay(attempt) \in 0 .. MaxDelay
         /\ BaseDelay > 0 /\ MaxDelay > 0 => CalculateRetryDelay(attempt) > 0
         /\ attempt = 2 => CalculateRetryDelay(attempt) = Capped
         /\ attempt > 2 =>
              CalculateRetryDelay(attempt) = Doubled(CalculateRetryDelay(attempt - 1))
<1> DEFINE product(i) == BaseDelay * Power2[i - 2]
<1>1. \A i \in 2 .. n : /\ product(i) \in Nat
                        /\ CalculateRetryDelay(i) =
                             IF product(i) > MaxDelay THEN MaxDelay ELSE product(i)
  BY ShiftIsProduct DEF CalculateRetryDelay
<1>2. CalculateRetryDelay(attempt) \in 0 .. MaxDelay
  <2> HIDE DEF product
  <2>1. QED
    BY <1>1, Constants
<1>3. ASSUME attempt = 2 PROVE CalculateRetryDelay(attempt) = Capped
  <2>1. product(attempt) = BaseDelay
    BY <1>3, Constants, Power2Steps
  <2>2. QED
    BY <1>1, <2>1 DEF Capped
<1>4. ASSUME attempt > 2
      PROVE  CalculateRetryDelay(attempt) = Doubled(CalculateRetryDelay(attempt - 1))
  <2>1. attempt - 1 \in 2 .. n /\ (attempt - 1) - 2 \in Nat
        /\ ((attempt - 1) - 2) + 1 = attempt - 2
    BY <1>4
  <2>2. Power2[attempt - 2] = 2 * Power2[(attempt - 1) - 2]
        /\ Power2[(attempt - 1) - 2] \in Nat
    BY <2>1, Power2Steps, Power2Positive
  <2>3. product(attempt) = 2 * product(attempt - 1)
    <3> DEFINE a == Power2[attempt - 2]  b == Power2[(attempt - 1) - 2]
    <3>1. a = 2 * b /\ b \in Nat /\ BaseDelay \in Nat
      BY <2>2, Constants
    <3> HIDE DEF a, b
    <3>2. BaseDelay * a = 2 * (BaseDelay * b)
      BY <3>1
    <3>3. QED
      BY <3>2 DEF a, b
  <2>4. QED
    <3> HIDE DEF product
    <3>1. QED
      BY <1>1, <2>1, <2>3, Constants DEF Doubled
<1>5. ASSUME BaseDelay > 0, MaxDelay > 0
      PROVE  CalculateRetryDelay(attempt) > 0
  <2>1. product(attempt) > 0
    <3> DEFINE a == Power2[attempt - 2]
    <3>1. a \in Nat \ {0} /\ BaseDelay \in Nat \ {0}
      BY <1>5, Constants, Power2Positive
    <3> HIDE DEF a
    <3>2. BaseDelay * a > 0
      BY <3>1
    <3>3. QED
      BY <3>2 DEF a
  <2>2. QED
    <3> HIDE DEF product
    <3>1. QED
      BY <1>1, <1>5, <2>1, Constants
<1>6. QED
  BY <1>2, <1>3, <1>4, <1>5

(* The code is one attempt behind its comment: before every attempt the    *)
(* pause of the comment is twice that of the code, up to the cap           *)
(* (calculateRetryDelay).                                                  *)
THEOREM CommentDoublesTheDelay ==
  ASSUME NEW n \in Nat, NoOverflow(n + 1), NEW attempt \in 2 .. n
  PROVE  CommentedDelay(attempt) = Doubled(CalculateRetryDelay(attempt))
<1>1. /\ n + 1 \in Nat /\ attempt + 1 \in 2 .. n + 1 /\ attempt + 1 > 2
      /\ (attempt + 1) - 1 = attempt /\ (attempt + 1) - 2 = attempt - 1
  OBVIOUS
<1>2. CalculateRetryDelay(attempt + 1) = Doubled(CalculateRetryDelay((attempt + 1) - 1))
  BY <1>1, DelaysDouble
<1>3. CalculateRetryDelay(attempt + 1) = CommentedDelay(attempt)
  BY <1>1 DEF CalculateRetryDelay, CommentedDelay
<1>4. QED
  BY <1>1, <1>2, <1>3

(* The sum of exponents.                                                   *)
LEMMA Power2Sum ==
  \A m, n \in Nat : Power2[m + n] = Power2[m] * Power2[n]
<1> SUFFICES ASSUME NEW m \in Nat
             PROVE  \A n \in Nat : Power2[m + n] = Power2[m] * Power2[n]
  OBVIOUS
<1> DEFINE S == {n \in Nat : Power2[m + n] = Power2[m] * Power2[n]}
<1>1. 0 \in S
  BY Power2Steps, Power2Positive
<1>2. ASSUME NEW n \in Nat, n \in S PROVE n + 1 \in S
  <2>1. m + n \in Nat /\ m + (n + 1) = (m + n) + 1
    OBVIOUS
  <2>2. Power2[m + (n + 1)] = 2 * Power2[m + n] /\ Power2[n + 1] = 2 * Power2[n]
    BY <2>1, Power2Steps
  <2> DEFINE a == Power2[m]  b == Power2[n]
  <2>3. a \in Nat /\ b \in Nat
    BY Power2Positive
  <2>4. 2 * (a * b) = a * (2 * b)
    <3> HIDE DEF a, b
    <3>1. QED
      BY <2>3
  <2>5. QED
    BY <1>2, <2>2, <2>4
<1>3. Nat \subseteq S
  <2> HIDE DEF S
  <2>1. QED
    BY <1>1, <1>2, Induction
<1>4. QED
  BY <1>3

LEMMA MultipleOfModulus ==
  ASSUME NEW n \in Nat, NEW m \in Nat \ {0}
  PROVE  (n * m) % m = 0
BY Z3

(* With more attempts than bits the shift loses every bit, and the pause   *)
(* before the attempt is none: the cap, which comes after the shift, does  *)
(* not help (calculateRetryDelay).                                         *)
THEOREM ManyAttemptsPauseNot ==
  ASSUME NEW attempt \in Nat, attempt >= Width + 2
  PROVE  CalculateRetryDelay(attempt) = 0
<1> DEFINE more == attempt - 2 - Width
           word == Power2[Width]
           rest == BaseDelay * Power2[more]
<1>1. more \in Nat /\ attempt - 2 = more + Width
  BY Constants
<1>2. Power2[attempt - 2] = Power2[more] * word
  BY <1>1, Constants, Power2Sum
<1>3. word \in Nat \ {0} /\ Power2[more] \in Nat
  BY <1>1, Constants, Power2Positive
<1>4. rest \in Nat /\ BaseDelay * Power2[attempt - 2] = rest * word
  <2> DEFINE a == Power2[more]
  <2>1. a \in Nat /\ word \in Nat /\ BaseDelay \in Nat
    BY <1>3, Constants
  <2> HIDE DEF a, word
  <2>2. BaseDelay * a \in Nat /\ BaseDelay * (a * word) = (BaseDelay * a) * word
    BY <2>1
  <2>3. QED
    BY <1>2, <2>2 DEF a
<1>5. (rest * word) % word = 0
  <2> HIDE DEF rest, word
  <2>1. QED
    BY <1>3, <1>4, MultipleOfModulus
<1>6. Power2[Width - 1] \in Nat \ {0}
  BY Constants, Power2Positive
<1>7. ShiftLeft(BaseDelay, attempt - 2) = 0
  BY <1>4, <1>5, <1>6 DEF ShiftLeft, Wrap
<1>8. QED
  BY <1>7, Constants DEF CalculateRetryDelay
=============================================================================
