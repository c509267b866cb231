--------------------- MODULE NotificationDelivery_proofs ---------------------
(***************************************************************************)
(* Proofs about deliveries, for any finite set of callers, any orders and  *)
(* any number of attempts in both layers of retries.  What is behind them: *)
(* at each place of a delivery, what the servers have got and said so far  *)
(* (Fine), and who has been counted by the manager only (Uncounted).       *)
(***************************************************************************)
EXTENDS NotificationDelivery, RetryBackoff_proofs

Succeeded(r) == r.pc \in {"account", "count", "returned", "ok"} /\ ~r.error

Done(r, type) == Succeeded(r) /\ r.order.type = type

(* The requests of the rounds that are over, and of the current one.       *)
InRound(r) ==
  IF r.pc \in {"idle", "execute", "backoff"} THEN 0
  ELSE IF r.pc \in {"send", "pause"} THEN r.attempt - 1
  ELSE IF r.pc = "wait" THEN r.attempt
  ELSE RetryAttempts

Rounds(r) == RetryAttempts * r.round

Placed(r) ==
  /\ r.pc \in {"send", "wait", "pause"} => r.order.type = "webhook" /\ r.attempt >= 1
  /\ r.pc = "pause" => r.attempt >= 2
  /\ r.pc \in {"smtp", "close"} => r.order.type = "email"
  /\ r.pc = "account" => r.order.via # "webhook action"
  /\ r.pc = "count" => ~r.error /\ r.order.via = "notify action"
  /\ r.pc = "ok" => ~r.error
  /\ r.pc = "idle" \/ r.order.via = "test request" => r.round = 0

(* A caller whose record is r: the requests it sent, those that were       *)
(* answered, the emails that were accepted.                                *)
Fine(r, sent, answers, copies) ==
  /\ Placed(r)
  /\ sent <= Rounds(r) + InRound(r)
  /\ answers = IF Done(r, "webhook") THEN 1 ELSE 0
  /\ copies <= IF Done(r, "email") THEN 1 ELSE 0

AllFine == \A c \in Callers : Fine(call[c], requests[c], answered[c], accepted[c])

Uncounted(r) ==
  \/ r.pc = "count"
  \/ r.pc \in {"returned", "ok"} /\ ~r.error /\ r.order.via = "test request"

Waiting == {c \in Callers : Uncounted(call[c])}

CountInv == stats.sent - stats.failed = notified + Cardinality(Waiting)

IInv == TypeOK /\ AllFine /\ CountInv
-----------------------------------------------------------------------------
LEMMA Numbers == RetryAttempts \in Nat /\ MaxAttempts \in Nat
BY DeliveryAssumption

LEMMA Products ==
  ASSUME NEW n \in Nat
  PROVE  /\ RetryAttempts * n \in Nat
         /\ RetryAttempts * (n + 1) = RetryAttempts * n + RetryAttempts
         /\ RetryAttempts * 0 = 0
BY Numbers

LEMMA InitIInv == Init => IInv
<1> SUFFICES ASSUME Init PROVE IInv
  OBVIOUS
<1>1. NoCall \in Calls
  BY Numbers DEF NoCall, Calls, Places
<1>2. TypeOK
  BY <1>1 DEF Init, TypeOK, NoCall, At, Order
<1>3. AllFine
  <2> SUFFICES ASSUME NEW c \in Callers
               PROVE  Fine(call[c], requests[c], answered[c], accepted[c])
    BY DEF AllFine
  <2>1. call[c] = NoCall /\ requests[c] = 0 /\ answered[c] = 0 /\ accepted[c] = 0
    BY DEF Init
  <2>2. Rounds(NoCall) + InRound(NoCall) = 0
    BY Numbers, Products DEF Rounds, InRound, NoCall
  <2>3. QED
    BY <2>1, <2>2 DEF Fine, Placed, Done, Succeeded, NoCall
<1>4. Waiting = {}
  BY DEF Init, Waiting, Uncounted, NoCall
<1>5. CountInv
  BY <1>4, FS_EmptySet DEF Init, CountInv
<1>6. QED
  BY <1>2, <1>3, <1>5 DEF IInv

(* What one step of a caller preserves, given what it does to the caller.  *)
LEMMA CallerMoves ==
  ASSUME IInv, NEW c \in Callers, NEW new \in Calls,
         new.order \in Orders, new.pc # "idle",
         call' = [call EXCEPT ![c] = new],
         ended' \subseteq Callers,
         reached' \subseteq reached \cup {c},
         c \in reached' => new.pc = "wait",
         stats' \in [sent : Nat, failed : Nat, active : Nat],
         notified' \in Nat, manager' = manager,
         NEW sent \in Nat, requests' = [requests EXCEPT ![c] = sent],
         NEW answers \in Nat, answered' = [answered EXCEPT ![c] = answers],
         NEW copies \in Nat, accepted' = [accepted EXCEPT ![c] = copies],
         Fine(new, sent, answers, copies)
  PROVE  TypeOK' /\ AllFine'
<1>1. TypeOK
  BY DEF IInv
<1>2. call' \in [Callers -> Calls] /\ call'[c] = new
  BY <1>1 DEF TypeOK
<1>3. \A d \in Callers \ {c} : call'[d] = call[d]
  BY <1>1 DEF TypeOK
<1>4. \A d \in Callers : (call'[d].pc = "idle") <=> (call'[d].order = None)
  BY <1>1, <1>2, <1>3, DeliveryAssumption DEF TypeOK, At, Order
<1>5. reached' \subseteq {d \in Callers : call'[d].pc = "wait"}
  BY <1>1, <1>2, <1>3 DEF TypeOK, At
<1>6. /\ requests' \in [Callers -> Nat] /\ answered' \in [Callers -> Nat]
      /\ accepted' \in [Callers -> Nat] /\ manager' \in [running : BOOLEAN, channels : SUBSET Channels]
  BY <1>1 DEF TypeOK
<1>7. TypeOK'
  BY <1>2, <1>4, <1>5, <1>6 DEF TypeOK, At, Order
<1>8. ASSUME NEW d \in Callers
      PROVE  Fine(call'[d], requests'[d], answered'[d], accepted'[d])
  <2>1. CASE d = c
    BY <1>1, <1>2, <2>1 DEF TypeOK
  <2>2. CASE d # c
    <3>1. /\ call'[d] = call[d] /\ requests'[d] = requests[d]
          /\ answered'[d] = answered[d] /\ accepted'[d] = accepted[d]
      BY <1>1, <1>3, <2>2 DEF TypeOK
    <3>2. QED
      BY <3>1 DEF IInv, AllFine
  <2>3. QED
    BY <2>1, <2>2
<1>9. QED
  BY <1>7, <1>8 DEF AllFine

(* The callers that are counted on one side only, after such a step.       *)
LEMMA WaitingFinite == IsFiniteSet(Waiting) /\ Cardinality(Waiting) \in Nat
BY DeliveryAssumption, FS_Subset, FS_CardinalityType DEF Waiting

LEMMA SameWaiting ==
  ASSUME IInv, NEW c \in Callers, NEW new, call' = [call EXCEPT ![c] = new],
         Uncounted(new) <=> Uncounted(call[c]), UNCHANGED counters
  PROVE  CountInv'
<1>1. Waiting' = Waiting
  BY DEF IInv, TypeOK, Waiting
<1>2. QED
  BY <1>1 DEF IInv, CountInv, counters

LEMMA NextWaits ==
  ASSUME IInv, NEW c \in Callers, NEW new, call' = [call EXCEPT ![c] = new],
         Uncounted(new), ~Uncounted(call[c])
  PROVE  Cardinality(Waiting') = Cardinality(Waiting) + 1
<1>1. Waiting' = Waiting \cup {c} /\ c \notin Waiting
  BY DEF IInv, TypeOK, Waiting
<1>2. QED
  BY <1>1, WaitingFinite, FS_AddElement

LEMMA OneCounted ==
  ASSUME IInv, NEW c \in Callers, NEW new, call' = [call EXCEPT ![c] = new],
         ~Uncounted(new), Uncounted(call[c])
  PROVE  Cardinality(Waiting') = Cardinality(Waiting) - 1
<1>1. Waiting' = Waiting \ {c} /\ c \in Waiting
  BY DEF IInv, TypeOK, Waiting
<1>2. QED
  BY <1>1, WaitingFinite, FS_RemoveElement
-----------------------------------------------------------------------------
(* The steps.  Most of them change one record and nothing that is counted. *)

LEMMA CallFields ==
  ASSUME NEW r \in Calls
  PROVE  /\ r.order \in Orders \cup {None} /\ r.pc \in Places
         /\ r.round \in Nat /\ r.round <= MaxAttempts
         /\ r.attempt \in Nat /\ r.attempt <= RetryAttempts
         /\ r.step \in Nat /\ r.error \in BOOLEAN
<1>1. /\ r.order \in Orders \cup {None} /\ r.pc \in Places
      /\ r.round \in 0 .. MaxAttempts /\ r.attempt \in 0 .. RetryAttempts
      /\ r.step \in Nat /\ r.error \in BOOLEAN
  BY DEF Calls
<1>2. QED
  BY <1>1, Numbers

LEMMA CallFacts ==
  ASSUME IInv, NEW c \in Callers
  PROVE  /\ call[c] \in Calls /\ call \in [Callers -> Calls]
         /\ call[c].pc # "idle" => call[c].order \in Orders
         /\ Fine(call[c], requests[c], answered[c], accepted[c])
         /\ requests[c] \in Nat /\ answered[c] \in Nat /\ accepted[c] \in Nat
         /\ requests = [requests EXCEPT ![c] = requests[c]]
         /\ answered = [answered EXCEPT ![c] = answered[c]]
         /\ accepted = [accepted EXCEPT ![c] = accepted[c]]
         /\ Rounds(call[c]) \in Nat
<1>1. /\ call[c] \in Calls /\ call \in [Callers -> Calls]
      /\ requests \in [Callers -> Nat] /\ answered \in [Callers -> Nat]
      /\ accepted \in [Callers -> Nat]
      /\ (call[c].pc = "idle") <=> (call[c].order = None)
  BY DEF IInv, TypeOK, At, Order
<1>2. call[c].order \in Orders \cup {None} /\ call[c].round \in Nat
  BY <1>1, Numbers DEF Calls
<1>3. Rounds(call[c]) \in Nat
  BY <1>2, Products DEF Rounds
<1>4. QED
  BY <1>1, <1>2, <1>3 DEF IInv, AllFine

(* A step of the caller that no server sees.                               *)
LEMMA QuietStep ==
  ASSUME IInv, NEW c \in Callers, NEW new \in Calls,
         new.order \in Orders, new.pc # "idle",
         call' = [call EXCEPT ![c] = new],
         ended' = ended, reached' \subseteq reached,
         c \in reached' => new.pc = "wait",
         UNCHANGED <<counters, manager, history>>,
         Uncounted(new) <=> Uncounted(call[c]),
         Fine(new, requests[c], answered[c], accepted[c])
  PROVE  IInv'
<1>1. /\ stats' \in [sent : Nat, failed : Nat, active : Nat] /\ notified' \in Nat
      /\ ended' \subseteq Callers /\ manager' = manager
  BY DEF IInv, TypeOK, counters
<1>2. /\ requests' = [requests EXCEPT ![c] = requests[c]]
      /\ answered' = [answered EXCEPT ![c] = answered[c]]
      /\ accepted' = [accepted EXCEPT ![c] = accepted[c]]
      /\ requests[c] \in Nat /\ answered[c] \in Nat /\ accepted[c] \in Nat
  BY CallFacts DEF history
<1>3. TypeOK' /\ AllFine'
  BY <1>1, <1>2, CallerMoves
<1>4. CountInv'
  BY SameWaiting
<1>5. QED
  BY <1>3, <1>4 DEF IInv

LEMMA FailedReturn ==
  ASSUME IInv, NEW c \in Callers,
         call[c].pc \in {"execute", "send", "wait", "pause", "smtp"},
         Return(c, TRUE), ended' = ended, reached' \subseteq reached \ {c},
         UNCHANGED <<counters, manager, history>>
  PROVE  IInv'
<1> DEFINE place == IF Order(c).via = "webhook action" THEN "returned" ELSE "account"
           new == [call[c] EXCEPT !.pc = place, !.error = TRUE]
<1>1. /\ call[c] \in Calls /\ call \in [Callers -> Calls] /\ call[c].order \in Orders
      /\ Fine(call[c], requests[c], answered[c], accepted[c])
      /\ requests[c] \in Nat /\ answered[c] \in Nat /\ accepted[c] \in Nat
  BY CallFacts
<1>2. /\ new \in Calls /\ new.order \in Orders
      /\ new.pc = place /\ new.error = TRUE /\ new.order = call[c].order
      /\ new.round = call[c].round
      /\ call' = [call EXCEPT ![c] = new]
  BY <1>1 DEF Return, Calls, Places
<1>3. /\ place \in {"returned", "account"}
      /\ place = "account" => call[c].order.via # "webhook action"
  BY DEF Order
<1> HIDE DEF place, new
<1>4. InRound(call[c]) <= RetryAttempts /\ InRound(new) = RetryAttempts
  <2>1. call[c].attempt \in Nat /\ call[c].attempt <= RetryAttempts
    BY <1>1, CallFields
  <2>2. InRound(new) = RetryAttempts
    BY <1>2, <1>3 DEF InRound
  <2>3. InRound(call[c]) <= RetryAttempts
    BY <2>1, Numbers DEF InRound
  <2>4. QED
    BY <2>2, <2>3
<1>5. Rounds(new) = Rounds(call[c]) /\ Rounds(new) \in Nat /\ InRound(call[c]) \in Int
  BY <1>1, <1>2, CallFacts, Numbers DEF Rounds, InRound, Calls
<1>6. ~Succeeded(call[c]) /\ ~Succeeded(new) /\ ~Uncounted(call[c]) /\ ~Uncounted(new)
  BY <1>2, <1>3 DEF Succeeded, Uncounted
<1>7. Placed(new)
  BY <1>1, <1>2, <1>3 DEF Placed, Fine
<1>8. Fine(new, requests[c], answered[c], accepted[c])
  BY <1>1, <1>4, <1>5, <1>6, <1>7, Numbers DEF Fine, Done
<1>9. QED
  BY <1>2, <1>3, <1>6, <1>8, QuietStep

LEMMA FailedAttempt ==
  ASSUME IInv, NEW c \in Callers, call[c].pc \in {"send", "wait"},
         AttemptFailed(c), ended' = ended, reached' \subseteq reached \ {c},
         UNCHANGED <<counters, manager, history>>
  PROVE  IInv'
<1>1. CASE call[c].attempt < RetryAttempts
  <2> DEFINE new == [call[c] EXCEPT !.pc = "pause", !.attempt = call[c].attempt + 1]
  <2>1. /\ call[c] \in Calls /\ call \in [Callers -> Calls] /\ call[c].order \in Orders
        /\ Fine(call[c], requests[c], answered[c], accepted[c])
        /\ requests[c] \in Nat /\ answered[c] \in Nat /\ accepted[c] \in Nat
    BY CallFacts
  <2>2. /\ new \in Calls /\ new.order \in Orders
        /\ new.pc = "pause" /\ new.attempt = call[c].attempt + 1
        /\ new.order = call[c].order /\ new.round = call[c].round
        /\ call' = [call EXCEPT ![c] = new]
    <3>1. call[c].attempt + 1 \in 0 .. RetryAttempts
      BY <1>1, <2>1, Numbers, CallFields
    <3>2. QED
      BY <1>1, <2>1, <3>1 DEF AttemptFailed, Calls, Places
  <2> HIDE DEF new
  <2>3. InRound(call[c]) <= InRound(new) /\ InRound(call[c]) \in Int /\ InRound(new) \in Int
    BY <2>1, <2>2, Numbers, CallFields DEF InRound
  <2>4. Rounds(new) = Rounds(call[c]) /\ Rounds(new) \in Nat
    BY <2>2, CallFacts DEF Rounds
  <2>5. ~Succeeded(call[c]) /\ ~Succeeded(new) /\ ~Uncounted(call[c]) /\ ~Uncounted(new)
    BY <2>2 DEF Succeeded, Uncounted
  <2>6. Placed(new)
    <3>1. call[c].attempt \in Nat
      BY <2>1, CallFields
    <3>2. Placed(call[c])
      BY <2>1 DEF Fine
    <3>3. new.order.type = "webhook"
      BY <2>2, <3>2 DEF Placed
    <3>4. new.attempt >= 2
      <4>1. call[c].attempt >= 1
        BY <3>2 DEF Placed
      <4>2. QED
        BY <2>2, <3>1, <4>1
    <3>5. new.order.via = "test request" => new.round = 0
      BY <2>2, <3>2 DEF Placed
    <3>6. new.attempt >= 1
      BY <2>2, <3>1, <3>4
    <3>7. QED
      BY <2>2, <3>3, <3>4, <3>5, <3>6 DEF Placed
  <2>7. Fine(new, requests[c], answered[c], accepted[c])
    BY <2>1, <2>3, <2>4, <2>5, <2>6 DEF Fine, Done
  <2>8. QED
    BY <2>2, <2>5, <2>7, QuietStep
<1>2. CASE ~(call[c].attempt < RetryAttempts)
  BY <1>2, FailedReturn DEF AttemptFailed
<1>3. QED
  BY <1>1, <1>2

(* A step that moves the caller, and nothing else in its record, between   *)
(* places that say the same of the servers.                                *)
LEMMA Moved ==
  ASSUME IInv, NEW c \in Callers, NEW place \in Places \ {"idle"}, Goto(c, place),
         call[c].pc # "idle",
         ended' = ended, reached' \subseteq reached \ {c},
         UNCHANGED <<counters, manager, history>>,
         Uncounted([call[c] EXCEPT !.pc = place]) <=> Uncounted(call[c]),
         Placed([call[c] EXCEPT !.pc = place]),
         InRound(call[c]) <= InRound([call[c] EXCEPT !.pc = place]),
         Succeeded([call[c] EXCEPT !.pc = place]) <=> Succeeded(call[c])
  PROVE  IInv'
<1> DEFINE new == [call[c] EXCEPT !.pc = place]
<1>1. /\ call[c] \in Calls /\ call \in [Callers -> Calls] /\ call[c].order \in Orders
      /\ Fine(call[c], requests[c], answered[c], accepted[c])
      /\ requests[c] \in Nat /\ answered[c] \in Nat /\ accepted[c] \in Nat
  BY CallFacts
<1>2. /\ new \in Calls /\ new.order \in Orders /\ new.pc = place
      /\ new.order = call[c].order /\ new.round = call[c].round
      /\ call' = [call EXCEPT ![c] = new]
  BY <1>1 DEF Goto, Calls
<1> HIDE DEF new
<1>3. /\ Uncounted(new) <=> Uncounted(call[c])
      /\ Placed(new) /\ InRound(call[c]) <= InRound(new)
      /\ Succeeded(new) <=> Succeeded(call[c])
  BY DEF new
<1>4. InRound(call[c]) \in Int /\ InRound(new) \in Int
  BY <1>1, <1>2, Numbers, CallFields DEF InRound
<1>5. Rounds(new) = Rounds(call[c]) /\ Rounds(new) \in Nat
  BY <1>2, CallFacts DEF Rounds
<1>6. Fine(new, requests[c], answered[c], accepted[c])
  BY <1>1, <1>2, <1>3, <1>4, <1>5 DEF Fine, Done
<1>7. QED
  BY <1>2, <1>3, <1>6, QuietStep

(* Begin, Dispatch, and the steps to and from a pause.                     *)
LEMMA BeginStep ==
  ASSUME IInv, NEW c \in Callers, NEW order \in Orders, Begin(c, order)
  PROVE  IInv'
<1> DEFINE new == [call[c] EXCEPT !.pc = "execute", !.order = order]
<1>1. /\ call[c] \in Calls /\ call \in [Callers -> Calls]
      /\ Fine(call[c], requests[c], answered[c], accepted[c])
      /\ requests[c] \in Nat /\ answered[c] \in Nat /\ accepted[c] \in Nat
      /\ c \notin reached
  BY CallFacts DEF Begin, At, IInv, TypeOK
<1>2. /\ new \in Calls /\ new.order \in Orders /\ new.pc = "execute"
      /\ new.round = call[c].round
      /\ call' = [call EXCEPT ![c] = new]
  BY <1>1 DEF Begin, Calls, Places
<1>3. call[c].pc = "idle"
  BY DEF Begin, At
<1> HIDE DEF new
<1>4. ~Succeeded(call[c]) /\ ~Succeeded(new) /\ ~Uncounted(call[c]) /\ ~Uncounted(new)
  BY <1>2, <1>3 DEF Succeeded, Uncounted
<1>5. Rounds(new) = Rounds(call[c]) /\ InRound(new) = 0 /\ InRound(call[c]) = 0
  BY <1>2, <1>3 DEF Rounds, InRound
<1>6. Placed(new)
  BY <1>1, <1>2, <1>3 DEF Placed, Fine
<1>7. Fine(new, requests[c], answered[c], accepted[c])
  BY <1>1, <1>4, <1>5, <1>6 DEF Fine, Done
<1>8. QED
  BY <1>1, <1>2, <1>4, <1>7, QuietStep DEF Begin

LEMMA DispatchStep ==
  ASSUME IInv, NEW c \in Callers, Dispatch(c)
  PROVE  IInv'
<1>1. /\ call[c] \in Calls /\ call \in [Callers -> Calls] /\ call[c].order \in Orders
      /\ Fine(call[c], requests[c], answered[c], accepted[c])
      /\ requests[c] \in Nat /\ answered[c] \in Nat /\ accepted[c] \in Nat
      /\ c \notin reached /\ call[c].pc = "execute"
      /\ UNCHANGED <<counters, manager, history>> /\ ended' = ended /\ reached' = reached
  BY CallFacts DEF Dispatch, At, IInv, TypeOK
<1>2. reached' \subseteq reached \ {c}
  BY <1>1
<1>3. ~Succeeded(call[c]) /\ ~Uncounted(call[c]) /\ InRound(call[c]) = 0
  BY <1>1 DEF Succeeded, Uncounted, InRound
<1>4. Placed(call[c])
  BY <1>1 DEF Fine
<1>5. CASE /\ call[c].order.type = "webhook" /\ RetryAttempts > 0
           /\ call' = [call EXCEPT ![c].pc = "send", ![c].attempt = 1]
  <2> DEFINE new == [call[c] EXCEPT !.pc = "send", !.attempt = 1]
  <2>1. 1 \in 0 .. RetryAttempts
    BY <1>5, Numbers
  <2>2. /\ new \in Calls /\ new.order \in Orders /\ new.pc = "send" /\ new.attempt = 1
        /\ new.round = call[c].round /\ new.order = call[c].order
        /\ call' = [call EXCEPT ![c] = new]
    BY <1>1, <1>5, <2>1 DEF Calls, Places
  <2> HIDE DEF new
  <2>3. ~Succeeded(new) /\ ~Uncounted(new) /\ InRound(new) = 0
    BY <2>2 DEF Succeeded, Uncounted, InRound
  <2>4. Rounds(new) = Rounds(call[c]) /\ Rounds(new) \in Nat
    BY <2>2, CallFacts DEF Rounds
  <2>5. Placed(new)
    <3>1. new.order.via = "test request" => new.round = 0
      BY <1>4, <2>2 DEF Placed
    <3>2. new.attempt >= 1 /\ new.order.type = "webhook"
      BY <1>5, <2>2
    <3>3. QED
      BY <2>2, <3>1, <3>2 DEF Placed
  <2>6. Fine(new, requests[c], answered[c], accepted[c])
    BY <1>1, <1>3, <2>3, <2>4, <2>5 DEF Fine, Done
  <2>7. QED
    BY <1>1, <1>3, <2>2, <2>3, <2>6, QuietStep
<1>6. CASE Goto(c, "panic")
  <2>1. "panic" \in Places \ {"idle"}
    BY DEF Places, Final
  <2>2. [call[c] EXCEPT !.pc = "panic"].pc = "panic"
    BY <1>1 DEF Calls
  <2>3. /\ [call[c] EXCEPT !.pc = "panic"].order = call[c].order
        /\ [call[c] EXCEPT !.pc = "panic"].round = call[c].round
    BY <1>1 DEF Calls
  <2> DEFINE new == [call[c] EXCEPT !.pc = "panic"]
  <2> HIDE DEF new
  <2>4. ~Succeeded(new) /\ ~Uncounted(new) /\ InRound(new) = RetryAttempts
    BY <2>2 DEF Succeeded, Uncounted, InRound, new
  <2>5. Placed(new)
    BY <1>1, <1>4, <2>2, <2>3 DEF Placed, new
  <2>6. QED
    BY <1>1, <1>2, <1>3, <1>6, <2>1, <2>4, <2>5, Moved, Numbers DEF new
<1>7. CASE /\ call[c].order.type = "email"
           /\ call' = [call EXCEPT ![c].pc = "smtp", ![c].step = 1]
  <2> DEFINE new == [call[c] EXCEPT !.pc = "smtp", !.step = 1]
  <2>2. /\ new \in Calls /\ new.order \in Orders /\ new.pc = "smtp"
        /\ new.round = call[c].round /\ new.order = call[c].order
        /\ call' = [call EXCEPT ![c] = new]
    BY <1>1, <1>7 DEF Calls, Places
  <2> HIDE DEF new
  <2>3. ~Succeeded(new) /\ ~Uncounted(new) /\ InRound(new) = RetryAttempts
    BY <2>2 DEF Succeeded, Uncounted, InRound
  <2>4. Rounds(new) = Rounds(call[c]) /\ Rounds(new) \in Nat
    BY <2>2, CallFacts DEF Rounds
  <2>5. Placed(new)
    BY <1>1, <1>4, <1>7, <2>2 DEF Placed
  <2>6. Fine(new, requests[c], answered[c], accepted[c])
    BY <1>1, <1>3, <2>3, <2>4, <2>5, Numbers DEF Fine, Done
  <2>7. QED
    BY <1>1, <1>3, <2>2, <2>3, <2>6, QuietStep
<1>8. CASE Return(c, TRUE)
  BY <1>1, <1>2, <1>8, FailedReturn
<1>9. QED
  BY <1>5, <1>6, <1>7, <1>8 DEF Dispatch, Order

LEMMA TimerStep ==
  ASSUME IInv, NEW c \in Callers, TimerFires(c)
  PROVE  IInv'
<1>1. /\ call[c] \in Calls /\ call[c].pc \in {"pause", "backoff"} /\ c \notin reached
      /\ Fine(call[c], requests[c], answered[c], accepted[c])
      /\ UNCHANGED <<counters, manager, history>> /\ ended' = ended /\ reached' = reached
  BY CallFacts DEF TimerFires, At, IInv, TypeOK
<1>2. PICK place \in {"send", "execute"} :
        /\ place = IF call[c].pc = "pause" THEN "send" ELSE "execute"
        /\ Goto(c, place)
  BY DEF TimerFires, At
<1> DEFINE new == [call[c] EXCEPT !.pc = place]
<1>3. /\ new.pc = place /\ new.attempt = call[c].attempt
      /\ new.order = call[c].order /\ new.round = call[c].round
  BY <1>1 DEF Calls
<1> HIDE DEF new
<1>4. InRound(new) = InRound(call[c]) /\ InRound(new) \in Int
  BY <1>1, <1>2, <1>3, CallFields DEF InRound
<1>5. /\ ~Succeeded(new) /\ ~Uncounted(new)
      /\ ~Succeeded(call[c]) /\ ~Uncounted(call[c])
  BY <1>1, <1>2, <1>3 DEF Succeeded, Uncounted
<1>6. Placed(new)
  BY <1>1, <1>2, <1>3 DEF Placed, Fine
<1>7. place \in Places \ {"idle"} /\ reached' \subseteq reached \ {c}
  BY <1>1, <1>2 DEF Places
<1>8. QED
  BY <1>1, <1>2, <1>4, <1>5, <1>6, <1>7, Moved DEF new

LEMMA CancelStep ==
  ASSUME IInv, NEW c \in Callers, PauseCancelled(c)
  PROVE  IInv'
<1>1. /\ call[c] \in Calls /\ c \notin reached
      /\ Fine(call[c], requests[c], answered[c], accepted[c])
      /\ UNCHANGED <<counters, manager, history>> /\ ended' = ended
      /\ reached' \subseteq reached \ {c}
  BY CallFacts DEF PauseCancelled, At, IInv, TypeOK
<1>2. CASE At(c, "pause") /\ Return(c, TRUE)
  BY <1>1, <1>2, FailedReturn DEF At
<1>3. CASE At(c, "backoff") /\ Goto(c, "error")
  <2> DEFINE new == [call[c] EXCEPT !.pc = "error"]
  <2>1. /\ new.pc = "error" /\ new.attempt = call[c].attempt
        /\ new.order = call[c].order /\ new.round = call[c].round
    BY <1>1 DEF Calls
  <2> HIDE DEF new
  <2>2. InRound(new) = RetryAttempts /\ InRound(call[c]) = 0
    BY <1>3, <2>1 DEF InRound, At
  <2>3. /\ ~Succeeded(new) /\ ~Uncounted(new)
        /\ ~Succeeded(call[c]) /\ ~Uncounted(call[c])
    BY <1>3, <2>1 DEF Succeeded, Uncounted, At
  <2>4. Placed(new)
    BY <1>1, <1>3, <2>1 DEF Placed, Fine, At
  <2>5. "error" \in Places \ {"idle"}
    BY DEF Places, Final
  <2>6. QED
    BY <1>1, <1>3, <2>2, <2>3, <2>4, <2>5, Moved, Numbers DEF new, At
<1>4. QED
  BY <1>2, <1>3 DEF PauseCancelled

LEMMA SMTPSteps ==
  ASSUME IInv, NEW c \in Callers, SMTPStep(c) \/ SMTPFails(c)
  PROVE  IInv'
<1>1. /\ call[c] \in Calls /\ call \in [Callers -> Calls] /\ c \notin reached
      /\ call[c].pc = "smtp" /\ call[c].order \in Orders
      /\ Fine(call[c], requests[c], answered[c], accepted[c])
      /\ requests[c] \in Nat /\ answered[c] \in Nat /\ accepted[c] \in Nat
      /\ UNCHANGED <<counters, manager, history>> /\ ended' = ended
      /\ reached' \subseteq reached \ {c}
  BY CallFacts DEF SMTPStep, SMTPFails, At, IInv, TypeOK
<1>2. CASE SMTPFails(c)
  BY <1>1, <1>2, FailedReturn DEF SMTPFails
<1>3. CASE SMTPStep(c)
  <2>1. PICK new \in {[call[c] EXCEPT !.step = call[c].step + 1],
                      [call[c] EXCEPT !.pc = "close"]} :
               call' = [call EXCEPT ![c] = new]
    BY <1>1, <1>3 DEF SMTPStep, Goto
  <2>2. call[c].step + 1 \in Nat
    BY <1>1, CallFields
  <2>3. /\ new \in Calls /\ new.pc \in {"smtp", "close"}
        /\ new.order = call[c].order /\ new.round = call[c].round
    BY <1>1, <2>1, <2>2 DEF Calls, Places
  <2>4. InRound(new) = RetryAttempts /\ InRound(call[c]) = RetryAttempts
    BY <1>1, <2>3 DEF InRound
  <2>5. /\ ~Succeeded(new) /\ ~Uncounted(new)
        /\ ~Succeeded(call[c]) /\ ~Uncounted(call[c])
    BY <1>1, <2>3 DEF Succeeded, Uncounted
  <2>6. Placed(new)
    BY <1>1, <2>3 DEF Placed, Fine
  <2>7. Rounds(new) = Rounds(call[c]) /\ Rounds(new) \in Nat
    BY <2>3, CallFacts DEF Rounds
  <2>8. Fine(new, requests[c], answered[c], accepted[c])
    BY <1>1, <2>4, <2>5, <2>6, <2>7 DEF Fine, Done
  <2>9. QED
    BY <1>1, <2>1, <2>3, <2>5, <2>8, QuietStep
<1>4. QED
  BY <1>2, <1>3

(* The steps a server sees.                                                *)
LEMMA SendStep ==
  ASSUME IInv, NEW c \in Callers, SendRequest(c)
  PROVE  IInv'
<1>1. /\ call[c] \in Calls /\ call \in [Callers -> Calls] /\ c \notin reached
      /\ call[c].pc = "send" /\ call[c].order \in Orders
      /\ Fine(call[c], requests[c], answered[c], accepted[c])
      /\ requests[c] \in Nat /\ answered[c] \in Nat /\ accepted[c] \in Nat
      /\ UNCHANGED <<counters, manager, answered, accepted>> /\ ended' = ended
  BY CallFacts DEF SendRequest, At, IInv, TypeOK
<1>2. CASE AttemptFailed(c) /\ UNCHANGED <<requests, reached>>
  BY <1>1, <1>2, FailedAttempt DEF history
<1>3. CASE /\ Goto(c, "wait")
           /\ requests' = [requests EXCEPT ![c] = @ + 1]
           /\ reached' \in {reached, reached \cup {c}}
  <2> DEFINE new == [call[c] EXCEPT !.pc = "wait"]
  <2>1. /\ new \in Calls /\ new.order \in Orders /\ new.pc = "wait"
        /\ new.attempt = call[c].attempt
        /\ new.order = call[c].order /\ new.round = call[c].round
        /\ call' = [call EXCEPT ![c] = new]
    BY <1>1, <1>3 DEF Goto, Calls, Places
  <2> HIDE DEF new
  <2>2. call[c].attempt \in Nat
    BY <1>1, CallFields
  <2>3. InRound(new) = InRound(call[c]) + 1 /\ InRound(new) \in Int /\ InRound(call[c]) \in Int
    BY <1>1, <2>1, <2>2 DEF InRound
  <2>4. /\ ~Succeeded(new) /\ ~Uncounted(new)
        /\ ~Succeeded(call[c]) /\ ~Uncounted(call[c])
    BY <1>1, <2>1 DEF Succeeded, Uncounted
  <2>5. Placed(new)
    BY <1>1, <2>1 DEF Placed, Fine
  <2>6. Rounds(new) = Rounds(call[c]) /\ Rounds(new) \in Nat
    BY <2>1, CallFacts DEF Rounds
  <2>7. Fine(new, requests[c] + 1, answered[c], accepted[c])
    BY <1>1, <2>3, <2>4, <2>5, <2>6 DEF Fine, Done
  <2>8. /\ stats' \in [sent : Nat, failed : Nat, active : Nat] /\ notified' \in Nat
        /\ manager' = manager /\ ended' \subseteq Callers
    BY <1>1 DEF IInv, TypeOK, counters
  <2>9. /\ requests' = [requests EXCEPT ![c] = requests[c] + 1] /\ requests[c] + 1 \in Nat
        /\ answered' = [answered EXCEPT ![c] = answered[c]]
        /\ accepted' = [accepted EXCEPT ![c] = accepted[c]]
    BY <1>1, <1>3, CallFacts
  <2>10. TypeOK' /\ AllFine'
    BY <1>1, <1>3, <2>1, <2>7, <2>8, <2>9, CallerMoves
  <2>11. CountInv'
    BY <1>1, <2>1, <2>4, SameWaiting
  <2>12. QED
    BY <2>10, <2>11 DEF IInv
<1>4. QED
  BY <1>2, <1>3 DEF SendRequest

LEMMA NoAnswerStep ==
  ASSUME IInv, NEW c \in Callers, NoAnswer(c)
  PROVE  IInv'
BY FailedAttempt DEF NoAnswer, At

(* A successful return: the answer is counted, or the email may be.        *)
LEMMA SuccessfulReturn ==
  ASSUME IInv, NEW c \in Callers,
         call[c].pc \in {"wait", "close"}, Return(c, FALSE),
         ended' = ended, reached' \subseteq reached \ {c},
         UNCHANGED <<counters, manager, requests>>,
         NEW copies \in {0, 1},
         answered' = IF call[c].pc = "wait"
                       THEN [answered EXCEPT ![c] = @ + 1] ELSE answered,
         accepted' = IF call[c].pc = "close"
                       THEN [accepted EXCEPT ![c] = @ + copies] ELSE accepted
  PROVE  IInv'
<1> DEFINE place == IF Order(c).via = "webhook action" THEN "returned" ELSE "account"
           new == [call[c] EXCEPT !.pc = place, !.error = FALSE]
           answers == IF call[c].pc = "wait" THEN 1 ELSE 0
           emails == IF call[c].pc = "close" THEN copies ELSE 0
<1>1. /\ call[c] \in Calls /\ call \in [Callers -> Calls] /\ call[c].order \in Orders
      /\ Fine(call[c], requests[c], answered[c], accepted[c])
      /\ requests[c] \in Nat /\ answered[c] \in Nat /\ accepted[c] \in Nat
  BY CallFacts
<1>2. /\ new \in Calls /\ new.order \in Orders
      /\ new.pc = place /\ new.error = FALSE /\ new.order = call[c].order
      /\ new.round = call[c].round
      /\ call' = [call EXCEPT ![c] = new]
  BY <1>1 DEF Return, Calls, Places
<1>3. /\ place \in {"returned", "account"}
      /\ place = "account" <=> call[c].order.via # "webhook action"
  BY DEF Order
<1> HIDE DEF place, new
<1>4. /\ ~Succeeded(call[c]) /\ Succeeded(new) /\ ~Uncounted(call[c])
  BY <1>2, <1>3 DEF Succeeded, Uncounted
<1>5. ~Uncounted(new)
  BY <1>2, <1>3 DEF Uncounted
<1>6. Placed(new)
  BY <1>1, <1>2, <1>3 DEF Placed, Fine
<1>7. call[c].order.type = IF call[c].pc = "wait" THEN "webhook" ELSE "email"
  BY <1>1 DEF Fine, Placed
<1>8. answered[c] = 0 /\ accepted[c] = 0
  BY <1>1, <1>4 DEF Fine, Done
<1>9. /\ answered' = [answered EXCEPT ![c] = answers] /\ answers \in Nat
      /\ accepted' = [accepted EXCEPT ![c] = emails] /\ emails \in Nat
      /\ requests' = [requests EXCEPT ![c] = requests[c]]
  <2>1. /\ requests' = [requests EXCEPT ![c] = requests[c]]
        /\ answered = [answered EXCEPT ![c] = 0]
        /\ accepted = [accepted EXCEPT ![c] = 0]
    BY <1>8, CallFacts
  <2>2. CASE call[c].pc = "wait"
    <3>1. answered' = [answered EXCEPT ![c] = 1] /\ accepted' = accepted
      BY <1>8, <2>2
    <3>2. answers = 1 /\ emails = 0
      BY <2>2
    <3>3. answers \in Nat /\ emails \in Nat
      BY <3>2
    <3> HIDE DEF answers, emails
    <3>4. QED
      BY <2>1, <3>1, <3>2, <3>3, Zenon
  <2>3. CASE call[c].pc = "close"
    <3>1. accepted' = [accepted EXCEPT ![c] = copies] /\ answered' = answered
      <4>1. /\ accepted' = [accepted EXCEPT ![c] = accepted[c] + copies]
            /\ answered' = answered
        BY <2>3
      <4>2. accepted[c] + copies = copies
        BY <1>8
      <4>3. QED
        BY <4>1, <4>2, Zenon
    <3>2. answers = 0 /\ emails = copies
      BY <2>3
    <3>3. answers \in Nat /\ emails \in Nat
      BY <3>2
    <3> HIDE DEF answers, emails
    <3>4. QED
      BY <2>1, <3>1, <3>2, <3>3, Zenon
  <2>4. QED
    BY <2>2, <2>3
<1>10. requests[c] <= Rounds(new) + InRound(new)
  <2>1. Rounds(new) = Rounds(call[c]) /\ Rounds(new) \in Nat
    BY <1>2, CallFacts DEF Rounds
  <2>2. call[c].attempt \in Nat /\ call[c].attempt <= RetryAttempts
    BY <1>1, CallFields
  <2>3. InRound(new) = RetryAttempts
    BY <1>2, <1>3 DEF InRound
  <2>4. InRound(call[c]) <= RetryAttempts /\ InRound(call[c]) \in Nat
    BY <2>2, Numbers DEF InRound
  <2>5. QED
    BY <1>1, <2>1, <2>3, <2>4, Numbers DEF Fine
<1>11. Fine(new, requests[c], answers, emails)
  BY <1>2, <1>4, <1>6, <1>7, <1>10 DEF Fine, Done
<1>12. /\ stats' \in [sent : Nat, failed : Nat, active : Nat] /\ notified' \in Nat
       /\ manager' = manager /\ ended' \subseteq Callers
       /\ reached' \subseteq reached \cup {c} /\ c \notin reached'
  BY DEF IInv, TypeOK, counters
<1>13. new.pc # "idle"
  BY <1>2, <1>3
<1> HIDE DEF answers, emails
<1>14. TypeOK' /\ AllFine'
  BY <1>1, <1>2, <1>9, <1>11, <1>12, <1>13, CallerMoves
<1>15. CountInv'
  BY <1>2, <1>4, <1>5, SameWaiting
<1>16. QED
  BY <1>14, <1>15 DEF IInv

LEMMA AnswerStep ==
  ASSUME IInv, NEW c \in Callers, Answer(c)
  PROVE  IInv'
<1>1. CASE AttemptFailed(c) /\ UNCHANGED answered
  BY <1>1, FailedAttempt DEF Answer, At, history
<1>2. CASE answered' = [answered EXCEPT ![c] = @ + 1] /\ Return(c, FALSE)
  BY <1>2, SuccessfulReturn DEF Answer, At
<1>3. QED
  BY <1>1, <1>2 DEF Answer

LEMMA CloseStep ==
  ASSUME IInv, NEW c \in Callers, Close(c)
  PROVE  IInv'
<1>1. c \notin reached
  BY DEF IInv, TypeOK, Close, At
<1>2. PICK copies \in {0, 1} : accepted' = [accepted EXCEPT ![c] = @ + copies]
  BY DEF Close
<1>3. QED
  BY <1>1, <1>2, SuccessfulReturn DEF Close, At

(* The two sides count.                                                    *)
LEMMA AccountStep ==
  ASSUME IInv, NEW c \in Callers, Account(c)
  PROVE  IInv'
<1> DEFINE place == IF ~call[c].error /\ Order(c).via = "notify action"
                      THEN "count" ELSE "returned"
           new == [call[c] EXCEPT !.pc = place]
<1>1. /\ call[c] \in Calls /\ call \in [Callers -> Calls] /\ call[c].order \in Orders
      /\ Fine(call[c], requests[c], answered[c], accepted[c])
      /\ requests[c] \in Nat /\ answered[c] \in Nat /\ accepted[c] \in Nat
      /\ call[c].pc = "account" /\ c \notin reached
  BY CallFacts DEF Account, At, IInv, TypeOK
<1>2. /\ new \in Calls /\ new.order \in Orders
      /\ new.pc = place /\ new.error = call[c].error /\ new.order = call[c].order
      /\ new.round = call[c].round
      /\ call' = [call EXCEPT ![c] = new]
  BY <1>1 DEF Account, Goto, Calls, Places
<1>3. /\ place \in {"count", "returned"}
      /\ place = "count" => ~call[c].error /\ call[c].order.via = "notify action"
      /\ place = "returned" => call[c].error \/ call[c].order.via # "notify action"
  BY DEF Order
<1>4. call[c].order.via \in {"webhook action", "notify action", "test request"}
  BY <1>1, DeliveryAssumption DEF AllOrders
<1> HIDE DEF place, new
<1>5. /\ Succeeded(call[c]) <=> ~call[c].error
      /\ Succeeded(new) <=> ~call[c].error
  BY <1>1, <1>2, <1>3 DEF Succeeded
<1>6. ~Uncounted(call[c])
  BY <1>1 DEF Uncounted
<1>7. Uncounted(new) <=> ~call[c].error
  <2>1. call[c].order.via # "webhook action"
    BY <1>1 DEF Fine, Placed
  <2>2. QED
    BY <1>2, <1>3, <1>4, <2>1 DEF Uncounted
<1>8. Placed(new)
  BY <1>1, <1>2, <1>3 DEF Placed, Fine
<1>9. /\ Rounds(new) = Rounds(call[c]) /\ Rounds(new) \in Nat
      /\ InRound(new) = RetryAttempts /\ InRound(call[c]) = RetryAttempts
  BY <1>1, <1>2, <1>3, CallFacts DEF Rounds, InRound
<1>10. Fine(new, requests[c], answered[c], accepted[c])
  BY <1>1, <1>2, <1>5, <1>8, <1>9 DEF Fine, Done
<1>11. stats.sent \in Nat /\ stats.failed \in Nat /\ notified \in Nat
  BY DEF IInv, TypeOK
<1>12. /\ stats' = [stats EXCEPT !.sent = @ + 1,
                                 !.failed = @ + (IF call[c].error THEN 1 ELSE 0)]
       /\ UNCHANGED <<ended, reached, notified, manager, history>>
  BY DEF Account
<1>13. /\ stats' \in [sent : Nat, failed : Nat, active : Nat]
       /\ stats'.sent = stats.sent + 1
       /\ stats'.failed = stats.failed + (IF call[c].error THEN 1 ELSE 0)
  <2>1. stats \in [sent : Nat, failed : Nat, active : Nat]
    BY DEF IInv, TypeOK
  <2> DEFINE failures == IF call[c].error THEN 1 ELSE 0
  <2>2. failures \in Nat
    OBVIOUS
  <2>3. stats' = [stats EXCEPT !.sent = stats.sent + 1, !.failed = stats.failed + failures]
    BY <1>12
  <2> HIDE DEF failures
  <2>4. /\ stats' \in [sent : Nat, failed : Nat, active : Nat]
        /\ stats'.sent = stats.sent + 1 /\ stats'.failed = stats.failed + failures
    <3>1. stats.sent + 1 \in Nat /\ stats.failed + failures \in Nat
      BY <1>11, <2>2
    <3>2. stats.active \in Nat
      BY <2>1
    <3>3. stats' = [sent |-> stats.sent + 1, failed |-> stats.failed + failures,
                    active |-> stats.active]
      BY <2>1, <2>3
    <3>4. QED
      BY <3>1, <3>2, <3>3
  <2>5. QED
    BY <2>4 DEF failures
<1>14. TypeOK' /\ AllFine'
  <2>1. /\ requests' = [requests EXCEPT ![c] = requests[c]]
        /\ answered' = [answered EXCEPT ![c] = answered[c]]
        /\ accepted' = [accepted EXCEPT ![c] = accepted[c]]
    BY <1>12, CallFacts DEF history
  <2>2. /\ ended' \subseteq Callers /\ reached' \subseteq reached \cup {c}
        /\ c \notin reached' /\ manager' = manager /\ notified' \in Nat
    BY <1>1, <1>12 DEF IInv, TypeOK
  <2>3. new.pc # "idle"
    BY <1>2, <1>3
  <2>4. QED
    BY <1>1, <1>2, <1>10, <1>13, <2>1, <2>2, <2>3, CallerMoves
<1>15. CountInv'
  <2>1. CASE call[c].error
    <3>1. Waiting' = Waiting
      BY <1>2, <1>6, <1>7, <2>1 DEF Waiting, IInv, TypeOK
    <3>2. QED
      BY <1>11, <1>12, <1>13, <2>1, <3>1, WaitingFinite DEF CountInv, IInv
  <2>2. CASE ~call[c].error
    <3>1. Cardinality(Waiting') = Cardinality(Waiting) + 1
      BY <1>2, <1>6, <1>7, <2>2, NextWaits
    <3>2. QED
      BY <1>11, <1>12, <1>13, <2>2, <3>1, WaitingFinite DEF CountInv, IInv
  <2>3. QED
    BY <2>1, <2>2
<1>16. QED
  BY <1>14, <1>15 DEF IInv

LEMMA CountStep ==
  ASSUME IInv, NEW c \in Callers, Count(c)
  PROVE  IInv'
<1> DEFINE new == [call[c] EXCEPT !.pc = "returned"]
<1>1. /\ call[c] \in Calls /\ call \in [Callers -> Calls] /\ call[c].order \in Orders
      /\ Fine(call[c], requests[c], answered[c], accepted[c])
      /\ requests[c] \in Nat /\ answered[c] \in Nat /\ accepted[c] \in Nat
      /\ call[c].pc = "count" /\ c \notin reached
  BY CallFacts DEF Count, At, IInv, TypeOK
<1>2. /\ new \in Calls /\ new.order \in Orders
      /\ new.pc = "returned" /\ new.error = call[c].error /\ new.order = call[c].order
      /\ new.round = call[c].round
      /\ call' = [call EXCEPT ![c] = new]
  BY <1>1 DEF Count, Goto, Calls, Places
<1> HIDE DEF new
<1>3. ~call[c].error /\ call[c].order.via = "notify action"
  BY <1>1 DEF Fine, Placed
<1>4. Succeeded(call[c]) /\ Succeeded(new) /\ Uncounted(call[c]) /\ ~Uncounted(new)
  BY <1>1, <1>2, <1>3 DEF Succeeded, Uncounted
<1>5. Placed(new)
  BY <1>1, <1>2 DEF Placed, Fine
<1>6. /\ Rounds(new) = Rounds(call[c]) /\ Rounds(new) \in Nat
      /\ InRound(new) = RetryAttempts /\ InRound(call[c]) = RetryAttempts
  BY <1>1, <1>2, CallFacts DEF Rounds, InRound
<1>7. Fine(new, requests[c], answered[c], accepted[c])
  BY <1>1, <1>2, <1>4, <1>5, <1>6 DEF Fine, Done
<1>8. /\ notified' = notified + 1 /\ notified \in Nat /\ notified' \in Nat
      /\ UNCHANGED <<ended, reached, stats, manager, history>>
      /\ stats.sent \in Nat /\ stats.failed \in Nat
  BY DEF Count, IInv, TypeOK
<1>9. TypeOK' /\ AllFine'
  <2>1. /\ requests' = [requests EXCEPT ![c] = requests[c]]
        /\ answered' = [answered EXCEPT ![c] = answered[c]]
        /\ accepted' = [accepted EXCEPT ![c] = accepted[c]]
    BY <1>8, CallFacts DEF history
  <2>2. /\ ended' \subseteq Callers /\ reached' \subseteq reached \cup {c}
        /\ c \notin reached' /\ manager' = manager
        /\ stats' \in [sent : Nat, failed : Nat, active : Nat]
    BY <1>1, <1>8 DEF IInv, TypeOK
  <2>3. new.pc # "idle"
    BY <1>2
  <2>4. QED
    BY <1>1, <1>2, <1>7, <1>8, <2>1, <2>2, <2>3, CallerMoves
<1>10. Cardinality(Waiting') = Cardinality(Waiting) - 1
  BY <1>2, <1>4, OneCounted
<1>11. CountInv'
  BY <1>8, <1>10, WaitingFinite DEF CountInv, IInv
<1>12. QED
  BY <1>9, <1>11 DEF IInv

LEMMA ReturnedStep ==
  ASSUME IInv, NEW c \in Callers, Returned(c)
  PROVE  IInv'
<1>1. /\ call[c] \in Calls /\ call \in [Callers -> Calls] /\ call[c].order \in Orders
      /\ Fine(call[c], requests[c], answered[c], accepted[c])
      /\ requests[c] \in Nat /\ answered[c] \in Nat /\ accepted[c] \in Nat
      /\ call[c].pc = "returned" /\ c \notin reached
      /\ UNCHANGED <<counters, manager, history>> /\ ended' = ended /\ reached' = reached
  BY CallFacts DEF Returned, At, IInv, TypeOK
<1>2. InRound(call[c]) = RetryAttempts /\ Placed(call[c])
  BY <1>1 DEF InRound, Fine
<1>3. CASE \E place \in {"ok", "error"} :
             Goto(c, place) /\ (place = "ok" <=> ~call[c].error)
  <2>1. PICK place \in {"ok", "error"} :
          Goto(c, place) /\ (place = "ok" <=> ~call[c].error)
    BY <1>3
  <2> DEFINE new == [call[c] EXCEPT !.pc = place]
  <2>2. /\ new.pc = place /\ new.error = call[c].error
        /\ new.order = call[c].order /\ new.round = call[c].round
    BY <1>1 DEF Calls
  <2> HIDE DEF new
  <2>3. InRound(new) = RetryAttempts
    BY <2>1, <2>2 DEF InRound
  <2>4. /\ Succeeded(new) <=> Succeeded(call[c])
        /\ Uncounted(new) <=> Uncounted(call[c])
    BY <1>1, <2>1, <2>2 DEF Succeeded, Uncounted
  <2>5. Placed(new)
    BY <1>2, <2>1, <2>2 DEF Placed
  <2>6. place \in Places \ {"idle"} /\ reached' \subseteq reached \ {c}
    BY <1>1, <2>1 DEF Places, Final
  <2>7. QED
    BY <1>1, <1>2, <2>1, <2>3, <2>4, <2>5, <2>6, Moved, Numbers DEF new
<1>4. CASE /\ call[c].error /\ MayRetry(c)
           /\ call' = [call EXCEPT ![c].round = @ + 1,
                         ![c].pc = IF call[c].round = 0 THEN "execute" ELSE "backoff"]
  <2> DEFINE place == IF call[c].round = 0 THEN "execute" ELSE "backoff"
             new == [call[c] EXCEPT !.round = call[c].round + 1, !.pc = place]
  <2>1. /\ call[c].round \in Nat /\ call[c].round + 1 \in 0 .. MaxAttempts
        /\ call[c].order.via # "test request"
    <3>1. call[c].round \in Nat /\ MaxAttempts \in Nat
      BY <1>1, Numbers, CallFields
    <3>2. call[c].round < MaxAttempts /\ call[c].order.via # "test request"
      BY <1>4 DEF MayRetry, Order
    <3>3. \A n, m \in Nat : n < m => n + 1 \in 0 .. m
      OBVIOUS
    <3>4. call[c].round + 1 \in 0 .. MaxAttempts
      BY <3>1, <3>2, <3>3
    <3>5. QED
      BY <3>1, <3>2, <3>4, Zenon
  <2>2. place \in {"execute", "backoff"}
    OBVIOUS
  <2>3. /\ new \in Calls /\ new.order \in Orders /\ new.pc = place
        /\ new.order = call[c].order /\ new.round = call[c].round + 1
        /\ call' = [call EXCEPT ![c] = new]
    BY <1>1, <1>4, <2>1 DEF Calls, Places
  <2> HIDE DEF new, place
  <2>4. /\ ~Succeeded(new) /\ ~Uncounted(new)
        /\ ~Succeeded(call[c]) /\ ~Uncounted(call[c])
    BY <1>1, <1>4, <2>2, <2>3 DEF Succeeded, Uncounted
  <2>5. Placed(new)
    BY <2>1, <2>2, <2>3 DEF Placed
  <2>6. Rounds(new) = Rounds(call[c]) + RetryAttempts /\ InRound(new) = 0
    BY <2>1, <2>2, <2>3, Products DEF Rounds, InRound
  <2>7. Fine(new, requests[c], answered[c], accepted[c])
    BY <1>1, <1>2, <2>4, <2>5, <2>6, CallFacts, Numbers DEF Fine, Done
  <2>8. new.pc # "idle"
    BY <2>2, <2>3
  <2>9. QED
    BY <1>1, <2>3, <2>4, <2>7, <2>8, QuietStep
<1>5. QED
  BY <1>3, <1>4 DEF Returned

(* The end of a context, and the manager.                                  *)
LEMMA OthersStep ==
  ASSUME IInv,
         \/ \E c \in Callers : ContextEnds(c)
         \/ Start \/ Stop \/ GetStats
         \/ \E channel \in Channels : AddChannel(channel) \/ RemoveChannel(channel)
  PROVE  IInv'
<1>1. UNCHANGED <<call, reached, notified, history>>
  BY DEF ContextEnds, Start, Stop, GetStats, AddChannel, RemoveChannel, counters
<1>2. ended' \subseteq Callers
  BY DEF IInv, TypeOK, ContextEnds, Start, Stop, GetStats, AddChannel, RemoveChannel
<1>3. /\ stats' \in [sent : Nat, failed : Nat, active : Nat]
      /\ stats'.sent = stats.sent /\ stats'.failed = stats.failed
  <2>1. CASE GetStats
    <3>1. manager.channels \subseteq Channels
      BY DEF IInv, TypeOK
    <3>2. Cardinality(manager.channels) \in Nat
      BY <3>1, FS_Subset, FS_CardinalityType, DeliveryAssumption
    <3>3. QED
      BY <2>1, <3>2 DEF IInv, TypeOK, GetStats
  <2>2. CASE stats' = stats
    BY <2>2 DEF IInv, TypeOK
  <2>3. QED
    BY <2>1, <2>2 DEF ContextEnds, Start, Stop, AddChannel, RemoveChannel, counters
<1>4. manager' \in [running : BOOLEAN, channels : SUBSET Channels]
  <2>1. manager \in [running : BOOLEAN, channels : SUBSET Channels]
    BY DEF IInv, TypeOK
  <2>2. CASE Start \/ Stop
    BY <2>1, <2>2 DEF Start, Stop
  <2>3. ASSUME NEW channel \in Channels, AddChannel(channel) \/ RemoveChannel(channel)
        PROVE  manager' \in [running : BOOLEAN, channels : SUBSET Channels]
    <3>1. /\ manager.channels \cup {channel} \in SUBSET Channels
          /\ manager.channels \ {channel} \in SUBSET Channels
      BY <2>1
    <3>2. QED
      BY <2>1, <2>3, <3>1 DEF AddChannel, RemoveChannel
  <2>4. CASE manager' = manager
    BY <2>1, <2>4
  <2>5. QED
    BY <2>2, <2>3, <2>4 DEF ContextEnds, GetStats
<1>5. TypeOK'
  BY <1>1, <1>2, <1>3, <1>4 DEF IInv, TypeOK, At, Order, history
<1>6. AllFine'
  BY <1>1 DEF IInv, AllFine, history
<1>7. CountInv'
  BY <1>1, <1>3 DEF IInv, CountInv, Waiting
<1>8. QED
  BY <1>5, <1>6, <1>7 DEF IInv

LEMMA NextIInv == IInv /\ [Next]_vars => IInv'
<1> SUFFICES ASSUME IInv, [Next]_vars PROVE IInv'
  OBVIOUS
<1>1. CASE \E c \in Callers : \E order \in Orders : Begin(c, order)
  BY <1>1, BeginStep
<1>2. CASE \E c \in Callers : Own(c)
  BY <1>2, DispatchStep, SendStep, TimerStep, CancelStep, AccountStep, CountStep,
     ReturnedStep DEF Own
<1>3. CASE \E c \in Callers : Servers(c)
  BY <1>3, AnswerStep, NoAnswerStep, SMTPSteps, CloseStep DEF Servers
<1>4. CASE \/ \E c \in Callers : ContextEnds(c)
           \/ Start \/ Stop \/ GetStats
           \/ \E channel \in Channels : AddChannel(channel) \/ RemoveChannel(channel)
  BY <1>4, OthersStep
<1>5. CASE UNCHANGED vars
  BY <1>5 DEF vars, counters, history, IInv, TypeOK, AllFine, CountInv, Waiting, At, Order
<1>6. QED
  BY <1>1, <1>2, <1>3, <1>4, <1>5 DEF Next

LEMMA Invariance == Spec => []IInv
BY InitIInv, NextIInv, PTL DEF Spec
-----------------------------------------------------------------------------
(* Every variable keeps its type: no delivery exceeds the attempts of      *)
(* either layer, and a request is at the server only while its caller      *)
(* waits for the answer (sendWebhookWithRetry, retryAction).               *)
THEOREM DeliveryTypeCorrect == Spec => []TypeOK
<1>1. IInv => TypeOK
  BY DEF IInv
<1>2. QED
  BY <1>1, Invariance, PTL

(* A webhook is reported as sent exactly when it was answered, and then    *)
(* not requested again, whatever is lost and however often both layers     *)
(* retry (sendWebhookWithRetry, executeRule, retryAction).                 *)
THEOREM SentIsAnswered == Spec => []SentMeansAnswered
<1>1. IInv => SentMeansAnswered
  <2> SUFFICES ASSUME IInv, NEW c \in Callers
               PROVE  /\ answered[c] <= 1
                      /\ At(c, "ok") /\ Order(c).type = "webhook" => answered[c] = 1
                      /\ call[c].pc \in {"error", "panic"} => answered[c] = 0
    BY DEF SentMeansAnswered
  <2>1. Fine(call[c], requests[c], answered[c], accepted[c])
    BY CallFacts
  <2>2. answered[c] = IF Done(call[c], "webhook") THEN 1 ELSE 0
    BY <2>1 DEF Fine
  <2>3. CASE At(c, "ok")
    <3>1. ~call[c].error
      BY <2>1, <2>3 DEF Fine, Placed, At
    <3>2. QED
      BY <2>2, <2>3, <3>1 DEF Done, Succeeded, At, Order
  <2>4. CASE call[c].pc \in {"error", "panic"}
    <3>1. ~Succeeded(call[c])
      BY <2>4 DEF Succeeded
    <3>2. QED
      BY <2>2, <2>4, <3>1 DEF Done, At
  <2>5. CASE ~At(c, "ok") /\ call[c].pc \notin {"error", "panic"}
    BY <2>2, <2>5
  <2>6. QED
    BY <2>3, <2>4, <2>5
<1>2. QED
  BY <1>1, Invariance, PTL

(* An email is accepted at most once, and never when it is reported as     *)
(* failed (sendEmailTLS with its deferred Close, retryAction).             *)
THEOREM EmailIsSentOnce == Spec => []EmailAtMostOnce
<1>1. IInv => EmailAtMostOnce
  <2> SUFFICES ASSUME IInv, NEW c \in Callers
               PROVE  /\ accepted[c] <= 1
                      /\ call[c].pc \in {"error", "panic"} => accepted[c] = 0
    BY DEF EmailAtMostOnce
  <2>1. /\ Fine(call[c], requests[c], answered[c], accepted[c])
        /\ accepted[c] \in Nat
    BY CallFacts
  <2>2. QED
    BY <2>1 DEF Fine, Done, Succeeded
<1>2. QED
  BY <1>1, Invariance, PTL

LEMMA RequestsOfRounds ==
  ASSUME IInv, NEW c \in Callers, NEW bound \in Nat, call[c].round <= bound
  PROVE  requests[c] <= RetryAttempts * (bound + 1)
<1> DEFINE round == call[c].round
<1>1. /\ Fine(call[c], requests[c], answered[c], accepted[c])
      /\ requests[c] \in Nat /\ call[c] \in Calls
  BY CallFacts
<1>2. /\ round \in Nat
      /\ call[c].attempt \in Nat /\ call[c].attempt <= RetryAttempts
  BY <1>1, CallFields
<1>3. InRound(call[c]) <= RetryAttempts /\ InRound(call[c]) \in Int
  BY <1>2, Numbers DEF InRound
<1>4. RetryAttempts * round \in Nat /\ RetryAttempts * bound \in Nat
  BY <1>2, Products
<1>5. requests[c] <= RetryAttempts * round + RetryAttempts
  <2>1. requests[c] <= RetryAttempts * round + InRound(call[c])
    BY <1>1 DEF Fine, Rounds
  <2>2. QED
    BY <1>1, <1>3, <1>4, <2>1, Numbers
<1> HIDE DEF round
<1>6. RetryAttempts * round <= RetryAttempts * bound
  <2>1. bound - round \in Nat
    BY <1>2 DEF round
  <2>2. RetryAttempts * (bound - round) \in Nat
    BY <2>1, Products
  <2>3. RetryAttempts * bound = RetryAttempts * round + RetryAttempts * (bound - round)
    BY <1>2, Numbers
  <2>4. QED
    BY <1>4, <2>2, <2>3
<1>7. RetryAttempts * (bound + 1) = RetryAttempts * bound + RetryAttempts
  BY Products
<1>8. QED
  BY <1>1, <1>4, <1>5, <1>6, <1>7, Numbers

(* The requests of an action stay within the product of the attempts of    *)
(* both layers (sendWebhookWithRetry, retryAction).                        *)
THEOREM RequestsAreBounded == Spec => []RequestsBounded
<1>1. IInv => RequestsBounded
  <2> SUFFICES ASSUME IInv, NEW c \in Callers, call[c].pc # "idle"
               PROVE  requests[c] <= RetryAttempts *
                        (IF Order(c).via = "test request" THEN 1 ELSE 1 + MaxAttempts)
    BY DEF RequestsBounded
  <2>1. CASE Order(c).via = "test request"
    <3>1. call[c].round = 0
      BY <2>1, CallFacts DEF Fine, Placed, Order
    <3>2. requests[c] <= RetryAttempts * (0 + 1)
      BY <3>1, RequestsOfRounds
    <3>3. requests[c] <= RetryAttempts * 1
      BY <3>2
    <3>4. QED
      BY <2>1, <3>3, Zenon
  <2>2. CASE Order(c).via # "test request"
    <3>1. call[c].round <= MaxAttempts
      BY CallFacts, CallFields
    <3>2. requests[c] <= RetryAttempts * (MaxAttempts + 1)
      BY <3>1, RequestsOfRounds, Numbers
    <3>3. requests[c] <= RetryAttempts * (1 + MaxAttempts)
      <4>1. MaxAttempts + 1 = 1 + MaxAttempts
        BY Numbers
      <4>2. QED
        BY <3>2, <4>1, Zenon
    <3>4. QED
      BY <2>2, <3>3, Zenon
  <2>3. QED
    BY <2>1, <2>2
<1>2. QED
  BY <1>1, Invariance, PTL

(* The counters of the manager and of the processor differ by those on     *)
(* the way between them (updateNotificationStats, executeNotifyAction).    *)
THEOREM CountersDoAgree == Spec => []CountersAgree
<1>1. IInv => CountersAgree
  BY DEF IInv, CountInv, Waiting, Uncounted, CountersAgree, At, Order
<1>2. QED
  BY <1>1, Invariance, PTL

(* Once its context has ended, no caller requests a webhook, at whatever   *)
(* point of the two layers of retries it is (sendSingleWebhook).           *)
THEOREM QuietOnceEnded == Spec => QuietAfterEnd
<1>1. IInv /\ [Next]_vars => [\A c \in ended : requests'[c] = requests[c]]_vars
  <2> SUFFICES ASSUME IInv, Next, NEW c \in ended
               PROVE  requests'[c] = requests[c]
    OBVIOUS
  <2>1. CASE \E d \in Callers : SendRequest(d)
    BY <2>1 DEF SendRequest, IInv, TypeOK
  <2>2. CASE requests' = requests
    BY <2>2
  <2>3. QED
    BY <2>1, <2>2 DEF Next, Own, Servers, Begin, Dispatch, TimerFires, PauseCancelled,
       Account, Count, Returned, Answer, NoAnswer, SMTPStep, SMTPFails, Close, ContextEnds,
       Start, Stop, GetStats, AddChannel, RemoveChannel, history
<1>2. QED
  BY <1>1, Invariance, PTL DEF Spec, QuietAfterEnd

(* Each pause of the sender is twice the one before, up to the cap, none   *)
(* is negative, and none is left out where a delay is configured, for any  *)
(* number of attempts that does not overflow them (sendWebhookWithRetry,   *)
(* calculateRetryDelay).                                                   *)
THEOREM PausesDoDouble == Spec => []PausesDouble
<1>1. IInv => PausesDouble
  <2> SUFFICES ASSUME IInv, NEW c \in Callers, At(c, "pause")
               PROVE  /\ Delay(c) \in 0 .. MaxDelay
                      /\ BaseDelay > 0 /\ MaxDelay > 0 => Delay(c) > 0
                      /\ call[c].attempt > 2 =>
                           Delay(c) = Doubled(CalculateRetryDelay(call[c].attempt - 1))
    BY DEF PausesDouble
  <2>1. call[c].attempt \in 2 .. RetryAttempts
    <3>1. Placed(call[c]) /\ call[c] \in Calls
      BY CallFacts DEF Fine
    <3>2. call[c].attempt \in 0 .. RetryAttempts
      BY <3>1, CallFields
    <3>3. call[c].attempt >= 2
      BY <3>1 DEF Placed, At
    <3>4. QED
      BY <3>2, <3>3, Numbers
  <2>2. QED
    BY <2>1, DelaysDouble, DeliveryAssumption DEF Delay
<1>2. QED
  BY <1>1, Invariance, PTL
=============================================================================
