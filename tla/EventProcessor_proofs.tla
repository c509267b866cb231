------------------------ MODULE EventProcessor_proofs ------------------------
(***************************************************************************)
(* Proofs about ProcessEvents, for any finite batch, any rules and any     *)
(* capacity of the semaphore.  What is behind them: a token in the         *)
(* semaphore for each event inside ProcessEvent, and a place where every   *)
(* rule an event still owes an execution waits.                            *)
(***************************************************************************)
EXTENDS EventProcessor, FiniteSetTheorems, TLAPS

CountInv ==
  /\ semaphore = Cardinality(Inside)
  /\ BatchAddsUp

OwedInv ==
  \A e \in Events :
    /\ pc[e] = "next" => owed[e] \subseteq todo[e]
    /\ pc[e] = "act" => owed[e] \subseteq todo[e] \cup {job[e].id}
    /\ pc[e] = "mark" => owed[e] = {}
    /\ e \in marked =>
         pc[e] \notin {"spawned", "start", "next", "act"} /\ owed[e] = {}
-----------------------------------------------------------------------------
LEMMA ReleaseCounts ==
  ASSUME TypeOK, CountInv, NEW e \in Events, Release(e)
  PROVE  CountInv' /\ semaphore >= 1
<1>1. /\ e \in Inside
      /\ Inside' = Inside \ {e}
      /\ Counted' = Counted
  BY DEF TypeOK, Release, Goto, Inside, Counted
<1>2. IsFiniteSet(Inside)
  BY ProcessorAssumption, FS_Subset DEF Inside
<1>3. Cardinality(Inside') = Cardinality(Inside) - 1
  BY <1>1, <1>2, FS_RemoveElement
<1>4. semaphore >= 1
  BY <1>1, <1>2, FS_EmptySet, FS_CardinalityType DEF CountInv
<1>5. QED
  BY <1>1, <1>3, <1>4 DEF CountInv, BatchAddsUp, Release, Token

(* An event that is counted enters Counted, and nothing else changes.      *)
LEMMA OverCounts ==
  ASSUME TypeOK, CountInv, NEW e \in Events, Count(e) \/ Recover(e)
  PROVE  CountInv'
<1>1. /\ e \notin Counted
      /\ Counted' = Counted \cup {e}
      /\ Inside' = Inside
      /\ processed' + failed' = processed + failed + 1
      /\ semaphore' = semaphore
  <2>1. CASE Count(e)
    BY <2>1 DEF TypeOK, Count, Goto, Inside, Counted
  <2>2. CASE Recover(e)
    BY <2>2 DEF TypeOK, Recover, Goto, Inside, Counted
  <2>3. QED
    BY <2>1, <2>2
<1>2. IsFiniteSet(Counted)
  BY ProcessorAssumption, FS_Subset DEF Counted
<1>3. Cardinality(Counted') = Cardinality(Counted) + 1
  BY <1>1, <1>2, FS_AddElement
<1>4. QED
  BY <1>1, <1>3 DEF CountInv, BatchAddsUp

LEMMA AcquireCounts ==
  ASSUME TypeOK, CountInv, NEW e \in Events, Acquire(e)
  PROVE  CountInv'
<1>1. /\ e \notin Inside
      /\ Inside' = Inside \cup {e}
      /\ Counted' = Counted
  BY DEF TypeOK, Acquire, Goto, Inside, Counted
<1>2. IsFiniteSet(Inside)
  BY ProcessorAssumption, FS_Subset DEF Inside
<1>3. Cardinality(Inside') = Cardinality(Inside) + 1
  BY <1>1, <1>2, FS_AddElement
<1>4. QED
  BY <1>1, <1>3 DEF CountInv, BatchAddsUp, Acquire

(* The steps within ProcessEvent move no event in or out. *)
Within(e) ==
  \/ Reject(e) \/ RouteEvent(e)
  \/ \E id \in Ids : Skip(e, id) \/ ExecuteRule(e, id)
  \/ Succeed(e) \/ Retry(e) \/ GiveUp(e) \/ Panic(e)
  \/ AllExecuted(e) \/ MarkProcessed(e) \/ RecordMetrics(e)

LEMMA WithinCounts ==
  ASSUME TypeOK, CountInv, NEW e \in Events, Within(e)
  PROVE  CountInv'
<1>1. /\ pc[e] \in {"start", "next", "act", "mark", "metrics"}
      /\ UNCHANGED batchVars
      /\ \E p \in {"next", "act", "mark", "metrics", "ok", "error", "panic"} :
           pc' = [pc EXCEPT ![e] = p] \/ pc' = pc
  <2> USE DEF Goto
  <2>1. CASE Reject(e) \/ RouteEvent(e)
    BY <2>1 DEF Reject, RouteEvent
  <2>2. CASE \E id \in Ids : Skip(e, id) \/ ExecuteRule(e, id)
    BY <2>2 DEF Skip, ExecuteRule, IsNext
  <2>3. CASE Succeed(e) \/ GiveUp(e)
    BY <2>3 DEF Succeed, GiveUp, LeaveRule
  <2>4. CASE Retry(e) \/ Panic(e)
    BY <2>4 DEF Retry, Panic
  <2>5. CASE AllExecuted(e) \/ MarkProcessed(e) \/ RecordMetrics(e)
    BY <2>5 DEF AllExecuted, MarkProcessed, RecordMetrics
  <2>6. QED
    BY <2>1, <2>2, <2>3, <2>4, <2>5 DEF Within
<1>2. Inside' = Inside /\ Counted' = Counted
  BY <1>1 DEF TypeOK, Inside, Counted
<1>3. QED
  BY <1>1, <1>2 DEF CountInv, BatchAddsUp, batchVars

LEMMA NextCounts ==
  ASSUME TypeOK, CountInv, [Next]_vars
  PROVE  CountInv'
<1>1. ASSUME NEW e \in Events, Goroutine(e)
      PROVE  CountInv'
  BY <1>1, AcquireCounts, WithinCounts, OverCounts, ReleaseCounts
     DEF Goroutine, Within
<1>2. ASSUME NEW id \in Ids, NEW d \in Definitions \cup {Nil}, Change(id, d)
      PROVE  CountInv'
  BY <1>2 DEF Change, batchVars, CountInv, BatchAddsUp, Inside, Counted
<1>3. CASE UNCHANGED vars
  BY <1>3 DEF vars, batchVars, CountInv, BatchAddsUp, Inside, Counted
<1>4. QED
  BY <1>1, <1>2, <1>3 DEF Next
-----------------------------------------------------------------------------
LEMMA ActionLists ==
  ASSUME NEW s \in Seq(Actions)
  PROVE  /\ s # <<>> => 1 \in 1 .. Len(s)
         /\ \A i \in 1 .. Len(s) : s[i].retries \in Nat
<1>1. s # <<>> => Len(s) # 0
  OBVIOUS
<1>2. \A i \in 1 .. Len(s) : s[i] \in Actions
  OBVIOUS
<1>3. QED
  BY <1>1, <1>2 DEF Actions

LEMMA NextActionOK ==
  ASSUME NEW r \in Jobs, JobOK(r), r.at < Len(r.actions)
  PROVE  LET j == [r EXCEPT !.at = @ + 1, !.tried = 0]
         IN j \in Jobs /\ JobOK(j)
<1> DEFINE j == [r EXCEPT !.at = @ + 1, !.tried = 0]
<1>1. /\ j \in Jobs
      /\ j.id = r.id
      /\ j.actions = r.actions
      /\ j.at = r.at + 1
      /\ j.tried = 0
  <2> DEFINE k == [r EXCEPT !.at = @ + 1]
  <2>1. /\ k \in Jobs
        /\ k.id = r.id
        /\ k.actions = r.actions
        /\ k.at = r.at + 1
    BY DEF Jobs
  <2>2. j = [k EXCEPT !.tried = 0]
    OBVIOUS
  <2> HIDE DEF k, j
  <2>3. QED
    BY <2>1, <2>2 DEF Jobs
<1>2. j.at \in 1 .. Len(j.actions)
  BY <1>1 DEF Jobs, JobOK
<1>3. j.actions[j.at].retries \in Nat
  BY <1>1, <1>2, ActionLists DEF Jobs
<1>4. QED
  BY <1>1, <1>2, <1>3 DEF JobOK

LEMMA NextAttemptOK ==
  ASSUME NEW r \in Jobs, JobOK(r), r.tried < r.actions[r.at].retries
  PROVE  LET j == [r EXCEPT !.tried = @ + 1] IN j \in Jobs /\ JobOK(j)
<1> DEFINE j == [r EXCEPT !.tried = @ + 1]
<1>1. /\ j \in Jobs
      /\ j.id = r.id
      /\ j.actions = r.actions
      /\ j.at = r.at
      /\ j.tried = r.tried + 1
  BY DEF Jobs
<1>2. r.actions[r.at].retries \in Nat
  BY ActionLists DEF Jobs, JobOK
<1>3. QED
  BY <1>1, <1>2 DEF JobOK, Jobs

(* The position of a goroutine within its rule, and its attempts.          *)
LEMMA RuleType ==
  ASSUME TypeOK, NEW e \in Events,
         \/ \E id \in Ids : Skip(e, id) \/ ExecuteRule(e, id)
         \/ Succeed(e) \/ Retry(e) \/ GiveUp(e) \/ Panic(e)
  PROVE  TypeOK'
<1> USE DEF TypeOK, Places, batchVars, ruleVars, Goto
<1>1. ASSUME NEW id \in Ids, Skip(e, id)
      PROVE  TypeOK'
  BY <1>1 DEF Skip, IsNext
<1>2. ASSUME NEW id \in Ids, ExecuteRule(e, id)
      PROVE  TypeOK'
  <2> DEFINE j == [id |-> id, actions |-> rules[id].actions,
                   at |-> 1, tried |-> 0]
  <2>1. rules[id].actions \in Seq(Actions) /\ rules[id].actions # <<>>
    BY <1>2, ProcessorAssumption DEF ExecuteRule
  <2>2. j \in Jobs /\ JobOK(j)
    <3>1. j \in Jobs
      BY <2>1 DEF Jobs
    <3>2. j.at \in 1 .. Len(j.actions) /\ j.actions[j.at].retries \in Nat
      BY <2>1, ActionLists
    <3>3. QED
      BY <3>1, <3>2 DEF JobOK
  <2>3. job' = [job EXCEPT ![e] = j]
    BY <1>2 DEF ExecuteRule
  <2>4. QED
    BY <1>2, <2>2, <2>3 DEF ExecuteRule
<1>3. pc[e] = "act" => JobOK(job[e]) /\ job[e] \in Jobs
  OBVIOUS
<1>4. ASSUME LeaveRule(e), UNCHANGED <<batchVars, ruleVars, marked>>
      PROVE  TypeOK'
  BY <1>4 DEF LeaveRule, NoJob, Jobs, JobOK, Actions
<1>5. CASE Succeed(e)
  <2>1. CASE LeaveRule(e)
    BY <1>4, <1>5, <2>1 DEF Succeed
  <2>2. CASE /\ job[e].at < Len(job[e].actions)
             /\ job' = [job EXCEPT ![e].at = @ + 1, ![e].tried = 0]
             /\ UNCHANGED <<pc, todo, owed>>
    <3> DEFINE j == [job[e] EXCEPT !.at = @ + 1, !.tried = 0]
    <3>1. j \in Jobs /\ JobOK(j)
      BY <1>3, <1>5, <2>2, NextActionOK DEF Succeed
    <3>2. job' = [job EXCEPT ![e] = j]
      BY <2>2
    <3>3. QED
      BY <1>5, <2>2, <3>1, <3>2 DEF Succeed
  <2>3. QED
    BY <1>5, <2>1, <2>2 DEF Succeed
<1>6. CASE Retry(e)
  <2> DEFINE j == [job[e] EXCEPT !.tried = @ + 1]
  <2>1. j \in Jobs /\ JobOK(j)
    BY <1>3, <1>6, NextAttemptOK DEF Retry, MayRetry, Action
  <2>2. job' = [job EXCEPT ![e] = j]
    BY <1>6 DEF Retry
  <2>3. QED
    BY <1>6, <2>1, <2>2 DEF Retry
<1>7. CASE GiveUp(e)
  BY <1>4, <1>7 DEF GiveUp
<1>8. CASE Panic(e)
  BY <1>8 DEF Panic
<1>9. QED
  BY <1>1, <1>2, <1>5, <1>6, <1>7, <1>8

LEMMA NextType ==
  ASSUME TypeOK, CountInv, [Next]_vars
  PROVE  TypeOK'
<1> USE ProcessorAssumption DEF TypeOK, Places, batchVars, ruleVars, Goto
<1>1. ASSUME NEW e \in Events, Goroutine(e)
      PROVE  TypeOK'
  <2>1. CASE Acquire(e)
    BY <2>1 DEF Acquire
  <2>2. CASE Reject(e)
    BY <2>2 DEF Reject
  <2>3. CASE RouteEvent(e)
    BY <2>3 DEF RouteEvent, Routed
  <2>4. CASE \/ \E id \in Ids : Skip(e, id) \/ ExecuteRule(e, id)
             \/ Succeed(e) \/ Retry(e) \/ GiveUp(e) \/ Panic(e)
    BY <2>4, RuleType
  <2>5. CASE AllExecuted(e) \/ MarkProcessed(e) \/ RecordMetrics(e)
    BY <2>5 DEF AllExecuted, MarkProcessed, RecordMetrics
  <2>6. CASE Count(e)
    BY <2>6 DEF Count
  <2>7. CASE Release(e)
    <3>1. semaphore >= 1 /\ semaphore' = semaphore - 1
      BY <2>7, ReleaseCounts DEF Release, Token
    <3>2. /\ pc' \in [Events -> Places]
          /\ \A f \in Events : pc'[f] = "act" => pc[f] = "act"
      BY <2>7 DEF Release
    <3>3. semaphore' \in 0 .. MaxConcurrentProcessing
      BY <3>1
    <3>4. QED
      BY <2>7, <3>2, <3>3 DEF Release
  <2>8. CASE Recover(e)
    BY <2>8 DEF Recover
  <2>9. QED
    BY <1>1, <2>1, <2>2, <2>3, <2>4, <2>5, <2>6, <2>7, <2>8 DEF Goroutine
<1>2. ASSUME NEW id \in Ids, NEW d \in Definitions \cup {Nil}, Change(id, d)
      PROVE  TypeOK'
  <2>1. crashed' \in BOOLEAN
    BY <1>2, Zenon DEF Change
  <2>2. owed' \in [Events -> SUBSET Ids]
    BY <1>2 DEF Change
  <2>3. rules' \in [Ids -> Definitions \cup {Nil}] /\ calls' \in 0 .. MaxCalls
    BY <1>2 DEF Change
  <2>4. QED
    BY <1>2, <2>1, <2>2, <2>3 DEF Change
<1>3. CASE UNCHANGED vars
  BY <1>3 DEF vars
<1>4. QED
  BY <1>1, <1>2, <1>3 DEF Next
-----------------------------------------------------------------------------
LEMMA NextOwed ==
  ASSUME TypeOK, OwedInv, [Next]_vars
  PROVE  OwedInv'
<1> USE DEF TypeOK, OwedInv, Goto
<1>1. ASSUME NEW e \in Events, Goroutine(e)
      PROVE  OwedInv'
  <2>1. CASE Acquire(e) \/ Reject(e)
    BY <2>1 DEF Acquire, Reject
  <2>2. CASE RouteEvent(e)
    BY <2>2 DEF RouteEvent
  <2>3. ASSUME NEW id \in Ids, Skip(e, id)
        PROVE  OwedInv'
    BY <2>3 DEF Skip, IsNext
  <2>4. ASSUME NEW id \in Ids, ExecuteRule(e, id)
        PROVE  OwedInv'
    BY <2>4 DEF ExecuteRule, IsNext
  <2>5. ASSUME pc[e] = "act", LeaveRule(e), UNCHANGED marked
        PROVE  OwedInv'
    BY <2>5 DEF LeaveRule
  <2>6. ASSUME /\ job'[e].id = job[e].id
               /\ \A f \in Events \ {e} : job'[f] = job[f]
               /\ UNCHANGED <<pc, todo, marked, owed>>
        PROVE  OwedInv'
    BY <2>6
  <2>7. CASE Succeed(e)
    BY <2>5, <2>6, <2>7 DEF Succeed, Jobs
  <2>8. CASE Retry(e)
    BY <2>6, <2>8 DEF Retry, Jobs
  <2>9. CASE GiveUp(e)
    BY <2>5, <2>9 DEF GiveUp
  <2>10. CASE AllExecuted(e) \/ Panic(e)
    BY <2>10 DEF AllExecuted, Panic
  <2>11. CASE MarkProcessed(e)
    BY <2>11 DEF MarkProcessed
  <2>12. CASE RecordMetrics(e) \/ Count(e) \/ Release(e) \/ Recover(e)
    BY <2>12 DEF RecordMetrics, Count, Release, Recover
  <2>13. QED
    BY <1>1, <2>1, <2>2, <2>3, <2>4, <2>7, <2>8, <2>9, <2>10, <2>11, <2>12
       DEF Goroutine
<1>2. ASSUME NEW id \in Ids, NEW d \in Definitions \cup {Nil}, Change(id, d)
      PROVE  OwedInv'
  <2>1. \A e \in Events : owed'[e] \subseteq owed[e]
    BY <1>2 DEF Change
  <2>2. UNCHANGED <<pc, todo, job, marked>>
    BY <1>2 DEF Change
  <2>3. QED
    BY <2>1, <2>2
<1>3. CASE UNCHANGED vars
  BY <1>3 DEF vars
<1>4. QED
  BY <1>1, <1>2, <1>3 DEF Next
-----------------------------------------------------------------------------
Inv == TypeOK /\ CountInv /\ OwedInv

LEMMA InitInv == Init => Inv
<1> SUFFICES ASSUME Init PROVE Inv
  OBVIOUS
<1>1. TypeOK
  <2>1. NoJob \in Jobs
    BY DEF NoJob, Jobs
  <2>2. \A e \in Events : pc[e] # "act"
    BY DEF Init
  <2>3. job \in [Events -> Jobs]
    BY <2>1 DEF Init
  <2>4. /\ rules \in [Ids -> Definitions \cup {Nil}]
        /\ semaphore \in 0 .. MaxConcurrentProcessing
        /\ calls \in 0 .. MaxCalls
    BY ProcessorAssumption DEF Init
  <2>5. QED
    BY <2>2, <2>3, <2>4 DEF Init, TypeOK, Places
<1>2. Inside = {} /\ Counted = {}
  BY DEF Init, Inside, Counted
<1>3. CountInv
  BY <1>2, FS_EmptySet DEF Init, CountInv, BatchAddsUp
<1>4. OwedInv
  BY DEF Init, OwedInv
<1>5. QED
  BY <1>1, <1>3, <1>4 DEF Inv

LEMMA Invariance == Spec => []Inv
<1>1. Inv /\ [Next]_vars => Inv'
  BY NextType, NextCounts, NextOwed DEF Inv
<1>2. QED
  BY InitInv, <1>1, PTL DEF Spec

(* Every variable keeps its type: no action of any rule is attempted more  *)
(* than 1 + MaxAttempts times (executeRule and retryAction).               *)
THEOREM ProcessorTypeCorrect == Spec => []TypeOK
<1>1. Inv => TypeOK
  BY DEF Inv
<1>2. QED
  BY Invariance, <1>1, PTL

(* The semaphore of ProcessEvents bounds the events inside ProcessEvent,   *)
(* because each holds exactly one token from Acquire to Release.           *)
THEOREM ConcurrencyIsBounded == Spec => []ConcurrencyBounded
<1>1. Inv => ConcurrencyBounded
  BY ProcessorAssumption DEF Inv, CountInv, TypeOK, ConcurrencyBounded
<1>2. QED
  BY Invariance, <1>1, PTL

(* BatchProcessResult counts every event exactly once, however its         *)
(* goroutine ends.                                                         *)
THEOREM CountersAddUp == Spec => []BatchAddsUp
<1>1. Inv => BatchAddsUp
  BY DEF Inv, CountInv
<1>2. QED
  BY Invariance, <1>1, PTL

(* For any rules, and any changes of them, an event whose row says         *)
(* processed has executed every enabled rule it was routed to.             *)
THEOREM NoRuleIsSkipped == Spec => []EveryRuleExecuted
<1>1. Inv => EveryRuleExecuted
  BY DEF Inv, OwedInv, TypeOK, EveryRuleExecuted
<1>2. QED
  BY Invariance, <1>1, PTL
-----------------------------------------------------------------------------
NothingStarts == \A e \in Events : pc[e] = "spawned"

(* With a capacity of 0, what the program has unless its configuration     *)
(* sets max_concurrent_processing, every goroutine waits for a token for   *)
(* ever: no event of any batch is processed, rejected or counted, and      *)
(* ProcessEvents does not return (NewEventProcessor, ProcessEvents).       *)
THEOREM NoCapacityNoProgress ==
  ASSUME MaxConcurrentProcessing = 0, Events # {}
  PROVE  Spec => [](NothingStarts /\ ~Returned)
<1>1. Init => NothingStarts
  BY DEF Init, NothingStarts
<1>2. TypeOK /\ NothingStarts /\ [Next]_vars => NothingStarts'
  <2> SUFFICES ASSUME TypeOK, NothingStarts, [Next]_vars PROVE NothingStarts'
    OBVIOUS
  <2>1. ASSUME NEW e \in Events, Goroutine(e) PROVE FALSE
    <3>1. pc[e] = "spawned" /\ semaphore = 0
      BY DEF NothingStarts, TypeOK
    <3>2. ~Acquire(e)
      BY <3>1 DEF Acquire
    <3>3. Goroutine(e) => Acquire(e)
      BY <3>1 DEF Goroutine, Reject, RouteEvent, Skip, ExecuteRule, IsNext, Succeed,
         Retry, GiveUp, Panic, AllExecuted, MarkProcessed, RecordMetrics, Count,
         Release, Recover
    <3>4. QED
      BY <2>1, <3>2, <3>3
  <2>2. UNCHANGED pc
    BY <2>1 DEF Next, Change, vars
  <2>3. QED
    BY <2>2 DEF NothingStarts
<1>3. NothingStarts => ~Returned
  BY DEF NothingStarts, Returned
<1>4. QED
  BY <1>1, <1>2, <1>3, ProcessorTypeCorrect, PTL DEF Spec
=============================================================================
