--------------------------- MODULE EventProcessor ---------------------------
(***************************************************************************)
(* internal/processor: one call of EventProcessor.ProcessEvents, which     *)
(* starts a goroutine per event and lets MaxConcurrentProcessing of them   *)
(* run ProcessEvent at a time, while other goroutines add, update and      *)
(* remove rules and workflows.                                             *)
(*                                                                         *)
(* A step of a goroutine is one call to something outside (an action, the  *)
(* storage), one critical section, or one read of the maps of rules and    *)
(* workflows, which ProcessEvent reads WITHOUT ep.mu.                      *)
(*                                                                         *)
(* A rule and a workflow differ here in when they run (all rules first),   *)
(* in what routes an event to them, and in that a workflow's steps are     *)
(* never retried.  What an action does (notify, webhook, store, transform, *)
(* aggregate) is left out: it succeeds, returns an error, or panics        *)
(* because its configuration lacks a key the code asserts.                 *)
(***************************************************************************)
EXTENDS Naturals, Sequences, FiniteSets

CONSTANTS
  Events,                   \* the events of the batch
  Invalid,                  \* those ValidateEvent rejects (none: disabled)
  RuleIds, WorkflowIds,     \* the keys of ep.rules and ep.workflows
  Definitions,              \* what a rule or workflow may say
  Preloaded,                \* the definition each id has at the beginning
  MaxConcurrentProcessing,  \* the capacity of the semaphore
  MaxCalls,                 \* bound: changes of rules and workflows
  Nil                       \* no rule or workflow under this id

Ids == RuleIds \cup WorkflowIds

(* An action or a workflow step.  retries is RetryLogic.MaxAttempts, 0     *)
(* without a RetryLogic; broken: its configuration makes it panic.         *)
Actions == [retries : Nat, broken : BOOLEAN]

ASSUME ProcessorAssumption ==
  /\ IsFiniteSet(Events)
  /\ Invalid \subseteq Events
  /\ RuleIds \cap WorkflowIds = {}
  /\ Definitions \subseteq [enabled : BOOLEAN,
                            matches : SUBSET Events,
                            actions : Seq(Actions)]
  /\ Nil \notin Definitions \cup Ids
  /\ Preloaded \in [Ids -> Definitions \cup {Nil}]
  /\ MaxConcurrentProcessing \in Nat
  /\ MaxCalls \in Nat

VARIABLES
  rules,      \* ep.rules and ep.workflows
  semaphore,  \* tokens in the channel
  pc,         \* where the goroutine of each event is
  todo,       \* RoutingResult: the ids it has not come to yet
  job,        \* the rule it executes: actions, position, attempts made
  processed,  \* BatchProcessResult.ProcessedEvents
  failed,     \* BatchProcessResult.FailedEvents
  marked,     \* events whose row says processed
  crashed,    \* the Go runtime ended the process
  calls,      \* changes of rules so far
  owed        \* history: the enabled rules an event was routed to that
              \* nobody took away and that it has not executed yet

batchVars == <<semaphore, processed, failed>>
ruleVars == <<rules, calls, crashed>>
vars == <<batchVars, ruleVars, pc, todo, job, marked, owed>>

Places == {"spawned", "start", "next", "act", "mark", "metrics", "ok",
           "error", "panic", "counted", "recover", "done"}

NoJob == [id |-> Nil, actions |-> <<>>, at |-> 1, tried |-> 0]

Init ==
  /\ rules = Preloaded
  /\ semaphore = 0
  /\ pc = [e \in Events |-> "spawned"]
  /\ todo = [e \in Events |-> {}]
  /\ job = [e \in Events |-> NoJob]
  /\ processed = 0
  /\ failed = 0
  /\ marked = {}
  /\ crashed = FALSE
  /\ calls = 0
  /\ owed = [e \in Events |-> {}]

Goto(e, place) == pc' = [pc EXCEPT ![e] = place]
-----------------------------------------------------------------------------
(* semaphore <- struct{}{} *)
Acquire(e) ==
  /\ pc[e] = "spawned"
  /\ semaphore < MaxConcurrentProcessing
  /\ semaphore' = semaphore + 1
  /\ Goto(e, "start")
  /\ UNCHANGED <<ruleVars, todo, job, processed, failed, marked, owed>>

(* Mutant: the error path gives the token back, and the deferred call too. *)
RejectAndRelease(e) ==
  /\ pc[e] = "start"
  /\ e \in Invalid
  /\ semaphore' = semaphore - 1
  /\ Goto(e, "error")
  /\ UNCHANGED <<ruleVars, todo, job, processed, failed, marked, owed>>

(* An invalid event is not marked, nor counted in the statistics. *)
Reject(e) ==
  /\ pc[e] = "start"
  /\ e \in Invalid
  /\ Goto(e, "error")
  /\ UNCHANGED <<batchVars, ruleVars, todo, job, marked, owed>>

(* A rule is routed by its conditions, whether it is enabled or not; a     *)
(* workflow by being enabled.                                              *)
Routed(e) ==
  {id \in Ids : /\ rules[id] # Nil
                /\ IF id \in RuleIds THEN e \in rules[id].matches
                                     ELSE rules[id].enabled}

RouteEvent(e) ==
  /\ pc[e] = "start"
  /\ e \notin Invalid
  /\ todo' = [todo EXCEPT ![e] = Routed(e)]
  /\ owed' = [owed EXCEPT ![e] = {id \in Routed(e) : rules[id].enabled}]
  /\ Goto(e, "next")
  /\ UNCHANGED <<batchVars, ruleVars, job, marked>>

(* Rules come in the order of the map, which is any, and before workflows. *)
IsNext(e, id) ==
  /\ pc[e] = "next"
  /\ id \in todo[e]
  /\ id \in WorkflowIds => todo[e] \cap RuleIds = {}

(* It was removed meanwhile, it is disabled, or it has no actions. *)
Skip(e, id) ==
  /\ IsNext(e, id)
  /\ rules[id] # Nil /\ rules[id].enabled => rules[id].actions = <<>>
  /\ todo' = [todo EXCEPT ![e] = @ \ {id}]
  /\ owed' = [owed EXCEPT ![e] = @ \ {id}]
  /\ UNCHANGED <<batchVars, ruleVars, pc, job, marked>>

(* The goroutine keeps its pointer to the rule, whatever becomes of it. *)
ExecuteRule(e, id) ==
  /\ IsNext(e, id)
  /\ rules[id] # Nil
  /\ rules[id].enabled
  /\ rules[id].actions # <<>>
  /\ todo' = [todo EXCEPT ![e] = @ \ {id}]
  /\ job' = [job EXCEPT ![e] = [id |-> id, actions |-> rules[id].actions,
                                at |-> 1, tried |-> 0]]
  /\ Goto(e, "act")
  /\ UNCHANGED <<batchVars, ruleVars, marked, owed>>
-----------------------------------------------------------------------------
Action(e) == job[e].actions[job[e].at]

(* Mutant: ProcessEvent leaves its loop after the first rule. *)
LeaveRuleAtOnce(e) ==
  /\ owed' = [owed EXCEPT ![e] = @ \ {job[e].id}]
  /\ job' = [job EXCEPT ![e] = NoJob]
  /\ Goto(e, "mark")
  /\ UNCHANGED todo

(* ProcessEvent goes on with the next rule, whether this one succeeded or  *)
(* not: an error only ends up in the result.                               *)
LeaveRule(e) ==
  /\ owed' = [owed EXCEPT ![e] = @ \ {job[e].id}]
  /\ job' = [job EXCEPT ![e] = NoJob]
  /\ Goto(e, "next")
  /\ UNCHANGED todo

(* An attempt succeeds: on to the next action, its attempts from zero. *)
Succeed(e) ==
  /\ pc[e] = "act"
  /\ ~Action(e).broken
  /\ IF job[e].at < Len(job[e].actions)
       THEN /\ job' = [job EXCEPT ![e].at = @ + 1, ![e].tried = 0]
            /\ UNCHANGED <<pc, todo, owed>>
       ELSE LeaveRule(e)
  /\ UNCHANGED <<batchVars, ruleVars, marked>>

(* Mutant: attempt <= MaxAttempts, counted from 0. *)
MayRetryOnceMore(e) == job[e].tried =< Action(e).retries

(* executeRule makes one attempt, retryAction MaxAttempts more. *)
MayRetry(e) == job[e].tried < Action(e).retries

Retry(e) ==
  /\ pc[e] = "act"
  /\ ~Action(e).broken
  /\ MayRetry(e)
  /\ job' = [job EXCEPT ![e].tried = @ + 1]
  /\ UNCHANGED <<batchVars, ruleVars, pc, todo, marked, owed>>

(* The last attempt fails, or the context ends in the pause before a       *)
(* second retry: the rest of the rule is left out.                         *)
GiveUp(e) ==
  /\ pc[e] = "act"
  /\ ~Action(e).broken
  /\ MayRetry(e) => job[e].tried >= 1
  /\ LeaveRule(e)
  /\ UNCHANGED <<batchVars, ruleVars, marked>>

Panic(e) ==
  /\ pc[e] = "act"
  /\ Action(e).broken
  /\ Goto(e, "panic")
  /\ UNCHANGED <<batchVars, ruleVars, todo, job, marked, owed>>
-----------------------------------------------------------------------------
AllExecuted(e) ==
  /\ pc[e] = "next"
  /\ todo[e] = {}
  /\ Goto(e, "mark")
  /\ UNCHANGED <<batchVars, ruleVars, todo, job, marked, owed>>

(* UpdateEvent with Processed set, although rules may have failed; an      *)
(* error of the storage is only logged.                                    *)
MarkProcessed(e) ==
  /\ pc[e] = "mark"
  /\ marked' \in {marked, marked \cup {e}}
  /\ Goto(e, "metrics")
  /\ UNCHANGED <<batchVars, ruleVars, todo, job, owed>>

(* NewEventProcessor does not set it, nor does anything else. *)
MetricsManagerIsNil == TRUE

(* ep.metricsManager.GetPrometheusMetrics() dereferences its receiver. *)
RecordMetrics(e) ==
  /\ pc[e] = "metrics"
  /\ Goto(e, IF MetricsManagerIsNil THEN "panic" ELSE "ok")
  /\ UNCHANGED <<batchVars, ruleVars, todo, job, marked, owed>>

(* ProcessEvent returned: counted under mu, before the token goes back. *)
Count(e) ==
  /\ pc[e] \in {"ok", "error"}
  /\ failed' = failed + (IF pc[e] = "error" THEN 1 ELSE 0)
  /\ processed' = processed + (IF pc[e] = "ok" THEN 1 ELSE 0)
  /\ Goto(e, "counted")
  /\ UNCHANGED <<ruleVars, semaphore, todo, job, marked, owed>>

(* Mutant: not deferred, <-semaphore is not reached after a panic. *)
TokenUndeferred(e) ==
  semaphore' = IF pc[e] = "counted" THEN semaphore - 1 ELSE semaphore

(* <-semaphore, deferred: it runs after a panic too. *)
Token(e) == semaphore' = semaphore - 1

Release(e) ==
  /\ pc[e] \in {"counted", "panic"}
  /\ Token(e)
  /\ Goto(e, IF pc[e] = "counted" THEN "done" ELSE "recover")
  /\ UNCHANGED <<ruleVars, todo, job, processed, failed, marked, owed>>

(* Mutant: the recovered event is not counted. *)
RecoverUncounted(e) ==
  /\ pc[e] = "recover"
  /\ Goto(e, "done")
  /\ UNCHANGED <<ruleVars, batchVars, todo, job, marked, owed>>

(* The deferred recover: the panic is this event's only. *)
Recover(e) ==
  /\ pc[e] = "recover"
  /\ failed' = failed + 1
  /\ Goto(e, "done")
  /\ UNCHANGED <<ruleVars, semaphore, todo, job, processed, marked, owed>>
-----------------------------------------------------------------------------
(* AddRule, UpdateRule, RemoveRule and the same for workflows, under       *)
(* ep.mu.  A goroutine that reads the map at this moment, without the      *)
(* lock, makes the Go runtime end the process if it notices.               *)
Change(id, definition) ==
  /\ calls < MaxCalls
  /\ calls' = calls + 1
  /\ rules' = [rules EXCEPT ![id] = definition]
  /\ crashed' \in {FALSE, \E e \in Events : pc[e] \in {"start", "next"}}
  /\ owed' = IF definition # Nil /\ definition.enabled THEN owed
             ELSE [e \in Events |-> owed[e] \ {id}]
  /\ UNCHANGED <<batchVars, pc, todo, job, marked>>

Goroutine(e) ==
  /\ ~crashed
  /\ \/ Acquire(e) \/ Reject(e) \/ RouteEvent(e)
     \/ \E id \in Ids : Skip(e, id) \/ ExecuteRule(e, id)
     \/ Succeed(e) \/ Retry(e) \/ GiveUp(e) \/ Panic(e)
     \/ AllExecuted(e) \/ MarkProcessed(e) \/ RecordMetrics(e)
     \/ Count(e) \/ Release(e) \/ Recover(e)

Next ==
  \/ \E e \in Events : Goroutine(e)
  \/ /\ ~crashed
     /\ \E id \in Ids, definition \in Definitions \cup {Nil} :
          Change(id, definition)

Spec == Init /\ [][Next]_vars

(* Goroutines are scheduled, and every call they make returns. *)
FairSpec == Spec /\ \A e \in Events : WF_vars(Goroutine(e))
-----------------------------------------------------------------------------
Jobs == [id : Ids \cup {Nil}, actions : Seq(Actions), at : Nat, tried : Nat]

(* The rule an event executes is at an action it has, within its attempts. *)
JobOK(j) ==
  /\ j.id \in Ids
  /\ j.at \in 1 .. Len(j.actions)
  /\ j.tried \in 0 .. j.actions[j.at].retries

(* Every variable has its type; in particular no action is attempted more  *)
(* than 1 + MaxAttempts times, and none past the end of its rule.          *)
TypeOK ==
  /\ rules \in [Ids -> Definitions \cup {Nil}]
  /\ semaphore \in 0 .. MaxConcurrentProcessing
  /\ pc \in [Events -> Places]
  /\ todo \in [Events -> SUBSET Ids]
  /\ job \in [Events -> Jobs]
  /\ \A e \in Events : pc[e] = "act" => JobOK(job[e])
  /\ processed \in Nat
  /\ failed \in Nat
  /\ marked \subseteq Events
  /\ crashed \in BOOLEAN
  /\ calls \in 0 .. MaxCalls
  /\ owed \in [Events -> SUBSET Ids]

Inside == {e \in Events : pc[e] \notin {"spawned", "recover", "done"}}
Counted == {e \in Events : pc[e] \in {"counted", "done"}}
Returned == \A e \in Events : pc[e] = "done"

(* ProcessEvents never runs ProcessEvent for more than                     *)
(* MaxConcurrentProcessing events at once, even after panics: the token    *)
(* of an event goes back exactly once.                                     *)
ConcurrencyBounded == Cardinality(Inside) =< MaxConcurrentProcessing

(* Every event is in exactly one of the counters of BatchProcessResult     *)
(* once it is over, whether it was rejected, panicked inside or outside    *)
(* a rule, or succeeded: they add up to TotalEvents in the end.            *)
BatchAddsUp == processed + failed = Cardinality(Counted)

(* A row says processed only when every enabled rule and workflow its      *)
(* event was routed to has been executed, to its end or to an action that  *)
(* failed for good, unless somebody took it away meanwhile: neither a rule *)
(* that fails nor a change of other rules makes an event skip one.         *)
EveryRuleExecuted == \A e \in marked : owed[e] = {}

(* ProcessEvents returns, whatever fails or panics in it, unless the       *)
(* process ended.  (Not with a capacity of 0, which the program has unless *)
(* its configuration sets max_concurrent_processing: nothing is acquired.) *)
BatchReturns == MaxConcurrentProcessing >= 1 => <>(Returned \/ crashed)

(* What the test says of a batch: "All events should be processed". An     *)
(* event may count as failed when it is invalid or an action's             *)
(* configuration makes it panic, for nothing else.                         *)
Misconfigured ==
  \E d \in Definitions : \E i \in DOMAIN d.actions : d.actions[i].broken

AllEventsProcessed ==
  Returned /\ ~Misconfigured => failed = Cardinality(Invalid)
=============================================================================
