------------------------ MODULE NotificationDelivery ------------------------
(***************************************************************************)
(* internal/notification with its callers: the goroutines that execute an  *)
(* action of a rule (executeAction, again from retryAction when it fails)  *)
(* or a request to the test endpoint, the manager's counters, the webhook  *)
(* sender with retries of its own, and the email sender in its dialog with *)
(* the SMTP server.                                                        *)
(*                                                                         *)
(* What is sent is left out: templates always render, payloads always      *)
(* marshal.  The servers may do anything: a request may not reach the      *)
(* webhook's, or its answer may not come back.                             *)
(***************************************************************************)
EXTENDS RetryBackoff, FiniteSets

CONSTANTS
  Callers,        \* the goroutines
  Orders,         \* what a caller may be asked to deliver
  RetryAttempts,  \* notifications.retry_attempts: 0 unless configured
  MaxAttempts,    \* retry_logic.max_attempts of the actions, 0 without one
  HasTimeout,     \* notifications.notification_timeout > 0
  Channels,       \* ids of notification channels
  None            \* no order yet

(* via: a webhook action calls the sender, past the manager.  Of the       *)
(* types, "other" is none the manager knows.  sound: every recipient is an *)
(* address and there is a subject.                                         *)
AllOrders == [via : {"webhook action", "notify action", "test request"},
              type : {"webhook", "email", "other"}, recipients : Nat,
              sound : BOOLEAN]

ASSUME DeliveryAssumption ==
  /\ IsFiniteSet(Callers) /\ IsFiniteSet(Channels)
  /\ Orders \subseteq AllOrders /\ None \notin Orders
  /\ \A o \in Orders :
       o.via = "webhook action" => o.type = "webhook" /\ o.recipients = 1
  /\ RetryAttempts \in Nat /\ MaxAttempts \in Nat
  /\ HasTimeout \in BOOLEAN
  /\ NoOverflow(RetryAttempts)

VARIABLES
  call,      \* what each caller does: its order, where it is, the rounds of
             \* retryAction, the attempt of the webhook sender, the step of
             \* the SMTP dialog, whether the last delivery returned an error
  ended,     \* callers whose context has ended
  reached,   \* callers whose request is at the webhook's server
  stats,     \* NotificationStats
  notified,  \* ProcessorStats.TotalNotificationsSent
  manager,   \* NotificationManager: running, the channels
  requests,  \* history: the requests each caller made of httpClient.Do
  answered,  \* history: those answered with a 2xx that came back
  accepted   \* history: copies of its email the SMTP server accepted

history == <<requests, answered, accepted>>
counters == <<stats, notified>>
vars == <<call, ended, reached, counters, manager, history>>

NoCall == [order |-> None, pc |-> "idle", round |-> 0, attempt |-> 0,
           step |-> 0, error |-> FALSE]

Final == {"ok", "error", "panic"}

Init ==
  /\ call = [c \in Callers |-> NoCall]
  /\ ended = {} /\ reached = {}
  /\ stats = [sent |-> 0, failed |-> 0, active |-> 0]
  /\ notified = 0
  /\ manager = [running |-> TRUE, channels |-> {}]
  /\ requests = [c \in Callers |-> 0]
  /\ answered = [c \in Callers |-> 0]
  /\ accepted = [c \in Callers |-> 0]

Order(c) == call[c].order
At(c, place) == call[c].pc = place
Goto(c, place) == call' = [call EXCEPT ![c].pc = place]

(* SendWebhook or SendEmail returns: to SendNotification, or to the        *)
(* webhook action.                                                         *)
Return(c, error) ==
  call' = [call EXCEPT
    ![c].pc = IF Order(c).via = "webhook action" THEN "returned" ELSE "account",
    ![c].error = error]

-----------------------------------------------------------------------------
(* An event comes to the action, or a client asks for a test. *)
Begin(c, order) ==
  /\ At(c, "idle")
  /\ call' = [call EXCEPT ![c].pc = "execute", ![c].order = order]
  /\ UNCHANGED <<ended, reached, counters, manager, history>>

(* validateEmailConfig *)
ValidEmail(order) == order.recipients > 0 /\ order.sound

(* Without attempts SendWebhook has no response and dereferences nil;      *)
(* without recipients SendNotification indexes an empty list.              *)
Dispatch(c) ==
  /\ At(c, "execute")
  /\ LET o == Order(c)
     IN  \/ /\ o.type = "webhook" /\ o.recipients > 0 /\ RetryAttempts > 0
            /\ call' = [call EXCEPT ![c].pc = "send", ![c].attempt = 1]
         \/ /\ o.type = "webhook" /\ (o.recipients = 0 \/ RetryAttempts = 0)
            /\ Goto(c, "panic")
         \/ /\ o.type = "email" /\ ValidEmail(o)
            /\ call' = [call EXCEPT ![c].pc = "smtp", ![c].step = 1]
         \/ /\ o.type = "other" \/ (o.type = "email" /\ ~ValidEmail(o))
            /\ Return(c, TRUE)
  /\ UNCHANGED <<ended, reached, counters, manager, history>>

-----------------------------------------------------------------------------
(* sendWebhookWithRetry                                                    *)

(* Mutant: attempt <= MaxAttempts is asked before it is counted. *)
AttemptFailedOnceMore(c) ==
  IF call[c].attempt <= RetryAttempts
    THEN call' = [call EXCEPT ![c].pc = "pause", ![c].attempt = @ + 1]
    ELSE Return(c, TRUE)

AttemptFailed(c) ==
  IF call[c].attempt < RetryAttempts
    THEN call' = [call EXCEPT ![c].pc = "pause", ![c].attempt = @ + 1]
    ELSE Return(c, TRUE)

(* Mutant: a request without its context. *)
SendRequestAnyway(c) ==
  /\ At(c, "send")
  /\ Goto(c, "wait")
  /\ requests' = [requests EXCEPT ![c] = @ + 1]
  /\ reached' \in {reached, reached \cup {c}}
  /\ UNCHANGED <<ended, counters, manager, answered, accepted>>

(* The request carries the context: once that has ended, Do fails and      *)
(* nothing leaves.                                                         *)
SendRequest(c) ==
  /\ At(c, "send")
  /\ \/ /\ c \notin ended
        /\ Goto(c, "wait")
        /\ requests' = [requests EXCEPT ![c] = @ + 1]
        /\ reached' \in {reached, reached \cup {c}}
     \/ /\ c \in ended
        /\ AttemptFailed(c)
        /\ UNCHANGED <<requests, reached>>
  /\ UNCHANGED <<ended, counters, manager, answered, accepted>>

(* Mutant: the loop goes on after a success. *)
AnswerNotLookedAt(c) ==
  /\ At(c, "wait") /\ c \in reached
  /\ reached' = reached \ {c}
  /\ \/ /\ answered' = [answered EXCEPT ![c] = @ + 1]
        /\ IF call[c].attempt < RetryAttempts THEN AttemptFailed(c) ELSE Return(c, FALSE)
     \/ AttemptFailed(c) /\ UNCHANGED answered
  /\ UNCHANGED <<ended, counters, manager, requests, accepted>>

(* A 2xx, or another status. *)
Answer(c) ==
  /\ At(c, "wait") /\ c \in reached
  /\ reached' = reached \ {c}
  /\ \/ answered' = [answered EXCEPT ![c] = @ + 1] /\ Return(c, FALSE)
     \/ AttemptFailed(c) /\ UNCHANGED answered
  /\ UNCHANGED <<ended, counters, manager, requests, accepted>>

(* Refused, broken, out of time, or the context ends: the server may have  *)
(* had the request or not.                                                 *)
NoAnswer(c) ==
  /\ At(c, "wait")
  /\ reached' = reached \ {c}
  /\ AttemptFailed(c)
  /\ UNCHANGED <<ended, counters, manager, history>>

(* The pause before an attempt. *)
Delay(c) == CalculateRetryDelay(call[c].attempt)

(* The select of a pause: the timer, in the sender or in retryAction. *)
TimerFires(c) ==
  /\ \/ At(c, "pause") /\ Goto(c, "send")
     \/ At(c, "backoff") /\ Goto(c, "execute")
  /\ UNCHANGED <<ended, reached, counters, manager, history>>

(* Or ctx.Done(): retryAction returns ctx.Err(), too. *)
PauseCancelled(c) ==
  /\ c \in ended
  /\ \/ At(c, "pause") /\ Return(c, TRUE)
     \/ At(c, "backoff") /\ Goto(c, "error")
  /\ UNCHANGED <<ended, reached, counters, manager, history>>

-----------------------------------------------------------------------------
(* sendEmailTLS.  The context plays no part in it, and no step has a       *)
(* timeout.                                                                *)

(* Dial, StartTLS, Mail, Rcpt for each recipient, Data, Write. *)
LastStep(c) == 5 + Order(c).recipients

SMTPStep(c) ==
  /\ At(c, "smtp")
  /\ IF call[c].step < LastStep(c)
       THEN call' = [call EXCEPT ![c].step = @ + 1]
       ELSE Goto(c, "close")
  /\ UNCHANGED <<ended, reached, counters, manager, history>>

(* Before the final dot: nobody gets the email, whoever was accepted as    *)
(* recipient.                                                              *)
SMTPFails(c) ==
  /\ At(c, "smtp")
  /\ Return(c, TRUE)
  /\ UNCHANGED <<ended, reached, counters, manager, history>>

(* Mutant: the answer is looked at, and may be lost. *)
CloseChecked(c) ==
  /\ At(c, "close")
  /\ \E copies \in {0, 1}, confirmed \in BOOLEAN :
       /\ confirmed => copies = 1
       /\ accepted' = [accepted EXCEPT ![c] = @ + copies]
       /\ Return(c, ~confirmed)
  /\ UNCHANGED <<ended, reached, counters, manager, requests, answered>>

(* The deferred writer.Close() sends the final dot, and its error, the     *)
(* server's answer to the email, goes nowhere.                             *)
Close(c) ==
  /\ At(c, "close")
  /\ \E copies \in {0, 1} : accepted' = [accepted EXCEPT ![c] = @ + copies]
  /\ Return(c, FALSE)
  /\ UNCHANGED <<ended, reached, counters, manager, requests, answered>>

-----------------------------------------------------------------------------
(* Mutant: a failure is not a notification that was sent. *)
AccountSuccesses(c) ==
  /\ At(c, "account")
  /\ stats' = [stats EXCEPT !.sent = @ + (IF call[c].error THEN 0 ELSE 1),
                            !.failed = @ + (IF call[c].error THEN 1 ELSE 0)]
  /\ Goto(c, IF ~call[c].error /\ Order(c).via = "notify action"
               THEN "count" ELSE "returned")
  /\ UNCHANGED <<ended, reached, notified, manager, history>>

(* updateNotificationStats under nm.mu, which counts a failure in both. *)
Account(c) ==
  /\ At(c, "account")
  /\ stats' = [stats EXCEPT !.sent = @ + 1,
                            !.failed = @ + (IF call[c].error THEN 1 ELSE 0)]
  /\ Goto(c, IF ~call[c].error /\ Order(c).via = "notify action"
               THEN "count" ELSE "returned")
  /\ UNCHANGED <<ended, reached, notified, manager, history>>

(* executeNotifyAction, under ep.mu. *)
Count(c) ==
  /\ At(c, "count")
  /\ notified' = notified + 1
  /\ Goto(c, "returned")
  /\ UNCHANGED <<ended, reached, stats, manager, history>>

(* Mutant: attempt <= MaxAttempts, counted from 0. *)
MayRetryOnceMore(c) ==
  Order(c).via # "test request" /\ call[c].round <= MaxAttempts

MayRetry(c) == Order(c).via # "test request" /\ call[c].round < MaxAttempts

(* Mutant: retryAction tries until it succeeds. *)
ReturnedUncounted(c) ==
  /\ At(c, "returned")
  /\ \/ ~call[c].error /\ Goto(c, "ok")
     \/ call[c].error /\ ~MayRetry(c) /\ Goto(c, "error")
     \/ call[c].error /\ MayRetry(c) /\ Goto(c, "backoff")
  /\ UNCHANGED <<ended, reached, counters, manager, history>>

(* executeRule, retryAction or testNotificationHandler has the result.     *)
(* retryAction pauses before its second attempt, not before its first.     *)
Returned(c) ==
  /\ At(c, "returned")
  /\ \/ ~call[c].error /\ Goto(c, "ok")
     \/ call[c].error /\ ~MayRetry(c) /\ Goto(c, "error")
     \/ /\ call[c].error /\ MayRetry(c)
        /\ call' = [call EXCEPT ![c].round = @ + 1,
                      ![c].pc = IF call[c].round = 0 THEN "execute" ELSE "backoff"]
  /\ UNCHANGED <<ended, reached, counters, manager, history>>

(* The program stops, or the client of the test endpoint goes away. *)
ContextEnds(c) ==
  /\ c \notin ended /\ call[c].pc \notin Final \cup {"idle"}
  /\ ended' = ended \cup {c}
  /\ UNCHANGED <<call, reached, counters, manager, history>>

-----------------------------------------------------------------------------
(* The rest of the manager, under nm.mu.  Sending asks for none of it.     *)
Start ==
  /\ ~manager.running
  /\ manager' = [manager EXCEPT !.running = TRUE]
  /\ UNCHANGED <<call, ended, reached, counters, history>>

Stop ==
  /\ manager.running
  /\ manager' = [manager EXCEPT !.running = FALSE]
  /\ UNCHANGED <<call, ended, reached, counters, history>>

AddChannel(channel) ==
  /\ manager' = [manager EXCEPT !.channels = @ \cup {channel}]
  /\ UNCHANGED <<call, ended, reached, counters, history>>

RemoveChannel(channel) ==
  /\ manager' = [manager EXCEPT !.channels = @ \ {channel}]
  /\ UNCHANGED <<call, ended, reached, counters, history>>

(* Writes a counter with only the read lock held, and hands out the record *)
(* itself.                                                                 *)
GetStats ==
  /\ stats' = [stats EXCEPT !.active = Cardinality(manager.channels)]
  /\ UNCHANGED <<call, ended, reached, notified, manager, history>>

(* Steps of the caller's own, which only need it to be scheduled. *)
Own(c) ==
  \/ Dispatch(c) \/ SendRequest(c) \/ TimerFires(c) \/ PauseCancelled(c)
  \/ Account(c) \/ Count(c) \/ Returned(c)

Servers(c) == Answer(c) \/ NoAnswer(c) \/ SMTPStep(c) \/ SMTPFails(c) \/ Close(c)

Next ==
  \/ \E c \in Callers :
       \/ \E order \in Orders : Begin(c, order)
       \/ Own(c) \/ Servers(c) \/ ContextEnds(c)
  \/ Start \/ Stop \/ GetStats
  \/ \E channel \in Channels : AddChannel(channel) \/ RemoveChannel(channel)

Spec == Init /\ [][Next]_vars

(* Goroutines are scheduled and timers fire; a request ends by the timeout *)
(* of the client or by its context.  The SMTP server owes nothing.         *)
FairSpec ==
  /\ Spec
  /\ \A c \in Callers :
       /\ WF_vars(Own(c))
       /\ WF_vars((HasTimeout \/ c \in ended) /\ NoAnswer(c))
-----------------------------------------------------------------------------
Places == {"idle", "execute", "send", "wait", "pause", "smtp", "close",
           "account", "count", "returned", "backoff"} \cup Final

Calls == [order : Orders \cup {None}, pc : Places, round : 0 .. MaxAttempts,
          attempt : 0 .. RetryAttempts, step : Nat, error : BOOLEAN]

(* The state has the shape the code gives it.                              *)
TypeOK ==
  /\ call \in [Callers -> Calls]
  /\ \A c \in Callers : At(c, "idle") <=> Order(c) = None
  /\ ended \subseteq Callers
  /\ reached \subseteq {c \in Callers : At(c, "wait")}
  /\ stats \in [sent : Nat, failed : Nat, active : Nat]
  /\ notified \in Nat
  /\ manager \in [running : BOOLEAN, channels : SUBSET Channels]
  /\ requests \in [Callers -> Nat]
  /\ answered \in [Callers -> Nat]
  /\ accepted \in [Callers -> Nat]

(* Through both layers of retries: a webhook is reported as sent exactly   *)
(* when its server answered 2xx, and after that answer it is not requested *)
(* again.  (Before, it may have been served any number of times.)          *)
SentMeansAnswered ==
  \A c \in Callers :
    /\ answered[c] <= 1
    /\ At(c, "ok") /\ Order(c).type = "webhook" => answered[c] = 1
    /\ call[c].pc \in {"error", "panic"} => answered[c] = 0

(* An email is never accepted twice, however often its action is retried,  *)
(* and one that is reported as failed has reached nobody: the code takes   *)
(* "sent" at the final dot and does not look at the answer.  (So one that  *)
(* is reported as sent may have been refused.)                             *)
EmailAtMostOnce ==
  \A c \in Callers :
    /\ accepted[c] <= 1
    /\ call[c].pc \in {"error", "panic"} => accepted[c] = 0

(* The retries of the sender and of retryAction multiply, and no more: an  *)
(* action calls httpClient.Do at most (1 + max_attempts) * retry_attempts  *)
(* times, a test at most retry_attempts times.  (The requests that Do      *)
(* sends within one call, to follow redirects, are not counted: there is   *)
(* no CheckRedirect.)                                                      *)
RequestsBounded ==
  \A c \in Callers : call[c].pc # "idle" =>
    requests[c] <= RetryAttempts * (IF Order(c).via = "test request"
                                      THEN 1 ELSE 1 + MaxAttempts)

(* The counters of the manager and of the processor, each under a lock of  *)
(* its own, agree up to what is in between: the notifications that did not *)
(* fail are those the processor has counted, those it is about to count,   *)
(* and the tests.                                                          *)
CountersAgree ==
  stats.sent - stats.failed =
    notified + Cardinality({c \in Callers :
      \/ At(c, "count")
      \/ /\ call[c].pc \in {"returned", "ok"} /\ ~call[c].error
         /\ Order(c).via = "test request"})

(* Each pause of a delivery is twice the one before, up to MaxDelay; none  *)
(* is negative, and none is left out where a delay is configured, as long  *)
(* as retry_attempts does not overflow them (NoOverflow).  Nothing is said *)
(* of the first one, on which the code and its comment disagree            *)
(* (RetryBackoff_proofs, CommentDoublesTheDelay).                          *)
PausesDouble ==
  \A c \in Callers : At(c, "pause") =>
    /\ Delay(c) \in 0 .. MaxDelay
    /\ BaseDelay > 0 /\ MaxDelay > 0 => Delay(c) > 0
    /\ call[c].attempt > 2 =>
         Delay(c) = Doubled(CalculateRetryDelay(call[c].attempt - 1))

(* No webhook is requested once its context has ended, from either layer   *)
(* of retries, although a pause and its timer may end at the same time.    *)
QuietAfterEnd == [][\A c \in ended : requests'[c] = requests[c]]_vars

(* With a notification timeout, every delivery ends, unless it waits for   *)
(* the SMTP server, for which there is no timeout at all.                  *)
DeliveriesEnd ==
  HasTimeout => \A c \in Callers :
    At(c, "execute") ~> call[c].pc \in Final \cup {"smtp", "close"}
=============================================================================
