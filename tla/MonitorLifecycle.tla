-------------------------- MODULE MonitorLifecycle --------------------------
(***************************************************************************)
(* Who starts and stops the polling loop, and what they wait for: em.mu,   *)
(* Start, Stop and monitoringLoop (internal/monitor), the handlers of      *)
(* /monitor/start, /monitor/stop and /monitor/status and the updater of    *)
(* the metrics (internal/server), Application.Start and Stop               *)
(* (cmd/listener).                                                         *)
(*                                                                         *)
(* em.mu is a sync.RWMutex.  A section under it that cannot block is one   *)
(* step, taken when nobody holds it; the sections of Start and Stop, which *)
(* call the database and wait for goroutines, hold it over several steps.  *)
(***************************************************************************)
EXTENDS Integers, FiniteSets

CONSTANTS
  Requests,    \* HTTP requests in flight at the same time
  Loops,       \* names for the goroutines that run monitoringLoop
  BatchSize,   \* the longest range of one poll
  EnableMetrics,  \* server.enable_metrics
  Nobody       \* em.mu is free

Callers == Requests \cup {"main"}

ASSUME LifecycleAssumption ==
  /\ "main" \notin Requests
  /\ Nobody \notin Callers
  /\ BatchSize \in Nat
  /\ EnableMetrics \in BOOLEAN

VARIABLES
  mu,          \* who holds em.mu for writing
  running,     \* em.running
  stopClosed,  \* stopChan is closed, once and for all (stopOnce)
  loop,        \* where each goroutine is; their number is em.wg
  left,        \* the blocks left in its range
  owner,       \* the caller whose context it was started with
  cancelled,   \* the goroutines whose context is cancelled
  at, op,      \* where each caller is, in which operation
  app,         \* where Application.Start and Stop are
  closed,      \* the storage is closed
  timedOut,    \* one of the two waits of Application.Stop was given up
  updater      \* where the goroutine of systemMetricsUpdater is

loopVars == <<loop, left, owner, cancelled>>
callVars == <<at, op>>
appVars == <<app, closed, timedOut, updater>>
vars == <<mu, running, stopClosed, loopVars, callVars, appVars>>

LoopStates == {"none", "select", "poll", "block", "stats", "record"}
CallStates == {"idle", "check", "lock", "inside", "wait", "ok", "failed"}
AppStates == {"boot", "starting", "serving", "draining", "stopping",
              "closing", "closed", "exited"}

UpdaterStates == {"none", "select", "health"}

Alive == {l \in Loops : loop[l] # "none"}
Up == app # "exited"
-----------------------------------------------------------------------------
Init ==
  /\ mu = Nobody
  /\ running = FALSE
  /\ stopClosed = FALSE
  /\ loop = [l \in Loops |-> "none"]
  /\ left = [l \in Loops |-> 0]
  /\ owner = [l \in Loops |-> "main"]
  /\ cancelled = {}
  /\ at = [c \in Callers |-> "idle"]
  /\ op = [c \in Callers |-> "none"]
  /\ app = "boot"
  /\ closed = FALSE
  /\ timedOut = FALSE
  /\ updater = "none"
-----------------------------------------------------------------------------
(* monitoringLoop: the select. The context or stopChan ends it, ...        *)
LoopExits(l) ==
  /\ Up
  /\ loop[l] = "select"
  /\ stopClosed \/ l \in cancelled
  /\ loop' = [loop EXCEPT ![l] = "none"]
  /\ owner' = [owner EXCEPT ![l] = "main"]
  /\ cancelled' = cancelled \ {l}
  /\ UNCHANGED <<mu, running, stopClosed, left, callVars, appVars>>

(* ... and a tick starts a poll. *)
Tick(l) ==
  /\ Up
  /\ loop[l] = "select"
  /\ loop' = [loop EXCEPT ![l] = "poll"]
  /\ UNCHANGED <<mu, running, stopClosed, left, owner, cancelled, callVars,
                 appVars>>

(* pollForNewBlocks: an error, nothing to do, or a range of blocks. *)
Poll(l) ==
  /\ Up
  /\ loop[l] = "poll"
  /\ \/ /\ loop' = [loop EXCEPT ![l] = "record"]
        /\ UNCHANGED left
     \/ /\ loop' = [loop EXCEPT ![l] = "select"]
        /\ UNCHANGED left
     \/ \E n \in 1 .. BatchSize :
          /\ loop' = [loop EXCEPT ![l] = "block"]
          /\ left' = [left EXCEPT ![l] = n]
  /\ UNCHANGED <<mu, running, stopClosed, owner, cancelled, callVars, appVars>>

(* recordError takes em.mu. *)
RecordError(l) ==
  /\ Up
  /\ loop[l] = "record"
  /\ mu = Nobody
  /\ loop' = [loop EXCEPT ![l] = "select"]
  /\ UNCHANGED <<mu, running, stopClosed, left, owner, cancelled, callVars,
                 appVars>>

(* Mutant: the count of blocks runs below zero. *)
NextBlockForEver(l) ==
  /\ loop' = [loop EXCEPT ![l] = IF left[l] # 1 THEN "block" ELSE "select"]
  /\ left' = [left EXCEPT ![l] = left[l] - 2]

(* ProcessBlock returned; the range goes on or is over. *)
NextBlock(l) ==
  /\ loop' = [loop EXCEPT ![l] = IF left[l] > 1 THEN "block" ELSE "select"]
  /\ left' = [left EXCEPT ![l] = left[l] - 1]

(* ProcessBlock fails before it needs em.mu. *)
BlockFails(l) ==
  /\ Up
  /\ loop[l] = "block"
  /\ NextBlock(l)
  /\ UNCHANGED <<mu, running, stopClosed, owner, cancelled, callVars, appVars>>

(* It copies the addresses under the read lock; without any, or after an   *)
(* error later on, it returns, and otherwise updates the statistics.       *)
SnapshotAddresses(l) ==
  /\ Up
  /\ loop[l] = "block"
  /\ mu = Nobody
  /\ \/ NextBlock(l)
     \/ loop' = [loop EXCEPT ![l] = "stats"] /\ UNCHANGED left
  /\ UNCHANGED <<mu, running, stopClosed, owner, cancelled, callVars, appVars>>

UpdateStats(l) ==
  /\ Up
  /\ loop[l] = "stats"
  /\ mu = Nobody
  /\ NextBlock(l)
  /\ UNCHANGED <<mu, running, stopClosed, owner, cancelled, callVars, appVars>>

LoopStep(l) ==
  \/ LoopExits(l) \/ Tick(l) \/ Poll(l) \/ RecordError(l)
  \/ BlockFails(l) \/ SnapshotAddresses(l) \/ UpdateStats(l)
-----------------------------------------------------------------------------
Goto(c, where) == at' = [at EXCEPT ![c] = where] /\ UNCHANGED op
Begin(c, o, where) ==
  at' = [at EXCEPT ![c] = where] /\ op' = [op EXCEPT ![c] = o]
End(c) == Begin(c, "none", "idle")

(* A request arrives while the server listens. *)
Receive(r) ==
  /\ app \in {"starting", "serving"}
  /\ at[r] = "idle"
  /\ \E o \in {"start", "stop", "status"} : Begin(r, o, "check")
  /\ UNCHANGED <<mu, running, stopClosed, loopVars, appVars>>

(* The three handlers begin with IsRunning, under the read lock: a start   *)
(* of a running monitor and a stop of a stopped one are refused.           *)
CheckRunning(r) ==
  /\ Up
  /\ at[r] = "check"
  /\ mu = Nobody
  /\ IF op[r] = "status" \/ (op[r] = "start" <=> running)
       THEN End(r) ELSE Goto(r, "lock")
  /\ UNCHANGED <<mu, running, stopClosed, loopVars, appVars>>

(* Start and Stop hold em.mu until they return. *)
LockMu(c) ==
  /\ Up
  /\ at[c] = "lock"
  /\ mu = Nobody
  /\ mu' = c
  /\ Goto(c, "inside")
  /\ UNCHANGED <<running, stopClosed, loopVars, appVars>>

Unlock(c, result) == mu' = Nobody /\ Goto(c, result)

(* Mutant: the error path of Start keeps the lock. *)
StartFailsLocked(c) ==
  /\ Up
  /\ at[c] = "inside"
  /\ op[c] = "start"
  /\ Goto(c, "failed")
  /\ UNCHANGED <<mu, running, stopClosed, loopVars, appVars>>

(* Start: already running, or the contracts cannot be loaded. *)
StartFails(c) ==
  /\ Up
  /\ at[c] = "inside"
  /\ op[c] = "start"
  /\ Unlock(c, "failed")
  /\ UNCHANGED <<running, stopClosed, loopVars, appVars>>

(* Start: a new goroutine, with the context of the caller. *)
StartLoop(c) ==
  /\ Up
  /\ at[c] = "inside"
  /\ op[c] = "start"
  /\ ~running
  /\ running' = TRUE
  /\ \E l \in Loops \ Alive :
       /\ loop' = [loop EXCEPT ![l] = "select"]
       /\ owner' = [owner EXCEPT ![l] = c]
  /\ Unlock(c, "ok")
  /\ UNCHANGED <<stopClosed, left, cancelled, appVars>>

(* Stop of a stopped monitor does nothing; ...                             *)
StopNothing(c) ==
  /\ Up
  /\ at[c] = "inside"
  /\ op[c] = "stop"
  /\ ~running
  /\ Unlock(c, "ok")
  /\ UNCHANGED <<running, stopClosed, loopVars, appVars>>

(* Mutant: em.mu is released before the wait. *)
StopSignalUnlocked(c) ==
  /\ Up
  /\ at[c] = "inside"
  /\ op[c] = "stop"
  /\ running
  /\ running' = FALSE
  /\ stopClosed' = TRUE
  /\ Unlock(c, "wait")
  /\ UNCHANGED <<loopVars, appVars>>

(* ... otherwise it closes stopChan and, still holding em.mu, ...          *)
StopSignal(c) ==
  /\ Up
  /\ at[c] = "inside"
  /\ op[c] = "stop"
  /\ running
  /\ running' = FALSE
  /\ stopClosed' = TRUE
  /\ Goto(c, "wait")
  /\ UNCHANGED <<mu, loopVars, appVars>>

(* Mutant: Stop does not wait. *)
StopDoneAtOnce(c) ==
  /\ Up
  /\ at[c] = "wait"
  /\ Unlock(c, "ok")
  /\ UNCHANGED <<running, stopClosed, loopVars, appVars>>

(* ... waits for the goroutines (em.wg.Wait). *)
StopDone(c) ==
  /\ Up
  /\ at[c] = "wait"
  /\ Alive = {}
  /\ Unlock(c, "ok")
  /\ UNCHANGED <<running, stopClosed, loopVars, appVars>>

(* The handler returns: net/http cancels the context of its request.       *)
Reply(r) ==
  /\ Up
  /\ at[r] \in {"ok", "failed"}
  /\ End(r)
  /\ cancelled' = cancelled \cup {l \in Alive : owner[l] = r}
  /\ UNCHANGED <<mu, running, stopClosed, loop, left, owner, appVars>>

Operation(c) ==
  \/ LockMu(c) \/ StartFails(c) \/ StartLoop(c)
  \/ StopNothing(c) \/ StopSignal(c) \/ StopDone(c)

Handler(r) == CheckRunning(r) \/ Operation(r) \/ Reply(r)
-----------------------------------------------------------------------------
(* Application.Start: the HTTP server first, with the updater, ...         *)
StartServer ==
  /\ app = "boot"
  /\ app' = "starting"
  /\ updater' = IF EnableMetrics THEN "select" ELSE "none"
  /\ Begin("main", "start", "lock")
  /\ UNCHANGED <<mu, running, stopClosed, loopVars, closed, timedOut>>

(* It cannot listen, or panics in the first update of the metrics, where   *)
(* PostgreSQL has no health to report: the program ends.                   *)
ServerFails ==
  /\ app = "boot"
  /\ app' = "exited"
  /\ UNCHANGED <<mu, running, stopClosed, loopVars, callVars, closed, timedOut,
                 updater>>

(* ... then the monitor; without it the program ends.                      *)
MonitorStarted ==
  /\ app = "starting"
  /\ at["main"] \in {"ok", "failed"}
  /\ app' = IF at["main"] = "ok" THEN "serving" ELSE "exited"
  /\ End("main")
  /\ UNCHANGED <<mu, running, stopClosed, loopVars, closed, timedOut, updater>>

(* A signal: Application.Stop shuts the server down.                       *)
Signal ==
  /\ app = "serving"
  /\ app' = "draining"
  /\ UNCHANGED <<mu, running, stopClosed, loopVars, callVars, closed, timedOut,
                 updater>>

Drained == \A r \in Requests : at[r] = "idle"

(* It goes on to monitor.Stop, in a goroutine, ...                         *)
StopMonitor ==
  /\ app = "draining"
  /\ app' = "stopping"
  /\ Begin("main", "stop", "lock")
  /\ UNCHANGED <<mu, running, stopClosed, loopVars, closed, updater>>

(* Mutant: Close instead of Shutdown, requests are not waited for. *)
ServerClosed == StopMonitor /\ UNCHANGED timedOut

(* ... when every request is answered, ...                                 *)
ServerStopped == Drained /\ StopMonitor /\ UNCHANGED timedOut

(* ... or after 30 seconds. *)
ServerStopTimesOut == ~Drained /\ StopMonitor /\ timedOut' = TRUE

(* The goroutine is done, ... *)
MonitorStopped ==
  /\ app = "stopping"
  /\ at["main"] = "ok"
  /\ app' = "closing"
  /\ End("main")
  /\ UNCHANGED <<mu, running, stopClosed, loopVars, closed, timedOut, updater>>

(* Mutant: no select on the shutdown context. *)
MonitorStopNeverTimesOut == FALSE /\ UNCHANGED vars

(* ... or the 30 seconds of the shutdown context are over. *)
MonitorStopTimesOut ==
  /\ app = "stopping"
  /\ at["main"] # "ok"
  /\ app' = "closing"
  /\ timedOut' = TRUE
  /\ UNCHANGED <<mu, running, stopClosed, loopVars, callVars, closed, updater>>

CloseStorage ==
  /\ app = "closing"
  /\ app' = "closed"
  /\ closed' = TRUE
  /\ UNCHANGED <<mu, running, stopClosed, loopVars, callVars, timedOut,
                 updater>>

(* The application's context is cancelled and main returns. *)
Exit ==
  /\ app = "closed"
  /\ app' = "exited"
  /\ UNCHANGED <<mu, running, stopClosed, loopVars, callVars, closed, timedOut,
                 updater>>

Main ==
  \/ StartServer \/ ServerFails \/ MonitorStarted
  \/ ServerStopped \/ ServerStopTimesOut
  \/ MonitorStopped \/ MonitorStopTimesOut
  \/ CloseStorage \/ Exit
-----------------------------------------------------------------------------
(* systemMetricsUpdater: every 30 seconds, for as long as the program runs, *)
(* it asks the components for their health, ...                            *)
UpdaterTick ==
  /\ Up
  /\ updater = "select"
  /\ updater' = "health"
  /\ UNCHANGED <<mu, running, stopClosed, loopVars, callVars, app, closed,
                 timedOut>>

(* ... the monitor too, which reads the cursor from the storage.           *)
HealthUpdated ==
  /\ Up
  /\ updater = "health"
  /\ ~closed
  /\ updater' = "select"
  /\ UNCHANGED <<mu, running, stopClosed, loopVars, callVars, app, closed,
                 timedOut>>

(* Close sets the handle of the database to nil: a goroutine that reads it *)
(* afterwards panics, and the program ends.  (net/http recovers from the   *)
(* panic of a request.)                                                    *)
PanicOnClosedStorage ==
  /\ Up
  /\ closed
  /\ updater = "health" \/ \E l \in Alive : loop[l] \in {"poll", "block"}
  /\ app' = "exited"
  /\ UNCHANGED <<mu, running, stopClosed, loopVars, callVars, closed,
                 timedOut, updater>>

Updater == UpdaterTick \/ HealthUpdated
-----------------------------------------------------------------------------
Next ==
  \/ \E l \in Loops : LoopStep(l)
  \/ \E r \in Requests : Receive(r) \/ Handler(r)
  \/ Operation("main")
  \/ Signal
  \/ Main
  \/ Updater
  \/ PanicOnClosedStorage

(* Strong fairness: a sync.RWMutex starves nobody, and a select chooses    *)
(* evenly among the channels that are ready, so a closed stopChan wins     *)
(* sooner or later.  Requests and the signal may never come, and nobody    *)
(* waits for the updater.                                                  *)
Fairness ==
  /\ \A l \in Loops : SF_vars(LoopStep(l)) /\ SF_vars(LoopExits(l))
  /\ \A r \in Requests : SF_vars(Handler(r))
  /\ SF_vars(Operation("main"))
  /\ WF_vars(Main)

Spec == Init /\ [][Next]_vars /\ Fairness
-----------------------------------------------------------------------------
(* Every variable has its type; a range has between none and BatchSize     *)
(* blocks left (ProcessBlockRange).                                        *)
TypeOK ==
  /\ mu \in Callers \cup {Nobody}
  /\ running \in BOOLEAN
  /\ stopClosed \in BOOLEAN
  /\ loop \in [Loops -> LoopStates]
  /\ left \in [Loops -> 0 .. BatchSize]
  /\ owner \in [Loops -> Callers]
  /\ cancelled \subseteq Loops
  /\ at \in [Callers -> CallStates]
  /\ op \in [Callers -> {"none", "start", "stop", "status"}]
  /\ app \in AppStates
  /\ closed \in BOOLEAN
  /\ timedOut \in BOOLEAN
  /\ updater \in UpdaterStates

(***************************************************************************)
(* However starts and stops from the API and from main overlap, the blocks *)
(* are scanned by one goroutine at a time (Start, Stop).                   *)
(***************************************************************************)
OneLoop == \A l, m \in Alive : l = m

(***************************************************************************)
(* Between operations, a monitor that says it is stopped has no goroutine  *)
(* left that could still read or write (Stop, em.wg.Wait).                 *)
(***************************************************************************)
StoppedMeansQuiet == ~running /\ mu = Nobody => Alive = {}

(* Who may still use the storage. *)
StorageUsers ==
  Alive \cup {r \in Requests : at[r] # "idle"}
        \cup {u \in {"systemMetricsUpdater"} : updater # "none"}

(***************************************************************************)
(* Unless one of its waits timed out, Application.Stop closes the storage  *)
(* after the last goroutine of the monitor and the last request are done   *)
(* with it.  Not so the updater of the metrics, which nothing stops: where *)
(* metrics are enabled it may use the storage to the end, and after.       *)
(***************************************************************************)
CleanShutdown ==
  closed /\ ~timedOut =>
    StorageUsers \subseteq
      (IF EnableMetrics THEN {"systemMetricsUpdater"} ELSE {})

(* Some Stop is waiting for its goroutines. *)
StopWaits == \E c \in Callers : at[c] = "wait"

(* What the callers of Start and Stop see of the monitor. *)
ServiceState ==
  CASE StopWaits -> "stopping"
    [] running /\ ~StopWaits -> "running"
    [] OTHER -> "stopped"

Service == INSTANCE MonitorService
             WITH state <- ServiceState, scanning <- Alive # {}

(***************************************************************************)
(* However the requests and main interleave, the monitor implements        *)
(* MonitorService step by step: the steps of Start and Stop under em.mu    *)
(* look to everybody else like one start and a stop with a beginning and   *)
(* an end.                                                                 *)
(***************************************************************************)
ImplementsService == Service!Spec

(***************************************************************************)
(* After a signal the program ends, whatever hangs (Application.Stop).     *)
(***************************************************************************)
ShutdownTerminates == app = "draining" ~> app = "exited"

(***************************************************************************)
(* A request is answered, unless some Stop is waiting for its goroutines:  *)
(* nothing else holds em.mu for ever.                                      *)
(***************************************************************************)
OnlyStopBlocks ==
  \A r \in Requests :
    at[r] # "idle" ~> (at[r] = "idle" \/ StopWaits \/ app = "exited")

(***************************************************************************)
(* "Stop monitor gracefully with timeout" (cmd/listener/main.go), "Wait    *)
(* for goroutines to finish" (monitor.go): the wait of Stop comes to an    *)
(* end.                                                                    *)
(***************************************************************************)
StopReturns ==
  \A c \in Callers :
    at[c] = "wait" ~> (at[c] # "wait" \/ app = "exited")

(***************************************************************************)
(* "IsRunning returns whether the monitor is running" (monitor.go): when   *)
(* it says so there is a goroutine that polls.                             *)
(***************************************************************************)
RunningMeansPolling == running /\ mu = Nobody => Alive # {}
=============================================================================
