----------------------- MODULE MonitorLifecycle_proofs -----------------------
(***************************************************************************)
(* Proofs about MonitorLifecycle, for any number of requests, goroutines   *)
(* and blocks.                                                             *)
(***************************************************************************)
EXTENDS MonitorLifecycle, TLAPS

(* A goroutine inside a range has a block left: what makes TypeOK          *)
(* inductive.                                                              *)
RangeInv == \A l \in Loops : loop[l] \in {"block", "stats"} => left[l] >= 1

TypeInv == TypeOK /\ RangeInv

(* Whoever is inside Start or Stop, and nobody else, holds em.mu.          *)
LockInv == \A c \in Callers : at[c] \in {"inside", "wait"} <=> mu = c

(* A stopped monitor has goroutines only while a Stop waits for them.      *)
RunInv ==
  /\ \A c \in Callers : at[c] = "wait" => ~running
  /\ ~running => Alive = {} \/ StopWaits
  /\ OneLoop

(* main is in an operation of the monitor only while it starts or stops.   *)
IdleInv == app \in {"boot", "serving", "draining"} => at["main"] = "idle"

Inv == LockInv /\ RunInv /\ IdleInv

(* From a clean end of Shutdown on, no request is in flight; and once      *)
(* main's Stop returned, no goroutine of the monitor is left either.       *)
Over == app \in {"closing", "closed"} \/ (app = "stopping" /\ at["main"] = "ok")

ShutdownInv ==
  /\ app = "stopping" => op["main"] = "stop"
  /\ app \in {"stopping", "closing", "closed"} /\ ~timedOut => Drained
  /\ app \in {"closing", "closed"} /\ ~timedOut => at["main"] = "idle"
  /\ Over /\ ~timedOut => ~running /\ Alive = {}
  /\ closed => app \in {"closed", "exited"}
  /\ app = "exited" /\ closed /\ ~timedOut => Alive = {} /\ Drained
  /\ updater # "none" => EnableMetrics
-----------------------------------------------------------------------------
(* NextBlock keeps the range of a goroutine within its bounds.             *)
LEMMA NextBlockType ==
  ASSUME TypeInv, NEW l \in Loops, loop[l] \in {"block", "stats"}, NextBlock(l)
  PROVE  /\ loop' \in [Loops -> LoopStates]
         /\ left' \in [Loops -> 0 .. BatchSize]
         /\ RangeInv'
<1>1. left[l] \in 1 .. BatchSize
  BY LifecycleAssumption DEF TypeInv, TypeOK, RangeInv
<1>2. QED
  BY <1>1, LifecycleAssumption
     DEF TypeInv, TypeOK, RangeInv, NextBlock, LoopStates

LEMMA LoopType ==
  ASSUME TypeInv, NEW l \in Loops, LoopStep(l)
  PROVE  TypeInv'
<1> USE LifecycleAssumption
    DEF TypeInv, TypeOK, LoopStates, Callers, loopVars, callVars, appVars
<1>1. CASE LoopExits(l)
  BY <1>1 DEF LoopExits, RangeInv
<1>2. CASE Tick(l)
  BY <1>2 DEF Tick, RangeInv
<1>3. CASE Poll(l)
  BY <1>3 DEF Poll, RangeInv
<1>4. CASE RecordError(l)
  BY <1>4 DEF RecordError, RangeInv
<1>5. CASE BlockFails(l)
  BY <1>5, NextBlockType DEF BlockFails
<1>6. CASE SnapshotAddresses(l)
  <2>1. CASE NextBlock(l)
    BY <1>6, <2>1, NextBlockType DEF SnapshotAddresses
  <2>2. CASE loop' = [loop EXCEPT ![l] = "stats"] /\ UNCHANGED left
    BY <1>6, <2>2 DEF SnapshotAddresses, RangeInv
  <2>3. QED
    BY <1>6, <2>1, <2>2 DEF SnapshotAddresses
<1>7. CASE UpdateStats(l)
  BY <1>7, NextBlockType DEF UpdateStats
<1>8. QED
  BY <1>1, <1>2, <1>3, <1>4, <1>5, <1>6, <1>7 DEF LoopStep

LEMMA CallerType ==
  ASSUME TypeInv, NEW c \in Callers,
         \/ c \in Requests /\ (Receive(c) \/ Handler(c))
         \/ Operation(c)
  PROVE  TypeInv'
<1> USE DEF TypeInv, TypeOK, CallStates, LoopStates, loopVars, callVars,
            appVars, Goto, Begin, End, Unlock
<1>1. CASE c \in Requests /\ (Receive(c) \/ CheckRunning(c) \/ Reply(c))
  <2>1. CASE Receive(c)
    BY <1>1, <2>1 DEF Receive, RangeInv
  <2>2. CASE CheckRunning(c)
    BY <1>1, <2>2 DEF CheckRunning, RangeInv
  <2>3. CASE Reply(c)
    BY <1>1, <2>3 DEF Reply, RangeInv, Alive
  <2>4. QED
    BY <1>1, <2>1, <2>2, <2>3
<1>2. CASE LockMu(c) \/ StartFails(c) \/ StopNothing(c) \/ StopSignal(c)
           \/ StopDone(c)
  <2>1. CASE LockMu(c)
    BY <2>1 DEF LockMu, RangeInv
  <2>2. CASE StartFails(c)
    BY <2>2 DEF StartFails, RangeInv
  <2>3. CASE StopNothing(c)
    BY <2>3 DEF StopNothing, RangeInv
  <2>4. CASE StopSignal(c)
    BY <2>4 DEF StopSignal, RangeInv
  <2>5. CASE StopDone(c)
    BY <2>5 DEF StopDone, RangeInv
  <2>6. QED
    BY <1>2, <2>1, <2>2, <2>3, <2>4, <2>5
<1>3. CASE StartLoop(c)
  BY <1>3 DEF StartLoop, Alive, RangeInv
<1>4. QED
  BY <1>1, <1>2, <1>3 DEF Handler, Operation

LEMMA MainType ==
  ASSUME TypeInv, Main \/ Signal
  PROVE  TypeInv'
<1> USE DEF TypeInv, TypeOK, CallStates, AppStates, UpdaterStates, Callers,
            loopVars, callVars, appVars, RangeInv, Begin, End
<1>1. CASE StartServer
  BY <1>1 DEF StartServer
<1>2. CASE MonitorStarted
  BY <1>2 DEF MonitorStarted
<1>3. CASE Signal
  BY <1>3 DEF Signal
<1>4. CASE ServerStopped \/ ServerStopTimesOut
  <2>1. StopMonitor /\ timedOut' \in BOOLEAN
    BY <1>4 DEF ServerStopped, ServerStopTimesOut
  <2>2. QED
    BY <2>1 DEF StopMonitor
<1>5. CASE MonitorStopped \/ MonitorStopTimesOut
  <2>1. CASE MonitorStopped
    BY <2>1 DEF MonitorStopped
  <2>2. CASE MonitorStopTimesOut
    BY <2>2 DEF MonitorStopTimesOut
  <2>3. QED
    BY <1>5, <2>1, <2>2
<1>6. CASE CloseStorage \/ Exit \/ ServerFails
  <2>1. /\ app' \in AppStates /\ closed' \in BOOLEAN
        /\ UNCHANGED <<mu, running, stopClosed, loopVars, callVars, timedOut,
                       updater>>
    BY <1>6 DEF CloseStorage, Exit, ServerFails
  <2>2. QED
    BY <2>1
<1>7. QED
  BY <1>1, <1>2, <1>3, <1>4, <1>5, <1>6 DEF Main

LEMMA UpdaterType ==
  ASSUME TypeInv, Updater \/ PanicOnClosedStorage
  PROVE  TypeInv'
<1> USE DEF TypeInv, TypeOK, RangeInv, AppStates, UpdaterStates, loopVars, callVars
<1>1. CASE Updater
  BY <1>1 DEF Updater, UpdaterTick, HealthUpdated
<1>2. CASE PanicOnClosedStorage
  BY <1>2 DEF PanicOnClosedStorage
<1>3. QED
  BY <1>1, <1>2

LEMMA NextType == TypeInv /\ [Next]_vars => TypeInv'
<1> SUFFICES ASSUME TypeInv, [Next]_vars PROVE TypeInv'
  OBVIOUS
<1>1. CASE \E l \in Loops : LoopStep(l)
  BY <1>1, LoopType
<1>2. CASE \/ \E r \in Requests : Receive(r) \/ Handler(r)
           \/ Operation("main")
  BY <1>2, CallerType DEF Callers
<1>3. CASE Main \/ Signal
  BY <1>3, MainType
<1>4. CASE Updater \/ PanicOnClosedStorage
  BY <1>4, UpdaterType
<1>5. CASE UNCHANGED vars
  BY <1>5 DEF vars, loopVars, callVars, appVars, TypeInv, TypeOK, RangeInv
<1>6. QED
  BY <1>1, <1>2, <1>3, <1>4, <1>5 DEF Next

LEMMA InitType == Init => TypeInv
<1> SUFFICES ASSUME Init PROVE TypeInv
  OBVIOUS
<1>1. RangeInv
  BY DEF Init, RangeInv
<1>2. /\ loop \in [Loops -> LoopStates]
      /\ left \in [Loops -> 0 .. BatchSize]
      /\ owner \in [Loops -> Callers]
      /\ at \in [Callers -> CallStates]
      /\ op \in [Callers -> {"none", "start", "stop", "status"}]
  BY LifecycleAssumption DEF Init, LoopStates, CallStates, Callers
<1>3. mu \in Callers \cup {Nobody} /\ app \in AppStates /\ cancelled \subseteq Loops
  BY DEF Init, AppStates
<1>4. /\ running \in BOOLEAN /\ stopClosed \in BOOLEAN
      /\ closed \in BOOLEAN /\ timedOut \in BOOLEAN
      /\ updater \in UpdaterStates
  BY DEF Init, UpdaterStates
<1>5. QED
  BY <1>1, <1>2, <1>3, <1>4 DEF TypeInv, TypeOK

(* Every variable keeps its type; ProcessBlockRange never counts below     *)
(* zero.                                                                   *)
THEOREM LifecycleTypeCorrect == Spec => []TypeOK
<1>1. TypeInv => TypeOK
  BY DEF TypeInv
<1>2. QED
  BY <1>1, InitType, NextType, PTL DEF Spec
-----------------------------------------------------------------------------
(* A goroutine's step neither takes em.mu nor starts a goroutine.          *)
LEMMA LoopInv ==
  ASSUME TypeInv, Inv, NEW l \in Loops, LoopStep(l)
  PROVE  Inv'
<1>1. /\ UNCHANGED <<mu, running, at, app>>
      /\ Alive' \subseteq Alive
  BY DEF LoopStep, LoopExits, Tick, Poll, RecordError, BlockFails,
     SnapshotAddresses, UpdateStats, NextBlock, Alive, callVars, appVars, TypeInv,
     TypeOK
<1>2. QED
  BY <1>1 DEF Inv, LockInv, RunInv, IdleInv, StopWaits, OneLoop

(* The steps of a caller. *)
LEMMA CallerLocks ==
  ASSUME TypeInv, Inv, NEW c \in Callers,
         \/ c \in Requests /\ (Receive(c) \/ Handler(c))
         \/ Operation(c)
  PROVE  LockInv' /\ RunInv'
<1> USE LifecycleAssumption
<1>1. at \in [Callers -> CallStates] /\ loop \in [Loops -> LoopStates]
  BY DEF TypeInv, TypeOK
<1>2. CASE c \in Requests /\ (Receive(c) \/ CheckRunning(c) \/ Reply(c))
  <2>1. /\ at[c] \notin {"inside", "wait"} /\ at'[c] \notin {"inside", "wait"}
        /\ \A d \in Callers \ {c} : at'[d] = at[d]
        /\ UNCHANGED <<mu, running, loop>>
    BY <1>1, <1>2 DEF Receive, CheckRunning, Reply, Begin, End, Goto, loopVars
  <2>2. QED
    BY <2>1 DEF Inv, LockInv, RunInv, StopWaits, OneLoop, Alive
<1>3. CASE LockMu(c)
  <2>1. /\ at[c] = "lock" /\ at'[c] = "inside" /\ mu = Nobody /\ mu' = c
        /\ \A d \in Callers \ {c} : at'[d] = at[d]
        /\ UNCHANGED <<running, loop>>
    BY <1>1, <1>3 DEF LockMu, Goto, loopVars
  <2>2. QED
    BY <2>1 DEF Inv, LockInv, RunInv, StopWaits, OneLoop, Alive
<1>4. CASE StartFails(c) \/ StopNothing(c)
  <2>1. /\ at[c] = "inside" /\ at'[c] \in {"ok", "failed"} /\ mu' = Nobody
        /\ \A d \in Callers \ {c} : at'[d] = at[d]
        /\ UNCHANGED <<running, loop>>
    BY <1>1, <1>4 DEF StartFails, StopNothing, Unlock, Goto, loopVars
  <2>2. QED
    BY <2>1 DEF Inv, LockInv, RunInv, StopWaits, OneLoop, Alive
<1>5. CASE StartLoop(c)
  <2>1. PICK l \in Loops \ Alive : loop' = [loop EXCEPT ![l] = "select"]
    BY <1>5 DEF StartLoop
  <2>2. /\ at[c] = "inside" /\ at'[c] = "ok" /\ mu' = Nobody /\ running'
        /\ ~running
        /\ \A d \in Callers \ {c} : at'[d] = at[d]
    BY <1>1, <1>5 DEF StartLoop, Unlock, Goto
  <2>3. \A d \in Callers : at[d] # "wait"
    BY <2>2 DEF Inv, LockInv
  <2>4. Alive = {}
    BY <2>2, <2>3 DEF Inv, RunInv, StopWaits
  <2>5. Alive' = {l}
    BY <1>1, <2>1, <2>4 DEF Alive
  <2>6. LockInv'
    BY <2>2 DEF Inv, LockInv
  <2>7. RunInv'
    BY <2>2, <2>3, <2>5 DEF RunInv, OneLoop
  <2>8. QED
    BY <2>6, <2>7
<1>6. CASE StopSignal(c)
  <2>1. /\ at[c] = "inside" /\ at'[c] = "wait" /\ mu' = mu /\ ~running'
        /\ \A d \in Callers \ {c} : at'[d] = at[d]
        /\ UNCHANGED loop
    BY <1>1, <1>6 DEF StopSignal, Goto, loopVars
  <2>2. QED
    BY <2>1 DEF Inv, LockInv, RunInv, StopWaits, OneLoop, Alive
<1>7. CASE StopDone(c)
  <2>1. /\ at[c] = "wait" /\ at'[c] = "ok" /\ mu' = Nobody /\ Alive = {}
        /\ \A d \in Callers \ {c} : at'[d] = at[d]
        /\ UNCHANGED <<running, loop>>
    BY <1>1, <1>7 DEF StopDone, Unlock, Goto, loopVars
  <2>2. QED
    BY <2>1 DEF Inv, LockInv, RunInv, StopWaits, OneLoop, Alive
<1>8. QED
  BY <1>2, <1>3, <1>4, <1>5, <1>6, <1>7 DEF Handler, Operation

(* A step of main's operation finds it in one. *)
LEMMA CallerIdle ==
  ASSUME TypeInv, Inv, NEW c \in Callers,
         \/ c \in Requests /\ (Receive(c) \/ Handler(c))
         \/ Operation(c)
  PROVE  IdleInv'
<1>1. at \in [Callers -> CallStates] /\ "main" \in Callers
  BY DEF TypeInv, TypeOK, Callers
<1>2. app' = app
  BY DEF Receive, Handler, Operation, CheckRunning, Reply, LockMu, StartFails,
     StartLoop, StopNothing, StopSignal, StopDone, appVars
<1>3. CASE c \in Requests
  <2>1. c # "main"
    BY <1>3, LifecycleAssumption
  <2>2. at'["main"] = at["main"]
    BY <1>1, <2>1 DEF Receive, Handler, Operation, CheckRunning, Reply, LockMu,
       StartFails, StartLoop, StopNothing, StopSignal, StopDone, Begin, End,
       Goto, Unlock
  <2>3. QED
    BY <1>2, <2>2 DEF Inv, IdleInv
<1>4. CASE c \notin Requests
  <2>1. c = "main" /\ Operation(c)
    BY <1>4 DEF Callers
  <2>2. at["main"] # "idle"
    BY <2>1 DEF Operation, LockMu, StartFails, StartLoop, StopNothing,
       StopSignal, StopDone
  <2>3. QED
    BY <1>2, <2>2 DEF Inv, IdleInv
<1>5. QED
  BY <1>3, <1>4

(* main enters no operation but by asking for em.mu. *)
LEMMA MainInv ==
  ASSUME TypeInv, Inv, Main \/ Signal
  PROVE  Inv'
<1>1. at \in [Callers -> CallStates] /\ "main" \in Callers
  BY DEF TypeInv, TypeOK, Callers
<1>2. CASE StartServer \/ StopMonitor
  <2>1. /\ at["main"] = "idle" /\ at'["main"] = "lock"
        /\ app' \in {"starting", "stopping"}
        /\ \A d \in Callers \ {"main"} : at'[d] = at[d]
        /\ UNCHANGED <<mu, running, loop>>
    BY <1>1, <1>2 DEF StartServer, StopMonitor, Begin, loopVars, Inv, IdleInv
  <2>2. QED
    BY <1>1, <2>1, LifecycleAssumption
       DEF Inv, LockInv, RunInv, IdleInv, StopWaits, OneLoop, Alive
<1>3. CASE MonitorStarted \/ MonitorStopped
  <2>1. /\ at["main"] \in {"ok", "failed"} /\ at'["main"] = "idle"
        /\ \A d \in Callers \ {"main"} : at'[d] = at[d]
        /\ UNCHANGED <<mu, running, loop>>
    BY <1>1, <1>3 DEF MonitorStarted, MonitorStopped, Begin, End, loopVars
  <2>2. QED
    BY <1>1, <2>1, LifecycleAssumption
       DEF Inv, LockInv, RunInv, IdleInv, StopWaits, OneLoop, Alive
<1>4. CASE Signal \/ MonitorStopTimesOut \/ CloseStorage \/ Exit \/ ServerFails
  <2>1. /\ UNCHANGED <<mu, running, loop, at>>
        /\ app' \in {"boot", "serving", "draining"} =>
             app \in {"boot", "serving", "draining"}
    BY <1>4 DEF Signal, MonitorStopTimesOut, CloseStorage, Exit, ServerFails,
       loopVars, callVars
  <2>2. QED
    BY <2>1 DEF Inv, LockInv, RunInv, IdleInv, StopWaits, OneLoop, Alive
<1>5. QED
  BY <1>2, <1>3, <1>4 DEF Main, ServerStopped, ServerStopTimesOut

(* The updater and a panic leave the monitor as it is. *)
LEMMA UpdaterInv ==
  ASSUME Inv, Updater \/ PanicOnClosedStorage
  PROVE  Inv'
<1>1. UNCHANGED <<mu, running, loop, at>> /\ app' \in {app, "exited"}
  BY DEF Updater, UpdaterTick, HealthUpdated, PanicOnClosedStorage, loopVars,
     callVars
<1>2. QED
  BY <1>1 DEF Inv, LockInv, RunInv, IdleInv, StopWaits, OneLoop, Alive

LEMMA NextInv == TypeInv /\ Inv /\ [Next]_vars => Inv'
<1> SUFFICES ASSUME TypeInv, Inv, [Next]_vars PROVE Inv'
  OBVIOUS
<1>1. CASE \E l \in Loops : LoopStep(l)
  BY <1>1, LoopInv
<1>2. CASE \/ \E r \in Requests : Receive(r) \/ Handler(r)
           \/ Operation("main")
  BY <1>2, CallerLocks, CallerIdle DEF Callers, Inv
<1>3. CASE Main \/ Signal
  BY <1>3, MainInv
<1>4. CASE Updater \/ PanicOnClosedStorage
  BY <1>4, UpdaterInv
<1>5. CASE UNCHANGED vars
  BY <1>5 DEF vars, loopVars, callVars, appVars, Inv, LockInv, RunInv, IdleInv,
     StopWaits, OneLoop, Alive
<1>6. QED
  BY <1>1, <1>2, <1>3, <1>4, <1>5 DEF Next

LEMMA InitInv == Init => Inv
<1> SUFFICES ASSUME Init PROVE Inv
  OBVIOUS
<1>1. /\ \A c \in Callers : at[c] = "idle" /\ mu # c
      /\ "main" \in Callers /\ Alive = {}
  BY LifecycleAssumption DEF Init, Alive, Callers
<1>2. QED
  BY <1>1 DEF Inv, LockInv, RunInv, IdleInv, OneLoop

(* At most one goroutine scans, for any number of overlapping requests:    *)
(* em.mu serialises Start and Stop, and Stop keeps it until em.wg is zero. *)
THEOREM OneLoopAtATime == Spec => []OneLoop
<1>1. Inv => OneLoop
  BY DEF Inv, RunInv
<1>2. QED
  BY <1>1, InitType, NextType, InitInv, NextInv, PTL DEF Spec

(* A monitor that says it is stopped, with em.mu free, has no goroutine.   *)
THEOREM StoppedIsQuiet == Spec => []StoppedMeansQuiet
<1>1. Inv => StoppedMeansQuiet
  BY LifecycleAssumption DEF Inv, LockInv, RunInv, StopWaits, StoppedMeansQuiet
<1>2. QED
  BY <1>1, InitType, NextType, InitInv, NextInv, PTL DEF Spec
-----------------------------------------------------------------------------
LEMMA LoopShutdown ==
  ASSUME TypeInv, ShutdownInv, NEW l \in Loops, LoopStep(l)
  PROVE  ShutdownInv'
<1>1. /\ UNCHANGED <<running, at, op, app, closed, timedOut, updater>>
      /\ Alive' \subseteq Alive
  BY DEF LoopStep, LoopExits, Tick, Poll, RecordError, BlockFails,
     SnapshotAddresses, UpdateStats, NextBlock, Alive, callVars, appVars,
     TypeInv, TypeOK
<1>2. QED
  BY <1>1 DEF ShutdownInv, Over, Drained

(* A request in flight means that nothing is promised.                     *)
LEMMA RequestShutdown ==
  ASSUME TypeInv, ShutdownInv, NEW r \in Requests, Receive(r) \/ Handler(r)
  PROVE  ShutdownInv'
<1>1. at \in [Callers -> CallStates] /\ DOMAIN op = Callers
  BY DEF TypeInv, TypeOK
<1>2. r \in Callers /\ r # "main" /\ "main" \in Callers
  BY LifecycleAssumption DEF Callers
<1>3. /\ UNCHANGED <<app, closed, timedOut, updater>>
      /\ at'["main"] = at["main"] /\ op'["main"] = op["main"]
  BY <1>1, <1>2 DEF Receive, Handler, Operation, CheckRunning, Reply, LockMu,
     StartFails, StartLoop, StopNothing, StopSignal, StopDone, Begin, End,
     Goto, Unlock, appVars
<1>4. CASE Receive(r)
  BY <1>3, <1>4 DEF Receive, ShutdownInv, Over
<1>5. CASE Handler(r)
  <2>1. at[r] # "idle" /\ app # "exited"
    BY <1>5 DEF Handler, Operation, CheckRunning, Reply, LockMu, StartFails,
       StartLoop, StopNothing, StopSignal, StopDone, Up
  <2>2. ~Drained
    BY <2>1 DEF Drained
  <2>3. QED
    BY <1>3, <2>1, <2>2 DEF ShutdownInv, Over
<1>6. QED
  BY <1>4, <1>5

(* main's Stop returns when no goroutine is left.                          *)
LEMMA StopShutdown ==
  ASSUME TypeInv, Inv, ShutdownInv, Operation("main")
  PROVE  ShutdownInv'
<1>1. at \in [Callers -> CallStates] /\ "main" \in Callers
  BY DEF TypeInv, TypeOK, Callers
<1>2. /\ UNCHANGED <<op, app, closed, timedOut, updater>>
      /\ app # "exited" /\ at["main"] \in {"lock", "inside", "wait"}
      /\ \A d \in Callers \ {"main"} : at'[d] = at[d]
  BY <1>1 DEF Operation, LockMu, StartFails, StartLoop, StopNothing, StopSignal,
     StopDone, Goto, Unlock, Up, appVars
<1>3. Drained => Drained'
  BY <1>1, <1>2, LifecycleAssumption DEF Drained, Callers
<1>4. CASE app = "stopping" /\ at'["main"] = "ok"
  <2>1. op["main"] = "stop"
    BY <1>4 DEF ShutdownInv
  <2>2. StopNothing("main") \/ StopDone("main")
    BY <1>1, <1>4, <2>1 DEF Operation, LockMu, StartFails, StartLoop,
       StopSignal, Goto, Unlock
  <2>3. ~running' /\ Alive' = {}
    <3>1. CASE StopNothing("main")
      <4>1. /\ at["main"] = "inside" /\ ~running /\ UNCHANGED <<running, loop>>
        BY <3>1 DEF StopNothing, loopVars
      <4>2. ~StopWaits
        BY <1>1, <4>1 DEF Inv, LockInv, StopWaits
      <4>3. QED
        BY <4>1, <4>2 DEF Inv, RunInv, Alive
    <3>2. CASE StopDone("main")
      BY <1>1, <3>2 DEF StopDone, Inv, RunInv, Alive, loopVars
    <3>3. QED
      BY <2>2, <3>1, <3>2
  <2>4. QED
    BY <1>2, <1>3, <1>4, <2>1, <2>3 DEF ShutdownInv, Over
<1>5. CASE ~(app = "stopping" /\ at'["main"] = "ok")
  BY <1>2, <1>3, <1>5 DEF ShutdownInv, Over
<1>6. QED
  BY <1>4, <1>5

LEMMA MainShutdown ==
  ASSUME TypeInv, Inv, ShutdownInv, Main \/ Signal
  PROVE  ShutdownInv'
<1> USE DEF ShutdownInv, Over
<1>1. /\ at \in [Callers -> CallStates] /\ DOMAIN op = Callers
      /\ "main" \in Callers
  BY DEF TypeInv, TypeOK, Callers
<1>2. CASE StartServer \/ Signal
  BY <1>2 DEF StartServer, Signal
<1>3. CASE MonitorStarted
  BY <1>3 DEF MonitorStarted
<1>4. CASE StopMonitor
  <2>1. /\ app = "draining" /\ app' = "stopping" /\ UNCHANGED <<closed, updater>>
        /\ at'["main"] = "lock" /\ op'["main"] = "stop"
        /\ \A d \in Callers \ {"main"} : at'[d] = at[d]
    BY <1>1, <1>4 DEF StopMonitor, Begin
  <2>2. Drained => Drained'
    BY <2>1, LifecycleAssumption DEF Drained, Callers
  <2>3. Drained \/ timedOut'
    BY <1>4, <2>1 DEF Main, Signal, ServerStopped, ServerStopTimesOut,
       StartServer, ServerFails, MonitorStarted, MonitorStopped,
       MonitorStopTimesOut, CloseStorage, Exit
  <2>4. QED
    BY <2>1, <2>2, <2>3
<1>5. CASE MonitorStopped
  <2>1. /\ app = "stopping" /\ at["main"] = "ok" /\ app' = "closing"
        /\ at'["main"] = "idle" /\ \A d \in Callers \ {"main"} : at'[d] = at[d]
        /\ UNCHANGED <<running, loop, closed, timedOut, updater>>
    BY <1>1, <1>5 DEF MonitorStopped, Begin, End, loopVars
  <2>2. Drained => Drained'
    BY <2>1, LifecycleAssumption DEF Drained, Callers
  <2>3. QED
    BY <2>1, <2>2 DEF Alive
<1>6. CASE MonitorStopTimesOut
  BY <1>6 DEF MonitorStopTimesOut
<1>7. CASE CloseStorage \/ Exit \/ ServerFails
  BY <1>7 DEF CloseStorage, Exit, ServerFails, Drained, Alive, loopVars, callVars
<1>8. QED
  BY <1>2, <1>3, <1>4, <1>5, <1>6, <1>7 DEF Main, ServerStopped,
     ServerStopTimesOut

(* A panic on the closed storage ends the program, with whoever is left.   *)
LEMMA UpdaterShutdown ==
  ASSUME ShutdownInv, Updater \/ PanicOnClosedStorage
  PROVE  ShutdownInv'
<1>1. CASE Updater
  <2>1. /\ UNCHANGED <<running, loop, at, op, app, closed, timedOut>>
        /\ updater # "none"
    BY <1>1 DEF Updater, UpdaterTick, HealthUpdated, loopVars, callVars
  <2>2. QED
    BY <2>1 DEF ShutdownInv, Over, Alive, Drained
<1>2. CASE PanicOnClosedStorage
  <2>1. /\ closed /\ app # "exited" /\ app' = "exited"
        /\ UNCHANGED <<loop, at, op, closed, timedOut, updater>>
    BY <1>2 DEF PanicOnClosedStorage, Up, loopVars, callVars
  <2>2. QED
    BY <2>1 DEF ShutdownInv, Over, Alive, Drained
<1>3. QED
  BY <1>1, <1>2

LEMMA NextShutdown ==
  TypeInv /\ Inv /\ ShutdownInv /\ [Next]_vars => ShutdownInv'
<1> SUFFICES ASSUME TypeInv, Inv, ShutdownInv, [Next]_vars PROVE ShutdownInv'
  OBVIOUS
<1>1. CASE UNCHANGED vars
  BY <1>1 DEF vars, loopVars, callVars, appVars, ShutdownInv, Over, Drained,
     Alive
<1>2. QED
  BY <1>1, LoopShutdown, RequestShutdown, StopShutdown, MainShutdown,
     UpdaterShutdown DEF Next

(* A shutdown without a time-out closes the storage after the last request *)
(* and the last goroutine of the monitor; whoever is left to use it is the *)
(* updater of the metrics, and only if they are enabled.                   *)
THEOREM ShutdownIsClean == Spec => []CleanShutdown
<1>1. Init => ShutdownInv
  BY DEF Init, ShutdownInv, Over
<1>2. ShutdownInv => CleanShutdown
  <2> SUFFICES ASSUME ShutdownInv, closed, ~timedOut
               PROVE  StorageUsers \subseteq
                        (IF EnableMetrics THEN {"systemMetricsUpdater"} ELSE {})
    BY DEF CleanShutdown
  <2>1. Alive = {} /\ Drained
    BY DEF ShutdownInv, Over
  <2>2. QED
    BY <2>1 DEF ShutdownInv, Drained, StorageUsers
<1>3. QED
  BY <1>1, <1>2, InitType, NextType, InitInv, NextInv, NextShutdown, PTL
     DEF Spec
-----------------------------------------------------------------------------
(***************************************************************************)
(* Why a Stop may never return: it waits for the goroutines with em.mu     *)
(* locked, and a goroutine that is about to record an error or update the  *)
(* statistics waits for em.mu.                                             *)
(***************************************************************************)
Deadlocked(c, l) == at[c] = "wait" /\ loop[l] \in {"record", "stats"}

(* Neither of the two can move, and nobody else moves them. *)
LEMMA DeadlockStays ==
  ASSUME TypeInv, Inv, [Next]_vars,
         NEW c \in Callers, NEW l \in Loops, Deadlocked(c, l)
  PROVE  Deadlocked(c, l)'
<1>1. /\ at \in [Callers -> CallStates] /\ loop \in [Loops -> LoopStates]
      /\ "main" \in Callers /\ mu = c /\ mu # Nobody /\ l \in Alive
  BY LifecycleAssumption DEF TypeInv, TypeOK, Callers, Deadlocked, Inv, LockInv, Alive
<1>2. ASSUME NEW m \in Loops, LoopStep(m) PROVE Deadlocked(c, l)'
  <2>1. at' = at
    BY <1>2 DEF LoopStep, LoopExits, Tick, Poll, RecordError, BlockFails,
       SnapshotAddresses, UpdateStats, callVars
  <2>2. m # l
    BY <1>1, <1>2 DEF Deadlocked, LoopStep, LoopExits, Tick, Poll, RecordError,
       BlockFails, SnapshotAddresses, UpdateStats
  <2>3. loop'[l] = loop[l]
    BY <1>1, <1>2, <2>2 DEF LoopStep, LoopExits, Tick, Poll, RecordError, BlockFails,
       SnapshotAddresses, UpdateStats, NextBlock
  <2>4. QED
    BY <2>1, <2>3 DEF Deadlocked
<1>3. ASSUME NEW d \in Callers,
             \/ d \in Requests /\ (Receive(d) \/ Handler(d))
             \/ Operation(d)
      PROVE  Deadlocked(c, l)'
  <2>1. CASE d = c
    BY <1>1, <1>3, <2>1 DEF Deadlocked, Receive, Handler, CheckRunning, Reply,
       Operation, LockMu, StartFails, StartLoop, StopNothing, StopSignal, StopDone
  <2>2. CASE d # c
    <3>1. at[d] \notin {"inside", "wait"}
      BY <1>1, <2>2 DEF Inv, LockInv
    <3>2. Receive(d) \/ CheckRunning(d) \/ Reply(d)
      BY <1>1, <1>3, <3>1 DEF Handler, Operation, LockMu, StartFails, StartLoop,
         StopNothing, StopSignal, StopDone
    <3>3. at'[c] = at[c] /\ loop' = loop
      BY <1>1, <2>2, <3>2 DEF Receive, CheckRunning, Reply, Begin, End, Goto, loopVars
    <3>4. QED
      BY <3>3 DEF Deadlocked
  <2>3. QED
    BY <2>1, <2>2
<1>4. CASE Main \/ Signal
  <2>1. loop' = loop
    BY <1>4 DEF Main, Signal, StartServer, ServerFails, MonitorStarted, ServerStopped,
       ServerStopTimesOut, StopMonitor, MonitorStopped, MonitorStopTimesOut,
       CloseStorage, Exit, loopVars
  <2>2. at'[c] = at[c]
    <3>1. CASE StartServer \/ StopMonitor
      <4>1. at["main"] = "idle" /\ at' = [at EXCEPT !["main"] = "lock"]
        BY <3>1 DEF StartServer, StopMonitor, Begin, Inv, IdleInv
      <4>2. QED
        BY <1>1, <4>1 DEF Deadlocked
    <3>2. CASE MonitorStarted \/ MonitorStopped
      <4>1. at["main"] \in {"ok", "failed"} /\ at' = [at EXCEPT !["main"] = "idle"]
        BY <3>2 DEF MonitorStarted, MonitorStopped, Begin, End
      <4>2. QED
        BY <1>1, <4>1 DEF Deadlocked
    <3>3. CASE Signal \/ ServerFails \/ MonitorStopTimesOut \/ CloseStorage \/ Exit
      BY <3>3 DEF Signal, ServerFails, MonitorStopTimesOut, CloseStorage, Exit, callVars
    <3>4. QED
      BY <1>4, <3>1, <3>2, <3>3 DEF Main, ServerStopped, ServerStopTimesOut
  <2>3. QED
    BY <2>1, <2>2 DEF Deadlocked
<1>5. CASE Updater \/ PanicOnClosedStorage
  BY <1>5 DEF Updater, UpdaterTick, HealthUpdated, PanicOnClosedStorage, loopVars,
     callVars, Deadlocked
<1>6. CASE UNCHANGED vars
  BY <1>6 DEF vars, loopVars, callVars, Deadlocked
<1>7. QED
  BY <1>2, <1>3, <1>4, <1>5, <1>6 DEF Next, Callers

(* A Stop that finds a goroutine waiting for em.mu never returns, and the  *)
(* goroutine never ends, until the process does: for any number of         *)
(* requests, and under any scheduling (Stop, recordError, updateStats).    *)
THEOREM StopHangsForGood ==
  ASSUME NEW c \in Callers, NEW l \in Loops
  PROVE  Spec => [](Deadlocked(c, l) => []Deadlocked(c, l))
<1>1. TypeInv /\ Inv /\ Deadlocked(c, l) /\ [Next]_vars => Deadlocked(c, l)'
  BY DeadlockStays
<1>2. QED
  BY <1>1, InitType, NextType, InitInv, NextInv, PTL DEF Spec
-----------------------------------------------------------------------------
(***************************************************************************)
(* ImplementsService: the goroutines come and go, the caller in "wait" is  *)
(* the one that holds em.mu, and no other operation gets that far.         *)
(***************************************************************************)
ServiceStep == [Service!Next]_(Service!service)

LEMMA NoServiceStep ==
  ASSUME UNCHANGED <<running, StopWaits, Alive>>
  PROVE  ServiceStep
BY DEF ServiceStep, Service!service, ServiceState

(* A goroutine goes on, or ends: never while the monitor is stopped.       *)
LEMMA LoopService ==
  ASSUME TypeInv, Inv, NEW l \in Loops, LoopStep(l)
  PROVE  ServiceStep
<1>1. UNCHANGED <<running, at>> /\ Alive' \subseteq Alive
  BY DEF LoopStep, LoopExits, Tick, Poll, RecordError, BlockFails,
     SnapshotAddresses, UpdateStats, NextBlock, Alive, callVars, TypeInv, TypeOK
<1>2. UNCHANGED <<running, StopWaits, ServiceState>>
  BY <1>1 DEF StopWaits, ServiceState
<1>3. CASE (Alive' # {}) = (Alive # {})
  BY <1>2, <1>3 DEF ServiceStep, Service!service
<1>4. CASE Alive # {} /\ Alive' = {}
  <2>1. ServiceState # "stopped"
    BY <1>4 DEF Inv, RunInv, ServiceState
  <2>2. Service!ScanEnds
    BY <1>2, <1>4, <2>1 DEF Service!ScanEnds
  <2>3. QED
    BY <2>2 DEF ServiceStep, Service!Next
<1>5. QED
  BY <1>1, <1>3, <1>4

(* The steps of Start and Stop, under em.mu. *)
LEMMA CallerService ==
  ASSUME TypeInv, Inv, NEW c \in Callers,
         \/ c \in Requests /\ (Receive(c) \/ Handler(c))
         \/ Operation(c)
  PROVE  ServiceStep
<1>1. at \in [Callers -> CallStates] /\ loop \in [Loops -> LoopStates]
  BY DEF TypeInv, TypeOK
<1>2. ASSUME at[c] # "wait", at'[c] # "wait",
             \A d \in Callers \ {c} : at'[d] = at[d]
      PROVE  UNCHANGED StopWaits
  BY <1>2 DEF StopWaits
<1>3. CASE c \in Requests /\ (Receive(c) \/ CheckRunning(c) \/ Reply(c))
  <2>1. /\ at[c] # "wait" /\ at'[c] # "wait"
        /\ \A d \in Callers \ {c} : at'[d] = at[d]
        /\ UNCHANGED <<running, Alive>>
    BY <1>1, <1>3 DEF Receive, CheckRunning, Reply, Begin, End, Goto, loopVars, Alive
  <2>2. QED
    BY <1>2, <2>1, NoServiceStep
<1>4. CASE LockMu(c) \/ StartFails(c) \/ StopNothing(c)
  <2>1. /\ at[c] # "wait" /\ at'[c] # "wait"
        /\ \A d \in Callers \ {c} : at'[d] = at[d]
        /\ UNCHANGED <<running, Alive>>
    BY <1>1, <1>4 DEF LockMu, StartFails, StopNothing, Unlock, Goto, loopVars, Alive
  <2>2. QED
    BY <1>2, <2>1, NoServiceStep
<1>5. CASE StartLoop(c)
  <2>1. PICK l \in Loops \ Alive : loop' = [loop EXCEPT ![l] = "select"]
    BY <1>5 DEF StartLoop
  <2>2. /\ at[c] = "inside" /\ at'[c] = "ok" /\ ~running /\ running'
        /\ \A d \in Callers \ {c} : at'[d] = at[d]
    BY <1>1, <1>5 DEF StartLoop, Unlock, Goto
  <2>3. ~StopWaits /\ ~StopWaits'
    BY <1>2, <2>2 DEF Inv, LockInv, StopWaits
  <2>4. Alive = {}
    BY <2>2, <2>3 DEF Inv, RunInv
  <2>5. Alive' # {}
    BY <1>1, <2>1 DEF Alive
  <2>6. ServiceState = "stopped" /\ ServiceState' = "running"
    BY <2>2, <2>3 DEF ServiceState
  <2>7. Service!Start
    BY <2>4, <2>5, <2>6 DEF Service!Start
  <2>8. QED
    BY <2>7 DEF ServiceStep, Service!Next
<1>6. CASE StopSignal(c)
  <2>1. /\ at[c] = "inside" /\ at'[c] = "wait" /\ running
        /\ \A d \in Callers \ {c} : at'[d] = at[d]
        /\ UNCHANGED Alive
    BY <1>1, <1>6 DEF StopSignal, Goto, loopVars, Alive
  <2>2. ~StopWaits /\ StopWaits'
    BY <2>1 DEF Inv, LockInv, StopWaits
  <2>3. ServiceState = "running" /\ ServiceState' = "stopping"
    BY <2>1, <2>2 DEF ServiceState
  <2>4. Service!BeginStop
    BY <2>1, <2>3 DEF Service!BeginStop
  <2>5. QED
    BY <2>4 DEF ServiceStep, Service!Next
<1>7. CASE StopDone(c)
  <2>1. /\ at[c] = "wait" /\ at'[c] = "ok" /\ Alive = {} /\ running' = running
        /\ \A d \in Callers \ {c} : at'[d] = at[d]
        /\ UNCHANGED Alive
    BY <1>1, <1>7 DEF StopDone, Unlock, Goto, loopVars, Alive
  <2>2. \A d \in Callers \ {c} : at[d] # "wait"
    BY <2>1 DEF Inv, LockInv
  <2>3. StopWaits /\ ~StopWaits' /\ ~running
    BY <2>1, <2>2 DEF Inv, RunInv, StopWaits
  <2>4. ServiceState = "stopping" /\ ServiceState' = "stopped"
    BY <2>1, <2>3 DEF ServiceState
  <2>5. Service!EndStop
    BY <2>1, <2>4 DEF Service!EndStop
  <2>6. QED
    BY <2>5 DEF ServiceStep, Service!Next
<1>8. QED
  BY <1>3, <1>4, <1>5, <1>6, <1>7 DEF Handler, Operation

LEMMA MainService ==
  ASSUME TypeInv, Inv, Main \/ Signal
  PROVE  ServiceStep
<1>1. /\ at \in [Callers -> CallStates] /\ "main" \in Callers
      /\ UNCHANGED <<running, loop>>
  BY DEF TypeInv, TypeOK, Callers, Main, Signal, StartServer, ServerFails,
     MonitorStarted, ServerStopped, ServerStopTimesOut, StopMonitor, MonitorStopped,
     MonitorStopTimesOut, CloseStorage, Exit, loopVars
<1>2. /\ \A d \in Callers \ {"main"} : at'[d] = at[d]
      /\ at'["main"] = at["main"] \/ (at["main"] # "wait" /\ at'["main"] # "wait")
  <2>1. CASE StartServer \/ StopMonitor
    BY <1>1, <2>1 DEF StartServer, StopMonitor, Begin, Inv, IdleInv
  <2>2. CASE MonitorStarted \/ MonitorStopped
    BY <1>1, <2>2 DEF MonitorStarted, MonitorStopped, Begin, End
  <2>3. CASE Signal \/ ServerFails \/ MonitorStopTimesOut \/ CloseStorage \/ Exit
    BY <2>3 DEF Signal, ServerFails, MonitorStopTimesOut, CloseStorage, Exit, callVars
  <2>4. QED
    BY <2>1, <2>2, <2>3 DEF Main, ServerStopped, ServerStopTimesOut
<1>3. UNCHANGED <<StopWaits, Alive>>
  BY <1>1, <1>2 DEF StopWaits, Alive
<1>4. QED
  BY <1>1, <1>3, NoServiceStep

(* The monitor's life cycle implements MonitorService, for any number of   *)
(* overlapping requests: Start and Stop, which hold em.mu over many steps, *)
(* are one start, and a stop with a beginning and an end.                  *)
THEOREM LifecycleImplementsService == Spec => ImplementsService
<1>1. Init => Service!Init
  <2> SUFFICES ASSUME Init PROVE Service!Init
    OBVIOUS
  <2>1. ~StopWaits /\ ~running /\ Alive = {}
    BY DEF Init, StopWaits, Alive
  <2>2. QED
    BY <2>1 DEF Service!Init, ServiceState
<1>2. TypeInv /\ Inv /\ [Next]_vars => ServiceStep
  <2> SUFFICES ASSUME TypeInv, Inv, [Next]_vars PROVE ServiceStep
    OBVIOUS
  <2>1. CASE \E l \in Loops : LoopStep(l)
    BY <2>1, LoopService
  <2>2. CASE \/ \E r \in Requests : Receive(r) \/ Handler(r)
             \/ Operation("main")
    BY <2>2, CallerService DEF Callers
  <2>3. CASE Main \/ Signal
    BY <2>3, MainService
  <2>4. CASE Updater \/ PanicOnClosedStorage
    BY <2>4, NoServiceStep DEF Updater, UpdaterTick, HealthUpdated,
       PanicOnClosedStorage, loopVars, callVars, StopWaits, Alive
  <2>5. CASE UNCHANGED vars
    BY <2>5, NoServiceStep DEF vars, loopVars, callVars, StopWaits, Alive
  <2>6. QED
    BY <2>1, <2>2, <2>3, <2>4, <2>5 DEF Next
<1>3. QED
  BY <1>1, <1>2, InitType, NextType, InitInv, NextInv, PTL
     DEF Spec, ImplementsService, Service!Spec, ServiceStep
=============================================================================
