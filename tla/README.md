# A TLA+ verification of the RSK event listener

The RSK event listener follows the Rootstock chain through JSON-RPC nodes, collects the logs of a
set of contracts into a database (SQLite or PostgreSQL), reacts to them with rules, workflows and
notifications, and serves an HTTP API. This directory holds TLA+ models of its parts, TLC
configurations that check them on small instances, and TLAPS proofs of the most important
properties for every value of the constants. Source lines are relative to the repository
(`src/` in `PROJECT.json`, which maps every definition to the lines it models).

## 1. Inventory

### Components

| Component (source) | State it keeps | Operations |
|---|---|---|
| Event monitor (`internal/monitor/monitor.go`, `reorg_handler.go`) | `em.contracts`, `em.running`, `em.stopChan`, `em.wg`, statistics, all under `em.mu`; the cursor lives in the database | `Start`, `Stop`, `monitoringLoop`, `pollForNewBlocks`, `ProcessBlock`, `ProcessBlockRange`, `BackfillEvents`, `SetStartBlock`, `AddContract`, `RemoveContract`, `HandleReorg` |
| Event parser (`parser.go`) | a cache of ABIs | `ParseLog`, with a raw event when the signature is unknown |
| Event filter (`filter.go`) | none | `FilterEvents`, `CreateEventFilters`, `ValidateFilter`; called by tests only |
| Adaptive poller (`poller.go`) | the current interval | not used by the program |
| Storage (`internal/storage`) | tables `events`, `contracts`, `system_state`, `block_processing_status`, `notifications`, ... | one transaction or statement per operation, migrations at every start; two implementations that differ |
| Connection manager (`internal/connection/manager.go`) | one client, `isHealthy`, `lastHealthCheck`, `currentIndex`, counters | `GetClientWithContext`, `connect`, `reconnect`, `HealthCheckWithContext`, `Close` |
| Connection pool, RSK client (`pool.go`, `client.go`) | a list of managers; a cached client | round robin, health checks; not used by the program |
| Event processor (`internal/processor`) | rules, workflows, statistics | `ProcessEvent(s)`, `executeRule`, `executeAction`, `retryAction`, `executeWorkflow` |
| Aggregator, router, transformer (`internal/processor`) | groups of aggregated events, never discarded | `AddEventToAggregation`, `RouteEvent`, `TransformEvent` |
| Notification manager and channels (`internal/notification`) | `running`, the channels, statistics, all under `nm.mu` | `SendNotification` by email or webhook, `SendWebhook` with retries, `SendEmail` in a dialog with an SMTP server |
| HTTP server (`internal/server`) | none of its own | handlers that read and write the storage and call the monitor |
| Application (`cmd/listener/main.go`) | the components, a context | `Start`, `Stop`, signal handling |
| Configuration, metrics, models, utilities | | loading, counting, data types, logging |

### How they interact

* The **application** starts the HTTP server, waits 100 ms and starts the monitor; on a signal it
  shuts the server down, stops the monitor in a goroutine and closes the storage, within 30 s each.
  With metrics enabled the server also has a goroutine that asks storage and monitor for their health
  every 30 s and is never stopped.
* The **monitor**'s loop asks the connection manager for a client on every call, reads the chain,
  and writes events, status rows and the cursor to the storage. `Start` loads the contracts table
  into memory once.
* The **HTTP server** calls `monitor.Start`, `Stop` and `IsRunning`, with the context of the
  request, and reads and writes the storage directly: a contract posted over HTTP is in the table,
  not in the monitor's memory.
* The **processor** and the **notification manager** are started by nobody but tests and embedding
  code: the program constructs the former but never feeds it an event. Likewise `HandleReorg`,
  `BackfillEvents`, the pool and the RSK client have no caller in the program; they are operations
  the packages offer and are modelled as calls that may come at any time.

### What is hard here

* **Order**: the chain may fork between two calls of one `ProcessBlock`; two scanners (the loop and
  a backfill) and a reorganization handler share one cursor without a lock.
* **Crashes**: events, status row and cursor are written by three separate transactions.
* **Partial failure**: one block of a range fails and the others do not.
* **Locks**: `Stop` waits for goroutines while it holds a lock they use; requests, `main` and the
  loop compete for it.
* **Contexts and channels**: a loop inherits the context of the request that started it;
  `stopChan` can be closed once.
* **Arithmetic**: block numbers are `uint64` and are subtracted.
* **Check then act**: the connection manager reads its client under a read lock and acts on it
  after the lock is gone.
* **Several connections**: statements of one transaction interleave with those of others, and a
  pragma set on one connection of a pool does not hold on the next.
* **Reads in pieces**: a list is read page by page, a statistic statement by statement, while the
  table changes.
* **Retries of retries**: the webhook sender and the processor both retry, and servers lose requests
  and answers.

`PROJECT.json` lists every hazard at its line, with the properties that watch it.

### What makes each component correct

* Monitor: stores only canonical events, loses none silently, attempts confirmed blocks in order and
  catches up; a status row "completed" tells the truth; deletions for a reorganization stay within
  the configured depth and are followed by a new scan.
* Life cycle: one loop at a time, none after a stop; a shutdown ends, and takes the storage
  from no loop and no request unless a wait timed out; requests are answered.
* Connection manager: the client handed out is one that was connected and not closed meanwhile;
  no client is lost unclosed; fail-over tries every URL.
* Processor: one failing action, rule or event does not disturb the others; attempts and
  concurrency are bounded, every event is counted once, and a batch returns.
* Notifications: attempts and delays are bounded, what is reported is what happened, nothing is sent
  after its context ended, an email is not sent twice, and a delivery ends.
* Storage: an operation takes effect as a whole or not at all, through crashes and restarts; a log
  parsed and saved again has one row. Reads that take several requests or statements lose nothing.

## 2. Plan

In this order, most important behaviour first; all of it is done but the last point:

1. `EventStore`, `EventMonitor`, `BlockScan` (abstract), `EventMonitor_proofs`.
2. `MonitorLifecycle`, `MonitorService` (abstract), `MonitorLifecycle_proofs`.
3. `ConnectionManager`, `ConnectionManager_proofs`.
4. `EventProcessor`, `MCEventProcessor`, `EventProcessor_proofs`.
5. Storage: the statements of both back ends (`SQLiteStatements`, `PostgreSQLStatements`), the
   transactions around them (`StorageBackend`), the abstract tables they implement (`Storage`), with
   the refinement proved (`StorageBackend_proofs`).
6. Queries: `SQLiteQueries`, `PostgreSQLQueries` and `EventFilter` as pure operators, and their
   clients while the table changes (`EventListing`, `EventListing_proofs`).
7. Notifications: the retries of both layers (`NotificationDelivery`, `NotificationDelivery_proofs`)
   and the delay arithmetic (`RetryBackoff`, `RetryBackoff_proofs`).
8. Left: the groups of the aggregator and the transformer, the connection pool, the cache of ABIs
   of the parser.

The theorems worth proving are type correctness and the main safety invariants of each state
machine, the steps of each refinement, and the bounds of the pure operators. Liveness stays with TLC.

## 3. Modules

### `EventStore`

What the monitor needs of the tables, as operators over sets. A row of `events` is identified by
the unique index `(block_hash, tx_hash, log_index)`, that is by the log it came from. `Backend`
selects the implementation: with SQLite `SaveEvents` replaces duplicates, with PostgreSQL `COPY`
aborts the batch on one, and `DeleteEventsByBlockRange`, `GetBlockHash` and `GetAllContracts` are
stubs. Writes are atomic because each is one transaction or statement.

### `EventMonitor`

| TLA+ | Go |
|---|---|
| `chain`, `head` | the node: the fork each height belongs to, the latest block |
| `cursor` | `system_state.latest_processed_block` |
| `events`, `completed`, `contracts` | tables `events`, `block_processing_status`, `contracts` |
| `monitored` | `em.contracts` |
| `pc[p]`, `blk[p]`, `to[p]`, `goal`, `addrs[p]`, `batch[p]`, `latest` | where each scanner is, and its locals |
| `rpc`, `reorg` | where `HandleReorg` is, and its locals |
| `outcome`, `dropped`, `purged` | history: how the last `ProcessBlock` of a height ended; contracts somebody removed; heights whose events a reorganization deleted |

A step of a scanner is one call to the node or the database, or one read of shared memory, because
between two of them the chain may fork, another goroutine may run, or the process may die. `Mine`
and `ChainReorg` are the environment; `Failure` is an error of a call, at every call the code
makes, and `Crash`; `ParsePanics` is the panic of `ParseLog` on a log without topics, which ends the
process. `HandleReorg` is as fine: the head is read in one step (`DetectReorg`, `FindReorgDepth`) and
compared with the stored hash in the next (`CompareDetected`, `CompareStored`), and blocks may be mined
in between. `AddContract` and `RemoveContract` are one step each because they hold `em.mu` across the
write and the update of the map, and `ProcessBlock` takes the same lock for its snapshot. A crash
between the write and the update is the step followed by `Crash`: the map is lost in either case.

### `BlockScan`

What the polling loop promises, in terms of three variables: blocks are attempted in order, none is
left out, the cursor covers attempted blocks only and never goes back (`Safety`), and it catches up
(`Liveness`). `EventMonitor` implements it with `confirmed <- ConfirmedBlock(head)` and `attempted`
read from `outcome`; the two parts are two properties, `ImplementsBlockScan` and `CatchesUp`, because
the first is also proved.

### `MonitorLifecycle`

`em.mu` is a `sync.RWMutex`: a section that cannot block is one step, enabled when nobody holds the
lock for writing; `Start` and `Stop`, which call the database and wait for goroutines, hold it over
several steps. `loop`, `left`, `owner` and `cancelled` describe the goroutines of `monitoringLoop`,
`at` and `op` the callers (requests and `main`), `app` the progress of `Application.Start` and
`Stop`. net/http cancels the context of a request when its handler returns (`Reply`). `updater` is the
goroutine of `systemMetricsUpdater`, where `EnableMetrics` (the default) has it started. `Close` sets
the handle of the database to nil, so a loop or an updater that reads it afterwards ends the process
(`PanicOnClosedStorage`). The statistics and the health endpoints are left out: they change nothing.

### `MonitorService`

What callers of `Start` and `Stop` see: a monitor that is stopped, running or stopping, and whether a
goroutine scans. One may only begin with a `Start` of a stopped monitor, and a `Stop` only ends when it
is over; it may end on its own before (finding 3). `MonitorLifecycle` implements it (`ImplementsService`)
with `ServiceState`: "stopping" is a caller in `em.wg.Wait()`, and otherwise `em.running` decides.

### `ConnectionManager`

| TLA+ | Go |
|---|---|
| `client` | `cm.client`, as the node it was dialed to and a name |
| `current`, `healthy`, `stale` | `cm.currentIndex`, `cm.isHealthy`, whether `lastHealthCheck` is more than a minute ago |
| `mu` | the writer of `cm.mu`, held by `connect` across its dials and delays |
| `at[t]`, `mine[t]`, `pos`, `attempt` | where each caller is, its local copy of a client, and the loops of `connect` |
| `up`, `open`, `expired` | the nodes that answer, the connections not closed, the callers whose context has ended |
| `steady` | history: nodes that answered throughout the current `connect` |

Each read or write under `cm.mu` and each request is one step, because the lock is not held between
them: a caller reads the client, the lock goes, another caller closes it. Nodes in `Sockets` have
WebSocket URLs, whose clients keep a connection; a client over HTTP holds nothing and answers after
`Close`. A client no variable refers to any more gives its name back, closed or leaked, so names do not
bound how often callers dial.

### `EventProcessor`

| TLA+ | Go |
|---|---|
| `rules` | `ep.rules` and `ep.workflows` |
| `semaphore` | the tokens in the channel of `ProcessEvents` |
| `pc[e]` | where the goroutine of event `e` is |
| `todo[e]` | `ApplicableRules` and `ApplicableWorkflows` not come to yet; a set, as the order is that of a Go map |
| `job[e]` | the rule being executed: the pointer's actions, the position, the attempts after the first |
| `processed`, `failed` | `ProcessedEvents`, `FailedEvents` |
| `marked` | events whose row says processed |
| `crashed` | the runtime ended the process because a map was read and written at once |
| `owed[e]` | history: enabled rules the event was routed to and has still to execute |

`Change` stands for `AddRule`, `UpdateRule`, `RemoveRule` and the two for workflows: all write one
entry of a map under `ep.mu`, which `ProcessEvent` does not take to read it. An action succeeds,
fails (`Retry`, `GiveUp`) or panics; what it sends or stores is left out. The last step of
`ProcessEvent` panics (`RecordMetrics`, finding 4); the code behind it is in the model, and not
reached, as in the program. `MCEventProcessor` gives the rules.

### `StorageTables`, `SQLiteStatements`, `PostgreSQLStatements`, `Storage`, `StorageBackend`

`StorageTables` has the rows: an event is the log it came from (a number, that of its block), the
scan that parsed it, which with the log makes its fresh id and its timestamp, and whether it is
processed. The two `Statements` modules say what each statement does to the tables and answers;
they differ where the back ends do. `StorageBackend` runs them:

| TLA+ | Go |
|---|---|
| `backend` | the implementation `NewStorage` chose |
| `phase`, `next` | before `Connect`, within `Migrate` (the next script), in use |
| `tables` | the committed rows |
| `fk` | connections of the pool that ran `PRAGMA foreign_keys` |
| `tx[c]` | the transaction open on a connection: its next statement, its batch, what is left of it, its view of the tables |
| `reply` | the last answer to a caller |

A statement outside a transaction is one step; a transaction is a step for each statement, from its
first (BEGIN takes no lock) to `Commit` or `Rollback`. SQLite has one writer (`Locked`); PostgreSQL
makes an insertion wait for an uncommitted one of the same log. `Exit` is `Close` or a crash at any
moment, `ApplyMigration` one script of a start. `Storage` is the promise: tables that each call
changes at once and entirely or not at all, `stubs` being what a back end only pretends to do.

### `EventTable`, `SQLiteQueries`, `PostgreSQLQueries`, `EventFilter`, `EventListing`

`EventTable` has filters, the order and the pages of a list: a page is *some* page, because two rows
of one block number and log index (which a fork leaves) have no order. The `Queries` modules are the
queries of each back end, `EventFilter` the filter in memory; names and addresses are known up to the
case of their letters. In `EventListing`, `rows`, `processed` and `ranged` are the table, `client` is
one who pages through `GET /events` (`limit`, `offset`, the rows `seen`; `there` is history: the rows
that were there throughout), and `stats` is `GetEventStats` between two of its statements (it has no caller
in the program). The sums are over the groups that were read: a `Scan` that fails drops one. Writers
are the statements of `StorageBackend` that change events; `disturbed` marks a read during which a row
went away or a result was cut short.

### `RetryBackoff`, `NotificationDelivery`

| TLA+ | Go |
|---|---|
| `call[c]` | a goroutine: what it delivers, where it is, the rounds of `retryAction`, attempt and delay of `sendWebhookWithRetry`, the step of the SMTP dialog |
| `ended` | callers whose context has ended |
| `reached` | requests that are at the webhook's server |
| `stats`, `notified` | `NotificationStats` under `nm.mu`, `TotalNotificationsSent` under `ep.mu` |
| `manager` | `running` and the channels, which sending asks nothing of |
| `requests`, `answered`, `accepted` | history: what the servers got and said |

Three ways lead in: a webhook action, which calls the sender past the manager, a notify action and
`POST /notifications/test`. A request may not arrive, its answer may not come back; the SMTP dialog may
break at every step. `RetryBackoff` is `calculateRetryDelay` in integers of `Width` bits.

## 4. Runs

| Run | Question and result |
|---|---|
| `monitor_scan` | The loop over a chain that forks within `ConfirmationBlocks`, with failures, crashes, contracts added and removed: no orphaned event is stored (`NoOrphanedEvents`), none is lost silently (`NoSilentLoss`), table and memory agree (`TableIsMonitored`), the loop implements `BlockScan` step by step (`ImplementsBlockScan`), and it catches up (`CatchesUp`). |
| `monitor_calls` | The same beside every call an embedding program or HTTP client may make, backfills and `HandleReorg` among them, and a log that panics the parser: `CompletedMeansSaved`, `DeletionIsBounded`, types and `uint64` arithmetic; and the depth search ends at block 0, in a failure, or at a head that lay below the reported block when it was read, never at an older block that matches (`SearchEndsAtZero`). |
| `lifecycle` | A request and `main`: `OneLoop`, `StoppedMeansQuiet`; after a shutdown without time-outs only the updater of the metrics may still use the storage (`CleanShutdown`); starts and stops take effect one after the other (`ImplementsService`); `ShutdownTerminates`, and `OnlyStopBlocks`: nothing but a waiting `Stop` holds up a request. |
| `connection` | Two callers, a WebSocket node and an HTTP backup that come and go, contexts that end anywhere: the shared client is never a closed one (`SharedClientIsOpen`), and `connect` gives up only when no node answered throughout (`FailoverFindsTheNode`). |
| `processor` | Three events, one invalid, two at a time: the token of an event goes back exactly once whatever panics (`ConcurrencyBounded`, `BatchReturns`), the counters add up (`BatchAddsUp`), and a row says processed only after every rule was tried (`EveryRuleExecuted`). |
| `storage` | Both back ends on two connections, with failures, crashes, restarts and logs parsed again: one row per log (`OneRowPerLog`), and every call takes effect at once and as a whole or not at all (`ImplementsStorage`, a refinement). |
| `listing` | A reader while others write: a client that pages misses no event unless a row was deleted, a page cut short or a fork left a tie (`PagingSkipsNothing`); the sums by type and contract and the counts by processing do not contradict each other (`StatsAddUp`); list, count, search and filter agree (`QueriesAgree`). |
| `delivery` | A webhook is reported as sent exactly when it was answered (`SentMeansAnswered`), requests stay within the product of both layers (`RequestsBounded`; calls of `httpClient.Do`, each of which may follow redirects), none leaves after its context ended (`QuietAfterEnd`); an email is accepted at most once (`EmailAtMostOnce`); the counters of manager and processor agree (`CountersAgree`); each pause is twice the one before (`PausesDouble`); deliveries end but for SMTP (`DeliveriesEnd`). |
| `reprocessing` | violation, finding 1 below. |
| `stop_returns` | violation, finding 2. |
| `running_means_polling` | violation, finding 3. |
| `batch_processed` | violation, finding 4. |

Bounds of `connection`: two callers are what every race of the manager needs (one reads, one
writes), two nodes give the rotation a wrap, one of each transport and one on the wrong network, two
attempts give a delay and a last attempt; three names are one more than callers, so that a dial
always finds one. Nothing else is bounded. Bounds of `processor`: three events for two tokens, so
that one waits; a rule with two retries and a second action, a rule that panics for one event, a
workflow, and two changes to or from each of these or a disabled rule (`MaxCalls`).

Bounds of `storage`: two connections, one with and one without the pragma; two logs, one of them
parsed twice, so that a batch overlaps a row, another batch or an uncommitted copy of it; scans on
both sides of the retention; one notification, contract, status row and cursor, of which at most two
have rows at once (`AtMostTwoTables`), as no statement looks at three tables but `Cleanup`, whose rows
are in two. Bounds of `listing`: four logs, two of them tied, give pages of one and two with rests;
`OneReader` keeps the client and the statistics apart, which do not see each other. Bounds of
`delivery`: four attempts of the sender reach the cap of the delay, which is 5, 10, 12 units, in 6
bits; two rounds of `retryAction` give a first retry without a pause and a second with one; the second
caller delivers one email, for the counters and the servers to interleave (`OneEmail`).

### Bounds, and why they are enough

* `MaxHeight` 5 with `ConfirmationBlocks` 2, `BatchSize` 2 and `InitialHead` 3: the first poll is one
  block (3 - 2), later ones are full and partial batches, so the end of a batch, the end of a range
  and the confirmation boundary are all met. `monitor_calls` has a chain of 2 blocks that
  grows to 3, on which a backfill may run past the head, a reorganization search reaches block 0 and
  `MaxReorgDepth` 2.
* `MaxForks` 1: one fork, at any moment, as deep as the confirmations allow (`ForkDepth` 2 in
  `monitor_scan`, 1 in `monitor_calls`). A second fork meets no new state of the scanner, which
  remembers nothing of the chain but one batch.
* `MaxFaults` 1 or 2 and `MaxCalls` 2: one failure cuts a range short, a second hits its retry; two
  calls let any two operations of callers overlap with the loop.
* `WordSize` 16 stands for 2^64: the only subtraction that can wrap, `fromBlock - 1`, does wrap.
* Two contracts, one monitored from the start and one added later, with logs in every block but one.
* `lifecycle` has one request, so that two callers compete for `em.mu`; what more callers could break
  is settled by the proofs, which hold for any number. Two goroutine names: a third would need two
  alive at once, which `OneLoop` excludes. Metrics are enabled, as by default; without them
  `CleanShutdown` is stronger, and proved.

Deadlock is checked in the monitor runs (the loop polls for ever) and in `connection` (requests keep
coming). In the life-cycle runs it is off: the program ends, and a `Stop` that waits for its loop
really stops everything (finding 2). In `processor`, `delivery` and `listing` it is off because
batch, calls and readers end (that they end, and are not stuck, is `BatchReturns` and
`DeliveriesEnd`); in `storage` because a process that is down need not start again.

### Fairness

* `EventMonitor`: weak fairness of `LoopStep`: the ticker keeps firing and every call the loop makes
  returns (each has a context or a driver time-out). Nothing is assumed of the chain, of callers or
  of failures; as the number of failures is bounded, they do not go on for ever.
* `MonitorLifecycle`: strong fairness of loops, handlers and `main`, because `sync.RWMutex` starves
  nobody and a `select` chooses evenly among ready channels, so that a closed `stopChan` wins over
  the ticker sooner or later. Weak fairness of `Main`: its waits have time-outs. Requests and the
  signal need never come.
* `EventProcessor`: weak fairness of every goroutine: each call it makes returns, and the Go scheduler
  runs it. Weak is enough for the semaphore too, because each event acquires once.
* `NotificationDelivery`: weak fairness of a caller's own steps, and of a request that ends without an
  answer if the client has a timeout or the context has ended. Nothing of the servers: an SMTP dialog
  may hang for ever, as `smtp.Dial` and what follows have no timeout.
* `ConnectionManager`, `StorageBackend` and `EventListing` state no liveness.

### Findings

1. `reprocessing`: `findReorgDepth` compares the hash of the *head* with those stored for older
   blocks, so no older block matches; having reached block 0 it deletes everything and sets the
   cursor to 2^64 - 1 (`reorg_handler.go:117`). `ReorgSearchEndsAtZero` proves that the search ends in no
   other way, unless a call fails or the head it read lies below the reported block.
2. `stop_returns`: `Stop` waits for the loop while it holds the lock the loop needs
   (`monitor.go:229`). `StopHangsForGood` proves that neither ever moves again.
3. `running_means_polling`: a monitor started over HTTP stops when the request is answered and goes
   on saying that it runs (`server.go:699`).
4. `batch_processed`: `NewEventProcessor` does not set `metricsManager`, so `ProcessEvent` panics at
   its end for every valid event, and `ProcessEvents` counts every event as failed
   (`processor.go:387`).

The models have further behaviour of the code that its readers may not expect. No run is spent on
it, as no property claims the contrary:

* `ProcessBlockRange` logs a failed block and goes on, and the cursor then moves past it: one failed
  call loses the events of a block for good (`reorg_handler.go:264`). `NoSilentLoss` excepts exactly
  these blocks.
* `GetClientWithContext` finds no client and calls `connect`, which does not look again under the
  lock: two callers dial, the second overwrites the first's client, and nobody closes it
  (`manager.go:128`). Only the health check, once at start, compares the network id (`manager.go:209`).
* A request that starts the monitor in the 100 ms before `main` does makes the program end with
  "Monitor already running" (`main.go:301`).
* SQLite's `PRAGMA foreign_keys` runs on one connection of the pool (`sqlite.go:66`): on the others,
  deleting an event leaves its notifications behind. Where it holds, `Cleanup` fails as a whole,
  because it deletes the events before their notifications (`sqlite_extended.go:356`, `:364`).
* `LogEvent` and `StoreProcessingResult` of SQLite insert into tables that no migration creates.
  PostgreSQL's placeholders answer `nil`; it refuses a log that was parsed again, and its `GetHealth`
  returns nil, which `server.go:186` and `main.go:430` dereference.
* `rows.Err()` is never asked (`sqlite.go:304`): a connection that breaks makes a page short. `total` of
  a page is its own length (`server.go:357`). `GetEvents` looks for the lowered address of a contract
  (`sqlite.go:256`), rows have the checksummed one: it finds only addresses without letters. An
  `OFFSET` without a `LIMIT` is an error in SQLite. `/events/search` is shadowed by `/events/{hash}`
  (`server.go:112`).
* `config.go:202` sets a default for `notifications.max_retries`, but the sender reads `retry_attempts`
  (`config.go:88`), which has none: with 0 attempts `SendWebhook` dereferences a nil response
  (`webhook.go:92`), in the model the step to "panic". The comment of the delay says
  `2^(attempt-1)` (`webhook.go:267`), the code shifts by `attempt-2`: below the cap every pause is half of
  what the comment has (`CommentDoublesTheDelay`), and `PausesDouble` makes no claim on the first
  one. The shift comes before the cap, so enough attempts overflow it, and from attempt 66 on the pause is none
  (`ManyAttemptsPauseNot`).
* The SMTP server's answer to the email itself, given to the deferred `writer.Close()`, goes nowhere
  (`email.go:166`): an email it refuses is reported as sent.
* Nothing stops `systemMetricsUpdater` (`server.go:160`), which asks storage and monitor for their
  health every 30 s. `Close` of SQLite sets its handle to nil (`sqlite.go:81`), so a shutdown that takes
  longer than the rest of a period may end in a panic (`PanicOnClosedStorage`), even a clean one.
* The driver of SQLite stores a time as `Time.String()` spells it, of which `strftime` makes NULL: the
  `Scan` of every group fails, and `EventsByHour` stays empty (`sqlite_extended.go:295`, `:309`).
* `GetStats` of the manager writes under a read lock and hands out the live record
  (`notification.go:370`).

## 5. Proofs

`EventMonitor_proofs`:

* `TypeCorrect`: `Spec => []TypeOK`. `TypeOK` alone is not inductive: the range a scanner is in must
  stay within the chain's heights (`InRange`), so `TypeInv == TypeOK /\ InRange` is proved.
* `StoredEventsAreCanonical`: under `ForkDepth <= ConfirmationBlocks`,
  `InitialHead > ConfirmationBlocks` and no backfill, every stored event is canonical. The
  inductive invariant (`SettledInv`) says that every block the loop is about, and every log it holds
  or has stored, lies at least `ConfirmationBlocks` below the head, where `ChainReorg` cannot reach.
* `NothingSilentlyLost`: on SQLite and while only the loop moves the cursor, the logs of stable
  contracts up to the cursor are stored unless their block failed. The inductive invariant relates
  the cursor to the outcomes (`AttemptedInv`: everything up to the cursor, and up to the scanner's
  position in its range, has been attempted) and the outcomes to the table (`StoredInv`: an outcome
  other than "failed" means the logs are there; before that, they are in the scanner's batch).
* `MemoryIsTheTable`: on SQLite, and while the HTTP handlers do not write the table themselves,
  `TableIsMonitored` is inductive as it stands.
* `CompletedBlocksAreSaved`: on SQLite, for both scanners, any caller and crashes. `RecordInv` says
  what a scanner carries to the status row: after the snapshot the addresses of every contract never
  removed, after the query their logs, after `SaveBlockEvents` rows, unless a `HandleReorg` deleted
  them since.
* `DeletionsAreBounded`: needs that the depth search counts the blocks it steps down (`DepthInv`).
* `ReorgSearchEndsAtZero`: with `DepthInv` and `StoredHashNames` (a stored hash that equals the hash of a
  block is that block's), the only way out of the search but a failure is block 0, where the
  depth is the block number plus one and `fromBlock - 1` wraps. The exception is a head that lay below
  the reported block when it was read, which its own stored row may match although the chain has
  grown since.
* `LoopImplementsBlockScan`: while only the loop moves the cursor, and with `InitialHead >
  ConfirmationBlocks` (on a shorter chain the code takes unconfirmed blocks, and the confirmed block
  moves back when it grows longer), every step is a step of `BlockScan` or a stutter, with both back
  ends and forks of any depth. `ScanInv` keeps the range of the loop between cursor and confirmed block,
  and uses `AttemptedInv` again for what lies below it.

`MonitorLifecycle_proofs`: type correctness, `OneLoopAtATime`, `StoppedIsQuiet`, `ShutdownIsClean` and
the refinement `LifecycleImplementsService`, for any number of requests and goroutine names. The
invariant behind them says who may hold the lock at each point, that a goroutine alive means `running`
or a `Stop` that waits, and at each point of the shutdown what has already gone. `ShutdownIsClean`
excepts the updater, which is never gone. `StopHangsForGood`
says of finding 2 that it is no delay: from a state where a `Stop` waits for a goroutine that is about
to take `em.mu`, every later state is such a state.

`ConnectionManager_proofs`: `ConnectionTypeCorrect`, `SharedClientStaysOpen` and
`FailoverIsComplete` (with at least one attempt), for any number of callers, nodes and attempts. The
invariant (`ConnectInv`) says that a caller inside `connect` holds `cm.mu`, that the client it has
just dialed is its own and open, and which of the rotated URLs it has tried without success.

`EventProcessor_proofs`: `ProcessorTypeCorrect`, `ConcurrencyIsBounded`, `CountersAddUp` and
`NoRuleIsSkipped`, for any finite batch, rules and capacity, and `NoCapacityNoProgress` for the capacity
0, which is what the program has unless its configuration says otherwise. `semaphore = Cardinality(Inside)`
(`CountInv`) is what makes the bound inductive, and the type of `semaphore` depends on it, so both
are proved together; `OwedInv` says, place by place, where a rule an event still owes is: in `todo`,
or in its `job`.

`StorageBackend_proofs`: `StorageTypeCorrect`, `OneRowPerLogHolds` and the refinement
`BackendImplementsStorage`, for any connections, batches and rows. The invariant says of an open
transaction what its view is: with SQLite, the committed tables (nobody else writes while it is open)
changed by the statements so far, so that its commit is the whole operation; with PostgreSQL, that its
batch has no log that is stored or that another transaction copies. Each statement is then one
operation of `Storage`, a refusal or a stutter.

`EventListing_proofs`: `NoEventIsSkipped` rests on `PagingInv`: while a client pages undisturbed, an
event that was there throughout, is in no tie and is not seen yet has at least as many rows before it
as the offset skips. Saving puts rows before others and never takes one away, and a page that starts
at the offset and does not contain the event is full of rows before it. `StatsDoAddUp` rests on
`StatsInv`: a statement that is done, and was not cut short, counted no more rows than there are
now. `QueriesDoAgree` needs no history: every query of both back ends, and the filter, is shown to mean one set of rows.

`NotificationDelivery_proofs`: the invariant says of each place of a delivery (`Fine`) what the servers
have got and said by then: at most `RetryAttempts` requests for each finished round of `retryAction`
and one for each attempt of the running one, an answer only where the sender returns success, an
accepted email only in the last step of the dialog, which returns success whatever it is told. From
it follow `SentIsAnswered`, `EmailIsSentOnce` and `RequestsAreBounded`. `CountersDoAgree` rests on
`CountInv`: the difference of the counters is the number of callers the manager has counted and the
processor has not (`Waiting`). `QuietOnceEnded` is an action property of the same steps.
`PausesDoDouble` places every pause between the second and the last attempt, and then follows from the
next module.

`RetryBackoff_proofs` is arithmetic. `Power2` is a recursive function, and the library's induction
theorems take an operator the provers cannot instantiate; but induction for a *set* of numbers
(`Induction`: a set that has 0 and the successors of its elements has every natural number) is first
order, and follows from the finiteness of `0 .. n`. With it `Power2` is shown to exist and to satisfy
its equation; then that a product below `2^(Width - 1)` is not wrapped (`ShiftIsProduct`), so that the
delay doubles up to the cap (`DelaysDouble`) and is half of the one in its comment below it
(`CommentDoublesTheDelay`), and that from attempt `Width + 2` on every bit is shifted
out before the cap is looked at (`ManyAttemptsPauseNot`).

The assumptions on constants (`MonitorAssumption`, `BackendAssumption`, `LifecycleAssumption`, `ConnectionAssumption`, `ProcessorAssumption`, `StorageAssumption`, `TableAssumption`, `ListingAssumption`,
`BackoffAssumption`, `DeliveryAssumption`) are typing and
bounds; TLC evaluates them in every run. Theorems with further hypotheses state them in their
statements.

Only model-checked: the properties of liveness (`CatchesUp`, `ShutdownTerminates`, `OnlyStopBlocks`,
`BatchReturns`, `DeliveriesEnd`), as temporal reasoning with fairness is beyond the prover, and
the absence of deadlock. Every invariant, action property and refinement of the passing runs is proved,
the properties of `EventMonitor` from the hypotheses named above.

## 6. Not modelled

Configuration loading, metrics (written, never read), logging, the data types, and the wording of
HTTP replies have no behaviour over time. The decoding of logs (`parser.go`) computes on one log at
a time and no property depends on the values; which logs it accepts, and where it panics, is in
`EventMonitor`. The validator is a verdict on one event (`EventProcessor` has the verdict). The
aggregator and the transformer are two actions of a rule: `EventProcessor` has their outcome, not their
groups and values, which nothing in the program reads. `CreateEventFilters` is called by nothing. The
adaptive poller is constructed and never used. The pool and the RSK client are used by tests only.
Templates and payloads of notifications are texts; the plain email dialog is unreachable, because
`UseTLS` is always true. Of the storage, the queries of contracts, notifications and statuses and the
health and size of the database are left out, of the processor `Start` and `Stop`, which set a flag
nothing else reads, and the statistics, which are only reported.
