---------------------------- MODULE EventMonitor ----------------------------
(***************************************************************************)
(* The event monitor (internal/monitor): the polling loop, ProcessBlock,   *)
(* backfill, the reorganization handler and the set of monitored           *)
(* contracts, over a chain that grows and forks, a node and a database     *)
(* that fail, and a process that crashes and is restarted.                 *)
(*                                                                         *)
(* Two scanners run the same code: "loop" (monitoringLoop) and "backfill"  *)
(* (a caller of BackfillEvents).  Each step of a scanner is one call to    *)
(* the node or to the database, or one read of shared memory.              *)
(***************************************************************************)
EXTENDS EventStore, FiniteSets

CONSTANTS
  Addresses,           \* contract addresses
  InitialContracts,    \* those in the contracts table at the first start
  BadAbi,              \* addresses whose stored ABI is empty or unparsable
  Emits,               \* <<height, address>>: that block has a log of it
  EmitsAnonymous,      \* the same, for a log without topics (LOG0)
  Calls,               \* operations of the Monitor interface and of the HTTP
                       \*   API that callers may invoke
  ConfirmationBlocks, BatchSize, MaxReorgDepth,      \* MonitorConfig
  InitialHead,         \* head of the chain when the monitor first starts
  ForkDepth,           \* how many blocks the chain may replace at once
  WordSize,            \* 2^64 in the code: block numbers are uint64
  MaxHeight, MaxForks, MaxFaults, MaxCalls           \* bounds for TLC

Operations == {"BackfillEvents", "HandleReorg", "SetStartBlock",
               "AddContract", "RemoveContract",
               "ApiAddContract", "ApiRemoveContract"}

Heights == 0 .. MaxHeight
Words == 0 .. WordSize - 1

ASSUME MonitorAssumption ==
  /\ InitialContracts \subseteq Addresses
  /\ BadAbi \subseteq Addresses
  /\ Emits \subseteq (Heights \X Addresses)
  /\ EmitsAnonymous \subseteq Emits
  /\ Calls \subseteq Operations
  /\ ConfirmationBlocks \in Nat
  /\ BatchSize \in Nat
  /\ MaxReorgDepth \in Nat
  /\ ForkDepth \in Nat
  /\ MaxHeight \in Nat
  /\ InitialHead \in Heights
  /\ WordSize \in Nat
  /\ MaxHeight + BatchSize < WordSize
  /\ MaxForks \in Nat
  /\ MaxFaults \in Nat
  /\ MaxCalls \in Nat

VARIABLES
  \* the chain, as the node serves it
  chain,      \* the fork each height belongs to
  head,       \* the number of the latest block
  \* the database: survives a crash
  cursor,     \* system_state.latest_processed_block
  events,     \* rows of the events table, each the log it came from
  completed,  \* heights with a block_processing_status row "completed"
  contracts,  \* rows of the contracts table
  \* the process: lost in a crash
  monitored,  \* em.contracts
  latest,     \* pollForNewBlocks: latestChainBlock
  pc,         \* where each scanner is
  blk, to,    \* ProcessBlockRange: blockNum and toBlock of each scanner
  goal,       \* BackfillEvents: toBlock
  addrs,      \* ProcessBlock: addresses
  batch,      \* ProcessBlock: logs, then the events parsed from them
  rpc, reorg, \* HandleReorg: where it is, and [block, depth, current, hash]
  \* history and budgets
  outcome,    \* how the last ProcessBlock of each height ended
  dropped,    \* contracts somebody removed
  purged,     \* heights whose events HandleReorg deleted, not saved since
  faults, calls

chainVars == <<chain, head>>
dbVars == <<cursor, events, completed, contracts>>
scanVars == <<latest, pc, blk, to, goal, addrs, batch>>
reorgVars == <<rpc, reorg>>
historyVars == <<outcome, dropped, purged>>
budgetVars == <<faults, calls>>
vars == <<chainVars, dbVars, monitored, scanVars, reorgVars, historyVars,
          budgetVars>>

Scanners == {"loop", "backfill"}
ScanStates == {"idle", "poll", "fetch", "snapshot", "filter", "parse",
               "save", "status", "advance"}
Log == [number : Heights, fork : 0 .. MaxForks, address : Addresses]
ReorgStates == {"idle", "detect", "depth", "compare", "delete", "rewind"}
NoReorg == [block |-> 0, depth |-> 0, current |-> 0, hash |-> NoHash]
-----------------------------------------------------------------------------
(* Every step that a failure cuts short spends one unit of the budget.     *)
Fault == faults < MaxFaults /\ faults' = faults + 1 /\ UNCHANGED calls

(* A caller invokes op. *)
Call(op) ==
  op \in Calls /\ calls < MaxCalls /\ calls' = calls + 1 /\ UNCHANGED faults

HeadHash == Hash(head, chain[head])

(* The logs of the canonical block n that FilterLogs returns.              *)
FilterLogs(n, as) ==
  {[number |-> n, fork |-> chain[n], address |-> a] :
     a \in {x \in as : <<n, x>> \in Emits}}

(* Mutant: one confirmation too few. *)
ConfirmedBlockTooSoon(latestBlock) ==
  IF latestBlock > ConfirmationBlocks THEN latestBlock - ConfirmationBlocks + 1
                                      ELSE latestBlock

(* The blocks with enough confirmations; below ConfirmationBlocks the code *)
(* takes the whole chain.                                                  *)
ConfirmedBlock(latestBlock) ==
  IF latestBlock > ConfirmationBlocks THEN latestBlock - ConfirmationBlocks
                                      ELSE latestBlock

(* Mutant: the end of the last batch is exclusive. *)
EndOfBatchExclusive(from, last) ==
  IF last - from + 1 > BatchSize THEN from + BatchSize - 1 ELSE last - 1

(* The end of the batch that starts at block from.                         *)
EndOfBatch(from, last) ==
  IF last - from + 1 > BatchSize THEN from + BatchSize - 1 ELSE last

CanParse(log) == log.address \in monitored \ BadAbi
HasTopics(log) == <<log.number, log.address>> \notin EmitsAnonymous
-----------------------------------------------------------------------------
Init ==
  /\ chain = [n \in Heights |-> 0]
  /\ head = InitialHead
  /\ cursor = 0
  /\ events = {}
  /\ completed = {}
  /\ contracts = InitialContracts
  /\ monitored = GetAllContracts(InitialContracts)
  /\ latest = 0
  /\ pc = [p \in Scanners |-> "idle"]
  /\ blk = [p \in Scanners |-> 0]
  /\ to = [p \in Scanners |-> 0]
  /\ goal = 0
  /\ addrs = [p \in Scanners |-> {}]
  /\ batch = [p \in Scanners |-> {}]
  /\ rpc = "idle"
  /\ reorg = NoReorg
  /\ outcome = [n \in Heights |-> "none"]
  /\ dropped = {}
  /\ purged = {}
  /\ faults = 0
  /\ calls = 0
-----------------------------------------------------------------------------
(* The chain: a block is appended, or the last blocks, at most ForkDepth   *)
(* of them, are replaced by as many blocks of a new fork or more.          *)
Mine ==
  /\ head < MaxHeight
  /\ head' = head + 1
  /\ UNCHANGED <<chain, dbVars, monitored, scanVars, reorgVars, historyVars,
                 budgetVars>>

ChainReorg ==
  /\ chain[MaxHeight] < MaxForks
  /\ \E n \in 1 .. head :
       /\ n > head - ForkDepth
       /\ chain' = [i \in Heights |-> IF i >= n THEN chain[MaxHeight] + 1
                                                ELSE chain[i]]
  /\ head' \in head .. MaxHeight
  /\ UNCHANGED <<dbVars, monitored, scanVars, reorgVars, historyVars,
                 budgetVars>>
-----------------------------------------------------------------------------
(* ProcessBlockRange(from, last) begins. *)
EnterRange(p, from, last) ==
  /\ blk' = [blk EXCEPT ![p] = from]
  /\ to' = [to EXCEPT ![p] = last]
  /\ pc' = [pc EXCEPT ![p] = IF from <= last THEN "fetch" ELSE "advance"]

(* Mutant: the range stops one block short of its end. *)
LeaveBlockShort(p, result) ==
  /\ outcome' = [outcome EXCEPT ![blk[p]] = result]
  /\ blk' = [blk EXCEPT ![p] = blk[p] + 1]
  /\ pc' = [pc EXCEPT ![p] = IF blk[p] + 1 < to[p] THEN "fetch" ELSE "advance"]
  /\ addrs' = [addrs EXCEPT ![p] = {}]
  /\ batch' = [batch EXCEPT ![p] = {}]
  /\ UNCHANGED <<latest, to, goal>>

(* ProcessBlock returned: the range goes on to the next block whether it   *)
(* returned an error or not.                                               *)
LeaveBlock(p, result) ==
  /\ outcome' = [outcome EXCEPT ![blk[p]] = result]
  /\ blk' = [blk EXCEPT ![p] = blk[p] + 1]
  /\ pc' = [pc EXCEPT ![p] = IF blk[p] < to[p] THEN "fetch" ELSE "advance"]
  /\ addrs' = [addrs EXCEPT ![p] = {}]
  /\ batch' = [batch EXCEPT ![p] = {}]
  /\ UNCHANGED <<latest, to, goal>>

(* pollForNewBlocks: the latest block of the chain, ...                    *)
PollChain ==
  /\ pc["loop"] = "idle"
  /\ latest' = head
  /\ pc' = [pc EXCEPT !["loop"] = "poll"]
  /\ UNCHANGED <<chainVars, dbVars, monitored, blk, to, goal, addrs, batch,
                 reorgVars, historyVars, budgetVars>>

(* ... then the latest processed one, and the range between the two.       *)
PollCursor ==
  /\ pc["loop"] = "poll"
  /\ latest' = 0
  /\ IF ConfirmedBlock(latest) > cursor
       THEN EnterRange("loop", cursor + 1,
                       EndOfBatch(cursor + 1, ConfirmedBlock(latest)))
       ELSE /\ pc' = [pc EXCEPT !["loop"] = "idle"]
            /\ UNCHANGED <<blk, to>>
  /\ UNCHANGED <<chainVars, dbVars, monitored, goal, addrs, batch, reorgVars,
                 historyVars, budgetVars>>

(* Either read fails: the loop records the error and waits for a tick.     *)
PollFails ==
  /\ Fault
  /\ pc["loop"] \in {"idle", "poll"}
  /\ latest' = 0
  /\ pc' = [pc EXCEPT !["loop"] = "idle"]
  /\ UNCHANGED <<chainVars, dbVars, monitored, blk, to, goal, addrs, batch,
                 reorgVars, historyVars>>

(* ProcessBlock: a client, and BlockByNumber. *)
FetchBlock(p) ==
  /\ pc[p] = "fetch"
  /\ blk[p] <= head
  /\ pc' = [pc EXCEPT ![p] = "snapshot"]
  /\ UNCHANGED <<chainVars, dbVars, monitored, latest, blk, to, goal, addrs,
                 batch, reorgVars, historyVars, budgetVars>>

(* The node has no such block (a backfill may run past the head).          *)
BlockNotFound(p) ==
  /\ pc[p] = "fetch"
  /\ blk[p] > head
  /\ LeaveBlock(p, "failed")
  /\ UNCHANGED <<chainVars, dbVars, monitored, reorgVars, dropped, purged,
                 budgetVars>>

(* The addresses are copied under the read lock; with none to monitor the  *)
(* block is done, without a status row.                                    *)
SnapshotAddresses(p) ==
  /\ pc[p] = "snapshot"
  /\ IF monitored = {}
       THEN LeaveBlock(p, "skipped")
       ELSE /\ addrs' = [addrs EXCEPT ![p] = monitored]
            /\ pc' = [pc EXCEPT ![p] = "filter"]
            /\ UNCHANGED <<latest, blk, to, goal, batch, outcome>>
  /\ UNCHANGED <<chainVars, dbVars, monitored, reorgVars, dropped, purged,
                 budgetVars>>

(* FilterLogs answers from the chain as it is by now. *)
GetLogs(p) ==
  /\ pc[p] = "filter"
  /\ batch' = [batch EXCEPT ![p] = FilterLogs(blk[p], addrs[p])]
  /\ pc' = [pc EXCEPT ![p] = "parse"]
  /\ UNCHANGED <<chainVars, dbVars, monitored, latest, blk, to, goal, addrs,
                 reorgVars, historyVars, budgetVars>>

(* The contract of each log is looked up again, without the lock; a log    *)
(* whose contract is gone, or has no usable ABI, is dropped.               *)
ParseLogs(p) ==
  /\ pc[p] = "parse"
  /\ \A log \in batch[p] : CanParse(log) => HasTopics(log)
  /\ batch' = [batch EXCEPT ![p] = {log \in batch[p] : CanParse(log)}]
  /\ pc' = [pc EXCEPT ![p] = "save"]
  /\ UNCHANGED <<chainVars, dbVars, monitored, latest, blk, to, goal, addrs,
                 reorgVars, historyVars, budgetVars>>

(* SaveEvents, when there is anything to save.  PostgreSQL refuses a batch *)
(* with a log it already has.                                              *)
SaveBlockEvents(p) ==
  /\ pc[p] = "save"
  /\ IF SaveEventsAccepts(events, batch[p])
       THEN /\ events' = SaveEvents(events, batch[p])
            /\ purged' = purged \ {blk[p]}
            /\ pc' = [pc EXCEPT ![p] = "status"]
            /\ UNCHANGED <<latest, blk, to, goal, addrs, batch, outcome>>
       ELSE LeaveBlock(p, "failed") /\ UNCHANGED <<events, purged>>
  /\ UNCHANGED <<chainVars, cursor, completed, contracts, monitored,
                 reorgVars, dropped, budgetVars>>

(* SetBlockProcessingStatus; updateStats; ProcessBlock returns. *)
SetStatus(p) ==
  /\ pc[p] = "status"
  /\ completed' = completed \cup {blk[p]}
  /\ LeaveBlock(p, "ok")
  /\ UNCHANGED <<chainVars, cursor, events, contracts, monitored, reorgVars,
                 dropped, purged, budgetVars>>

(* The status row cannot be written: only a warning is logged.             *)
SetStatusFails(p) ==
  /\ Fault
  /\ pc[p] = "status"
  /\ LeaveBlock(p, "ok")
  /\ UNCHANGED <<chainVars, dbVars, monitored, reorgVars, dropped, purged>>

(* No client, BlockByNumber, FilterLogs or SaveEvents failed: ProcessBlock *)
(* returns the error, and ProcessBlockRange logs it and goes on.           *)
ProcessBlockFails(p) ==
  /\ Fault
  /\ pc[p] \in {"fetch", "filter", "save"}
  /\ pc[p] = "save" => batch[p] # {}
  /\ LeaveBlock(p, "failed")
  /\ UNCHANGED <<chainVars, dbVars, monitored, reorgVars, dropped, purged>>

(* SetLatestProcessedBlock(to) after the range; a failure is only logged.  *)
(* The backfill goes on to its next batch.                                 *)
EndRange(p) ==
  /\ pc[p] = "advance"
  /\ IF p = "backfill" /\ to[p] < goal
       THEN EnterRange(p, to[p] + 1, EndOfBatch(to[p] + 1, goal))
       ELSE /\ blk' = [blk EXCEPT ![p] = 0]
            /\ to' = [to EXCEPT ![p] = 0]
            /\ pc' = [pc EXCEPT ![p] = "idle"]
  /\ UNCHANGED <<latest, goal, addrs, batch>>

AdvanceCursor(p) ==
  /\ EndRange(p)
  /\ cursor' = to[p]
  /\ UNCHANGED <<chainVars, events, completed, contracts, monitored,
                 reorgVars, historyVars, budgetVars>>

AdvanceCursorFails(p) ==
  /\ Fault
  /\ EndRange(p)
  /\ UNCHANGED <<chainVars, dbVars, monitored, reorgVars, historyVars>>

Scan(p) ==
  \/ FetchBlock(p) \/ BlockNotFound(p) \/ SnapshotAddresses(p) \/ GetLogs(p)
  \/ ParseLogs(p) \/ SaveBlockEvents(p) \/ SetStatus(p) \/ AdvanceCursor(p)

ScanFails(p) ==
  \/ ProcessBlockFails(p) \/ SetStatusFails(p) \/ AdvanceCursorFails(p)
-----------------------------------------------------------------------------
(* BackfillEvents(from, last). *)
BackfillEvents ==
  /\ Call("BackfillEvents")
  /\ pc["backfill"] = "idle"
  /\ \E from \in Heights \ {0}, last \in Heights :
       /\ from <= last
       /\ goal' = last
       /\ EnterRange("backfill", from, EndOfBatch(from, last))
  /\ UNCHANGED <<chainVars, dbVars, monitored, latest, addrs, batch,
                 reorgVars, historyVars>>

(* SetStartBlock(n). *)
SetStartBlock ==
  /\ Call("SetStartBlock")
  /\ cursor' \in Heights
  /\ UNCHANGED <<chainVars, events, completed, contracts, monitored,
                 scanVars, reorgVars, historyVars>>

(* Mutant: the contract is added in memory only. *)
AddContractInMemory(a) ==
  /\ Call("AddContract")
  /\ monitored' = monitored \cup {a}
  /\ UNCHANGED <<chainVars, dbVars, scanVars, reorgVars, historyVars>>

(* AddContract and RemoveContract hold em.mu across the database write and *)
(* the update of the map; the HTTP handlers write the table only.  A       *)
(* removal of an absent row is an error that changes nothing.              *)
AddContract(a) ==
  /\ Call("AddContract")
  /\ contracts' = contracts \cup {a}
  /\ monitored' = monitored \cup {a}
  /\ UNCHANGED <<chainVars, cursor, events, completed, scanVars, reorgVars,
                 historyVars>>

RemoveContract(a) ==
  /\ Call("RemoveContract")
  /\ a \in contracts
  /\ contracts' = contracts \ {a}
  /\ dropped' = dropped \cup {a}
  /\ monitored' = monitored \ {a}
  /\ UNCHANGED <<chainVars, cursor, events, completed, scanVars, reorgVars,
                 outcome, purged>>

ApiAddContract(a) ==
  /\ Call("ApiAddContract")
  /\ contracts' = contracts \cup {a}
  /\ UNCHANGED <<chainVars, cursor, events, completed, monitored, scanVars,
                 reorgVars, historyVars>>

ApiRemoveContract(a) ==
  /\ Call("ApiRemoveContract")
  /\ a \in contracts
  /\ contracts' = contracts \ {a}
  /\ dropped' = dropped \cup {a}
  /\ UNCHANGED <<chainVars, cursor, events, completed, monitored, scanVars,
                 reorgVars, outcome, purged>>
-----------------------------------------------------------------------------
ReorgReturns == rpc' = "idle" /\ reorg' = NoReorg

(* HandleReorg(_, n).  DetectReorg reads the hash of the HEAD, ...         *)
DetectReorg(n) ==
  /\ Call("HandleReorg")
  /\ rpc = "idle"
  /\ rpc' = "detect"
  /\ reorg' = [block |-> n, depth |-> 1, current |-> n, hash |-> HeadHash]
  /\ UNCHANGED <<chainVars, dbVars, monitored, scanVars, historyVars>>

(* ... by the time it has the stored hash of block n the chain may have    *)
(* moved on, and the two are compared: a difference is a reorganization.   *)
CompareDetected ==
  /\ rpc = "detect"
  /\ \E stored \in GetBlockHash(events, reorg.block) :
       IF stored = reorg.hash
         THEN ReorgReturns
         ELSE rpc' = "depth" /\ reorg' = [reorg EXCEPT !.hash = NoHash]
  /\ UNCHANGED <<chainVars, dbVars, monitored, scanVars, historyVars,
                 budgetVars>>

DepthLoopGoesOn == reorg.depth <= MaxReorgDepth /\ reorg.current # 0

(* One iteration of findReorgDepth: step down, read the hash of the head,  *)
(* ...                                                                     *)
FindReorgDepth ==
  /\ rpc = "depth"
  /\ DepthLoopGoesOn
  /\ rpc' = "compare"
  /\ reorg' = [reorg EXCEPT !.current = reorg.current - 1, !.hash = HeadHash]
  /\ UNCHANGED <<chainVars, dbVars, monitored, scanVars, historyVars,
                 budgetVars>>

EndSearch == rpc' = "delete" /\ reorg' = [reorg EXCEPT !.hash = NoHash]

(* Mutant: a block without a stored hash ends the search. *)
CompareStoredUnstored ==
  /\ rpc = "compare"
  /\ \E stored \in GetBlockHash(events, reorg.current) :
       IF stored \in {reorg.hash, NoHash}
         THEN EndSearch
         ELSE /\ rpc' = "depth"
              /\ reorg' = [reorg EXCEPT !.depth = reorg.depth + 1,
                                        !.hash = NoHash]
  /\ UNCHANGED <<chainVars, dbVars, monitored, scanVars, historyVars,
                 budgetVars>>

(* ... compare it with the one stored for that height, stop at a match.    *)
CompareStored ==
  /\ rpc = "compare"
  /\ \E stored \in GetBlockHash(events, reorg.current) :
       IF stored = reorg.hash
         THEN EndSearch
         ELSE /\ rpc' = "depth"
              /\ reorg' = [reorg EXCEPT !.depth = reorg.depth + 1,
                                        !.hash = NoHash]
  /\ UNCHANGED <<chainVars, dbVars, monitored, scanVars, historyVars,
                 budgetVars>>

(* A database that fails in DetectReorg is taken for "no reorganization",  *)
(* and in findReorgDepth for the end of it; an error of the node is        *)
(* returned (that of the first client, before the loop, at any depth).     *)
ReorgReadFails ==
  /\ Fault
  /\ \/ rpc = "detect" /\ ReorgReturns
     \/ /\ rpc = "depth"
        /\ DepthLoopGoesOn \/ reorg.current = reorg.block
        /\ ReorgReturns
     \/ rpc = "compare" /\ EndSearch
  /\ UNCHANGED <<chainVars, dbVars, monitored, scanVars, historyVars>>

(* Mutant: the depth is not checked, whatever it came to. *)
CheckReorgDepthNever ==
  /\ rpc = "depth"
  /\ ~DepthLoopGoesOn
  /\ rpc' = "delete"
  /\ UNCHANGED <<chainVars, dbVars, monitored, scanVars, reorg, historyVars,
                 budgetVars>>

(* The loop is over; a depth beyond MaxReorgDepth is an error.             *)
CheckReorgDepth ==
  /\ rpc = "depth"
  /\ ~DepthLoopGoesOn
  /\ IF reorg.depth > MaxReorgDepth
       THEN ReorgReturns
       ELSE rpc' = "delete" /\ UNCHANGED reorg
  /\ UNCHANGED <<chainVars, dbVars, monitored, scanVars, historyVars,
                 budgetVars>>

(* fromBlock, in the arithmetic of uint64. *)
ReorgFrom == (reorg.block - reorg.depth + 1) % WordSize

(* Mutant: signed arithmetic. *)
RewindTargetSigned == ReorgFrom - 1

(* What the cursor is set to: the block before fromBlock. *)
RewindTarget == (ReorgFrom - 1) % WordSize

DeleteReorged ==
  /\ rpc = "delete"
  /\ events' = DeleteEventsByBlockRange(events, ReorgFrom, reorg.block)
  /\ purged' = purged \cup {e.number : e \in events \ events'}
  /\ rpc' = "rewind"
  /\ UNCHANGED <<chainVars, cursor, completed, contracts, monitored,
                 scanVars, reorg, outcome, dropped, budgetVars>>

(* SetLatestProcessedBlock(fromBlock - 1). *)
RewindCursor ==
  /\ rpc = "rewind"
  /\ cursor' = RewindTarget
  /\ ReorgReturns
  /\ UNCHANGED <<chainVars, events, completed, contracts, monitored,
                 scanVars, historyVars, budgetVars>>

(* Either write fails: HandleReorg returns the error. *)
ReorgWriteFails ==
  /\ Fault
  /\ rpc \in {"delete", "rewind"}
  /\ ReorgReturns
  /\ UNCHANGED <<chainVars, dbVars, monitored, scanVars, historyVars>>

Reorg ==
  \/ \E n \in Heights : DetectReorg(n)
  \/ CompareDetected \/ FindReorgDepth \/ CompareStored \/ CheckReorgDepth
  \/ DeleteReorged \/ RewindCursor
-----------------------------------------------------------------------------
(* The process dies and is started again: Start loads the contracts from   *)
(* the database (loadContracts), everything else in memory is gone.        *)
Restart ==
  /\ monitored' = GetAllContracts(contracts)
  /\ latest' = 0
  /\ pc' = [p \in Scanners |-> "idle"]
  /\ blk' = [p \in Scanners |-> 0]
  /\ to' = [p \in Scanners |-> 0]
  /\ goal' = 0
  /\ addrs' = [p \in Scanners |-> {}]
  /\ batch' = [p \in Scanners |-> {}]
  /\ rpc' = "idle"
  /\ reorg' = NoReorg
  /\ UNCHANGED <<chainVars, dbVars, historyVars>>

Crash == Fault /\ Restart

(* ParseLog reads log.Topics[0]: a log without topics panics, and nothing  *)
(* recovers.                                                               *)
ParsePanics(p) ==
  /\ pc[p] = "parse"
  /\ \E log \in batch[p] : CanParse(log) /\ ~HasTopics(log)
  /\ Restart
  /\ UNCHANGED budgetVars
-----------------------------------------------------------------------------
LoopStep == PollChain \/ PollCursor \/ Scan("loop") \/ ParsePanics("loop")

Caller ==
  \/ BackfillEvents
  \/ SetStartBlock
  \/ \E a \in Addresses : \/ AddContract(a) \/ RemoveContract(a)
                          \/ ApiAddContract(a) \/ ApiRemoveContract(a)

Failure ==
  \/ PollFails
  \/ \E p \in Scanners : ScanFails(p)
  \/ ReorgReadFails
  \/ ReorgWriteFails
  \/ Crash

Next ==
  \/ Mine
  \/ ChainReorg
  \/ LoopStep
  \/ Scan("backfill")
  \/ ParsePanics("backfill")
  \/ Caller
  \/ Reorg
  \/ Failure

(* The ticker keeps firing and the loop's calls return: LoopStep is not    *)
(* delayed for ever.  Nothing is assumed of the chain, callers or faults.  *)
Spec == Init /\ [][Next]_vars /\ WF_vars(LoopStep)
-----------------------------------------------------------------------------
(* Type correctness, by part of the state. *)
ChainTypeOK ==
  /\ chain \in [Heights -> 0 .. MaxForks]
  /\ head \in Heights

StoreTypeOK ==
  /\ cursor \in Words
  /\ events \subseteq Log
  /\ completed \subseteq Heights
  /\ contracts \subseteq Addresses

ScanTypeOK ==
  /\ latest \in Heights
  /\ pc \in [Scanners -> ScanStates]
  /\ blk \in [Scanners -> 0 .. MaxHeight + 1]
  /\ to \in [Scanners -> Heights]
  /\ goal \in Heights
  /\ addrs \in [Scanners -> SUBSET Addresses]
  /\ batch \in [Scanners -> SUBSET Log]

ReorgTypeOK ==
  /\ rpc \in ReorgStates
  /\ reorg \in [block : Heights, depth : Nat, current : Heights,
                hash : [number : Heights \cup {-1}, fork : -1 .. MaxForks]]

HistoryTypeOK ==
  /\ outcome \in [Heights -> {"none", "ok", "skipped", "failed"}]
  /\ dropped \subseteq Addresses
  /\ purged \subseteq Heights
  /\ faults \in 0 .. MaxFaults
  /\ calls \in 0 .. MaxCalls

(* Every variable has its type: in particular the cursor stays a uint64    *)
(* and no scanner leaves the chain's heights.                              *)
TypeOK ==
  /\ ChainTypeOK
  /\ StoreTypeOK
  /\ monitored \subseteq Addresses
  /\ ScanTypeOK
  /\ ReorgTypeOK
  /\ HistoryTypeOK

(* The addresses that have been monitored and parsed throughout.           *)
Stable == InitialContracts \ (BadAbi \cup dropped)

(* The log of address a in the canonical block n. *)
CanonicalLog(n, a) == [number |-> n, fork |-> chain[n], address |-> a]

(***************************************************************************)
(* ConfirmationBlocks at work: as long as the chain never replaces more    *)
(* blocks than that, every stored event lies on the canonical chain, at    *)
(* every moment and whatever fails (pollForNewBlocks, ProcessBlock).       *)
(***************************************************************************)
NoOrphanedEvents == \A e \in events : e.fork = chain[e.number]

(***************************************************************************)
(* A log of a contract that was monitored all along, in a block the cursor *)
(* has passed, is in the events table, unless the last ProcessBlock of     *)
(* that block returned an error: forks, crashes, retries of a range and    *)
(* contracts added meanwhile lose nothing else.                            *)
(***************************************************************************)
NoSilentLoss ==
  \A n \in Heights \ {0}, a \in Stable :
    n <= cursor /\ <<n, a>> \in Emits /\ outcome[n] # "failed"
      => CanonicalLog(n, a) \in events

(***************************************************************************)
(* A status row "completed" (what an operator looks at) is only written    *)
(* after the events of the block: whichever scanner wrote it, and however  *)
(* the two interleave or crash, the logs of that height are stored (those  *)
(* HandleReorg deleted since excepted: it leaves the status row behind).   *)
(***************************************************************************)
CompletedMeansSaved ==
  \A n \in completed \ purged, a \in Stable :
    <<n, a>> \in Emits =>
      \E e \in events : e.number = n /\ e.address = a

(***************************************************************************)
(* HandleReorg deletes nothing outside the last MaxReorgDepth blocks up to *)
(* the one it was called for, even when its depth search is cut short.     *)
(***************************************************************************)
DeletionIsBounded ==
  [][\A e \in events \ events' :
       /\ e.number <= reorg.block
       /\ e.number > reorg.block - MaxReorgDepth]_vars

(***************************************************************************)
(* The search for the common ancestor, which compares the hash of the HEAD *)
(* with that of older blocks, is never ended by a match with an older      *)
(* block, whatever the table and however the chain moves between its       *)
(* reads: it ends at block 0, and the cursor is then to be set to the      *)
(* largest uint64, or in a failure, or at a head that had not reached the  *)
(* block asked for when it was read.                                       *)
(***************************************************************************)
SearchEndsAtZero ==
  [][rpc' = "delete" /\ rpc # "delete" /\ faults' = faults
     => \/ ReorgFrom' = 0 /\ RewindTarget' = WordSize - 1
        \/ rpc = "compare" /\ reorg.hash.number < reorg.block]_vars

(***************************************************************************)
(* The contracts a caller added through the monitor are both in memory and *)
(* in the table, also after a crash (AddContract, loadContracts).          *)
(***************************************************************************)
TableIsMonitored == contracts = monitored

(***************************************************************************)
(* "Update latest processed block to trigger reprocessing"                 *)
(* (reorg_handler.go): when HandleReorg is over, the blocks whose events   *)
(* it deleted and that were not saved again since lie above the cursor.    *)
(***************************************************************************)
ReprocessingTriggered == rpc = "idle" => \A n \in purged : n > cursor

(* The monitor, with its history variable, implements BlockScan.           *)
Attempted == {n \in Heights : outcome[n] # "none"}

Abstract == INSTANCE BlockScan
              WITH confirmed <- ConfirmedBlock(head), attempted <- Attempted

(***************************************************************************)
(* The polling loop implements BlockScan step by step: confirmed blocks    *)
(* are attempted in order, the cursor covers attempted blocks only, and it *)
(* never goes back, whatever fails, forks or crashes.                      *)
(***************************************************************************)
ImplementsBlockScan == Abstract!Safety

(***************************************************************************)
(* And it catches up, as BlockScan promises: no confirmed block stays      *)
(* unattempted, nor the cursor behind attempted blocks, for ever           *)
(* (monitoringLoop).                                                       *)
(***************************************************************************)
CatchesUp == Abstract!Liveness
=============================================================================
