------------------------- MODULE EventMonitor_proofs -------------------------
(***************************************************************************)
(* Proofs about EventMonitor, for every value of its constants.            *)
(***************************************************************************)
EXTENDS EventMonitor, TLAPS

(* The states in which a scanner is inside ProcessBlock. *)
InBlock == {"fetch", "snapshot", "filter", "parse", "save", "status"}

(* ProcessBlockRange only processes blocks of its range: what makes TypeOK *)
(* inductive.                                                              *)
InRange == \A p \in Scanners : pc[p] \in InBlock => blk[p] <= to[p]

TypeInv == TypeOK /\ InRange
-----------------------------------------------------------------------------
(* The end of a batch that starts at a block up to last is a block number, *)
(* and no further than last.                                               *)
LEMMA EndOfBatchRange ==
  ASSUME NEW last \in Heights, NEW from \in 1 .. last
  PROVE  /\ EndOfBatch(from, last) \in Heights
         /\ EndOfBatch(from, last) <= last
         /\ from <= EndOfBatch(from, last) + 1
BY MonitorAssumption DEF EndOfBatch, Heights

(* The confirmed block is a block of the chain. *)
LEMMA ConfirmedBlockRange ==
  ASSUME NEW n \in Heights
  PROVE  ConfirmedBlock(n) \in 0 .. n
BY MonitorAssumption DEF ConfirmedBlock, Heights

(* FilterLogs returns logs of the canonical block it is asked for. *)
LEMMA FilterLogsType ==
  ASSUME ChainTypeOK, NEW n \in Heights, NEW as \in SUBSET Addresses
  PROVE  /\ FilterLogs(n, as) \in SUBSET Log
         /\ \A log \in FilterLogs(n, as) : log.number = n /\ log.fork = chain[n]
<1>1. SUFFICES ASSUME NEW log \in FilterLogs(n, as)
               PROVE  log \in Log /\ log.number = n /\ log.fork = chain[n]
  OBVIOUS
<1>2. PICK a \in as : log = [number |-> n, fork |-> chain[n], address |-> a]
  BY <1>1 DEF FilterLogs
<1>3. chain[n] \in 0 .. MaxForks
  BY DEF ChainTypeOK
<1>4. QED
  BY <1>2, <1>3 DEF Log

(* uint64 arithmetic stays in the word. *)
LEMMA RewindTargetType ==
  ASSUME ReorgTypeOK
  PROVE  RewindTarget \in Words
<1>1. WordSize \in Nat /\ WordSize > 0
  BY MonitorAssumption DEF Heights
<1>2. ReorgFrom \in Int
  BY <1>1 DEF ReorgTypeOK, ReorgFrom, Heights
<1>3. QED
  BY <1>1, <1>2 DEF RewindTarget, Words

(* A block number is a word. *)
LEMMA HeightsAreWords == Heights \subseteq Words
BY MonitorAssumption DEF Heights, Words
-----------------------------------------------------------------------------
(* Leaving a block keeps the scanners' locals typed and in range. *)
LEMMA LeaveBlockType ==
  ASSUME TypeInv, NEW p \in Scanners, pc[p] \in InBlock,
         NEW result \in {"ok", "skipped", "failed"}, LeaveBlock(p, result)
  PROVE  /\ ScanTypeOK'
         /\ InRange'
         /\ outcome' \in [Heights -> {"none", "ok", "skipped", "failed"}]
<1> USE MonitorAssumption DEF TypeInv, TypeOK, ScanTypeOK, Heights
<1>1. blk[p] <= to[p] /\ blk[p] \in Nat /\ to[p] \in Heights
  BY DEF InRange
<1>2. ScanTypeOK'
  BY <1>1 DEF LeaveBlock, ScanStates
<1>3. InRange'
  BY <1>1 DEF LeaveBlock, InRange, InBlock
<1>4. outcome' \in [Heights -> {"none", "ok", "skipped", "failed"}]
  BY <1>1 DEF LeaveBlock, HistoryTypeOK
<1>5. QED
  BY <1>2, <1>3, <1>4

(* Entering a range does, too. *)
LEMMA EnterRangeType ==
  ASSUME TypeInv, NEW p \in Scanners, NEW from \in 1 .. MaxHeight,
         NEW last \in Heights, EnterRange(p, from, last)
  PROVE  /\ pc' \in [Scanners -> ScanStates]
         /\ blk' \in [Scanners -> 0 .. MaxHeight + 1]
         /\ to' \in [Scanners -> Heights]
         /\ InRange'
<1> USE MonitorAssumption DEF TypeInv, TypeOK, ScanTypeOK, Heights
<1>1. /\ pc' \in [Scanners -> ScanStates]
      /\ blk' \in [Scanners -> 0 .. MaxHeight + 1]
      /\ to' \in [Scanners -> Heights]
  BY DEF EnterRange, ScanStates
<1>2. InRange'
  BY DEF EnterRange, InRange, InBlock
<1>3. QED
  BY <1>1, <1>2

(* A restart leaves nothing but typed values behind. *)
LEMMA RestartType ==
  ASSUME TypeInv, Restart
  PROVE  /\ monitored' \subseteq Addresses
         /\ ScanTypeOK'
         /\ ReorgTypeOK'
         /\ InRange'
<1> USE MonitorAssumption
<1>1. monitored' \subseteq Addresses
  BY DEF Restart, GetAllContracts, TypeInv, TypeOK, StoreTypeOK
<1>2. ScanTypeOK' /\ ReorgTypeOK'
  BY DEF Restart, ScanTypeOK, ReorgTypeOK, ReorgStates, NoReorg, NoHash,
         ScanStates, Heights
<1>3. InRange'
  BY DEF Restart, InRange, InBlock
<1>4. QED
  BY <1>1, <1>2, <1>3
-----------------------------------------------------------------------------
LEMMA InitType == Init => TypeInv
<1> SUFFICES ASSUME Init PROVE TypeInv
  OBVIOUS
<1> USE MonitorAssumption
<1>1. ChainTypeOK /\ StoreTypeOK
  BY HeightsAreWords DEF Init, ChainTypeOK, StoreTypeOK, Heights
<1>2. monitored \subseteq Addresses
  BY DEF Init, GetAllContracts
<1>3. ScanTypeOK /\ ReorgTypeOK /\ HistoryTypeOK
  BY DEF Init, ScanTypeOK, ReorgTypeOK, HistoryTypeOK, Heights, ScanStates,
         ReorgStates, NoReorg, NoHash
<1>4. InRange
  BY DEF Init, InRange, InBlock
<1>5. QED
  BY <1>1, <1>2, <1>3, <1>4 DEF TypeInv, TypeOK
-----------------------------------------------------------------------------
(* The parts of the state an action leaves alone keep their types. *)
LEMMA UnchangedType ==
  ASSUME TypeInv
  PROVE  /\ UNCHANGED chainVars => ChainTypeOK'
         /\ UNCHANGED dbVars => StoreTypeOK'
         /\ UNCHANGED monitored => (monitored \subseteq Addresses)'
         /\ UNCHANGED scanVars => ScanTypeOK' /\ InRange'
         /\ UNCHANGED reorgVars => ReorgTypeOK'
         /\ UNCHANGED historyVars /\ UNCHANGED budgetVars => HistoryTypeOK'
BY DEF TypeInv, TypeOK, InRange, chainVars, dbVars, scanVars, reorgVars,
       historyVars, budgetVars, ChainTypeOK, StoreTypeOK, ScanTypeOK,
       ReorgTypeOK, HistoryTypeOK

(* A failure and a call stay within their bounds. *)
LEMMA FaultType ==
  ASSUME HistoryTypeOK, Fault
  PROVE  (faults \in 0 .. MaxFaults /\ calls \in 0 .. MaxCalls)'
BY MonitorAssumption DEF Fault, HistoryTypeOK

LEMMA CallType ==
  ASSUME HistoryTypeOK, NEW op \in Operations, Call(op)
  PROVE  (faults \in 0 .. MaxFaults /\ calls \in 0 .. MaxCalls)'
BY MonitorAssumption DEF Call, HistoryTypeOK

(* The chain's own steps. *)
LEMMA ChainType ==
  ASSUME TypeInv, Mine \/ ChainReorg
  PROVE  TypeInv'
<1>1. ChainTypeOK'
  <2>1. CASE Mine
    BY <2>1, MonitorAssumption
       DEF Mine, TypeInv, TypeOK, ChainTypeOK, Heights
  <2>2. CASE ChainReorg
    BY <2>2, MonitorAssumption
       DEF ChainReorg, TypeInv, TypeOK, ChainTypeOK, Heights
  <2>3. QED
    BY <2>1, <2>2
<1>2. QED
  BY <1>1, UnchangedType DEF Mine, ChainReorg, TypeInv, TypeOK

(* pollForNewBlocks. *)
LEMMA PollType ==
  ASSUME TypeInv, PollChain \/ PollCursor \/ PollFails
  PROVE  TypeInv'
<1> USE MonitorAssumption
<1>1. ScanTypeOK' /\ InRange'
  <2>1. CASE PollChain
    BY <2>1 DEF PollChain, TypeInv, TypeOK, ScanTypeOK, ChainTypeOK, InRange,
                InBlock, ScanStates, Scanners
  <2>2. CASE PollFails
    BY <2>2 DEF PollFails, TypeInv, TypeOK, ScanTypeOK, InRange, InBlock,
                ScanStates, Scanners, Heights
  <2>3. CASE PollCursor
    <3>1. CASE ConfirmedBlock(latest) > cursor
      <4> DEFINE last == ConfirmedBlock(latest)
      <4>1. last \in Heights /\ cursor + 1 \in 1 .. last
        BY <3>1, ConfirmedBlockRange
           DEF TypeInv, TypeOK, ScanTypeOK, StoreTypeOK, Words, Heights
      <4>2. EndOfBatch(cursor + 1, last) \in Heights
        BY <4>1, EndOfBatchRange
      <4>3. EnterRange("loop", cursor + 1, EndOfBatch(cursor + 1, last))
        BY <2>3, <3>1 DEF PollCursor
      <4>4. /\ pc' \in [Scanners -> ScanStates]
            /\ blk' \in [Scanners -> 0 .. MaxHeight + 1]
            /\ to' \in [Scanners -> Heights]
            /\ InRange'
        BY <4>1, <4>2, <4>3, EnterRangeType DEF Scanners, Heights
      <4>5. QED
        BY <2>3, <4>4 DEF PollCursor, TypeInv, TypeOK, ScanTypeOK, Heights
    <3>2. CASE ~(ConfirmedBlock(latest) > cursor)
      BY <2>3, <3>2 DEF PollCursor, TypeInv, TypeOK, ScanTypeOK, InRange,
                        InBlock, ScanStates, Scanners, Heights
    <3>3. QED
      BY <3>1, <3>2
  <2>4. QED
    BY <2>1, <2>2, <2>3
<1>2. HistoryTypeOK'
  BY UnchangedType, FaultType
     DEF PollChain, PollCursor, PollFails, Fault, TypeInv, TypeOK,
         HistoryTypeOK, historyVars
<1>3. QED
  BY <1>1, <1>2, UnchangedType
     DEF PollChain, PollCursor, PollFails, TypeInv, TypeOK

(* The steps of ProcessBlock, of either scanner. *)
LEMMA ProcessBlockType ==
  ASSUME TypeInv, NEW p \in Scanners,
         \/ FetchBlock(p) \/ BlockNotFound(p) \/ SnapshotAddresses(p)
         \/ GetLogs(p) \/ ParseLogs(p) \/ SaveBlockEvents(p) \/ SetStatus(p)
         \/ SetStatusFails(p) \/ ProcessBlockFails(p)
  PROVE  TypeInv'
<1> USE MonitorAssumption
<1>1. CASE FetchBlock(p)
  <2>1. ScanTypeOK' /\ InRange'
    BY <1>1 DEF FetchBlock, TypeInv, TypeOK, ScanTypeOK, InRange, InBlock,
                ScanStates
  <2>2. QED
    BY <1>1, <2>1, UnchangedType DEF FetchBlock, TypeInv, TypeOK
<1>2. CASE BlockNotFound(p)
  <2>1. /\ ScanTypeOK' /\ InRange'
        /\ outcome' \in [Heights -> {"none", "ok", "skipped", "failed"}]
    BY <1>2, LeaveBlockType DEF BlockNotFound, InBlock
  <2>2. HistoryTypeOK'
    BY <1>2, <2>1 DEF BlockNotFound, TypeInv, TypeOK, HistoryTypeOK, budgetVars
  <2>3. QED
    BY <1>2, <2>1, <2>2, UnchangedType DEF BlockNotFound, TypeInv, TypeOK
<1>3. CASE SnapshotAddresses(p)
  <2>1. /\ ScanTypeOK' /\ InRange'
        /\ outcome' \in [Heights -> {"none", "ok", "skipped", "failed"}]
    <3>1. CASE monitored = {}
      BY <1>3, <3>1, LeaveBlockType DEF SnapshotAddresses, InBlock
    <3>2. CASE monitored # {}
      BY <1>3, <3>2 DEF SnapshotAddresses, TypeInv, TypeOK, ScanTypeOK,
                        InRange, InBlock, ScanStates, HistoryTypeOK
    <3>3. QED
      BY <3>1, <3>2
  <2>2. HistoryTypeOK'
    BY <1>3, <2>1
       DEF SnapshotAddresses, TypeInv, TypeOK, HistoryTypeOK, budgetVars
  <2>3. QED
    BY <1>3, <2>1, <2>2, UnchangedType DEF SnapshotAddresses, TypeInv, TypeOK
<1>4. CASE GetLogs(p)
  <2>1. blk[p] \in Heights /\ addrs[p] \in SUBSET Addresses
    BY <1>4 DEF GetLogs, TypeInv, TypeOK, ScanTypeOK, InRange, InBlock, Heights
  <2>2. FilterLogs(blk[p], addrs[p]) \in SUBSET Log
    BY <2>1, FilterLogsType DEF TypeInv, TypeOK
  <2>3. ScanTypeOK' /\ InRange'
    BY <1>4, <2>2 DEF GetLogs, TypeInv, TypeOK, ScanTypeOK, InRange, InBlock,
                      ScanStates
  <2>4. QED
    BY <1>4, <2>3, UnchangedType DEF GetLogs, TypeInv, TypeOK
<1>5. CASE ParseLogs(p)
  <2>1. {log \in batch[p] : CanParse(log)} \in SUBSET Log
    BY DEF TypeInv, TypeOK, ScanTypeOK
  <2>2. ScanTypeOK' /\ InRange'
    BY <1>5, <2>1 DEF ParseLogs, TypeInv, TypeOK, ScanTypeOK, InRange, InBlock,
                      ScanStates
  <2>3. QED
    BY <1>5, <2>2, UnchangedType DEF ParseLogs, TypeInv, TypeOK
<1>6. CASE SaveBlockEvents(p)
  <2>1. StoreTypeOK'
    BY <1>6 DEF SaveBlockEvents, SaveEvents, TypeInv, TypeOK, StoreTypeOK,
                ScanTypeOK
  <2>2. /\ ScanTypeOK' /\ InRange'
        /\ outcome' \in [Heights -> {"none", "ok", "skipped", "failed"}]
    <3>1. CASE SaveEventsAccepts(events, batch[p])
      BY <1>6, <3>1 DEF SaveBlockEvents, TypeInv, TypeOK, ScanTypeOK, InRange,
                        InBlock, ScanStates, HistoryTypeOK
    <3>2. CASE ~SaveEventsAccepts(events, batch[p])
      BY <1>6, <3>2, LeaveBlockType DEF SaveBlockEvents, InBlock
    <3>3. QED
      BY <3>1, <3>2
  <2>3. HistoryTypeOK'
    BY <1>6, <2>2
       DEF SaveBlockEvents, TypeInv, TypeOK, HistoryTypeOK, budgetVars
  <2>4. QED
    BY <1>6, <2>1, <2>2, <2>3, UnchangedType
       DEF SaveBlockEvents, TypeInv, TypeOK
<1>7. CASE SetStatus(p)
  <2>1. /\ ScanTypeOK' /\ InRange'
        /\ outcome' \in [Heights -> {"none", "ok", "skipped", "failed"}]
    BY <1>7, LeaveBlockType DEF SetStatus, InBlock
  <2>2. StoreTypeOK'
    <3>1. blk[p] \in Heights
      BY <1>7 DEF SetStatus, TypeInv, TypeOK, ScanTypeOK, InRange, InBlock,
                  Heights
    <3>2. QED
      BY <1>7, <3>1 DEF SetStatus, TypeInv, TypeOK, StoreTypeOK
  <2>3. HistoryTypeOK'
    BY <1>7, <2>1 DEF SetStatus, TypeInv, TypeOK, HistoryTypeOK, budgetVars
  <2>4. QED
    BY <1>7, <2>1, <2>2, <2>3, UnchangedType DEF SetStatus, TypeInv, TypeOK
<1>8. CASE SetStatusFails(p) \/ ProcessBlockFails(p)
  <2>1. PICK result \in {"ok", "failed"} : LeaveBlock(p, result)
    BY <1>8 DEF SetStatusFails, ProcessBlockFails
  <2>2. /\ ScanTypeOK' /\ InRange'
        /\ outcome' \in [Heights -> {"none", "ok", "skipped", "failed"}]
    BY <1>8, <2>1, LeaveBlockType DEF SetStatusFails, ProcessBlockFails, InBlock
  <2>3. HistoryTypeOK'
    BY <1>8, <2>2, FaultType
       DEF SetStatusFails, ProcessBlockFails, TypeInv, TypeOK, HistoryTypeOK,
           Fault
  <2>4. QED
    BY <1>8, <2>2, <2>3, UnchangedType
       DEF SetStatusFails, ProcessBlockFails, TypeInv, TypeOK
<1>9. QED
  BY <1>1, <1>2, <1>3, <1>4, <1>5, <1>6, <1>7, <1>8

(* The end of a range, written or not. *)
LEMMA EndRangeType ==
  ASSUME TypeInv, NEW p \in Scanners, EndRange(p)
  PROVE  ScanTypeOK' /\ InRange'
<1> USE MonitorAssumption
<1>1. CASE p = "backfill" /\ to[p] < goal
  <2>1. goal \in Heights /\ to[p] + 1 \in 1 .. goal
    BY <1>1 DEF TypeInv, TypeOK, ScanTypeOK, Heights
  <2>2. EndOfBatch(to[p] + 1, goal) \in Heights
    BY <2>1, EndOfBatchRange
  <2>3. EnterRange(p, to[p] + 1, EndOfBatch(to[p] + 1, goal))
    BY <1>1 DEF EndRange
  <2>4. /\ pc' \in [Scanners -> ScanStates]
        /\ blk' \in [Scanners -> 0 .. MaxHeight + 1]
        /\ to' \in [Scanners -> Heights]
        /\ InRange'
    BY <2>1, <2>2, <2>3, EnterRangeType DEF Heights
  <2>5. QED
    BY <2>4 DEF EndRange, TypeInv, TypeOK, ScanTypeOK
<1>2. CASE ~(p = "backfill" /\ to[p] < goal)
  BY <1>2 DEF EndRange, TypeInv, TypeOK, ScanTypeOK, InRange, InBlock,
              ScanStates, Heights
<1>3. QED
  BY <1>1, <1>2

LEMMA AdvanceType ==
  ASSUME TypeInv, NEW p \in Scanners,
         AdvanceCursor(p) \/ AdvanceCursorFails(p)
  PROVE  TypeInv'
<1>1. ScanTypeOK' /\ InRange'
  BY EndRangeType DEF AdvanceCursor, AdvanceCursorFails
<1>2. StoreTypeOK'
  <2>1. to[p] \in Words
    BY HeightsAreWords DEF TypeInv, TypeOK, ScanTypeOK
  <2>2. QED
    BY <2>1 DEF AdvanceCursor, AdvanceCursorFails, TypeInv, TypeOK,
                StoreTypeOK, dbVars
<1>3. HistoryTypeOK'
  BY FaultType, UnchangedType
     DEF AdvanceCursor, AdvanceCursorFails, TypeInv, TypeOK, HistoryTypeOK,
         historyVars, Fault
<1>4. QED
  BY <1>1, <1>2, <1>3, UnchangedType
     DEF AdvanceCursor, AdvanceCursorFails, TypeInv, TypeOK

(* What callers do, HandleReorg apart. *)
LEMMA CallerType ==
  ASSUME TypeInv, Caller
  PROVE  TypeInv'
<1> USE MonitorAssumption
<1>1. (faults \in 0 .. MaxFaults /\ calls \in 0 .. MaxCalls)'
  BY CallType DEF Caller, BackfillEvents, SetStartBlock, AddContract,
     RemoveContract, ApiAddContract, ApiRemoveContract, Operations, TypeInv,
     TypeOK
<1>2. CASE BackfillEvents
  <2>1. PICK from \in Heights \ {0}, last \in Heights :
          /\ from <= last
          /\ goal' = last
          /\ EnterRange("backfill", from, EndOfBatch(from, last))
    BY <1>2 DEF BackfillEvents
  <2>2. from \in 1 .. last /\ from \in 1 .. MaxHeight
    BY <2>1 DEF Heights
  <2>3. EndOfBatch(from, last) \in Heights
    BY <2>2, EndOfBatchRange
  <2>4. /\ pc' \in [Scanners -> ScanStates]
        /\ blk' \in [Scanners -> 0 .. MaxHeight + 1]
        /\ to' \in [Scanners -> Heights]
        /\ InRange'
    BY <2>1, <2>2, <2>3, EnterRangeType DEF Scanners
  <2>5. ScanTypeOK'
    BY <1>2, <2>1, <2>4 DEF BackfillEvents, TypeInv, TypeOK, ScanTypeOK
  <2>6. HistoryTypeOK'
    BY <1>1, <1>2
       DEF BackfillEvents, TypeInv, TypeOK, HistoryTypeOK, historyVars
  <2>7. QED
    BY <1>2, <2>4, <2>5, <2>6, UnchangedType
       DEF BackfillEvents, TypeInv, TypeOK
<1>3. CASE SetStartBlock
  <2>1. StoreTypeOK'
    BY <1>3, HeightsAreWords
       DEF SetStartBlock, TypeInv, TypeOK, StoreTypeOK
  <2>2. HistoryTypeOK'
    BY <1>1, <1>3
       DEF SetStartBlock, TypeInv, TypeOK, HistoryTypeOK, historyVars
  <2>3. QED
    BY <1>3, <2>1, <2>2, UnchangedType DEF SetStartBlock, TypeInv, TypeOK
<1>4. ASSUME NEW a \in Addresses,
             \/ AddContract(a) \/ RemoveContract(a)
             \/ ApiAddContract(a) \/ ApiRemoveContract(a)
      PROVE  TypeInv'
  <2>1. StoreTypeOK' /\ monitored' \subseteq Addresses
    BY <1>4 DEF AddContract, RemoveContract, ApiAddContract,
                ApiRemoveContract, TypeInv, TypeOK, StoreTypeOK
  <2>2. HistoryTypeOK'
    BY <1>1, <1>4 DEF AddContract, RemoveContract, ApiAddContract,
       ApiRemoveContract, TypeInv, TypeOK, HistoryTypeOK, historyVars
  <2>3. UNCHANGED <<chainVars, scanVars, reorgVars>>
    BY <1>4 DEF AddContract, RemoveContract, ApiAddContract, ApiRemoveContract
  <2>4. QED
    BY <2>1, <2>2, <2>3, UnchangedType DEF TypeInv, TypeOK
<1>5. QED
  BY <1>2, <1>3, <1>4 DEF Caller

(* HandleReorg. *)
LEMMA ReorgType ==
  ASSUME TypeInv, Reorg \/ ReorgReadFails \/ ReorgWriteFails
  PROVE  TypeInv'
<1> USE MonitorAssumption
<1>1. ReorgTypeOK'
  <2> DEFINE H == [number : Heights \cup {-1}, fork : -1 .. MaxForks]
  <2>1. HeadHash \in H /\ NoHash \in H
    <3>1. head \in Heights /\ chain[head] \in 0 .. MaxForks /\ MaxForks \in Nat
      BY DEF TypeInv, TypeOK, ChainTypeOK
    <3>2. QED
      BY <3>1 DEF HeadHash, Hash, NoHash
  <2>2. /\ rpc \in ReorgStates
        /\ reorg \in [block : Heights, depth : Nat, current : Heights, hash : H]
    BY DEF ReorgTypeOK, TypeInv, TypeOK
  <2>3. NoReorg \in [block : Heights, depth : Nat, current : Heights, hash : H]
    BY <2>1 DEF NoReorg, Heights
  <2> HIDE DEF H
  <2>4. ASSUME rpc' \in ReorgStates,
               reorg' \in [block : Heights, depth : Nat, current : Heights, hash : H]
        PROVE  ReorgTypeOK'
    BY <2>4 DEF H, ReorgTypeOK
  <2>5. ASSUME ReorgReturns PROVE ReorgTypeOK'
    BY <2>3, <2>4, <2>5 DEF ReorgReturns, ReorgStates
  <2>6. ASSUME EndSearch PROVE ReorgTypeOK'
    BY <2>1, <2>2, <2>4, <2>6 DEF EndSearch, ReorgStates
  <2>7. ASSUME NEW n \in Heights, DetectReorg(n) PROVE ReorgTypeOK'
    BY <2>1, <2>4, <2>7 DEF DetectReorg, ReorgStates
  <2>8. CASE CompareDetected
    BY <2>1, <2>2, <2>4, <2>5, <2>8 DEF CompareDetected, ReorgStates
  <2>9. CASE FindReorgDepth
    <3>1. reorg.current - 1 \in Heights
      BY <2>2, <2>9 DEF FindReorgDepth, DepthLoopGoesOn, Heights
    <3>2. QED
      BY <2>1, <2>2, <2>4, <2>9, <3>1 DEF FindReorgDepth, ReorgStates
  <2>10. CASE CompareStored
    <3>1. \/ EndSearch
          \/ /\ rpc' = "depth"
             /\ reorg' = [reorg EXCEPT !.depth = reorg.depth + 1, !.hash = NoHash]
      BY <2>10 DEF CompareStored
    <3>2. ASSUME rpc' = "depth",
                 reorg' = [reorg EXCEPT !.depth = reorg.depth + 1, !.hash = NoHash]
          PROVE  ReorgTypeOK'
      <4>1. reorg.depth + 1 \in Nat
        BY <2>2
      <4>2. reorg' \in [block : Heights, depth : Nat, current : Heights, hash : H]
        BY <2>1, <2>2, <3>2, <4>1
      <4>3. QED
        BY <2>4, <3>2, <4>2 DEF ReorgStates
    <3>3. QED
      BY <2>6, <3>1, <3>2
  <2>11. CASE CheckReorgDepth \/ ReorgReadFails \/ ReorgWriteFails
    BY <2>2, <2>4, <2>5, <2>6, <2>11
       DEF CheckReorgDepth, ReorgReadFails, ReorgWriteFails, ReorgStates
  <2>12. CASE DeleteReorged \/ RewindCursor
    BY <2>2, <2>4, <2>5, <2>12 DEF DeleteReorged, RewindCursor, ReorgStates
  <2>13. QED
    BY <2>7, <2>8, <2>9, <2>10, <2>11, <2>12 DEF Reorg
<1>2. HistoryTypeOK'
  <2>1. ASSUME NEW n \in Heights, DetectReorg(n) PROVE HistoryTypeOK'
    BY <2>1, CallType DEF DetectReorg, Operations, HistoryTypeOK, TypeInv,
                            TypeOK, historyVars
  <2>2. CASE CompareDetected \/ FindReorgDepth \/ CompareStored \/ CheckReorgDepth
             \/ RewindCursor
    BY <2>2, UnchangedType
       DEF CompareDetected, FindReorgDepth, CompareStored, CheckReorgDepth,
           RewindCursor
  <2>3. CASE ReorgReadFails \/ ReorgWriteFails
    BY <2>3, FaultType DEF ReorgReadFails, ReorgWriteFails, Fault,
       HistoryTypeOK, TypeInv, TypeOK, historyVars
  <2>4. CASE DeleteReorged
    <3>1. {e.number : e \in events \ events'} \subseteq Heights
      BY DEF TypeInv, TypeOK, StoreTypeOK, Log
    <3>2. QED
      BY <2>4, <3>1
         DEF DeleteReorged, HistoryTypeOK, TypeInv, TypeOK, budgetVars
  <2>5. QED
    BY <2>1, <2>2, <2>3, <2>4 DEF Reorg
<1>3. StoreTypeOK'
  <2>1. CASE DeleteReorged
    BY <2>1 DEF DeleteReorged, DeleteEventsByBlockRange, StoreTypeOK, TypeInv,
                TypeOK
  <2>2. CASE RewindCursor
    BY <2>2, RewindTargetType DEF RewindCursor, StoreTypeOK, TypeInv, TypeOK
  <2>3. CASE ~DeleteReorged /\ ~RewindCursor
    BY <2>3, UnchangedType
       DEF Reorg, DetectReorg, CompareDetected, FindReorgDepth, CompareStored,
           CheckReorgDepth, ReorgReadFails, ReorgWriteFails
  <2>4. QED
    BY <2>1, <2>2, <2>3
<1>4. UNCHANGED <<chainVars, monitored, scanVars>>
  BY DEF Reorg, DetectReorg, CompareDetected, FindReorgDepth, CompareStored,
         CheckReorgDepth, DeleteReorged, RewindCursor, ReorgReadFails,
         ReorgWriteFails
<1>5. QED
  BY <1>1, <1>2, <1>3, <1>4, UnchangedType DEF TypeInv, TypeOK

(* A crash, or a panic. *)
LEMMA CrashType ==
  ASSUME TypeInv, Crash \/ \E p \in Scanners : ParsePanics(p)
  PROVE  TypeInv'
<1>1. Restart
  BY DEF Crash, ParsePanics
<1>2. HistoryTypeOK'
  BY <1>1, FaultType, UnchangedType
     DEF Crash, ParsePanics, Restart, Fault, HistoryTypeOK, TypeInv, TypeOK,
         historyVars
<1>3. QED
  BY <1>1, <1>2, RestartType, UnchangedType DEF Restart, TypeInv, TypeOK
-----------------------------------------------------------------------------
(* Every step keeps the types. *)
LEMMA NextType == TypeInv /\ [Next]_vars => TypeInv'
<1> SUFFICES ASSUME TypeInv, [Next]_vars PROVE TypeInv'
  OBVIOUS
<1>1. CASE Mine \/ ChainReorg
  BY <1>1, ChainType
<1>2. CASE PollChain \/ PollCursor \/ PollFails
  BY <1>2, PollType
<1>3. ASSUME NEW p \in Scanners, Scan(p) \/ ScanFails(p) PROVE TypeInv'
  BY <1>3, ProcessBlockType, AdvanceType DEF Scan, ScanFails
<1>4. CASE Crash \/ \E p \in Scanners : ParsePanics(p)
  BY <1>4, CrashType
<1>5. CASE Caller
  BY <1>5, CallerType
<1>6. CASE Reorg \/ ReorgReadFails \/ ReorgWriteFails
  BY <1>6, ReorgType
<1>7. CASE UNCHANGED vars
  BY <1>7, UnchangedType DEF vars, TypeInv, TypeOK
<1>8. QED
  BY <1>1, <1>2, <1>3, <1>4, <1>5, <1>6, <1>7
     DEF Next, LoopStep, Failure, Scanners

(* Every variable keeps its type in every behaviour: the cursor is a uint64*)
(* and the scanners stay within the chain (EventMonitor, ReorgHandler).    *)
THEOREM TypeCorrect == Spec => []TypeOK
<1>1. TypeInv => TypeOK
  BY DEF TypeInv
<1>2. QED
  BY <1>1, InitType, NextType, PTL DEF Spec
-----------------------------------------------------------------------------
(***************************************************************************)
(* NoOrphanedEvents.  The loop scans blocks that have ConfirmationBlocks   *)
(* blocks above them; a fork replaces at most ForkDepth blocks.  What the  *)
(* loop holds in its batch, or has stored, is therefore settled.           *)
(***************************************************************************)
Settled(log) ==
  /\ log.number + ConfirmationBlocks <= head
  /\ log.fork = chain[log.number]

SettledInv ==
  /\ pc["backfill"] = "idle"
  /\ head > ConfirmationBlocks
  /\ pc["loop"] = "poll" => latest \in (ConfirmationBlocks + 1) .. head
  /\ pc["loop"] \notin {"idle", "poll"} =>
       to["loop"] + ConfirmationBlocks <= head
  /\ \A log \in batch["loop"] \cup events : Settled(log)

(* The chain grows or forks above the settled blocks only. *)
LEMMA ChainKeepsSettled ==
  ASSUME TypeInv, Mine \/ ChainReorg \/ UNCHANGED chainVars,
         ForkDepth <= ConfirmationBlocks, NEW n \in Heights,
         n + ConfirmationBlocks <= head
  PROVE  /\ head' >= head /\ head' \in Heights
         /\ chain'[n] = chain[n]
<1> USE MonitorAssumption DEF TypeInv, TypeOK, ChainTypeOK, Heights
<1>1. CASE Mine
  BY <1>1 DEF Mine
<1>2. CASE ChainReorg
  <2>1. PICK k \in 1 .. head :
          /\ k > head - ForkDepth
          /\ chain' = [i \in Heights |-> IF i >= k THEN chain[MaxHeight] + 1
                                                   ELSE chain[i]]
    BY <1>2 DEF ChainReorg
  <2>2. n < k
    BY <2>1
  <2>3. QED
    BY <1>2, <2>1, <2>2 DEF ChainReorg
<1>3. CASE UNCHANGED chainVars
  BY <1>3 DEF chainVars
<1>4. QED
  BY <1>1, <1>2, <1>3

LEMMA SettledStaysSettled ==
  ASSUME TypeInv, Mine \/ ChainReorg \/ UNCHANGED chainVars,
         ForkDepth <= ConfirmationBlocks, NEW log \in Log, Settled(log)
  PROVE  Settled(log)'
<1>1. log.number \in Heights /\ log.number + ConfirmationBlocks <= head
  BY DEF Log, Settled
<1>2. /\ head' >= head /\ head' \in Heights
      /\ chain'[log.number] = chain[log.number]
  BY <1>1, ChainKeepsSettled
<1>3. QED
  BY <1>1, <1>2, MonitorAssumption
     DEF Settled, Heights, TypeInv, TypeOK, ChainTypeOK

(* Only the chain's steps change the chain. *)
LEMMA ChainSteps ==
  ASSUME [Next]_vars
  PROVE  Mine \/ ChainReorg \/ UNCHANGED chainVars
BY DEF Next, LoopStep, Caller, Reorg, Failure, Scan, ScanFails, PollChain,
       PollCursor, PollFails, FetchBlock, BlockNotFound, SnapshotAddresses,
       GetLogs, ParseLogs, SaveBlockEvents, SetStatus, SetStatusFails,
       ProcessBlockFails, AdvanceCursor, AdvanceCursorFails, BackfillEvents,
       SetStartBlock, AddContract, RemoveContract, ApiAddContract,
       ApiRemoveContract, DetectReorg, CompareDetected, FindReorgDepth,
       CompareStored, ReorgReadFails, CheckReorgDepth, DeleteReorged, RewindCursor, ReorgWriteFails, Crash,
       ParsePanics, Restart, vars, chainVars

(* Without backfills only the loop scans. *)
LEMMA OnlyLoopScans ==
  ASSUME TypeInv, pc["backfill"] = "idle", NEW p \in Scanners,
         Scan(p) \/ ScanFails(p) \/ ParsePanics(p)
  PROVE  p = "loop"
BY DEF Scanners, Scan, ScanFails, FetchBlock, BlockNotFound,
       SnapshotAddresses, GetLogs, ParseLogs, SaveBlockEvents, SetStatus,
       SetStatusFails, ProcessBlockFails, AdvanceCursor, AdvanceCursorFails,
       EndRange, ParsePanics

(* The steps of ProcessBlock keep what is held and stored settled. *)
LEMMA ScanSettled ==
  ASSUME TypeInv, SettledInv, Scan("loop") \/ ScanFails("loop")
  PROVE  SettledInv'
<1> USE DEF SettledInv, Settled
<1>1. /\ "loop" \in Scanners /\ "backfill" \in Scanners
      /\ pc \in [Scanners -> ScanStates]
      /\ batch \in [Scanners -> SUBSET Log]
  BY DEF Scanners, TypeInv, TypeOK, ScanTypeOK
<1>2. CASE FetchBlock("loop")
  BY <1>1, <1>2 DEF FetchBlock, chainVars, dbVars
<1>3. ASSUME NEW result \in {"ok", "skipped", "failed"},
             pc["loop"] \in InBlock, LeaveBlock("loop", result),
             UNCHANGED chainVars, UNCHANGED events
      PROVE  SettledInv'
  BY <1>1, <1>3 DEF LeaveBlock, chainVars, InBlock
<1>4. CASE BlockNotFound("loop")
  BY <1>3, <1>4 DEF BlockNotFound, InBlock, dbVars
<1>5. CASE SnapshotAddresses("loop")
  <2>1. CASE monitored = {}
    BY <1>3, <1>5, <2>1 DEF SnapshotAddresses, InBlock, dbVars
  <2>2. CASE monitored # {}
    BY <1>1, <1>5, <2>2 DEF SnapshotAddresses, chainVars, dbVars
  <2>3. QED
    BY <2>1, <2>2
<1>6. CASE GetLogs("loop")
  <2>1. /\ blk["loop"] \in Heights
        /\ blk["loop"] <= to["loop"]
        /\ addrs["loop"] \in SUBSET Addresses
    BY <1>1, <1>6, MonitorAssumption
       DEF GetLogs, TypeInv, TypeOK, ScanTypeOK, InRange, InBlock, Heights
  <2>2. \A log \in FilterLogs(blk["loop"], addrs["loop"]) :
          log.number = blk["loop"] /\ log.fork = chain[log.number]
    BY <2>1, FilterLogsType DEF TypeInv, TypeOK
  <2>3. to["loop"] + ConfirmationBlocks <= head
    BY <1>6 DEF GetLogs
  <2>4. blk["loop"] + ConfirmationBlocks <= head
    <3>1. to["loop"] \in Nat /\ blk["loop"] \in Nat /\ head \in Nat
      BY <1>1, <2>1 DEF TypeInv, TypeOK, ScanTypeOK, ChainTypeOK, Heights
    <3>2. QED
      BY <2>1, <2>3, <3>1, MonitorAssumption
  <2>5. /\ batch'["loop"] = FilterLogs(blk["loop"], addrs["loop"])
        /\ pc'["loop"] = "parse" /\ pc'["backfill"] = "idle"
        /\ UNCHANGED <<chainVars, events, latest, to>>
    BY <1>1, <1>6 DEF GetLogs, dbVars
  <2>6. \A log \in FilterLogs(blk["loop"], addrs["loop"]) : Settled(log)'
    BY <2>2, <2>4, <2>5 DEF chainVars
  <2>7. \A log \in events : Settled(log)'
    BY <2>5 DEF chainVars
  <2>8. QED
    BY <2>3, <2>5, <2>6, <2>7 DEF chainVars
<1>7. CASE ParseLogs("loop")
  BY <1>1, <1>7 DEF ParseLogs, chainVars, dbVars
<1>8. CASE SaveBlockEvents("loop")
  <2>1. CASE SaveEventsAccepts(events, batch["loop"])
    BY <1>1, <1>8, <2>1 DEF SaveBlockEvents, SaveEvents, chainVars
  <2>2. CASE ~SaveEventsAccepts(events, batch["loop"])
    BY <1>3, <1>8, <2>2 DEF SaveBlockEvents, InBlock
  <2>3. QED
    BY <2>1, <2>2
<1>9. CASE SetStatus("loop")
  BY <1>3, <1>9 DEF SetStatus, InBlock
<1>10. CASE SetStatusFails("loop") \/ ProcessBlockFails("loop")
  BY <1>3, <1>10 DEF SetStatusFails, ProcessBlockFails, InBlock, dbVars
<1>11. CASE AdvanceCursor("loop") \/ AdvanceCursorFails("loop")
  BY <1>1, <1>11
     DEF AdvanceCursor, AdvanceCursorFails, EndRange, chainVars, dbVars
<1>12. QED
  BY <1>2, <1>4, <1>5, <1>6, <1>7, <1>8, <1>9, <1>10, <1>11
     DEF Scan, ScanFails

(* What does not touch the scanners, and stores nothing, keeps SettledInv. *)
LEMMA FrameSettled ==
  ASSUME SettledInv, UNCHANGED chainVars, UNCHANGED scanVars,
         events' \subseteq events
  PROVE  SettledInv'
BY DEF SettledInv, Settled, chainVars, scanVars

LEMMA NextSettled ==
  ASSUME ForkDepth <= ConfirmationBlocks, "BackfillEvents" \notin Calls,
         TypeInv, SettledInv, [Next]_vars
  PROVE  SettledInv'
<1> USE MonitorAssumption
<1>1. "loop" \in Scanners /\ "backfill" \in Scanners
  BY DEF Scanners
<1>2. CASE Mine \/ ChainReorg
  <2>1. UNCHANGED <<scanVars, events>>
    BY <1>2 DEF Mine, ChainReorg, dbVars
  <2>2. head' >= head /\ head \in Nat /\ head' \in Nat
    BY <1>2 DEF Mine, ChainReorg, TypeInv, TypeOK, ChainTypeOK, Heights
  <2>3. \A log \in batch["loop"] \cup events : Settled(log)'
    BY <1>1, <1>2, SettledStaysSettled
       DEF SettledInv, TypeInv, TypeOK, ScanTypeOK, StoreTypeOK
  <2>4. QED
    BY <2>1, <2>2, <2>3
       DEF SettledInv, scanVars, TypeInv, TypeOK, ScanTypeOK, Heights, Scanners
<1>3. CASE PollChain \/ PollFails
  <2>1. /\ UNCHANGED <<chainVars, events, batch, to>>
        /\ pc'["backfill"] = pc["backfill"]
    BY <1>1, <1>3 DEF PollChain, PollFails, dbVars, TypeInv, TypeOK, ScanTypeOK
  <2>2. \/ pc'["loop"] = "idle"
        \/ pc'["loop"] = "poll" /\ latest' = head
    BY <1>1, <1>3 DEF PollChain, PollFails, TypeInv, TypeOK, ScanTypeOK
  <2>3. head > ConfirmationBlocks => head \in (ConfirmationBlocks + 1) .. head
    BY DEF TypeInv, TypeOK, ChainTypeOK, Heights
  <2>4. QED
    BY <2>1, <2>2, <2>3 DEF SettledInv, Settled, chainVars
<1>4. CASE PollCursor
  <2>1. UNCHANGED <<chainVars, events, batch>> /\ pc'["backfill"] = "idle"
    BY <1>1, <1>4 DEF PollCursor, EnterRange, SettledInv, dbVars, TypeInv,
       TypeOK, ScanTypeOK
  <2>2. pc'["loop"] # "poll"
    BY <1>1, <1>4
       DEF PollCursor, EnterRange, TypeInv, TypeOK, ScanTypeOK
  <2>3. CASE ConfirmedBlock(latest) > cursor
    <3> DEFINE last == ConfirmedBlock(latest)
    <3>1. last \in Heights /\ cursor + 1 \in 1 .. last
      BY <2>3, ConfirmedBlockRange
         DEF TypeInv, TypeOK, ScanTypeOK, StoreTypeOK, Words, Heights
    <3>2. EndOfBatch(cursor + 1, last) \in Heights
          /\ EndOfBatch(cursor + 1, last) <= last
      BY <3>1, EndOfBatchRange
    <3>3. last + ConfirmationBlocks <= head
      BY <1>4 DEF PollCursor, SettledInv, ConfirmedBlock, TypeInv, TypeOK,
         ScanTypeOK, ChainTypeOK, Heights
    <3>4. to'["loop"] = EndOfBatch(cursor + 1, last)
      BY <1>1, <1>4, <2>3
         DEF PollCursor, EnterRange, TypeInv, TypeOK, ScanTypeOK
    <3>5. to'["loop"] + ConfirmationBlocks <= head
      BY <3>1, <3>2, <3>3, <3>4
         DEF TypeInv, TypeOK, ChainTypeOK, Heights
    <3>6. QED
      BY <2>1, <2>2, <3>5 DEF SettledInv, Settled, chainVars
  <2>4. CASE ~(ConfirmedBlock(latest) > cursor)
    <3>1. pc'["loop"] = "idle"
      BY <1>1, <1>4, <2>4 DEF PollCursor, TypeInv, TypeOK, ScanTypeOK
    <3>2. QED
      BY <2>1, <3>1 DEF SettledInv, Settled, chainVars
  <2>5. QED
    BY <2>3, <2>4
<1>5. ASSUME NEW p \in Scanners, Scan(p) \/ ScanFails(p) PROVE SettledInv'
  BY <1>5, OnlyLoopScans, ScanSettled DEF SettledInv
<1>6. CASE Crash \/ \E p \in Scanners : ParsePanics(p)
  <2>1. Restart
    BY <1>6 DEF Crash, ParsePanics
  <2>2. QED
    BY <1>1, <2>1 DEF Restart, SettledInv, Settled, chainVars, dbVars
<1>7. CASE Caller
  <2>1. ~BackfillEvents
    BY DEF BackfillEvents, Call
  <2>2. UNCHANGED <<chainVars, scanVars, events>>
    BY <1>7, <2>1 DEF Caller, SetStartBlock, AddContract, RemoveContract,
                      ApiAddContract, ApiRemoveContract
  <2>3. QED
    BY <2>2, FrameSettled
<1>8. CASE Reorg \/ ReorgReadFails \/ ReorgWriteFails
  <2>1. UNCHANGED <<chainVars, scanVars>>
    BY <1>8 DEF Reorg, DetectReorg, CompareDetected, FindReorgDepth,
       CompareStored, CheckReorgDepth,
       DeleteReorged, RewindCursor, ReorgReadFails, ReorgWriteFails
  <2>2. events' \subseteq events
    BY <1>8 DEF Reorg, DetectReorg, CompareDetected, FindReorgDepth,
       CompareStored, CheckReorgDepth,
       DeleteReorged, DeleteEventsByBlockRange, RewindCursor,
       ReorgReadFails, ReorgWriteFails, dbVars
  <2>3. QED
    BY <2>1, <2>2, FrameSettled
<1>9. CASE UNCHANGED vars
  BY <1>9, FrameSettled DEF vars, dbVars
<1>10. QED
  BY <1>2, <1>3, <1>4, <1>5, <1>6, <1>7, <1>8, <1>9
     DEF Next, LoopStep, Failure, Scanners

(* With at least as many confirmations as the chain can replace blocks, and*)
(* no backfill into unconfirmed blocks, no stored event is ever orphaned   *)
(* (pollForNewBlocks, ProcessBlock, HandleReorg, crashes and failures).    *)
THEOREM StoredEventsAreCanonical ==
  ASSUME ForkDepth <= ConfirmationBlocks, InitialHead > ConfirmationBlocks,
         "BackfillEvents" \notin Calls
  PROVE  Spec => []NoOrphanedEvents
<1>1. Init => SettledInv
  BY DEF Init, SettledInv, Scanners
<1>2. TypeInv /\ SettledInv /\ [Next]_vars => SettledInv'
  BY NextSettled
<1>3. SettledInv => NoOrphanedEvents
  BY DEF SettledInv, Settled, NoOrphanedEvents
<1>4. QED
  BY <1>1, <1>2, <1>3, InitType, NextType, PTL DEF Spec

(***************************************************************************)
(* NoSilentLoss.  While no caller moves the cursor, the blocks below the   *)
(* one the loop is at have been attempted, and the logs of the stable      *)
(* contracts are never out of sight from the snapshot of the addresses to  *)
(* the events table.                                                       *)
(***************************************************************************)
Stored(n) ==
  \A a \in Stable : <<n, a>> \in Emits => CanonicalLog(n, a) \in events

InBatch(n) ==
  \A a \in Stable :
    <<n, a>> \in Emits => CanonicalLog(n, a) \in batch["loop"]

AttemptedInv ==
  /\ \A n \in Heights \ {0} : n <= cursor => outcome[n] # "none"
  /\ pc["loop"] \notin {"idle", "poll"} =>
       /\ blk["loop"] >= 1
       /\ \A n \in Heights \ {0} : n < blk["loop"] => outcome[n] # "none"
  /\ pc["loop"] = "advance" => to["loop"] < blk["loop"]

StoredInv ==
  /\ rpc = "idle"
  /\ Stable \subseteq contracts \cap monitored
  /\ \A n \in Heights \ {0} :
       outcome[n] \in {"ok", "skipped"} =>
         n + ConfirmationBlocks <= head /\ Stored(n)
  /\ pc["loop"] = "filter" => Stable \subseteq addrs["loop"]
  /\ pc["loop"] \in {"parse", "save"} => InBatch(blk["loop"])
  /\ pc["loop"] = "status" => Stored(blk["loop"])

(* Nobody but the loop moves the cursor. *)
CursorIsTheLoops ==
  Calls \cap {"BackfillEvents", "HandleReorg", "SetStartBlock"} = {}

LossInv == AttemptedInv /\ StoredInv

(* The loop's locals, typed. *)
LEMMA LoopLocals ==
  ASSUME TypeInv
  PROVE  /\ "loop" \in Scanners /\ "backfill" \in Scanners
         /\ pc \in [Scanners -> ScanStates]
         /\ blk \in [Scanners -> Nat] /\ blk["loop"] \in Nat
         /\ to \in [Scanners -> Nat] /\ to["loop"] \in Heights
         /\ addrs \in [Scanners -> SUBSET Addresses]
         /\ batch \in [Scanners -> SUBSET Log]
         /\ outcome \in [Heights -> {"none", "ok", "skipped", "failed"}]
         /\ pc["loop"] \in InBlock =>
              blk["loop"] \in Heights /\ blk["loop"] <= to["loop"]
BY MonitorAssumption
   DEF Scanners, TypeInv, TypeOK, ScanTypeOK, HistoryTypeOK, InRange, Heights

(* Leaving a block: it has been attempted, and either failed or is stored. *)
LEMMA LeaveBlockLoss ==
  ASSUME TypeInv, SettledInv, LossInv, pc["loop"] \in InBlock,
         NEW result \in {"ok", "skipped", "failed"},
         result # "failed" => Stored(blk["loop"]),
         LeaveBlock("loop", result),
         UNCHANGED <<chainVars, events, cursor, rpc, dropped, contracts,
                     monitored>>
  PROVE  LossInv'
<1> USE LoopLocals
<1>1. /\ pc'["loop"] \in {"fetch", "advance"}
      /\ pc'["loop"] = "advance" => ~(blk["loop"] < to["loop"])
      /\ blk'["loop"] = blk["loop"] + 1
      /\ to' = to
      /\ outcome' = [outcome EXCEPT ![blk["loop"]] = result]
  BY DEF LeaveBlock
<1>2. AttemptedInv'
  <2>1. pc["loop"] \notin {"idle", "poll"}
    BY DEF InBlock
  <2>2. \A n \in Heights \ {0} : n < blk["loop"] + 1 => outcome'[n] # "none"
    BY <1>1, <2>1 DEF LossInv, AttemptedInv, Heights
  <2>3. \A n \in Heights \ {0} : n <= cursor => outcome'[n] # "none"
    BY <1>1 DEF LossInv, AttemptedInv
  <2>4. blk["loop"] + 1 >= 1
    OBVIOUS
  <2>5. pc'["loop"] = "advance" => to["loop"] < blk["loop"] + 1
    BY <1>1 DEF Heights
  <2>6. QED
    BY <1>1, <2>2, <2>3, <2>4, <2>5 DEF AttemptedInv
<1>3. StoredInv'
  <2>1. \A n \in Heights : Stored(n)' <=> Stored(n)
    BY DEF Stored, Stable, CanonicalLog, chainVars
  <2>2. blk["loop"] \in Heights /\ blk["loop"] + ConfirmationBlocks <= head
    <3>1. to["loop"] + ConfirmationBlocks <= head
      BY DEF SettledInv, InBlock
    <3>2. head \in Nat /\ to["loop"] \in Nat
      BY DEF TypeInv, TypeOK, ChainTypeOK, Heights
    <3>3. QED
      BY <3>1, <3>2, MonitorAssumption
  <2>3. \A n \in Heights \ {0} :
          outcome'[n] \in {"ok", "skipped"} =>
            n + ConfirmationBlocks <= head /\ Stored(n)
    BY <1>1, <2>2 DEF LossInv, StoredInv
  <2>4. QED
    BY <1>1, <2>1, <2>3 DEF LossInv, StoredInv, chainVars, Stable
<1>4. QED
  BY <1>2, <1>3 DEF LossInv

(* The steps of ProcessBlock, in order. *)
LEMMA ScanLoss ==
  ASSUME Backend = "sqlite", TypeInv, SettledInv, LossInv,
         Scan("loop") \/ ScanFails("loop")
  PROVE  LossInv'
<1> USE LoopLocals
<1>1. CASE FetchBlock("loop")
  <2>1. /\ pc["loop"] = "fetch" /\ pc'["loop"] = "snapshot"
        /\ UNCHANGED <<chainVars, dbVars, monitored, blk, to, addrs, batch,
                       rpc, outcome, dropped>>
    BY <1>1 DEF FetchBlock, reorgVars, historyVars
  <2>2. QED
    BY <2>1 DEF LossInv, AttemptedInv, StoredInv, Stored, Stable, CanonicalLog,
                chainVars, dbVars
<1>2. CASE BlockNotFound("loop")
  BY <1>2, LeaveBlockLoss DEF BlockNotFound, InBlock, dbVars, reorgVars
<1>3. CASE SnapshotAddresses("loop")
  <2>1. CASE monitored = {}
    <3>1. Stored(blk["loop"])
      BY <2>1 DEF LossInv, StoredInv, Stored
    <3>2. QED
      BY <1>3, <2>1, <3>1, LeaveBlockLoss
         DEF SnapshotAddresses, InBlock, dbVars, reorgVars
  <2>2. CASE monitored # {}
    <3>1. /\ pc["loop"] = "snapshot" /\ pc'["loop"] = "filter"
          /\ addrs'["loop"] = monitored
          /\ UNCHANGED <<chainVars, dbVars, monitored, blk, to, batch, rpc,
                         outcome, dropped>>
      BY <1>3, <2>2 DEF SnapshotAddresses, reorgVars
    <3>2. QED
      BY <3>1 DEF LossInv, AttemptedInv, StoredInv, Stored, Stable,
                  CanonicalLog, chainVars, dbVars
  <2>3. QED
    BY <2>1, <2>2
<1>4. CASE GetLogs("loop")
  <2>1. /\ pc["loop"] = "filter" /\ pc'["loop"] = "parse"
        /\ batch'["loop"] = FilterLogs(blk["loop"], addrs["loop"])
        /\ UNCHANGED <<chainVars, dbVars, monitored, blk, to, rpc, outcome,
                       dropped>>
    BY <1>4 DEF GetLogs, reorgVars, historyVars
  <2>2. InBatch(blk["loop"])'
    BY <2>1 DEF InBatch, FilterLogs, CanonicalLog, LossInv, StoredInv, Stable,
                chainVars
  <2>3. QED
    BY <2>1, <2>2 DEF LossInv, AttemptedInv, StoredInv, Stored, Stable,
                      CanonicalLog, chainVars, dbVars
<1>5. CASE ParseLogs("loop")
  <2>1. /\ pc["loop"] = "parse" /\ pc'["loop"] = "save"
        /\ batch'["loop"] = {log \in batch["loop"] : CanParse(log)}
        /\ UNCHANGED <<chainVars, dbVars, monitored, blk, to, rpc, outcome,
                       dropped>>
    BY <1>5 DEF ParseLogs, reorgVars, historyVars
  <2>2. \A a \in Stable : CanParse(CanonicalLog(blk["loop"], a))
    BY DEF CanParse, CanonicalLog, Stable, LossInv, StoredInv
  <2>3. InBatch(blk["loop"])'
    BY <2>1, <2>2 DEF InBatch, CanonicalLog, LossInv, StoredInv, Stable,
                      chainVars
  <2>4. QED
    BY <2>1, <2>3 DEF LossInv, AttemptedInv, StoredInv, Stored, Stable,
                      CanonicalLog, chainVars, dbVars
<1>6. CASE SaveBlockEvents("loop")
  <2>1. /\ pc["loop"] = "save" /\ pc'["loop"] = "status"
        /\ events' = events \cup batch["loop"]
        /\ UNCHANGED <<chainVars, cursor, contracts, monitored, blk, to, rpc,
                       outcome, dropped>>
    BY <1>6 DEF SaveBlockEvents, SaveEventsAccepts, SaveEvents, reorgVars
  <2>2. Stored(blk["loop"])'
    BY <2>1 DEF Stored, InBatch, LossInv, StoredInv, Stable, CanonicalLog,
                chainVars
  <2>3. \A n \in Heights : Stored(n) => Stored(n)'
    BY <2>1 DEF Stored, Stable, CanonicalLog, chainVars
  <2>4. QED
    BY <2>1, <2>2, <2>3 DEF LossInv, AttemptedInv, StoredInv, Stable, chainVars
<1>7. CASE SetStatus("loop")
  <2>1. Stored(blk["loop"])
    BY <1>7 DEF SetStatus, LossInv, StoredInv
  <2>2. QED
    BY <1>7, <2>1, LeaveBlockLoss DEF SetStatus, InBlock, reorgVars
<1>8. CASE SetStatusFails("loop")
  <2>1. Stored(blk["loop"])
    BY <1>8 DEF SetStatusFails, LossInv, StoredInv
  <2>2. QED
    BY <1>8, <2>1, LeaveBlockLoss DEF SetStatusFails, InBlock, dbVars, reorgVars
<1>9. CASE ProcessBlockFails("loop")
  BY <1>9, LeaveBlockLoss DEF ProcessBlockFails, InBlock, dbVars, reorgVars
<1>10. CASE AdvanceCursor("loop") \/ AdvanceCursorFails("loop")
  <2>1. /\ pc["loop"] = "advance" /\ pc'["loop"] = "idle"
        /\ cursor' = to["loop"] \/ cursor' = cursor
        /\ UNCHANGED <<chainVars, events, contracts, monitored, rpc, outcome,
                       dropped>>
    BY <1>10 DEF AdvanceCursor, AdvanceCursorFails, EndRange, dbVars,
                 reorgVars, historyVars
  <2>2. \A n \in Heights \ {0} : n <= cursor' => outcome[n] # "none"
    BY <2>1 DEF LossInv, AttemptedInv, Heights
  <2>3. QED
    BY <2>1, <2>2 DEF LossInv, AttemptedInv, StoredInv, Stored, Stable,
                      CanonicalLog, chainVars
<1>11. QED
  BY <1>1, <1>2, <1>3, <1>4, <1>5, <1>6, <1>7, <1>8, <1>9, <1>10
     DEF Scan, ScanFails

(* The chain changes above the stored blocks only. *)
LEMMA ChainLoss ==
  ASSUME ForkDepth <= ConfirmationBlocks, TypeInv, SettledInv, LossInv,
         Mine \/ ChainReorg
  PROVE  LossInv'
<1> USE LoopLocals
<1>1. UNCHANGED <<dbVars, monitored, scanVars, rpc, outcome, dropped>>
  BY DEF Mine, ChainReorg, reorgVars, historyVars
<1>2. \A n \in Heights : n + ConfirmationBlocks <= head =>
        /\ n + ConfirmationBlocks <= head'
        /\ chain'[n] = chain[n]
  <2> SUFFICES ASSUME NEW n \in Heights, n + ConfirmationBlocks <= head
               PROVE  /\ n + ConfirmationBlocks <= head'
                      /\ chain'[n] = chain[n]
    OBVIOUS
  <2>1. head' >= head /\ head' \in Heights /\ chain'[n] = chain[n]
    BY ChainKeepsSettled
  <2>2. head \in Nat /\ n + ConfirmationBlocks \in Nat
    BY MonitorAssumption DEF TypeInv, TypeOK, ChainTypeOK, Heights
  <2>3. QED
    BY <2>1, <2>2 DEF Heights
<1>3. \A n \in Heights : n + ConfirmationBlocks <= head /\ Stored(n) => Stored(n)'
  BY <1>1, <1>2 DEF Stored, Stable, CanonicalLog, dbVars
<1>4. pc["loop"] \in InBlock => blk["loop"] + ConfirmationBlocks <= head
  <2>1. pc["loop"] \in InBlock => to["loop"] + ConfirmationBlocks <= head
    BY DEF SettledInv, InBlock
  <2>2. head \in Nat /\ to["loop"] \in Nat
    BY DEF TypeInv, TypeOK, ChainTypeOK, Heights
  <2>3. QED
    BY <2>1, <2>2, MonitorAssumption
<1>5. pc["loop"] \in {"parse", "save"} => InBatch(blk["loop"])'
  BY <1>1, <1>2, <1>4 DEF InBlock, InBatch, Stable, CanonicalLog, LossInv,
     StoredInv, scanVars
<1>6. pc["loop"] = "status" => Stored(blk["loop"])'
  BY <1>1, <1>3, <1>4 DEF InBlock, LossInv, StoredInv, scanVars
<1>7. StoredInv'
  BY <1>1, <1>2, <1>3, <1>5, <1>6 DEF LossInv, StoredInv, Stable, dbVars,
     scanVars, InBatch, Stored
<1>8. AttemptedInv'
  BY <1>1 DEF LossInv, AttemptedInv, dbVars, scanVars
<1>9. QED
  BY <1>7, <1>8 DEF LossInv

(* pollForNewBlocks starts right above the cursor. *)
LEMMA PollLoss ==
  ASSUME TypeInv, LossInv, PollChain \/ PollCursor \/ PollFails
  PROVE  LossInv'
<1> USE LoopLocals
<1>1. UNCHANGED <<chainVars, dbVars, monitored, rpc, outcome, dropped>>
  BY DEF PollChain, PollCursor, PollFails, reorgVars, historyVars
<1>2. \A n \in Heights : Stored(n)' <=> Stored(n)
  BY <1>1 DEF Stored, Stable, CanonicalLog, chainVars, dbVars
<1>3. CASE pc'["loop"] \in {"idle", "poll"}
  BY <1>1, <1>2, <1>3 DEF LossInv, AttemptedInv, StoredInv, Stable, chainVars,
     dbVars
<1>4. CASE pc'["loop"] \notin {"idle", "poll"}
  <2> DEFINE last == ConfirmedBlock(latest)
             end == EndOfBatch(cursor + 1, last)
  <2>1. last > cursor /\ EnterRange("loop", cursor + 1, end)
    BY <1>4 DEF PollChain, PollCursor, PollFails
  <2>2. last \in Heights /\ cursor \in Nat /\ cursor + 1 \in 1 .. last
    <3>1. latest \in Heights /\ cursor \in Nat
      BY DEF TypeInv, TypeOK, ScanTypeOK, StoreTypeOK, Words
    <3>2. last \in 0 .. latest
      BY <3>1, ConfirmedBlockRange
    <3>3. last > cursor
      BY <2>1
    <3> HIDE DEF last
    <3>4. QED
      BY <3>1, <3>2, <3>3, MonitorAssumption DEF Heights
  <2>3. end \in Heights
    BY <2>2, EndOfBatchRange
  <2>4. /\ blk'["loop"] = cursor + 1 /\ to'["loop"] = end
        /\ pc'["loop"] = IF cursor + 1 <= end THEN "fetch" ELSE "advance"
    BY <2>1 DEF EnterRange
  <2>5. AttemptedInv'
    BY <1>1, <2>2, <2>3, <2>4 DEF LossInv, AttemptedInv, dbVars, Heights
  <2>6. StoredInv'
    BY <1>1, <1>2, <2>4 DEF LossInv, StoredInv, Stable, chainVars, dbVars
  <2>7. QED
    BY <2>5, <2>6 DEF LossInv
<1>5. QED
  BY <1>3, <1>4

(* Callers add and remove contracts. *)
LEMMA CallerLoss ==
  ASSUME CursorIsTheLoops, TypeInv, LossInv, Caller
  PROVE  LossInv'
<1>1. ~BackfillEvents /\ ~SetStartBlock
  BY DEF BackfillEvents, SetStartBlock, Call, CursorIsTheLoops
<1>2. UNCHANGED <<chainVars, cursor, events, scanVars, rpc, outcome>>
  BY <1>1 DEF Caller, AddContract, RemoveContract, ApiAddContract,
     ApiRemoveContract, reorgVars, historyVars
<1>3. /\ dropped \subseteq dropped'
      /\ contracts \ dropped' \subseteq contracts'
      /\ monitored \ dropped' \subseteq monitored'
  BY <1>1 DEF Caller, AddContract, RemoveContract, ApiAddContract,
     ApiRemoveContract, historyVars
<1>4. Stable' \subseteq Stable /\ Stable' \cap dropped' = {}
  BY <1>3 DEF Stable
<1>5. StoredInv'
  BY <1>2, <1>3, <1>4 DEF LossInv, StoredInv, Stored, InBatch, CanonicalLog,
     chainVars, scanVars
<1>6. AttemptedInv'
  BY <1>2 DEF LossInv, AttemptedInv, scanVars
<1>7. QED
  BY <1>5, <1>6 DEF LossInv

(* A restart loads the contracts again and starts from the cursor. *)
LEMMA RestartLoss ==
  ASSUME Backend = "sqlite", TypeInv, LossInv, Restart
  PROVE  LossInv'
<1> USE LoopLocals
<1>1. /\ pc'["loop"] = "idle" /\ rpc' = "idle" /\ monitored' = contracts
      /\ UNCHANGED <<chainVars, dbVars, outcome, dropped>>
  BY DEF Restart, GetAllContracts, historyVars
<1>2. QED
  BY <1>1 DEF LossInv, AttemptedInv, StoredInv, Stored, Stable, CanonicalLog,
              chainVars, dbVars

LEMMA NextLoss ==
  ASSUME Backend = "sqlite", CursorIsTheLoops,
         ForkDepth <= ConfirmationBlocks,
         TypeInv, SettledInv, LossInv, [Next]_vars
  PROVE  LossInv'
<1>1. CASE Mine \/ ChainReorg
  BY <1>1, ChainLoss
<1>2. CASE PollChain \/ PollCursor \/ PollFails
  BY <1>2, PollLoss
<1>3. ASSUME NEW p \in Scanners, Scan(p) \/ ScanFails(p) PROVE LossInv'
  BY <1>3, OnlyLoopScans, ScanLoss DEF SettledInv
<1>4. CASE Crash \/ \E p \in Scanners : ParsePanics(p)
  BY <1>4, RestartLoss DEF Crash, ParsePanics
<1>5. CASE Caller
  BY <1>5, CallerLoss
<1>6. CASE Reorg \/ ReorgReadFails \/ ReorgWriteFails
  <2>1. rpc = "idle" /\ "HandleReorg" \notin Calls
    BY DEF LossInv, StoredInv, CursorIsTheLoops
  <2>2. QED
    BY <1>6, <2>1 DEF Reorg, DetectReorg, Call, CompareDetected,
       FindReorgDepth, CompareStored,
       CheckReorgDepth, DeleteReorged, RewindCursor, ReorgReadFails,
       ReorgWriteFails
<1>7. CASE UNCHANGED vars
  BY <1>7 DEF vars, chainVars, dbVars, scanVars, reorgVars, historyVars,
     LossInv, AttemptedInv, StoredInv, Stored, InBatch, Stable, CanonicalLog
<1>8. QED
  BY <1>1, <1>2, <1>3, <1>4, <1>5, <1>6, <1>7
     DEF Next, LoopStep, Failure, Scanners

(* On SQLite, while only the loop moves the cursor, every log of a contract*)
(* that was never removed, in a block the cursor has passed, is stored     *)
(* unless ProcessBlock returned an error for that block: whatever forks    *)
(* within ConfirmationBlocks, crashes and retried ranges do.               *)
THEOREM NothingSilentlyLost ==
  ASSUME Backend = "sqlite", CursorIsTheLoops,
         ForkDepth <= ConfirmationBlocks, InitialHead > ConfirmationBlocks
  PROVE  Spec => []NoSilentLoss
<1>1. Init => SettledInv /\ LossInv
  <2> SUFFICES ASSUME Init PROVE SettledInv /\ LossInv
    OBVIOUS
  <2>1. SettledInv
    BY DEF Init, SettledInv, Scanners
  <2>2. LossInv
    BY MonitorAssumption DEF Init, LossInv, AttemptedInv, StoredInv, Scanners,
       Stable, GetAllContracts, Heights
  <2>3. QED
    BY <2>1, <2>2
<1>2. TypeInv /\ SettledInv /\ LossInv /\ [Next]_vars
        => SettledInv' /\ LossInv'
  BY NextSettled, NextLoss DEF CursorIsTheLoops
<1>3. TypeInv /\ LossInv => NoSilentLoss
  <2> SUFFICES ASSUME TypeInv, LossInv,
                      NEW n \in Heights \ {0}, NEW a \in Stable,
                      n <= cursor, <<n, a>> \in Emits, outcome[n] # "failed"
               PROVE  CanonicalLog(n, a) \in events
    BY DEF NoSilentLoss
  <2>1. outcome[n] \in {"ok", "skipped"}
    BY LoopLocals DEF LossInv, AttemptedInv
  <2>2. QED
    BY <2>1 DEF LossInv, StoredInv, Stored
<1>4. QED
  BY <1>1, <1>2, <1>3, InitType, NextType, PTL DEF Spec
-----------------------------------------------------------------------------
(* On SQLite and while nobody writes the contracts table past the monitor, *)
(* table and memory agree at every moment, also after a restart            *)
(* (AddContract, RemoveContract, loadContracts).                           *)
THEOREM MemoryIsTheTable ==
  ASSUME Backend = "sqlite", Calls \cap {"ApiAddContract", "ApiRemoveContract"} = {}
  PROVE  Spec => []TableIsMonitored
<1>1. Init => TableIsMonitored
  BY DEF Init, TableIsMonitored, GetAllContracts
<1>2. TableIsMonitored /\ [Next]_vars => TableIsMonitored'
  <2> SUFFICES ASSUME TableIsMonitored, [Next]_vars PROVE TableIsMonitored'
    OBVIOUS
  <2>1. CASE UNCHANGED <<contracts, monitored>>
    BY <2>1 DEF TableIsMonitored
  <2>2. CASE Restart
    BY <2>2 DEF Restart, TableIsMonitored, GetAllContracts, dbVars
  <2>3. CASE \E a \in Addresses : AddContract(a) \/ RemoveContract(a)
    BY <2>3 DEF AddContract, RemoveContract, TableIsMonitored
  <2>4. ~\E a \in Addresses : ApiAddContract(a) \/ ApiRemoveContract(a)
    BY DEF ApiAddContract, ApiRemoveContract, Call
  <2>5. CASE Mine \/ ChainReorg \/ PollChain \/ PollCursor \/ PollFails
    BY <2>1, <2>5 DEF Mine, ChainReorg, PollChain, PollCursor, PollFails, dbVars
  <2>6. CASE \E p \in Scanners : Scan(p) \/ ScanFails(p)
    BY <2>1, <2>6 DEF Scan, ScanFails, FetchBlock, BlockNotFound, SnapshotAddresses,
       GetLogs, ParseLogs, SaveBlockEvents, SetStatus, AdvanceCursor,
       ProcessBlockFails, SetStatusFails, AdvanceCursorFails, dbVars
  <2>7. CASE BackfillEvents \/ SetStartBlock
    BY <2>1, <2>7 DEF BackfillEvents, SetStartBlock, dbVars
  <2>8. CASE Reorg \/ ReorgReadFails \/ ReorgWriteFails
    BY <2>1, <2>8 DEF Reorg, DetectReorg, CompareDetected, FindReorgDepth,
       CompareStored, CheckReorgDepth,
       DeleteReorged, RewindCursor, ReorgReadFails, ReorgWriteFails, dbVars
  <2>9. CASE UNCHANGED vars
    BY <2>1, <2>9 DEF vars, dbVars
  <2>10. QED
    BY <2>2, <2>3, <2>4, <2>5, <2>6, <2>7, <2>8, <2>9
       DEF Next, LoopStep, Caller, Failure, Crash, ParsePanics, Scanners
<1>3. QED
  BY <1>1, <1>2, PTL DEF Spec
-----------------------------------------------------------------------------
(* What "completed" stands on: what a scanner carries to the table.        *)
Recorded(n) ==
  n \in purged \/ \A a \in Stable :
    <<n, a>> \in Emits => \E e \in events : e.number = n /\ e.address = a

Carries(p) ==
  \A a \in Stable : <<blk[p], a>> \in Emits =>
    \E log \in batch[p] : log.number = blk[p] /\ log.address = a

RecordInv ==
  /\ Stable \subseteq contracts \cap monitored
  /\ \A p \in Scanners :
       /\ pc[p] = "filter" => Stable \subseteq addrs[p]
       /\ pc[p] \in {"parse", "save"} => Carries(p)
       /\ pc[p] = "status" => Recorded(blk[p])
  /\ \A n \in completed : Recorded(n)

(* The steps that neither carry logs nor complete a block: each scanner    *)
(* stands still or leaves the block.                                       *)
LEMMA FrameRecord ==
  ASSUME RecordInv, completed' = completed,
         Stable' \subseteq Stable, Stable' \subseteq contracts' \cap monitored',
         \A n : Recorded(n) => Recorded(n)',
         \A p \in Scanners :
           \/ pc'[p] \in {"idle", "poll", "fetch", "snapshot", "advance"}
           \/ /\ pc'[p] = pc[p] /\ blk'[p] = blk[p]
              /\ addrs'[p] = addrs[p] /\ batch'[p] = batch[p]
  PROVE  RecordInv'
<1>1. ASSUME NEW p \in Scanners
      PROVE  /\ pc'[p] = "filter" => Stable' \subseteq addrs'[p]
             /\ pc'[p] \in {"parse", "save"} => Carries(p)'
             /\ pc'[p] = "status" => Recorded(blk[p])'
  <2>1. CASE pc'[p] \in {"idle", "poll", "fetch", "snapshot", "advance"}
    BY <2>1
  <2>2. CASE /\ pc'[p] = pc[p] /\ blk'[p] = blk[p]
             /\ addrs'[p] = addrs[p] /\ batch'[p] = batch[p]
    <3>1. Carries(p) => Carries(p)'
      BY <2>2 DEF Carries
    <3>2. Recorded(blk[p]) => Recorded(blk[p])'
      BY <2>2 DEF Recorded
    <3>3. QED
      BY <2>2, <3>1, <3>2 DEF RecordInv
  <2>3. QED
    BY <2>1, <2>2
<1>2. \A n \in completed' : Recorded(n)'
  BY DEF RecordInv
<1>3. QED
  BY <1>1, <1>2 DEF RecordInv

(* Scanners other than p stand still. *)
Alone(p) ==
  \A q \in Scanners \ {p} :
    /\ pc'[q] = pc[q] /\ blk'[q] = blk[q]
    /\ addrs'[q] = addrs[q] /\ batch'[q] = batch[q]

LEMMA ScannersTyped ==
  ASSUME TypeInv
  PROVE  /\ pc \in [Scanners -> ScanStates] /\ blk \in [Scanners -> Nat]
         /\ addrs \in [Scanners -> SUBSET Addresses]
         /\ batch \in [Scanners -> SUBSET Log]
BY DEF TypeInv, TypeOK, ScanTypeOK

LEMMA LeaveBlockAlone ==
  ASSUME TypeInv, NEW p \in Scanners, NEW result, LeaveBlock(p, result)
  PROVE  Alone(p) /\ pc'[p] \in {"fetch", "advance"}
BY ScannersTyped DEF LeaveBlock, Alone

LEMMA EndRangeAlone ==
  ASSUME TypeInv, NEW p \in Scanners, EndRange(p)
  PROVE  Alone(p) /\ pc'[p] \in {"fetch", "advance", "idle"}
<1>1. CASE p = "backfill" /\ to[p] < goal
  BY <1>1, ScannersTyped DEF EndRange, EnterRange, Alone
<1>2. CASE ~(p = "backfill" /\ to[p] < goal)
  BY <1>2, ScannersTyped DEF EndRange, Alone
<1>3. QED
  BY <1>1, <1>2

LEMMA PollRecord ==
  ASSUME TypeInv, RecordInv, PollChain \/ PollCursor \/ PollFails
  PROVE  RecordInv'
<1>1. UNCHANGED <<dbVars, monitored, dropped, purged, addrs, batch>>
  BY DEF PollChain, PollCursor, PollFails, historyVars
<1>2. /\ pc'["loop"] \in {"idle", "poll", "fetch", "advance"}
      /\ pc'["backfill"] = pc["backfill"] /\ blk'["backfill"] = blk["backfill"]
  BY ScannersTyped DEF PollChain, PollCursor, PollFails, EnterRange, Scanners
<1>3. QED
  BY <1>1, <1>2, FrameRecord DEF RecordInv, Recorded, Stable, dbVars, Scanners

LEMMA ScanRecord ==
  ASSUME Backend = "sqlite", TypeInv, RecordInv, NEW p \in Scanners,
         Scan(p) \/ ScanFails(p)
  PROVE  RecordInv'
<1> USE ScannersTyped
<1>1. contracts' = contracts /\ monitored' = monitored /\ Stable' = Stable
  BY DEF Scan, ScanFails, FetchBlock, BlockNotFound, SnapshotAddresses, GetLogs,
     ParseLogs, SaveBlockEvents, SetStatus, AdvanceCursor, ProcessBlockFails,
     SetStatusFails, AdvanceCursorFails, dbVars, historyVars, Stable
<1>2. ASSUME UNCHANGED <<events, purged, completed>>, Alone(p),
             pc'[p] \in {"idle", "fetch", "snapshot", "advance"}
      PROVE  RecordInv'
  <2>1. \A n : Recorded(n) => Recorded(n)'
    BY <1>1, <1>2 DEF Recorded
  <2>2. QED
    BY <1>1, <1>2, <2>1, FrameRecord DEF RecordInv, Alone
<1>3. CASE FetchBlock(p)
  BY <1>2, <1>3 DEF FetchBlock, Alone, dbVars, historyVars
<1>4. CASE BlockNotFound(p) \/ ProcessBlockFails(p) \/ SetStatusFails(p)
  BY <1>2, <1>4, LeaveBlockAlone DEF BlockNotFound, ProcessBlockFails, SetStatusFails, dbVars
<1>5. CASE SnapshotAddresses(p) /\ monitored = {}
  BY <1>2, <1>5, LeaveBlockAlone DEF SnapshotAddresses, dbVars
<1>6. CASE AdvanceCursor(p) \/ AdvanceCursorFails(p)
  BY <1>2, <1>6, EndRangeAlone DEF AdvanceCursor, AdvanceCursorFails, dbVars, historyVars
<1>7. ASSUME UNCHANGED <<completed, blk>>, \A n : Recorded(n) => Recorded(n)',
             \A q \in Scanners \ {p} : /\ pc'[q] = pc[q] /\ addrs'[q] = addrs[q]
                                       /\ batch'[q] = batch[q],
             pc'[p] = "filter" => Stable \subseteq addrs'[p],
             pc'[p] \in {"parse", "save"} => Carries(p)',
             pc'[p] = "status" => Recorded(blk[p])'
      PROVE  RecordInv'
  <2>1. ASSUME NEW q \in Scanners
        PROVE  /\ pc'[q] = "filter" => Stable \subseteq addrs'[q]
               /\ pc'[q] \in {"parse", "save"} => Carries(q)'
               /\ pc'[q] = "status" => Recorded(blk[q])'
    <3>1. CASE q = p
      BY <1>7, <3>1
    <3>2. CASE q # p
      <4>1. Carries(q) => Carries(q)'
        BY <1>1, <1>7, <3>2 DEF Carries
      <4>2. Recorded(blk[q]) => Recorded(blk[q])'
        BY <1>7 DEF Recorded
      <4>3. QED
        BY <1>7, <3>2, <4>1, <4>2 DEF RecordInv
    <3>3. QED
      BY <3>1, <3>2
  <2>2. \A n \in completed' : Recorded(n)'
    BY <1>7 DEF RecordInv
  <2>3. QED
    BY <1>1, <2>1, <2>2 DEF RecordInv
<1>8. ASSUME UNCHANGED <<events, purged>> PROVE \A n : Recorded(n) => Recorded(n)'
  BY <1>1, <1>8 DEF Recorded
<1>9. CASE SnapshotAddresses(p) /\ monitored # {}
  <2>1. /\ UNCHANGED <<events, purged, completed, blk>>
        /\ pc'[p] = "filter" /\ addrs'[p] = monitored
        /\ \A q \in Scanners \ {p} : /\ pc'[q] = pc[q] /\ addrs'[q] = addrs[q]
                                     /\ batch'[q] = batch[q]
    BY <1>9 DEF SnapshotAddresses, dbVars
  <2>2. Stable \subseteq addrs'[p]
    BY <2>1 DEF RecordInv
  <2>3. QED
    BY <1>7, <1>8, <2>1, <2>2
<1>10. CASE GetLogs(p)
  <2>1. /\ UNCHANGED <<events, purged, completed, blk>>
        /\ pc[p] = "filter" /\ pc'[p] = "parse"
        /\ batch'[p] = FilterLogs(blk[p], addrs[p])
        /\ \A q \in Scanners \ {p} : /\ pc'[q] = pc[q] /\ addrs'[q] = addrs[q]
                                     /\ batch'[q] = batch[q]
    BY <1>10 DEF GetLogs, dbVars, historyVars
  <2>2. Carries(p)'
    <3>1. SUFFICES ASSUME NEW a \in Stable, <<blk[p], a>> \in Emits
                   PROVE  \E log \in batch'[p] : log.number = blk[p] /\ log.address = a
      BY <1>1, <2>1 DEF Carries
    <3>2. a \in addrs[p]
      BY <2>1, <3>1 DEF RecordInv
    <3>3. [number |-> blk[p], fork |-> chain[blk[p]], address |-> a] \in batch'[p]
      BY <2>1, <3>1, <3>2 DEF FilterLogs
    <3>4. QED
      BY <3>3
  <2>3. QED
    BY <1>7, <1>8, <2>1, <2>2
<1>11. CASE ParseLogs(p)
  <2>1. /\ UNCHANGED <<events, purged, completed, blk>>
        /\ pc[p] = "parse" /\ pc'[p] = "save"
        /\ batch'[p] = {log \in batch[p] : CanParse(log)}
        /\ \A q \in Scanners \ {p} : /\ pc'[q] = pc[q] /\ addrs'[q] = addrs[q]
                                     /\ batch'[q] = batch[q]
    BY <1>11 DEF ParseLogs, dbVars, historyVars
  <2>2. Carries(p)'
    <3>1. SUFFICES ASSUME NEW a \in Stable, <<blk[p], a>> \in Emits
                   PROVE  \E log \in batch'[p] : log.number = blk[p] /\ log.address = a
      BY <1>1, <2>1 DEF Carries
    <3>2. PICK log \in batch[p] : log.number = blk[p] /\ log.address = a
      BY <2>1, <3>1 DEF RecordInv, Carries
    <3>3. CanParse(log)
      BY <3>1, <3>2 DEF CanParse, RecordInv, Stable
    <3>4. QED
      BY <2>1, <3>2, <3>3
  <2>3. QED
    BY <1>7, <1>8, <2>1, <2>2
<1>12. CASE SaveBlockEvents(p)
  <2>1. /\ UNCHANGED <<completed, blk, addrs, batch>>
        /\ pc[p] = "save" /\ pc'[p] = "status"
        /\ events' = events \cup batch[p] /\ purged' = purged \ {blk[p]}
        /\ \A q \in Scanners \ {p} : pc'[q] = pc[q]
    BY <1>12 DEF SaveBlockEvents, SaveEventsAccepts, SaveEvents
  <2>2. Recorded(blk[p])'
    <3>1. SUFFICES ASSUME NEW a \in Stable, <<blk[p], a>> \in Emits
                   PROVE  \E e \in events' : e.number = blk[p] /\ e.address = a
      BY <1>1, <2>1 DEF Recorded
    <3>2. PICK log \in batch[p] : log.number = blk[p] /\ log.address = a
      BY <2>1, <3>1 DEF RecordInv, Carries
    <3>3. QED
      BY <2>1, <3>2
  <2>3. ASSUME NEW n, Recorded(n) PROVE Recorded(n)'
    <3>1. CASE n = blk[p]
      BY <2>1, <2>2, <3>1 DEF Recorded
    <3>2. CASE n # blk[p]
      BY <1>1, <2>1, <2>3, <3>2 DEF Recorded
    <3>3. QED
      BY <3>1, <3>2
  <2>4. QED
    BY <1>7, <2>1, <2>2, <2>3
<1>13. CASE SetStatus(p)
  <2>1. /\ UNCHANGED <<events, purged>> /\ Alone(p)
        /\ pc[p] = "status" /\ pc'[p] \in {"fetch", "advance"}
        /\ completed' = completed \cup {blk[p]}
    BY <1>13, LeaveBlockAlone DEF SetStatus
  <2>2. \A n : Recorded(n) => Recorded(n)'
    BY <1>8, <2>1
  <2>3. \A n \in completed' : Recorded(n)'
    BY <2>1, <2>2 DEF RecordInv
  <2>4. ASSUME NEW q \in Scanners
        PROVE  /\ pc'[q] = "filter" => Stable \subseteq addrs'[q]
               /\ pc'[q] \in {"parse", "save"} => Carries(q)'
               /\ pc'[q] = "status" => Recorded(blk[q])'
    <3>1. CASE q = p
      BY <2>1, <3>1
    <3>2. CASE q # p
      <4>1. /\ pc'[q] = pc[q] /\ blk'[q] = blk[q]
            /\ addrs'[q] = addrs[q] /\ batch'[q] = batch[q]
        BY <2>1, <3>2 DEF Alone
      <4>2. Carries(q) => Carries(q)'
        BY <1>1, <4>1 DEF Carries
      <4>3. Recorded(blk[q]) => Recorded(blk[q])'
        BY <1>1, <2>1, <4>1 DEF Recorded
      <4>4. QED
        BY <4>1, <4>2, <4>3 DEF RecordInv
    <3>3. QED
      BY <3>1, <3>2
  <2>5. QED
    BY <1>1, <2>3, <2>4 DEF RecordInv
<1>14. QED
  BY <1>3, <1>4, <1>5, <1>6, <1>9, <1>10, <1>11, <1>12, <1>13 DEF Scan, ScanFails

(* The chain, the callers and HandleReorg leave the scanners alone.        *)
LEMMA OthersRecord ==
  ASSUME TypeInv, RecordInv,
         Mine \/ ChainReorg \/ Caller \/ Reorg \/ ReorgReadFails \/ ReorgWriteFails
  PROVE  RecordInv'
<1>1. ASSUME UNCHANGED <<completed, pc, blk, addrs, batch>>,
             Stable' \subseteq Stable, Stable' \subseteq contracts' \cap monitored',
             \A n : Recorded(n) => Recorded(n)'
      PROVE  RecordInv'
  BY <1>1, FrameRecord
<1>2. CASE UNCHANGED <<dbVars, monitored, scanVars, dropped, purged>>
  BY <1>1, <1>2 DEF dbVars, scanVars, RecordInv, Recorded, Stable
<1>3. CASE Caller
  <2>1. CASE BackfillEvents
    <3>1. UNCHANGED <<dbVars, monitored, addrs, batch, dropped, purged>>
      BY <2>1 DEF BackfillEvents, historyVars
    <3>2. PICK from, last : EnterRange("backfill", from, last)
      BY <2>1 DEF BackfillEvents
    <3>3. ASSUME NEW q \in Scanners
          PROVE  \/ pc'[q] \in {"idle", "poll", "fetch", "snapshot", "advance"}
                 \/ /\ pc'[q] = pc[q] /\ blk'[q] = blk[q]
                    /\ addrs'[q] = addrs[q] /\ batch'[q] = batch[q]
      <4>1. CASE q = "backfill"
        BY <3>2, <4>1, ScannersTyped DEF EnterRange
      <4>2. CASE q # "backfill"
        BY <3>1, <3>2, <4>2, ScannersTyped DEF EnterRange
      <4>3. QED
        BY <4>1, <4>2
    <3>4. QED
      BY <3>1, <3>3, FrameRecord DEF dbVars, RecordInv, Recorded, Stable
  <2>2. CASE ~BackfillEvents
    <3>1. UNCHANGED <<completed, events, purged, scanVars>>
      BY <1>3, <2>2 DEF Caller, SetStartBlock, AddContract, RemoveContract,
         ApiAddContract, ApiRemoveContract, dbVars, historyVars
    <3>2. /\ dropped \subseteq dropped'
          /\ contracts \ dropped' \subseteq contracts'
          /\ monitored \ dropped' \subseteq monitored'
      BY <1>3, <2>2 DEF Caller, SetStartBlock, AddContract, RemoveContract,
         ApiAddContract, ApiRemoveContract, dbVars, historyVars
    <3>3. Stable' \subseteq Stable /\ Stable' \cap dropped' = {}
      BY <3>2 DEF Stable
    <3>4. Stable' \subseteq contracts' \cap monitored'
      BY <3>2, <3>3 DEF RecordInv
    <3>5. \A n : Recorded(n) => Recorded(n)'
      BY <3>1, <3>3 DEF Recorded
    <3>6. QED
      BY <1>1, <3>1, <3>3, <3>4, <3>5 DEF scanVars
  <2>3. QED
    BY <2>1, <2>2
<1>4. CASE DeleteReorged
  <2>1. /\ UNCHANGED <<completed, contracts, monitored, dropped, scanVars>>
        /\ purged' = purged \cup {e.number : e \in events \ events'}
    BY <1>4 DEF DeleteReorged
  <2>2. ASSUME NEW n, Recorded(n) PROVE Recorded(n)'
    <3>1. CASE n \in purged'
      BY <3>1 DEF Recorded
    <3>2. CASE n \notin purged'
      <4>1. n \notin purged /\ \A e \in events : e.number = n => e \in events'
        BY <2>1, <3>2
      <4>2. QED
        BY <2>1, <2>2, <4>1 DEF Recorded, Stable
    <3>3. QED
      BY <3>1, <3>2
  <2>3. QED
    BY <1>1, <2>1, <2>2 DEF scanVars, RecordInv, Stable
<1>5. CASE RewindCursor
  BY <1>1, <1>5 DEF RewindCursor, scanVars, historyVars, RecordInv, Recorded, Stable
<1>6. QED
  BY <1>2, <1>3, <1>4, <1>5 DEF Mine, ChainReorg, Reorg, DetectReorg,
     CompareDetected, FindReorgDepth, CompareStored, CheckReorgDepth, ReorgReadFails, ReorgWriteFails, historyVars

LEMMA RestartRecord ==
  ASSUME Backend = "sqlite", RecordInv, Restart
  PROVE  RecordInv'
<1>1. /\ \A p \in Scanners : pc'[p] = "idle"
      /\ monitored' = contracts
      /\ UNCHANGED <<events, completed, contracts, dropped, purged>>
  BY DEF Restart, GetAllContracts, dbVars, historyVars
<1>2. QED
  BY <1>1, FrameRecord DEF RecordInv, Recorded, Stable

(* On SQLite, whoever scans and however often it crashes: a block with a   *)
(* status row "completed" has the logs of every contract that was never    *)
(* removed, but for what HandleReorg deleted since (ProcessBlock).         *)
THEOREM CompletedBlocksAreSaved ==
  ASSUME Backend = "sqlite"
  PROVE  Spec => []CompletedMeansSaved
<1>1. Init => RecordInv
  BY DEF Init, RecordInv, Stable, GetAllContracts
<1>2. TypeInv /\ RecordInv /\ [Next]_vars => RecordInv'
  <2> SUFFICES ASSUME TypeInv, RecordInv, [Next]_vars PROVE RecordInv'
    OBVIOUS
  <2>1. CASE PollChain \/ PollCursor \/ PollFails
    BY <2>1, PollRecord
  <2>2. CASE \E p \in Scanners : Scan(p) \/ ScanFails(p)
    BY <2>2, ScanRecord
  <2>3. CASE Mine \/ ChainReorg \/ Caller \/ Reorg \/ ReorgReadFails \/ ReorgWriteFails
    BY <2>3, OthersRecord
  <2>4. CASE Crash \/ \E p \in Scanners : ParsePanics(p)
    BY <2>4, RestartRecord DEF Crash, ParsePanics
  <2>5. CASE UNCHANGED vars
    BY <2>5, FrameRecord DEF vars, dbVars, scanVars, historyVars, RecordInv, Recorded, Stable
  <2>6. QED
    BY <2>1, <2>2, <2>3, <2>4, <2>5 DEF Next, LoopStep, Failure, Scanners
<1>3. RecordInv => CompletedMeansSaved
  BY DEF RecordInv, Recorded, CompletedMeansSaved
<1>4. QED
  BY <1>1, <1>2, <1>3, InitType, NextType, PTL DEF Spec
-----------------------------------------------------------------------------
(* The depth search counts the blocks it steps down, and compares with the *)
(* hash of a block there was.                                              *)
DepthInv ==
  /\ rpc = "detect" => reorg.depth = 1 /\ reorg.current = reorg.block
  /\ rpc \in {"depth", "compare", "delete"} => reorg.depth >= 1
  /\ rpc = "depth" => reorg.current = reorg.block - reorg.depth + 1
  /\ rpc = "compare" => /\ reorg.current = reorg.block - reorg.depth
                        /\ reorg.hash.number >= 0
  /\ rpc = "delete" => reorg.depth <= reorg.block + 1
  /\ rpc \in {"compare", "delete"} => reorg.depth <= MaxReorgDepth

LEMMA DepthStep ==
  ASSUME TypeInv, DepthInv, [Next]_vars
  PROVE  DepthInv'
<1>1. /\ rpc \in ReorgStates
      /\ DOMAIN reorg = {"block", "depth", "current", "hash"}
      /\ reorg.block \in Nat /\ reorg.depth \in Nat /\ reorg.current \in Nat
      /\ HeadHash.number \in Nat /\ MaxReorgDepth \in Nat
  BY MonitorAssumption DEF TypeInv, TypeOK, ChainTypeOK, ReorgTypeOK, Heights, HeadHash, Hash
<1>2. CASE UNCHANGED reorgVars
  BY <1>2 DEF reorgVars, DepthInv
<1>3. CASE rpc' \in {"idle", "rewind"}
  BY <1>3 DEF DepthInv
<1>4. ASSUME NEW n \in Heights, DetectReorg(n) PROVE DepthInv'
  BY <1>4, <1>1 DEF DetectReorg, DepthInv, Heights
<1>5. CASE rpc = "compare" /\ EndSearch
  <2>1. /\ rpc' = "delete" /\ reorg'.block = reorg.block /\ reorg'.depth = reorg.depth
        /\ reorg'.current = reorg.current
    BY <1>1, <1>5 DEF EndSearch
  <2>2. QED
    BY <1>1, <1>5, <2>1 DEF DepthInv
<1>6. CASE CompareDetected \/ CompareStored
  <2>1. CASE CompareDetected
    <3>1. \/ rpc' = "idle"
          \/ /\ rpc = "detect" /\ rpc' = "depth" /\ reorg'.block = reorg.block
             /\ reorg'.depth = reorg.depth /\ reorg'.current = reorg.current
      BY <1>1, <2>1 DEF CompareDetected, ReorgReturns
    <3>2. QED
      BY <1>1, <1>3, <3>1 DEF DepthInv
  <2>2. CASE CompareStored
    <3>1. \/ EndSearch
          \/ /\ rpc' = "depth" /\ reorg'.block = reorg.block
             /\ reorg'.depth = reorg.depth + 1 /\ reorg'.current = reorg.current
      BY <1>1, <2>2 DEF CompareStored
    <3>2. QED
      BY <1>1, <1>5, <2>2, <3>1 DEF DepthInv, CompareStored
  <2>3. QED
    BY <1>6, <2>1, <2>2
<1>7. CASE FindReorgDepth \/ ReorgReadFails
  <2>1. CASE FindReorgDepth
    <3>1. /\ rpc = "depth" /\ rpc' = "compare" /\ reorg.depth <= MaxReorgDepth
          /\ reorg'.block = reorg.block /\ reorg'.depth = reorg.depth
          /\ reorg'.current = reorg.current - 1 /\ reorg'.hash = HeadHash
      BY <1>1, <2>1 DEF FindReorgDepth, DepthLoopGoesOn
    <3>2. QED
      BY <1>1, <3>1 DEF DepthInv
  <2>2. CASE ReorgReadFails
    BY <1>3, <1>5, <2>2 DEF ReorgReadFails, ReorgReturns
  <2>3. QED
    BY <1>7, <2>1, <2>2
<1>8. CASE CheckReorgDepth
  <2>1. CASE ReorgReturns
    BY <1>3, <2>1 DEF ReorgReturns
  <2>2. CASE rpc' = "delete" /\ reorg' = reorg /\ reorg.depth <= MaxReorgDepth
    BY <1>1, <1>8, <2>2 DEF CheckReorgDepth, DepthInv
  <2>3. QED
    BY <1>1, <1>8, <2>1, <2>2 DEF CheckReorgDepth
<1>9. CASE DeleteReorged \/ RewindCursor \/ ReorgWriteFails \/ Restart
  BY <1>3, <1>9 DEF DeleteReorged, RewindCursor, ReorgWriteFails, ReorgReturns, Restart
<1>10. CASE Mine \/ ChainReorg \/ PollChain \/ PollCursor \/ PollFails \/ Caller \/ UNCHANGED vars
  BY <1>2, <1>10 DEF Mine, ChainReorg, PollChain, PollCursor, PollFails, Caller,
     BackfillEvents, SetStartBlock, AddContract, RemoveContract, ApiAddContract,
     ApiRemoveContract, vars
<1>11. CASE \E p \in Scanners : Scan(p) \/ ScanFails(p)
  BY <1>2, <1>11 DEF Scan, ScanFails, FetchBlock, BlockNotFound, SnapshotAddresses,
     GetLogs, ParseLogs, SaveBlockEvents, SetStatus, AdvanceCursor,
     ProcessBlockFails, SetStatusFails, AdvanceCursorFails
<1>12. QED
  BY <1>4, <1>6, <1>7, <1>8, <1>9, <1>10, <1>11
     DEF Next, LoopStep, Reorg, Failure, Crash, ParsePanics, Scanners

(* HandleReorg deletes no event outside the last MaxReorgDepth blocks up   *)
(* to the one it was called for (findReorgDepth, handleReorganization).    *)
THEOREM DeletionsAreBounded == Spec => DeletionIsBounded
<1>1. Init => DepthInv
  BY DEF Init, DepthInv
<1>2. TypeInv /\ DepthInv /\ [Next]_vars =>
        [\A e \in events \ events' :
           /\ e.number <= reorg.block
           /\ e.number > reorg.block - MaxReorgDepth]_vars
  <2> SUFFICES ASSUME TypeInv, DepthInv, [Next]_vars, NEW e \in events \ events'
               PROVE  e.number <= reorg.block /\ e.number > reorg.block - MaxReorgDepth
    OBVIOUS
  <2>1. DeleteReorged
    <3>1. CASE Mine \/ ChainReorg \/ PollChain \/ PollCursor \/ PollFails \/ Caller
               \/ Restart \/ UNCHANGED vars
      BY <3>1 DEF Mine, ChainReorg, PollChain, PollCursor, PollFails, Caller,
         BackfillEvents, SetStartBlock, AddContract, RemoveContract, ApiAddContract,
         ApiRemoveContract, Restart, vars, dbVars
    <3>2. CASE \E p \in Scanners : Scan(p) \/ ScanFails(p)
      BY <3>2 DEF Scan, ScanFails, FetchBlock, BlockNotFound, SnapshotAddresses,
         GetLogs, ParseLogs, SaveBlockEvents, SaveEvents, SetStatus, AdvanceCursor,
         ProcessBlockFails, SetStatusFails, AdvanceCursorFails, dbVars
    <3>3. CASE Reorg \/ ReorgReadFails \/ ReorgWriteFails
      BY <3>3 DEF Reorg, DetectReorg, CompareDetected, FindReorgDepth,
         CompareStored, CheckReorgDepth, RewindCursor,
         ReorgReadFails, ReorgWriteFails, dbVars
    <3>4. QED
      BY <3>1, <3>2, <3>3 DEF Next, LoopStep, Failure, Crash, ParsePanics, Scanners
  <2>2. /\ reorg.block \in Heights /\ reorg.depth \in Nat
        /\ MaxReorgDepth \in Nat /\ WordSize \in Nat /\ MaxHeight < WordSize
        /\ MaxHeight \in Nat
    BY MonitorAssumption DEF TypeInv, TypeOK, ReorgTypeOK, Heights
  <2>3. reorg.depth >= 1 /\ reorg.depth <= reorg.block + 1 /\ reorg.depth <= MaxReorgDepth
    BY <2>1 DEF DepthInv, DeleteReorged
  <2>4. ReorgFrom = reorg.block - reorg.depth + 1
    BY <2>2, <2>3 DEF ReorgFrom, Heights
  <2>5. e.number \in ReorgFrom .. reorg.block
    BY <2>1 DEF DeleteReorged, DeleteEventsByBlockRange
  <2>6. QED
    BY <2>2, <2>3, <2>4, <2>5 DEF Heights
<1>3. QED
  BY <1>1, <1>2, DepthStep, InitType, NextType, PTL DEF Spec, DeletionIsBounded
-----------------------------------------------------------------------------
(* A stored hash that equals the hash of a block is that block's.          *)
LEMMA StoredHashNames ==
  ASSUME NEW table, NEW n, NEW stored \in GetBlockHash(table, n),
         stored.number >= 0
  PROVE  stored.number = n
BY DEF GetBlockHash, NoHash, Hash

(* Why nothing is reprocessed, on any chain, with any table and any        *)
(* MaxReorgDepth, and whatever is mined or replaced between the two reads  *)
(* of an iteration: the depth search ends at block 0, with an error, or at *)
(* a head below the block it was called for (findReorgDepth, HandleReorg). *)
THEOREM ReorgSearchEndsAtZero == Spec => SearchEndsAtZero
<1>1. Init => DepthInv
  BY DEF Init, DepthInv
<1>2. TypeInv /\ DepthInv /\ [Next]_vars =>
        [rpc' = "delete" /\ rpc # "delete" /\ faults' = faults
         => \/ ReorgFrom' = 0 /\ RewindTarget' = WordSize - 1
            \/ rpc = "compare" /\ reorg.hash.number < reorg.block]_vars
  <2> SUFFICES ASSUME TypeInv, DepthInv, [Next]_vars,
                      rpc' = "delete", rpc # "delete", faults' = faults
               PROVE  \/ ReorgFrom' = 0 /\ RewindTarget' = WordSize - 1
                      \/ rpc = "compare" /\ reorg.hash.number < reorg.block
    OBVIOUS
  <2>1. /\ reorg.block \in Nat /\ reorg.depth \in Nat /\ reorg.current \in Nat
        /\ WordSize \in Nat /\ WordSize > 0 /\ MaxReorgDepth \in Nat
    BY MonitorAssumption DEF TypeInv, TypeOK, ReorgTypeOK, Heights
  <2>2. ~Fault
    BY MonitorAssumption DEF Fault, TypeInv, TypeOK, HistoryTypeOK
  <2>3. CompareStored \/ CheckReorgDepth
    <3>1. CASE Mine \/ ChainReorg \/ PollChain \/ PollCursor \/ Caller \/ Restart
               \/ UNCHANGED vars
      BY <3>1 DEF Mine, ChainReorg, PollChain, PollCursor, Caller, BackfillEvents,
         SetStartBlock, AddContract, RemoveContract, ApiAddContract,
         ApiRemoveContract, Restart, vars, reorgVars
    <3>2. CASE \E p \in Scanners : Scan(p)
      BY <3>2 DEF Scan, FetchBlock, BlockNotFound, SnapshotAddresses, GetLogs,
         ParseLogs, SaveBlockEvents, SetStatus, AdvanceCursor, reorgVars
    <3>3. CASE Reorg
      BY <3>3 DEF Reorg, DetectReorg, CompareDetected, FindReorgDepth,
         DeleteReorged, RewindCursor, ReorgReturns
    <3>4. CASE Failure
      BY <2>2, <3>4 DEF Failure, PollFails, ScanFails, ProcessBlockFails,
         SetStatusFails, AdvanceCursorFails, ReorgReadFails, ReorgWriteFails,
         Crash
    <3>5. QED
      BY <3>1, <3>2, <3>3, <3>4 DEF Next, LoopStep, ParsePanics, Scanners
  <2>4. CASE CompareStored
    <3>1. PICK stored \in GetBlockHash(events, reorg.current) : stored = reorg.hash
      BY <2>4 DEF CompareStored
    <3>2. /\ rpc = "compare" /\ reorg.current = reorg.block - reorg.depth
          /\ reorg.depth >= 1 /\ reorg.hash.number >= 0
      BY <2>4 DEF CompareStored, DepthInv
    <3>3. reorg.hash.number = reorg.current
      BY <3>1, <3>2, StoredHashNames
    <3>4. QED
      BY <2>1, <3>2, <3>3
  <2>5. CASE CheckReorgDepth
    <3>1. /\ rpc = "depth" /\ ~DepthLoopGoesOn
          /\ reorg.depth <= MaxReorgDepth /\ reorg' = reorg
      BY <2>1, <2>5 DEF CheckReorgDepth, ReorgReturns
    <3>2. reorg.current = 0 /\ reorg.current = reorg.block - reorg.depth + 1
      BY <2>1, <3>1 DEF DepthLoopGoesOn, DepthInv
    <3>3. ReorgFrom = 0
      BY <2>1, <3>2 DEF ReorgFrom
    <3>4. RewindTarget = WordSize - 1
      BY <2>1, <3>3 DEF RewindTarget
    <3>5. QED
      BY <3>1, <3>3, <3>4 DEF ReorgFrom, RewindTarget
  <2>6. QED
    BY <2>3, <2>4, <2>5
<1>3. QED
  BY <1>1, <1>2, DepthStep, InitType, NextType, PTL DEF Spec, SearchEndsAtZero
-----------------------------------------------------------------------------
(***************************************************************************)
(* ImplementsBlockScan.  The range the loop is in ends no lower than the   *)
(* cursor and no higher than the confirmed block, and everything below the *)
(* block it is at has been attempted.  Forks only matter in that they do   *)
(* not shorten the chain, whatever their depth.                            *)
(***************************************************************************)
ScanInv ==
  /\ pc["backfill"] = "idle" /\ rpc = "idle"
  /\ head > ConfirmationBlocks
  /\ pc["loop"] = "poll" => latest \in (ConfirmationBlocks + 1) .. head
  /\ pc["loop"] \notin {"idle", "poll"} =>
       to["loop"] + ConfirmationBlocks <= head /\ cursor <= to["loop"]
  /\ AttemptedInv

(* A step of BlockScan, or none. *)
ScanStep == [Abstract!Next]_(Abstract!scan)

(* The numbers the lemmas below compute with. *)
LEMMA ScanNumbers ==
  ASSUME TypeInv, ScanInv
  PROVE  /\ head \in Nat /\ cursor \in Nat /\ latest \in Heights
         /\ ConfirmationBlocks \in Nat /\ MaxHeight \in Nat
         /\ ConfirmedBlock(head) = head - ConfirmationBlocks
         /\ head - ConfirmationBlocks \in Heights
         /\ head - ConfirmationBlocks \in Nat
BY MonitorAssumption DEF TypeInv, TypeOK, ChainTypeOK, StoreTypeOK, ScanTypeOK,
   ScanInv, ConfirmedBlock, Heights, Words

LEMMA NoScanStep ==
  ASSUME UNCHANGED <<head, cursor, outcome>>
  PROVE  ScanStep
BY DEF ScanStep, Abstract!scan, Attempted

(* What the steps that concern neither chain, cursor nor loop leave.       *)
LEMMA FrameScan ==
  ASSUME ScanInv, UNCHANGED <<head, cursor, outcome, rpc>>, UNCHANGED scanVars
  PROVE  ScanInv' /\ ScanStep
BY NoScanStep DEF ScanInv, AttemptedInv, scanVars

LEMMA ChainScan ==
  ASSUME TypeInv, ScanInv, Mine \/ ChainReorg
  PROVE  ScanInv' /\ ScanStep
<1>1. /\ UNCHANGED <<cursor, outcome, rpc>> /\ UNCHANGED scanVars
      /\ head' \in Heights /\ head' >= head
  <2>1. CASE Mine
    <3>1. /\ UNCHANGED dbVars /\ UNCHANGED reorgVars /\ UNCHANGED historyVars
          /\ UNCHANGED scanVars /\ head' = head + 1 /\ head < MaxHeight
      BY <2>1 DEF Mine
    <3>2. head' \in Heights /\ head' >= head
      BY <3>1, ScanNumbers DEF Heights
    <3>3. QED
      BY <3>1, <3>2 DEF dbVars, reorgVars, historyVars
  <2>2. CASE ChainReorg
    <3>1. /\ UNCHANGED dbVars /\ UNCHANGED reorgVars /\ UNCHANGED historyVars
          /\ UNCHANGED scanVars /\ head' \in head .. MaxHeight
      BY <2>2 DEF ChainReorg
    <3>2. head' \in Heights /\ head' >= head
      BY <3>1, ScanNumbers DEF Heights
    <3>3. QED
      BY <3>1, <3>2 DEF dbVars, reorgVars, historyVars
  <2>3. QED
    BY <2>1, <2>2
<1>2. head' \in Nat /\ to["loop"] \in Nat
  BY <1>1, LoopLocals DEF Heights
<1>3. ScanInv'
  BY <1>1, <1>2, ScanNumbers DEF ScanInv, AttemptedInv, scanVars
<1>4. /\ ConfirmedBlock(head)' = head' - ConfirmationBlocks
      /\ head' - ConfirmationBlocks \in Nat
      /\ head' - ConfirmationBlocks >= head - ConfirmationBlocks
  BY <1>1, <1>2, ScanNumbers DEF ScanInv, ConfirmedBlock
<1>5. Abstract!Confirm
  BY <1>1, <1>4, ScanNumbers DEF Abstract!Confirm, Attempted
<1>6. QED
  BY <1>3, <1>5 DEF ScanStep, Abstract!Next

LEMMA PollScan ==
  ASSUME TypeInv, ScanInv, PollChain \/ PollCursor \/ PollFails
  PROVE  ScanInv' /\ ScanStep
<1> USE LoopLocals
<1>1. UNCHANGED <<head, cursor, outcome, rpc>> /\ pc'["backfill"] = "idle"
  BY DEF ScanInv, PollChain, PollCursor, PollFails, EnterRange, chainVars, dbVars,
     reorgVars, historyVars
<1>2. CASE pc'["loop"] = "idle"
  BY <1>1, <1>2, NoScanStep DEF ScanInv, AttemptedInv
<1>3. CASE PollChain
  <2>1. pc'["loop"] = "poll" /\ latest' = head
    BY <1>3 DEF PollChain
  <2>2. head \in (ConfirmationBlocks + 1) .. head
    BY ScanNumbers DEF ScanInv
  <2>3. QED
    BY <1>1, <2>1, <2>2, NoScanStep DEF ScanInv, AttemptedInv
<1>4. CASE PollCursor /\ ConfirmedBlock(latest) > cursor
  <2> DEFINE last == ConfirmedBlock(latest)
             end == EndOfBatch(cursor + 1, last)
  <2>1. /\ last = latest - ConfirmationBlocks /\ last \in Heights /\ last > cursor
        /\ latest <= head
    <3>1. latest \in (ConfirmationBlocks + 1) .. head
      BY <1>4 DEF PollCursor, ScanInv
    <3>2. latest > ConfirmationBlocks /\ latest <= head /\ latest <= MaxHeight
      BY <3>1, ScanNumbers DEF Heights
    <3>3. last = latest - ConfirmationBlocks /\ last > cursor
      BY <1>4, <3>2 DEF ConfirmedBlock
    <3> HIDE DEF last
    <3>4. last \in Heights
      BY <3>2, <3>3, ScanNumbers DEF Heights
    <3>5. QED
      BY <3>2, <3>3, <3>4
  <2>2. cursor + 1 \in 1 .. last
    <3> HIDE DEF last
    <3>1. QED
      BY <2>1, ScanNumbers DEF Heights
  <2>3. end \in Heights /\ end <= last /\ cursor + 1 <= end + 1
    <3> HIDE DEF last
    <3>1. QED
      BY <2>1, <2>2, EndOfBatchRange
  <2>4. /\ blk'["loop"] = cursor + 1 /\ to'["loop"] = end
        /\ pc'["loop"] = IF cursor + 1 <= end THEN "fetch" ELSE "advance"
    BY <1>4 DEF PollCursor, EnterRange
  <2> HIDE DEF last, end
  <2>5. last \in Nat /\ end \in Nat /\ latest \in Nat
    BY <2>1, <2>3, ScanNumbers DEF Heights
  <2>6. end + ConfirmationBlocks <= head /\ cursor <= end
    BY <2>1, <2>3, <2>5, ScanNumbers
  <2>7. AttemptedInv'
    <3>1. \A n \in Heights \ {0} : n <= cursor => outcome[n] # "none"
      BY DEF ScanInv, AttemptedInv
    <3>2. \A n \in Heights \ {0} : n < cursor + 1 => n <= cursor
      BY ScanNumbers DEF Heights
    <3>3. cursor + 1 >= 1 /\ (~(cursor + 1 <= end) => end < cursor + 1)
      BY <2>5, ScanNumbers
    <3>4. QED
      BY <1>1, <2>4, <3>1, <3>2, <3>3 DEF AttemptedInv
  <2>8. ScanInv'
    BY <1>1, <2>4, <2>6, <2>7 DEF ScanInv
  <2>9. QED
    BY <1>1, <2>8, NoScanStep
<1>5. QED
  BY <1>2, <1>3, <1>4 DEF PollCursor, PollFails

(* A block is left: it has been attempted now, as all those below it. *)
LEMMA LeaveBlockScan ==
  ASSUME TypeInv, ScanInv, pc["loop"] \in InBlock,
         NEW result \in {"ok", "skipped", "failed"}, LeaveBlock("loop", result),
         UNCHANGED <<head, cursor, rpc>>
  PROVE  ScanInv' /\ ScanStep
<1> USE LoopLocals
<1> DEFINE n == blk["loop"]
<1>1. /\ pc'["loop"] \in {"fetch", "advance"} /\ pc'["backfill"] = pc["backfill"]
      /\ pc'["loop"] = "advance" => ~(n < to["loop"])
      /\ blk'["loop"] = n + 1 /\ to' = to
      /\ outcome' = [outcome EXCEPT ![n] = result]
  BY DEF LeaveBlock
<1>2. /\ n \in Heights /\ n >= 1 /\ n <= to["loop"] /\ pc["loop"] \notin {"idle", "poll"}
      /\ \A m \in Heights \ {0} : m < n => outcome[m] # "none"
      /\ to["loop"] + ConfirmationBlocks <= head /\ to["loop"] \in Nat
  BY DEF InBlock, ScanInv, AttemptedInv, Heights
<1>3. ScanInv'
  <2>1. \A m \in Heights \ {0} : m < n + 1 => outcome'[m] # "none"
    BY <1>1, <1>2 DEF Heights
  <2>2. \A m \in Heights \ {0} : m <= cursor => outcome'[m] # "none"
    BY <1>1, <1>2 DEF ScanInv, AttemptedInv
  <2>3. pc'["loop"] = "advance" => to["loop"] < n + 1
    BY <1>1, <1>2 DEF Heights
  <2>4. n + 1 >= 1
    BY <1>2 DEF Heights
  <2>5. AttemptedInv'
    BY <1>1, <2>1, <2>2, <2>3, <2>4 DEF AttemptedInv
  <2>6. QED
    BY <1>1, <1>2, <2>5 DEF ScanInv
<1>4. n \in 1 .. ConfirmedBlock(head)
  BY <1>2, ScanNumbers DEF Heights
<1>5. 1 .. (n - 1) \subseteq Attempted
  <2> SUFFICES ASSUME NEW m \in 1 .. (n - 1) PROVE m \in Attempted
    OBVIOUS
  <2>1. m \in Heights \ {0} /\ m < n
    BY <1>2, ScanNumbers DEF Heights
  <2>2. QED
    BY <1>2, <2>1 DEF Attempted
<1>6. Attempted' = Attempted \cup {n}
  BY <1>1, <1>2 DEF Attempted
<1> HIDE DEF n
<1>7. Abstract!Attempt(n)
  BY <1>4, <1>5, <1>6, ScanNumbers DEF Abstract!Attempt
<1>8. QED
  BY <1>3, <1>4, <1>7 DEF ScanStep, Abstract!Next

(* The cursor moves over the range, at its end. *)
LEMMA EndRangeScan ==
  ASSUME TypeInv, ScanInv, AdvanceCursor("loop") \/ AdvanceCursorFails("loop")
  PROVE  ScanInv' /\ ScanStep
<1> USE LoopLocals
<1>1. /\ pc["loop"] = "advance" /\ pc'["loop"] = "idle" /\ pc'["backfill"] = pc["backfill"]
      /\ UNCHANGED <<head, rpc, outcome>>
      /\ cursor' = to["loop"] \/ cursor' = cursor
  BY DEF AdvanceCursor, AdvanceCursorFails, EndRange, chainVars, dbVars, reorgVars,
     historyVars
<1>2. /\ cursor <= to["loop"] /\ to["loop"] + ConfirmationBlocks <= head
      /\ to["loop"] \in Heights /\ to["loop"] < blk["loop"]
      /\ \A m \in Heights \ {0} : m < blk["loop"] => outcome[m] # "none"
  BY <1>1 DEF ScanInv, AttemptedInv
<1>3. \A m \in Heights \ {0} : m <= to["loop"] => outcome[m] # "none"
  BY <1>2 DEF Heights
<1>4. ScanInv'
  BY <1>1, <1>3 DEF ScanInv, AttemptedInv
<1>5. CASE cursor' # cursor
  <2>1. cursor' = to["loop"] /\ cursor' \in (cursor + 1) .. ConfirmedBlock(head)
    BY <1>1, <1>2, <1>5, ScanNumbers DEF Heights
  <2>2. 1 .. cursor' \subseteq Attempted
    <3> SUFFICES ASSUME NEW m \in 1 .. cursor' PROVE m \in Attempted
      OBVIOUS
    <3>1. m \in 1 .. to["loop"]
      BY <2>1
    <3>2. to["loop"] \in 0 .. MaxHeight /\ MaxHeight \in Nat
      BY ScanNumbers DEF Heights
    <3>3. m \in Heights \ {0} /\ m <= to["loop"]
      BY <3>1, <3>2 DEF Heights
    <3>4. QED
      BY <1>3, <3>3 DEF Attempted
  <2>3. UNCHANGED <<ConfirmedBlock(head), Attempted>>
    BY <1>1 DEF Attempted
  <2>4. Abstract!Advance
    BY <2>1, <2>2, <2>3 DEF Abstract!Advance
  <2>5. QED
    BY <1>4, <2>4 DEF ScanStep, Abstract!Next
<1>6. CASE cursor' = cursor
  BY <1>1, <1>4, <1>6, NoScanStep
<1>7. QED
  BY <1>5, <1>6

(* The steps of ProcessBlock, in order. *)
LEMMA LoopScan ==
  ASSUME TypeInv, ScanInv, Scan("loop") \/ ScanFails("loop")
  PROVE  ScanInv' /\ ScanStep
<1> USE LoopLocals
<1>1. ASSUME pc["loop"] \in InBlock, pc'["loop"] \in InBlock,
             pc'["backfill"] = pc["backfill"],
             UNCHANGED <<head, cursor, outcome, rpc, blk, to>>
      PROVE  ScanInv' /\ ScanStep
  BY <1>1, NoScanStep DEF ScanInv, AttemptedInv, InBlock
<1>2. CASE FetchBlock("loop") \/ GetLogs("loop") \/ ParseLogs("loop")
  BY <1>1, <1>2 DEF FetchBlock, GetLogs, ParseLogs, InBlock, chainVars, dbVars,
     reorgVars, historyVars
<1>3. CASE BlockNotFound("loop")
  BY <1>3, LeaveBlockScan DEF BlockNotFound, InBlock, chainVars, dbVars, reorgVars
<1>4. CASE SnapshotAddresses("loop") /\ monitored = {}
  BY <1>4, LeaveBlockScan DEF SnapshotAddresses, InBlock, chainVars, dbVars, reorgVars
<1>5. CASE SnapshotAddresses("loop") /\ monitored # {}
  BY <1>1, <1>5 DEF SnapshotAddresses, InBlock, chainVars, dbVars, reorgVars
<1>6. CASE SaveBlockEvents("loop") /\ SaveEventsAccepts(events, batch["loop"])
  BY <1>1, <1>6 DEF SaveBlockEvents, InBlock, chainVars, reorgVars
<1>7. CASE SaveBlockEvents("loop") /\ ~SaveEventsAccepts(events, batch["loop"])
  BY <1>7, LeaveBlockScan DEF SaveBlockEvents, InBlock, chainVars, reorgVars
<1>8. CASE SetStatus("loop")
  BY <1>8, LeaveBlockScan DEF SetStatus, InBlock, chainVars, reorgVars
<1>9. CASE SetStatusFails("loop") \/ ProcessBlockFails("loop")
  BY <1>9, LeaveBlockScan DEF SetStatusFails, ProcessBlockFails, InBlock, chainVars,
     dbVars, reorgVars
<1>10. CASE AdvanceCursor("loop") \/ AdvanceCursorFails("loop")
  BY <1>10, EndRangeScan
<1>11. QED
  BY <1>2, <1>3, <1>4, <1>5, <1>6, <1>7, <1>8, <1>9, <1>10 DEF Scan, ScanFails

LEMMA NextScan ==
  ASSUME CursorIsTheLoops, TypeInv, ScanInv, [Next]_vars
  PROVE  ScanInv' /\ ScanStep
<1>1. CASE Mine \/ ChainReorg
  BY <1>1, ChainScan
<1>2. CASE PollChain \/ PollCursor \/ PollFails
  BY <1>2, PollScan
<1>3. ASSUME NEW p \in Scanners, Scan(p) \/ ScanFails(p) PROVE ScanInv' /\ ScanStep
  BY <1>3, OnlyLoopScans, LoopScan DEF ScanInv
<1>4. CASE Crash \/ \E p \in Scanners : ParsePanics(p)
  <2>1. /\ pc'["loop"] = "idle" /\ pc'["backfill"] = "idle" /\ rpc' = "idle"
        /\ UNCHANGED <<head, cursor, outcome>>
    BY <1>4 DEF Crash, ParsePanics, Restart, Scanners, chainVars, dbVars, historyVars
  <2>2. QED
    BY <2>1, NoScanStep DEF ScanInv, AttemptedInv
<1>5. CASE Caller
  <2>1. ~BackfillEvents /\ ~SetStartBlock
    BY DEF BackfillEvents, SetStartBlock, Call, CursorIsTheLoops
  <2>2. UNCHANGED <<head, cursor, outcome, rpc>> /\ UNCHANGED scanVars
    BY <1>5, <2>1 DEF Caller, AddContract, RemoveContract, ApiAddContract,
       ApiRemoveContract, chainVars, reorgVars, historyVars
  <2>3. QED
    BY <2>2, FrameScan
<1>6. CASE Reorg \/ ReorgReadFails \/ ReorgWriteFails
  <2>1. rpc = "idle" /\ "HandleReorg" \notin Calls
    BY DEF ScanInv, CursorIsTheLoops
  <2>2. QED
    BY <1>6, <2>1 DEF Reorg, DetectReorg, Call, CompareDetected,
       FindReorgDepth, CompareStored, CheckReorgDepth,
       DeleteReorged, RewindCursor, ReorgReadFails, ReorgWriteFails
<1>7. CASE UNCHANGED vars
  BY <1>7, FrameScan DEF vars, chainVars, dbVars, reorgVars, historyVars
<1>8. QED
  BY <1>1, <1>2, <1>3, <1>4, <1>5, <1>6, <1>7 DEF Next, LoopStep, Failure, Scanners

(* While only the loop moves the cursor, and on a chain that is longer     *)
(* than the confirmations from the start, the monitor implements BlockScan *)
(* step by step, with both back ends and forks of any depth                *)
(* (pollForNewBlocks, ProcessBlockRange).                                  *)
THEOREM LoopImplementsBlockScan ==
  ASSUME CursorIsTheLoops, InitialHead > ConfirmationBlocks
  PROVE  Spec => ImplementsBlockScan
<1>1. Init => ScanInv /\ Abstract!Init
  <2> SUFFICES ASSUME Init PROVE ScanInv /\ Abstract!Init
    OBVIOUS
  <2>1. ScanInv
    BY DEF Init, ScanInv, AttemptedInv, Scanners, Heights
  <2>2. ConfirmedBlock(head) \in Nat
    BY <2>1, InitType, ScanNumbers
  <2>3. Attempted = {}
    BY DEF Init, Attempted
  <2>4. QED
    BY <2>1, <2>2, <2>3 DEF Init, Abstract!Init
<1>2. TypeInv /\ ScanInv /\ [Next]_vars => ScanInv' /\ ScanStep
  BY NextScan
<1>3. QED
  BY <1>1, <1>2, InitType, NextType, PTL
     DEF Spec, ImplementsBlockScan, Abstract!Safety, ScanStep
=============================================================================
