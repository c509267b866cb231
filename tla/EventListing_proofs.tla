------------------------ MODULE EventListing_proofs ------------------------
(***************************************************************************)
(* Proofs about the read side, for any finite set of logs and any limits.  *)
(* What is behind them: while a client pages, a row that it has yet to see *)
(* has at least as many rows before it as the client has skipped           *)
(* (PagingInv); a statement of the statistics that is over has counted no  *)
(* more than is there now (StatsInv).                                      *)
(***************************************************************************)
EXTENDS EventListing, FiniteSetTheorems, TLAPS

Ahead(log) == {d \in rows : Before(d, log)}

Tied(log) == \E other \in rows : Ties(log, other)

Unseen == client.there \ client.seen

PagingInv ==
  /\ client.there \subseteq rows
  /\ client.pc = "paging" => /\ client.offset >= 0
                             /\ client.limit <= 0 => client.offset = 0
  /\ client.pc = "paging" /\ ~client.disturbed =>
       \A log \in Unseen : Tied(log) \/ Cardinality(Ahead(log)) >= client.offset
  /\ PagingSkipsNothing

StatsInv ==
  stats.pc # "idle" /\ ~stats.disturbed =>
    /\ stats.total <= (IF stats.pc = "byType" THEN Cardinality(ranged) ELSE stats.byType)
    /\ stats.pc = "byContract" => stats.byType <= Cardinality(ranged)
    /\ stats.pc \notin {"byType", "byContract"} => stats.byType <= stats.byContract
    /\ stats.pc = "failed" => stats.processed <= Cardinality(ranged \cap processed)
    /\ stats.pc = "done" => stats.processed + stats.failed <= Cardinality(ranged)

IInv == TypeOK /\ PagingInv /\ StatsInv
-----------------------------------------------------------------------------
(* The order of the rows.                                                  *)
LEMMA Order ==
  ASSUME NEW d \in Logs, NEW e \in Logs
  PROVE  /\ ~Before(d, d)
         /\ Before(d, e) => ~Before(e, d)
         /\ d = e \/ Ties(d, e) \/ Before(d, e) \/ Before(e, d)
<1>1. d.block \in Nat /\ d.index \in Nat /\ e.block \in Nat /\ e.index \in Nat
  BY TableAssumption
<1>2. QED
  BY <1>1 DEF Before, Ties

LEMMA Finite ==
  ASSUME NEW T, T \subseteq Logs
  PROVE  IsFiniteSet(T) /\ Cardinality(T) \in Nat
BY TableAssumption, FS_Subset, FS_CardinalityType

LEMMA Smaller ==
  ASSUME NEW T, NEW U, T \subseteq U, U \subseteq Logs
  PROVE  /\ Cardinality(T) <= Cardinality(U)
         /\ Cardinality(T) = Cardinality(U) => T = U
BY Finite, FS_Subset

LEMMA Difference ==
  ASSUME NEW T, NEW U, T \subseteq U, U \subseteq Logs
  PROVE  Cardinality(U \ T) = Cardinality(U) - Cardinality(T)
<1>1. IsFiniteSet(U) /\ IsFiniteSet(T) /\ U \cap T = T
  BY Finite
<1>2. QED
  BY <1>1, FS_Difference

(* What a page is, in the terms of the unfolded query.                     *)
LEMMA PageOfHeads ==
  ASSUME NEW R, NEW limit, NEW offset, NEW page \in Pages(R, limit, offset)
  PROVE  \E head \in Heads(R, offset + limit), skipped \in Heads(R, offset) :
           skipped \subseteq head /\ page = head \ skipped
BY DEF Pages

LEMMA HeadsAre ==
  ASSUME NEW R, NEW n, NEW head \in Heads(R, n)
  PROVE  /\ head \subseteq R
         /\ Cardinality(head) = IF n < Cardinality(R) THEN n ELSE Cardinality(R)
         /\ \A d \in head, e \in R \ head : ~Before(e, d)
BY DEF Heads

LEMMA PagesAreRows ==
  ASSUME NEW R, NEW limit, NEW offset, NEW page \in Pages(R, limit, offset)
  PROVE  page \subseteq R
BY PageOfHeads, HeadsAre

Request == [Everything EXCEPT !.limit = client.limit, !.offset = client.offset]

(* The queries of both back ends order, limit and skip in the same way.    *)
LEMMA SameListed ==
  /\ \A f, R : S!Listed(f, R) = Listed(f, R)
  /\ \A f, R : P!Listed(f, R) = Listed(f, R)
<1>1. \A f, R : S!Listed(f, R) = Listed(f, R)
  <2>1. \A d, e : S!Before(d, e) <=> Before(d, e)
    BY DEF S!Before, Before
  <2>2. \A R : S!Cardinality(R) = Cardinality(R)
    BY DEF S!Cardinality, Cardinality
  <2>3. \A R, n : S!Heads(R, n) = Heads(R, n)
    BY <2>1, <2>2 DEF S!Heads, Heads
  <2>4. \A R, limit, offset : S!Pages(R, limit, offset) = Pages(R, limit, offset)
    BY <2>3 DEF S!Pages, Pages
  <2>5. \A f, R : S!Limit(f, R) = Limit(f, R) /\ S!Offset(f) = Offset(f)
    BY <2>2 DEF S!Limit, S!Offset, Limit, Offset
  <2>6. QED
    BY <2>4, <2>5 DEF S!Listed, Listed
<1>2. \A f, R : P!Listed(f, R) = Listed(f, R)
  <2>1. \A d, e : P!Before(d, e) <=> Before(d, e)
    BY DEF P!Before, Before
  <2>2. \A R : P!Cardinality(R) = Cardinality(R)
    BY DEF P!Cardinality, Cardinality
  <2>3. \A R, n : P!Heads(R, n) = Heads(R, n)
    BY <2>1, <2>2 DEF P!Heads, Heads
  <2>4. \A R, limit, offset : P!Pages(R, limit, offset) = Pages(R, limit, offset)
    BY <2>3 DEF P!Pages, Pages
  <2>5. \A f, R : P!Limit(f, R) = Limit(f, R) /\ P!Offset(f) = Offset(f)
    BY <2>2 DEF P!Limit, P!Offset, Limit, Offset
  <2>6. QED
    BY <2>4, <2>5 DEF P!Listed, Listed
<1>3. QED
  BY <1>1, <1>2

LEMMA SameQuery ==
  /\ S!Listed(Request, S!Selected(Request, rows, processed)) = Listed(Request, rows)
  /\ P!Listed(Request, P!Selected(Request, rows, processed)) = Listed(Request, rows)
<1>1. S!Selected(Request, rows, processed) = rows
  BY DEF S!Selected, Request, Everything
<1>2. P!Selected(Request, rows, processed) = rows
  BY DEF P!Selected, Request, Everything
<1>3. QED
  BY <1>1, <1>2, SameListed

(* Without a limit and an offset, the page is everything.                  *)
LEMMA AllListed ==
  ASSUME NEW R, R \subseteq Logs, NEW f, f.limit \in Int, f.limit <= 0, f.offset = 0,
         NEW page \in Listed(f, R)
  PROVE  page = R
<1>1. Limit(f, R) = Cardinality(R) /\ Offset(f) = 0
  BY DEF Limit, Offset
<1>2. page \in Pages(R, Cardinality(R), 0)
  BY <1>1 DEF Listed
<1>3. Cardinality(R) \in Nat
  BY Finite
<1>4. PICK head \in Heads(R, 0 + Cardinality(R)), skipped \in Heads(R, 0) :
        skipped \subseteq head /\ page = head \ skipped
  BY <1>2, PageOfHeads
<1>5. head = R
  <2>1. head \subseteq R /\ Cardinality(head) = Cardinality(R)
    BY <1>3, HeadsAre
  <2>2. QED
    BY <1>3, <2>1, Smaller
<1>6. skipped = {}
  <2>1. skipped \subseteq R /\ Cardinality(skipped) = 0
    BY <1>3, HeadsAre
  <2>2. IsFiniteSet(skipped)
    BY <1>3, <2>1, Finite
  <2>3. QED
    BY <2>1, <2>2, FS_EmptySet
<1>7. QED
  BY <1>4, <1>5, <1>6

LEMMA ClientFields ==
  ASSUME TypeOK
  PROVE  /\ client.pc \in {"idle", "paging", "done"}
         /\ client.limit \in Int /\ client.offset \in Int
         /\ client.seen \subseteq Logs /\ client.there \subseteq Logs
         /\ client.disturbed \in BOOLEAN
<1>1. client \in Clients
  BY DEF TypeOK
<1>2. Limits \cup {0} \subseteq Int
  BY ListingAssumption
<1>3. QED
  BY <1>1, <1>2 DEF Clients

StatsTyped ==
  /\ stats.pc \in StatsPlaces /\ stats.disturbed \in BOOLEAN
  /\ stats.total \in Nat /\ stats.byType \in Nat /\ stats.byContract \in Nat
  /\ stats.processed \in Nat /\ stats.failed \in Nat

LEMMA StatsFields == TypeOK => StatsTyped
BY DEF TypeOK, Stats, StatsTyped

LEMMA Answered ==
  ASSUME TypeOK, NEW page \in GetEvents(Request)
  PROVE  page \in Pages(rows, Limit(Request, rows), Offset(Request)) /\ page \subseteq rows
<1>1. page \in Listed(Request, rows)
  BY SameQuery DEF GetEvents, S!GetEvents, P!GetEvents
<1>2. page \in Pages(rows, Limit(Request, rows), Offset(Request))
  BY <1>1 DEF Listed
<1>3. QED
  BY <1>2, PagesAreRows

(* A page of a request with a limit.                                       *)
LEMMA AnsweredPage ==
  ASSUME TypeOK, NEW page \in GetEvents(Request), client.limit > 0, client.offset >= 0
  PROVE  page \in Pages(rows, client.limit, client.offset)
<1>1. Request.limit = client.limit /\ Request.offset = client.offset
  BY DEF Request, Everything
<1>2. Limit(Request, rows) = client.limit /\ Offset(Request) = client.offset
  BY <1>1, ClientFields DEF Limit, Offset
<1>3. QED
  BY <1>2, Answered

LEMMA AnsweredAll ==
  ASSUME TypeOK, NEW page \in GetEvents(Request), client.limit <= 0, client.offset = 0
  PROVE  page = rows
<1>1. Request.limit = client.limit /\ Request.offset = client.offset
  BY DEF Request, Everything
<1>2. page \in Listed(Request, rows)
  BY SameQuery DEF GetEvents, S!GetEvents, P!GetEvents
<1>3. rows \subseteq Logs /\ client.limit \in Int
  BY ClientFields DEF TypeOK
<1>4. QED
  BY <1>1, <1>2, <1>3, AllListed

(* A row that was not skipped before is on the page, or has the rows of    *)
(* the page before it, too.                                                *)
LEMMA NextPage ==
  ASSUME rows \subseteq Logs, NEW limit \in Nat, NEW offset \in Nat,
         NEW page \in Pages(rows, limit, offset),
         NEW log \in rows \ page, ~Tied(log), Cardinality(Ahead(log)) >= offset
  PROVE  /\ Cardinality(Ahead(log)) >= offset + limit
         /\ Cardinality(page) = limit
<1>1. PICK head \in Heads(rows, offset + limit), skipped \in Heads(rows, offset) :
        skipped \subseteq head /\ page = head \ skipped
  BY DEF Pages
<1>2. /\ head \subseteq rows /\ skipped \subseteq rows
      /\ \A d \in head, e \in rows \ head : ~Before(e, d)
      /\ \A d \in skipped, e \in rows \ skipped : ~Before(e, d)
      /\ Cardinality(head) = IF offset + limit < Cardinality(rows)
                               THEN offset + limit ELSE Cardinality(rows)
      /\ Cardinality(skipped) = IF offset < Cardinality(rows)
                                  THEN offset ELSE Cardinality(rows)
  BY <1>1, HeadsAre
<1>3. Ahead(log) \subseteq Logs /\ Cardinality(Ahead(log)) \in Nat
  BY Finite DEF Ahead
<1>4. Cardinality(rows) \in Nat /\ Cardinality(skipped) \in Nat /\ Cardinality(head) \in Nat
  BY <1>2, Finite
<1>5. log \notin skipped
  <2> SUFFICES ASSUME log \in skipped PROVE FALSE
    OBVIOUS
  <2>1. Ahead(log) \subseteq skipped
    BY <1>2 DEF Ahead
  <2>2. log \notin Ahead(log)
    BY Order DEF Ahead
  <2>3. /\ Cardinality(Ahead(log)) <= Cardinality(skipped)
        /\ Cardinality(Ahead(log)) = Cardinality(skipped) => Ahead(log) = skipped
    BY <1>2, <2>1, Smaller
  <2>4. Cardinality(skipped) <= offset
    BY <1>2, <1>4
  <2>5. QED
    BY <1>3, <1>4, <2>2, <2>3, <2>4
<1>6. log \in rows \ head
  BY <1>1, <1>5
<1>7. head \subseteq Ahead(log)
  <2> SUFFICES ASSUME NEW d \in head PROVE d \in Ahead(log)
    OBVIOUS
  <2>1. ~Before(log, d) /\ d \in rows
    BY <1>2, <1>6
  <2>2. ~Ties(log, d) /\ log # d
    BY <1>6, <2>1 DEF Tied
  <2>3. Before(d, log)
    BY <2>1, <2>2, Order
  <2>4. QED
    BY <2>1, <2>3 DEF Ahead
<1>8. Cardinality(head) # Cardinality(rows)
  BY <1>2, <1>6, Smaller
<1>9. Cardinality(head) = offset + limit /\ Cardinality(skipped) = offset
  BY <1>2, <1>4, <1>8
<1>10. Cardinality(head) <= Cardinality(Ahead(log))
  BY <1>3, <1>7, Smaller
<1>11. Cardinality(page) = Cardinality(head) - Cardinality(skipped)
  BY <1>1, <1>2, Difference
<1>12. QED
  BY <1>3, <1>9, <1>10, <1>11
-----------------------------------------------------------------------------
(* The invariant, step by step.                                            *)
LEMMA InitIInv == Init => IInv
<1> SUFFICES ASSUME Init PROVE IInv
  OBVIOUS
<1>1. TypeOK
  BY DEF Init, TypeOK, NoClient, NoStats, Clients, Stats, StatsPlaces
<1>2. PagingInv
  BY DEF Init, PagingInv, PagingSkipsNothing, NoClient
<1>3. StatsInv
  BY DEF Init, StatsInv, NoStats
<1>4. QED
  BY <1>1, <1>2, <1>3 DEF IInv

(* Rows are only added: what a client has yet to see moves back.           *)
LEMMA RowsAdded ==
  ASSUME IInv, UNCHANGED client, rows \subseteq rows', rows' \subseteq Logs
  PROVE  PagingInv'
<1>1. ASSUME NEW log PROVE Tied(log) => Tied(log)'
  BY DEF Tied
<1>2. ASSUME NEW log PROVE Cardinality(Ahead(log)) <= Cardinality(Ahead(log)')
  <2>1. Ahead(log) \subseteq Ahead(log)' /\ Ahead(log)' \subseteq Logs
    BY DEF Ahead
  <2>2. QED
    BY <2>1, Smaller
<1>3. ASSUME NEW log PROVE Cardinality(Ahead(log)) \in Nat /\ Cardinality(Ahead(log)') \in Nat
  <2>1. Ahead(log) \subseteq Logs /\ Ahead(log)' \subseteq Logs
    BY DEF Ahead, IInv, TypeOK
  <2>2. QED
    BY <2>1, Finite
<1>4. ASSUME NEW log, Cardinality(Ahead(log)) >= client.offset
      PROVE  Cardinality(Ahead(log)') >= client.offset
  BY <1>2, <1>3, <1>4, ClientFields DEF IInv
<1>5. PagingSkipsNothing'
  BY <1>1 DEF IInv, PagingInv, PagingSkipsNothing, Tied
<1>6. QED
  BY <1>1, <1>4, <1>5 DEF IInv, PagingInv, Unseen

(* A row goes away: nothing is promised to who reads.                      *)
LEMMA DeleteStep ==
  ASSUME IInv, NEW gone \in SUBSET rows, Delete(gone)
  PROVE  IInv'
<1>1. /\ client.pc' = client.pc /\ client.limit' = client.limit
      /\ client.offset' = client.offset /\ client.seen' = client.seen
      /\ client.there' = client.there \ gone
      /\ client.disturbed' = (client.disturbed \/ client.pc # "idle")
  BY DEF Delete, IInv, TypeOK, Clients
<1>2. client' \in Clients
  BY DEF Delete, IInv, TypeOK, Clients
<1>3. stats' \in Stats /\ stats'.disturbed = (stats.disturbed \/ stats.pc # "idle")
      /\ stats'.pc = stats.pc
  BY DEF Delete, IInv, TypeOK, Stats
<1>4. TypeOK'
  BY <1>2, <1>3 DEF Delete, IInv, TypeOK
<1>5. PagingInv'
  BY <1>1 DEF IInv, PagingInv, PagingSkipsNothing, Delete
<1>6. StatsInv'
  BY <1>3 DEF StatsInv
<1>7. QED
  BY <1>4, <1>5, <1>6 DEF IInv

(* What the statistics have counted stays within what is there.            *)
LEMMA CountsGrow ==
  ASSUME IInv, ranged \subseteq ranged', processed \subseteq processed',
         ranged' \subseteq Logs,
         \A field \in {"pc", "total", "byType", "byContract", "processed", "failed",
                       "disturbed"} : stats'[field] = stats[field]
  PROVE  StatsInv'
<1>1. /\ stats'.pc = stats.pc /\ stats'.total = stats.total /\ stats'.byType = stats.byType
      /\ stats'.byContract = stats.byContract
      /\ stats'.processed = stats.processed /\ stats'.failed = stats.failed
      /\ stats'.disturbed = stats.disturbed
  OBVIOUS
<1>2. /\ Cardinality(ranged) <= Cardinality(ranged')
      /\ Cardinality(ranged) \in Nat /\ Cardinality(ranged') \in Nat
  BY Smaller, Finite DEF IInv, TypeOK
<1>3. /\ Cardinality(ranged \cap processed) <= Cardinality(ranged' \cap processed')
      /\ Cardinality(ranged \cap processed) \in Nat
      /\ Cardinality(ranged' \cap processed') \in Nat
  <2>1. ranged \cap processed \subseteq ranged' \cap processed'
    OBVIOUS
  <2>2. ranged' \cap processed' \subseteq Logs
    OBVIOUS
  <2>3. ranged \cap processed \subseteq Logs
    BY <2>1, <2>2
  <2>4. QED
    BY <2>1, <2>2, <2>3, Smaller, Finite
<1>4. StatsTyped
  BY StatsFields DEF IInv
<1>5. QED
  BY <1>1, <1>2, <1>3, <1>4 DEF IInv, StatsInv, StatsTyped

LEMMA SaveStep ==
  ASSUME IInv, NEW log \in Logs, Save(log)
  PROVE  IInv'
<1>1. TypeOK'
  <2>1. stats' \in Stats
    BY DEF Save, IInv, TypeOK, Stats
  <2>2. ranged' \subseteq rows' /\ processed' \subseteq rows' /\ rows' \subseteq Logs
    BY DEF Save, IInv, TypeOK
  <2>3. QED
    BY <2>1, <2>2 DEF Save, IInv, TypeOK
<1>2. PagingInv'
  BY RowsAdded DEF Save, IInv, TypeOK
<1>3. StatsInv'
  <2>1. CASE log \in rows
    <3>1. stats'.disturbed = (stats.disturbed \/ stats.pc # "idle") /\ stats'.pc = stats.pc
      BY <2>1 DEF Save, IInv, TypeOK, Stats
    <3>2. QED
      BY <3>1 DEF StatsInv
  <2>2. CASE log \notin rows
    <3>1. ranged \subseteq ranged' /\ processed \subseteq processed'
      BY <2>2 DEF Save, IInv, TypeOK
    <3>2. ranged' \subseteq Logs
      BY <1>1 DEF TypeOK
    <3>3. stats' = [stats EXCEPT !.disturbed = @ \/ FALSE]
      BY <2>2 DEF Save
    <3>4. stats' = stats
      BY <3>3 DEF IInv, TypeOK, Stats
    <3>5. QED
      BY <3>1, <3>2, <3>4, CountsGrow
  <2>3. QED
    BY <2>1, <2>2
<1>4. QED
  BY <1>1, <1>2, <1>3 DEF IInv

LEMMA MarkProcessedStep ==
  ASSUME IInv, NEW log \in Logs, MarkProcessed(log)
  PROVE  IInv'
<1>1. TypeOK'
  BY DEF MarkProcessed, IInv, TypeOK
<1>2. PagingInv'
  BY RowsAdded DEF MarkProcessed, IInv, TypeOK
<1>3. StatsInv'
  BY CountsGrow DEF MarkProcessed, IInv, TypeOK
<1>4. QED
  BY <1>1, <1>2, <1>3 DEF IInv

LEMMA StartPagingStep ==
  ASSUME IInv, StartPaging
  PROVE  IInv'
<1>1. PICK limit \in Limits :
        client' = [NoClient EXCEPT !.pc = "paging", !.limit = limit, !.there = rows]
  BY DEF StartPaging
<1>2. /\ client'.pc = "paging" /\ client'.offset = 0 /\ client'.there = rows
      /\ client'.seen = {}
  BY <1>1 DEF NoClient
<1>3. client' \in Clients
  <2>1. client' = [pc |-> "paging", limit |-> limit, offset |-> 0, seen |-> {},
                   there |-> rows, disturbed |-> FALSE]
    BY <1>1 DEF NoClient
  <2>2. rows \subseteq Logs
    BY DEF IInv, TypeOK
  <2>3. QED
    BY <2>1, <2>2 DEF Clients
<1>4. TypeOK' /\ StatsInv'
  BY <1>3 DEF IInv, TypeOK, StatsInv, StartPaging, table
<1>5. \A log : Cardinality(Ahead(log)') >= 0
  <2>1. \A log : Ahead(log)' \subseteq Logs
    BY DEF Ahead, StartPaging, table, IInv, TypeOK
  <2>2. QED
    BY <2>1, Finite
<1>6. PagingInv'
  BY <1>2, <1>5 DEF PagingInv, PagingSkipsNothing, StartPaging, table
<1>7. QED
  BY <1>4, <1>6 DEF IInv

(* A page comes, as it was asked for.                                      *)
LEMMA ListEventsStep ==
  ASSUME IInv, ListEvents
  PROVE  IInv'
<1>1. PICK page \in GetEvents(Request) : Received(page, FALSE)
  BY DEF ListEvents, Request
<1>2. UNCHANGED <<backend, rows, processed, ranged, stats>> /\ client.pc = "paging"
  BY <1>1 DEF ListEvents, Received, table
<1>3. page \subseteq rows /\ rows \subseteq Logs
  BY Answered DEF IInv, TypeOK
<1>4. /\ client'.pc = IF LastPage(page) THEN "done" ELSE "paging"
      /\ client'.offset = client.offset + client.limit
      /\ client'.seen = client.seen \cup page
      /\ client'.there = client.there /\ client'.limit = client.limit
      /\ client'.disturbed = client.disturbed
  BY <1>1 DEF Received, IInv, TypeOK, Clients
<1>5. client' \in Clients
  <2>1. client.offset + client.limit \in Int
    BY ClientFields DEF IInv
  <2>2. QED
    BY <1>1, <1>3, <2>1 DEF Received, IInv, TypeOK, Clients
<1>6. TypeOK' /\ StatsInv'
  BY <1>2, <1>5 DEF IInv, TypeOK, StatsInv
<1>7. CASE client.limit <= 0
  <2>1. page = rows
    BY <1>2, <1>7, AnsweredAll DEF IInv, PagingInv
  <2>2. client'.pc = "done"
    BY <1>4, <1>7 DEF LastPage
  <2>3. client'.there \ client'.seen = {}
    BY <1>4, <2>1 DEF IInv, PagingInv
  <2>4. QED
    BY <1>2, <1>4, <1>6, <2>2, <2>3 DEF IInv, PagingInv, PagingSkipsNothing
<1>8. CASE client.limit > 0
  <2>1. /\ client.limit \in Nat /\ client.offset \in Nat
        /\ client.offset + client.limit >= 0
    BY <1>2, <1>8, ClientFields DEF IInv, PagingInv
  <2>2. page \in Pages(rows, client.limit, client.offset)
    BY <1>8, <2>1, AnsweredPage DEF IInv
  <2>3. ASSUME NEW log \in Unseen', ~client.disturbed, ~Tied(log)
        PROVE  Cardinality(Ahead(log)) >= client.offset + client.limit /\ ~LastPage(page)
    <3>1. log \in Unseen /\ log \in rows \ page
      BY <1>4, <2>3 DEF Unseen, IInv, PagingInv
    <3>2. Cardinality(Ahead(log)) >= client.offset
      BY <1>2, <2>3, <3>1 DEF IInv, PagingInv
    <3>3. /\ Cardinality(Ahead(log)) >= client.offset + client.limit
          /\ Cardinality(page) = client.limit
      BY <1>3, <2>1, <2>2, <2>3, <3>1, <3>2, NextPage
    <3>4. QED
      BY <1>8, <2>1, <3>3 DEF LastPage
  <2>4. \A log : Tied(log)' = Tied(log) /\ Ahead(log)' = Ahead(log)
    BY <1>2 DEF Tied, Ahead
  <2>5. PagingSkipsNothing'
    <3>1. CASE LastPage(page)
      BY <1>2, <1>4, <2>3, <3>1 DEF PagingSkipsNothing, Unseen, Tied
    <3>2. CASE ~LastPage(page)
      BY <1>4, <3>2 DEF PagingSkipsNothing
    <3>3. QED
      BY <3>1, <3>2
  <2>6. client'.pc = "paging" /\ ~client'.disturbed =>
          \A log \in Unseen' : Tied(log)' \/ Cardinality(Ahead(log)') >= client'.offset
    BY <1>4, <2>3, <2>4
  <2>7. /\ client'.there \subseteq rows'
        /\ client'.offset >= 0 /\ ~(client'.limit <= 0)
    BY <1>2, <1>4, <1>8, <2>1 DEF IInv, PagingInv
  <2>8. PagingInv'
    BY <2>5, <2>6, <2>7 DEF PagingInv
  <2>9. QED
    BY <1>6, <2>8 DEF IInv
<1>9. QED
  BY <1>7, <1>8, ClientFields DEF IInv

LEMMA CutShortStep ==
  ASSUME IInv, ListEventsCutShort
  PROVE  IInv'
<1>1. PICK n \in 0 .. client.limit - 1 : \E page \in Pages(rows, n, client.offset) :
        Received(page, TRUE)
  BY DEF ListEventsCutShort
<1>2. PICK page \in Pages(rows, n, client.offset) : Received(page, TRUE)
  BY <1>1
<1>3. /\ UNCHANGED <<backend, rows, processed, ranged, stats>>
      /\ client.pc = "paging" /\ client.limit > 0
  BY <1>2 DEF ListEventsCutShort, Received, table
<1>4. page \subseteq rows /\ rows \subseteq Logs
  BY <1>2, PagesAreRows DEF IInv, TypeOK
<1>5. /\ client'.offset = client.offset + client.limit
      /\ client'.there = client.there /\ client'.limit = client.limit
      /\ client'.disturbed
  BY <1>2 DEF Received, IInv, TypeOK, Clients
<1>6. client.offset + client.limit \in Int /\ client.offset + client.limit >= 0
  BY <1>3, ClientFields DEF IInv, PagingInv
<1>7. client' \in Clients
  BY <1>2, <1>4, <1>6 DEF Received, IInv, TypeOK, Clients
<1>8. TypeOK' /\ StatsInv'
  BY <1>3, <1>7 DEF IInv, TypeOK, StatsInv
<1>9. ~(client.limit <= 0)
  BY <1>3, ClientFields DEF IInv
<1>10. PagingInv'
  BY <1>3, <1>5, <1>6, <1>9 DEF IInv, PagingInv, PagingSkipsNothing
<1>11. QED
  BY <1>8, <1>10 DEF IInv

(* A statement of the statistics.                                          *)
LEMMA StatementStep ==
  ASSUME IInv, UNCHANGED <<backend, table, client>>, stats' \in Stats, StatsInv'
  PROVE  IInv'
<1>1. TypeOK' /\ PagingInv'
  BY DEF IInv, TypeOK, PagingInv, PagingSkipsNothing, Unseen, Ahead, Tied, table
<1>2. QED
  BY <1>1 DEF IInv

LEMMA InRange ==
  ASSUME TypeOK
  PROVE  /\ IsFiniteSet(ranged) /\ Cardinality(ranged) \in Nat
         /\ Cardinality(ranged \cap processed) \in Nat
         /\ Cardinality(ranged \ processed) \in Nat
         /\ Cardinality(ranged \ processed)
              = Cardinality(ranged) - Cardinality(ranged \cap processed)
<1>1. ranged \subseteq Logs
  BY DEF TypeOK
<1>2. /\ IsFiniteSet(ranged) /\ Cardinality(ranged) \in Nat
      /\ Cardinality(ranged \cap processed) \in Nat
      /\ Cardinality(ranged \ processed) \in Nat
  BY <1>1, Finite
<1>3. QED
  BY <1>2, FS_Difference

LEMMA CountTotalStep ==
  ASSUME IInv, CountTotal
  PROVE  IInv'
<1>1. stats' = [pc |-> "byType", total |-> Cardinality(ranged), byType |-> 0,
                byContract |-> 0, processed |-> 0, failed |-> 0,
                disturbed |-> FALSE]
  BY DEF CountTotal, NoStats
<1>2. Cardinality(ranged) \in Nat /\ ranged' = ranged
  BY InRange DEF IInv, CountTotal, table
<1>3. stats' \in Stats
  BY <1>1, <1>2 DEF Stats, StatsPlaces
<1>4. StatsInv'
  BY <1>1, <1>2 DEF StatsInv
<1>5. QED
  BY <1>3, <1>4, StatementStep DEF CountTotal

LEMMA CountGroupStep ==
  ASSUME IInv, CountByType \/ CountByContract \/ CountByHour
  PROVE  IInv'
<1>1. /\ Cardinality(ranged) \in Nat /\ UNCHANGED <<backend, table, client>>
      /\ ranged' = ranged
  BY InRange DEF IInv, CountByType, CountByContract, CountByHour, Counted, table
<1>2. stats' \in Stats
  <2>1. /\ stats \in Stats
        /\ stats' \in {[stats EXCEPT !.pc = "byContract", !.byType = Cardinality(ranged)],
                       [stats EXCEPT !.pc = "byHour", !.byContract = Cardinality(ranged)],
                       [stats EXCEPT !.pc = "processed"]}
    BY DEF CountByType, CountByContract, CountByHour, Counted, IInv, TypeOK
  <2>2. QED
    BY <1>1, <2>1 DEF Stats, StatsPlaces
<1>3. StatsTyped
  BY StatsFields DEF IInv
<1>4. CASE CountByType
  <2>1. /\ stats.pc = "byType" /\ stats'.pc = "byContract"
        /\ stats'.byType = Cardinality(ranged)
        /\ stats'.total = stats.total /\ stats'.disturbed = stats.disturbed
    BY <1>4 DEF CountByType, Counted, IInv, TypeOK, Stats
  <2>2. StatsInv'
    BY <1>1, <2>1 DEF StatsInv, IInv
  <2>3. QED
    BY <1>1, <1>2, <2>2, StatementStep
<1>5. CASE CountByContract
  <2>1. /\ stats.pc = "byContract" /\ stats'.pc = "byHour"
        /\ stats'.byContract = Cardinality(ranged)
        /\ stats'.total = stats.total /\ stats'.byType = stats.byType
        /\ stats'.disturbed = stats.disturbed
    BY <1>5 DEF CountByContract, Counted, IInv, TypeOK, Stats
  <2>2. StatsInv'
    BY <1>1, <2>1 DEF StatsInv, IInv
  <2>3. QED
    BY <1>1, <1>2, <2>2, StatementStep
<1>6. CASE CountByHour
  <2>1. /\ stats.pc = "byHour" /\ stats'.pc = "processed"
        /\ stats'.total = stats.total /\ stats'.byType = stats.byType
        /\ stats'.byContract = stats.byContract /\ stats'.disturbed = stats.disturbed
    BY <1>6 DEF CountByHour, Counted, IInv, TypeOK, Stats
  <2>2. StatsInv'
    BY <1>1, <2>1 DEF StatsInv, IInv
  <2>3. QED
    BY <1>1, <1>2, <2>2, StatementStep
<1>7. QED
  BY <1>4, <1>5, <1>6

LEMMA Shares ==
  ASSUME NEW all \in Nat, NEW done \in Nat, NEW counted \in Nat, NEW n \in Nat,
         counted <= done, n <= all - done
  PROVE  counted + n <= all
OBVIOUS

(* The last two statements: their count, or 0.                             *)
LEMMA LastCounts ==
  ASSUME IInv, UNCHANGED <<backend, table, client>>,
         NEW n \in Nat,
         \/ /\ stats.pc = "processed" /\ n <= Cardinality(ranged \cap processed)
            /\ stats' = [stats EXCEPT !["processed"] = n, !.pc = "failed"]
         \/ /\ stats.pc = "failed" /\ n <= Cardinality(ranged \ processed)
            /\ stats' = [stats EXCEPT !["failed"] = n, !.pc = "done"]
  PROVE  IInv'
<1>1. stats' \in Stats
  BY DEF IInv, TypeOK, Stats, StatsPlaces
<1>2. /\ stats'.total = stats.total /\ stats'.byType = stats.byType
      /\ stats'.byContract = stats.byContract
      /\ stats'.disturbed = stats.disturbed
      /\ ranged' = ranged /\ processed' = processed
  BY DEF IInv, TypeOK, Stats, table
<1>3. CASE stats.pc = "processed"
  <2>1. stats'.pc = "failed" /\ stats'.processed = n
    BY <1>3 DEF IInv, TypeOK, Stats
  <2>2. StatsInv'
    BY <1>2, <1>3, <2>1 DEF StatsInv, IInv
  <2>3. QED
    BY <1>1, <2>2, StatementStep
<1>4. CASE stats.pc = "failed"
  <2>1. stats'.pc = "done" /\ stats'.failed = n /\ stats'.processed = stats.processed
    BY <1>4 DEF IInv, TypeOK, Stats
  <2>2. StatsTyped
    BY StatsFields DEF IInv
  <2>3. ASSUME ~stats.disturbed PROVE stats.processed + n <= Cardinality(ranged)
    <3>1. stats.processed <= Cardinality(ranged \cap processed)
      BY <1>4, <2>3 DEF StatsInv, IInv
    <3>2. n <= Cardinality(ranged \ processed)
      BY <1>4
    <3>3. stats.processed \in Nat
      BY <2>2 DEF StatsTyped
    <3>4. /\ Cardinality(ranged) \in Nat /\ Cardinality(ranged \cap processed) \in Nat
          /\ Cardinality(ranged \ processed)
               = Cardinality(ranged) - Cardinality(ranged \cap processed)
      BY InRange DEF IInv
    <3>5. QED
      BY <3>1, <3>2, <3>3, <3>4, Shares
  <2>4. StatsInv'
    BY <1>2, <1>4, <2>1, <2>3 DEF StatsInv, IInv
  <2>5. QED
    BY <1>1, <2>4, StatementStep
<1>5. QED
  BY <1>3, <1>4

LEMMA LastCountsStep ==
  ASSUME IInv, CountProcessed \/ CountFailed
  PROVE  IInv'
<1>1. CASE CountProcessed
  <2>1. /\ stats.pc = "processed" /\ UNCHANGED <<backend, table, client>>
        /\ stats' = [stats EXCEPT !["processed"] = Cardinality(ranged \cap processed),
                                  !.pc = "failed"]
    BY <1>1 DEF CountProcessed, Counted
  <2>2. /\ Cardinality(ranged \cap processed) \in Nat
        /\ Cardinality(ranged \cap processed) <= Cardinality(ranged \cap processed)
    BY InRange DEF IInv
  <2>3. QED
    BY <2>1, <2>2, LastCounts
<1>2. CASE CountFailed
  <2>1. /\ stats.pc = "failed" /\ UNCHANGED <<backend, table, client>>
        /\ stats' = [stats EXCEPT !["failed"] = Cardinality(ranged \ processed),
                                  !.pc = "done"]
    BY <1>2 DEF CountFailed, Counted
  <2>2. /\ Cardinality(ranged \ processed) \in Nat
        /\ Cardinality(ranged \ processed) <= Cardinality(ranged \ processed)
    BY InRange DEF IInv
  <2>3. QED
    BY <2>1, <2>2, LastCounts
<1>3. QED
  BY <1>1, <1>2

LEMMA FailureStep ==
  ASSUME IInv, CountCutShort \/ StatementFails
  PROVE  IInv'
<1>1. CASE CountCutShort
  <2>1. Cardinality(ranged) \in Nat
    BY InRange DEF IInv
  <2>2. stats' \in Stats /\ stats'.disturbed = TRUE
    <3>1. PICK place \in {<<"byType", "byContract">>, <<"byContract", "byHour">>} :
            \E n \in 0 .. Cardinality(ranged) - 1 :
              stats' = [stats EXCEPT ![place[1]] = n, !.pc = place[2], !.disturbed = TRUE]
      BY <1>1 DEF CountCutShort
    <3>2. PICK n \in 0 .. Cardinality(ranged) - 1 :
            stats' = [stats EXCEPT ![place[1]] = n, !.pc = place[2], !.disturbed = TRUE]
      BY <3>1
    <3>3. n \in Nat
      BY <2>1
    <3>4. place[1] \in {"byType", "byContract"} /\ place[2] \in StatsPlaces
      BY DEF StatsPlaces
    <3>5. stats \in Stats
      BY DEF IInv, TypeOK
    <3> HIDE DEF StatsPlaces
    <3>6. QED
      BY <3>2, <3>3, <3>4, <3>5 DEF Stats
  <2>3. StatsInv'
    BY <2>2 DEF StatsInv
  <2>4. QED
    BY <1>1, <2>2, <2>3, StatementStep DEF CountCutShort
<1>2. CASE stats' = NoStats /\ UNCHANGED <<backend, table, client>>
  <2>1. stats' \in Stats /\ StatsInv'
    BY <1>2 DEF NoStats, Stats, StatsPlaces, StatsInv
  <2>2. QED
    BY <1>2, <2>1, StatementStep
<1>3. CASE \/ stats.pc = "processed" /\ Counted("processed", 0, "failed")
           \/ stats.pc = "failed" /\ Counted("failed", 0, "done")
  <2>1. UNCHANGED <<backend, table, client>>
    BY <1>3 DEF Counted
  <2>2. \/ stats.pc = "processed" /\ stats' = [stats EXCEPT !["processed"] = 0, !.pc = "failed"]
        \/ stats.pc = "failed" /\ stats' = [stats EXCEPT !["failed"] = 0, !.pc = "done"]
    BY <1>3 DEF Counted
  <2>3. /\ 0 \in Nat /\ 0 <= Cardinality(ranged \cap processed)
        /\ 0 <= Cardinality(ranged \ processed)
    BY InRange DEF IInv
  <2>4. QED
    BY <2>1, <2>2, <2>3, LastCounts
<1>4. QED
  BY <1>1, <1>2, <1>3 DEF StatementFails

LEMMA NextIInv == IInv /\ [Next]_vars => IInv'
<1> SUFFICES ASSUME IInv, [Next]_vars PROVE IInv'
  OBVIOUS
<1>1. CASE \E log \in Logs : Save(log) \/ MarkProcessed(log)
  BY <1>1, SaveStep, MarkProcessedStep
<1>2. CASE DeleteEvent \/ DeleteEventsByBlockRange \/ Cleanup
  <2>1. PICK gone \in SUBSET rows : Delete(gone)
    BY <1>2 DEF DeleteEvent, DeleteEventsByBlockRange, Cleanup
  <2>2. QED
    BY <2>1, DeleteStep
<1>3. CASE StartPaging \/ ListEvents \/ ListEventsCutShort
  BY <1>3, StartPagingStep, ListEventsStep, CutShortStep
<1>4. CASE \/ CountTotal \/ CountByType \/ CountByContract \/ CountByHour
           \/ CountProcessed \/ CountFailed \/ CountCutShort \/ StatementFails
  BY <1>4, CountTotalStep, CountGroupStep, LastCountsStep, FailureStep
<1>5. CASE UNCHANGED vars
  <2>1. UNCHANGED <<backend, rows, processed, ranged, client, stats>>
    BY <1>5 DEF vars, table
  <2>2. TypeOK' /\ PagingInv' /\ StatsInv'
    BY <2>1 DEF IInv, TypeOK, PagingInv, PagingSkipsNothing, Unseen, Ahead, Tied, StatsInv
  <2>3. QED
    BY <2>2 DEF IInv
<1>6. QED
  BY <1>1, <1>2, <1>3, <1>4, <1>5 DEF Next

LEMMA Invariance == Spec => []IInv
BY InitIInv, NextIInv, PTL DEF Spec
-----------------------------------------------------------------------------
(* The ways to ask for events.                                             *)
LEMMA Texts ==
  /\ \A a, b : F!EqualFold(F!Hex(a), F!Hex(b)) <=> a = b
  /\ \A a, b : F!EqualFold(F!Text(a, FALSE), Text(b, FALSE)) <=> a = b
  /\ \A a, l : S!EqualFold(Text(a, l), S!Text(a, FALSE)) /\ S!EqualFold(Text(a, l), S!Hex(a))
  /\ \A a, b : b \in DigitsOnly => (S!Hex(a) = S!ToLower(S!Hex(b)) <=> a = b)
  /\ \A a, b : b \in DigitsOnly => (P!Hex(a) = P!ToLower(P!Hex(b)) <=> a = b)
<1> DEFINE text(a, l) == [of |-> a, lower |-> l]
<1>1. \A a, b, l : (text(a, l) = text(b, l)) <=> a = b
  <2>1. \A a, l : text(a, l).of = a
    OBVIOUS
  <2>2. QED
    BY <2>1
<1>2. /\ \A a : F!Hex(a) = text(a, a \in DigitsOnly)
      /\ \A a : S!Hex(a) = text(a, a \in DigitsOnly)
      /\ \A a : P!Hex(a) = text(a, a \in DigitsOnly)
      /\ \A a : F!Text(a, FALSE) = text(a, FALSE)
      /\ \A a : S!Text(a, FALSE) = text(a, FALSE)
      /\ \A a, l : Text(a, l) = text(a, l)
  BY DEF F!Hex, S!Hex, P!Hex, F!Text, S!Text, P!Text, Text
<1>3. /\ \A a, l : F!ToLower(text(a, l)) = text(a, TRUE)
      /\ \A a, l : S!ToLower(text(a, l)) = text(a, TRUE)
      /\ \A a, l : P!ToLower(text(a, l)) = text(a, TRUE)
  <2>1. \A a, l, m : [text(a, l) EXCEPT !.lower = m] = text(a, m)
    OBVIOUS
  <2> HIDE DEF text
  <2>2. QED
    BY <2>1, Zenon DEF F!ToLower, S!ToLower, P!ToLower
<1> HIDE DEF text
<1>4. ASSUME NEW a, NEW b, NEW l, NEW m
      PROVE  F!EqualFold(text(a, l), text(b, m)) <=> a = b
  <2>1. F!EqualFold(text(a, l), text(b, m)) <=> text(a, TRUE) = text(b, TRUE)
    BY <1>3, Zenon DEF F!EqualFold
  <2>2. QED
    BY <1>1, <2>1, Zenon
<1>5. /\ \A a, b : F!EqualFold(F!Hex(a), F!Hex(b)) <=> a = b
      /\ \A a, b : F!EqualFold(F!Text(a, FALSE), Text(b, FALSE)) <=> a = b
      /\ \A a, l : S!EqualFold(Text(a, l), S!Text(a, FALSE)) /\ S!EqualFold(Text(a, l), S!Hex(a))
  <2>1. \A a, b, l, m : S!EqualFold(text(a, l), text(a, m))
    BY <1>3, Zenon DEF S!EqualFold
  <2>2. ASSUME NEW a, NEW b PROVE F!EqualFold(F!Hex(a), F!Hex(b)) <=> a = b
    <3>1. F!EqualFold(text(a, a \in DigitsOnly), text(b, b \in DigitsOnly)) <=> a = b
      BY <1>4
    <3>2. QED
      BY <1>2, <3>1, Zenon
  <2>3. ASSUME NEW a, NEW b PROVE F!EqualFold(F!Text(a, FALSE), Text(b, FALSE)) <=> a = b
    <3>1. F!EqualFold(text(a, FALSE), text(b, FALSE)) <=> a = b
      BY <1>4
    <3>2. F!Text(a, FALSE) = text(a, FALSE) /\ Text(b, FALSE) = text(b, FALSE)
      BY <1>2, Zenon
    <3>3. QED
      BY <3>1, <3>2, Zenon
  <2>4. ASSUME NEW a, NEW l
        PROVE  S!EqualFold(Text(a, l), S!Text(a, FALSE)) /\ S!EqualFold(Text(a, l), S!Hex(a))
    BY <1>2, <2>1, Zenon
  <2>5. QED
    BY <2>2, <2>3, <2>4
<1>6. ASSUME NEW a, NEW b \in DigitsOnly
      PROVE  (text(a, a \in DigitsOnly) = text(b, TRUE)) <=> a = b
  <2>1. CASE a = b
    <3>1. (a \in DigitsOnly) = TRUE
      BY <2>1
    <3>2. QED
      BY <2>1, <3>1
  <2>2. CASE a # b
    <3>1. text(a, a \in DigitsOnly).of # text(b, TRUE).of
      BY <2>2 DEF text
    <3>2. QED
      BY <2>2, <3>1
  <2>3. QED
    BY <2>1, <2>2
<1>7. ASSUME NEW a, NEW b \in DigitsOnly
      PROVE  /\ S!Hex(a) = S!ToLower(S!Hex(b)) <=> a = b
             /\ P!Hex(a) = P!ToLower(P!Hex(b)) <=> a = b
  <2>1. S!ToLower(S!Hex(b)) = text(b, TRUE) /\ P!ToLower(P!Hex(b)) = text(b, TRUE)
    BY <1>2, <1>3, Zenon
  <2>2. QED
    BY <1>2, <1>6, <2>1, Zenon
<1>8. QED
  BY <1>5, <1>7

(* The rows that a filter means.                                           *)
Meant(f) ==
  {log \in rows :
     /\ f.contract = Any \/ log.contract = f.contract
     /\ f.name = Any \/ log.name = f.name
     /\ f.from = Any \/ log.block >= f.from
     /\ f.to = Any \/ log.block <= f.to
     /\ f.processed = Any \/ (log \in processed) = f.processed}

LEMMA SelectedAreMeant ==
  ASSUME NEW f, f.contract \in DigitsOnly \cup {Any}
  PROVE  /\ S!Selected(f, rows, processed) = Meant(f)
         /\ P!Selected(f, rows, processed) = Meant(f)
<1>1. S!Selected(f, rows, processed) = Meant(f)
  BY Texts DEF S!Selected, Meant
<1>2. P!Selected(f, rows, processed) = Meant(f)
  BY Texts DEF P!Selected, Meant
<1>3. QED
  BY <1>1, <1>2

LEMMA CountIsMeant ==
  ASSUME TypeOK, NEW f, f.contract \in DigitsOnly \cup {Any}
  PROVE  GetEventCount(f) = Cardinality(Meant(f))
<1>1. \A R : S!Cardinality(R) = Cardinality(R)
  BY DEF S!Cardinality, Cardinality
<1>2. \A R : P!Cardinality(R) = Cardinality(R)
  BY DEF P!Cardinality, Cardinality
<1>3. QED
  BY <1>1, <1>2, SelectedAreMeant DEF GetEventCount, S!GetEventCount, P!GetEventCount

LEMMA ListIsMeant ==
  ASSUME TypeOK, NEW f, f.contract \in DigitsOnly \cup {Any}, f.limit = 0, f.offset = 0,
         NEW found \in GetEvents(f)
  PROVE  found = Meant(f)
<1>1. found \in Listed(f, Meant(f))
  BY SameListed, SelectedAreMeant DEF GetEvents, S!GetEvents, P!GetEvents
<1>2. Meant(f) \subseteq Logs
  BY DEF TypeOK, Meant
<1>3. QED
  BY <1>1, <1>2, AllListed

LEMMA FilterIsMeant ==
  ASSUME NEW f, f.processed = Any
  PROVE  F!FilterEvents(rows, AsCriteria(f)) = Meant(f)
<1>1. ASSUME NEW log \in rows
      PROVE  F!MatchesCriteria(log, AsCriteria(f)) <=> log \in Meant(f)
  <2>1. F!OfContract(log, {f.contract} \ {Any}) <=> f.contract = Any \/ log.contract = f.contract
    BY Texts DEF F!OfContract
  <2>2. (\/ AsCriteria(f).names = {}
         \/ \E name \in AsCriteria(f).names : F!EqualFold(F!Text(log.name, FALSE), name))
        <=> (f.name = Any \/ log.name = f.name)
    <3>1. CASE f.name = Any
      BY <3>1 DEF AsCriteria
    <3>2. CASE f.name # Any
      <4>1. AsCriteria(f).names = {Text(f.name, FALSE)}
        BY <3>2 DEF AsCriteria
      <4>2. QED
        <5>1. \E name \in {Text(f.name, FALSE)} : F!EqualFold(F!Text(log.name, FALSE), name)
              <=> F!EqualFold(F!Text(log.name, FALSE), Text(f.name, FALSE))
          OBVIOUS
        <5>2. F!EqualFold(F!Text(log.name, FALSE), Text(f.name, FALSE)) <=> log.name = f.name
          BY Texts
        <5>3. QED
          BY <3>2, <4>1, <5>1, <5>2
    <3>3. QED
      BY <3>1, <3>2
  <2>3. /\ AsCriteria(f).contracts = {f.contract} \ {Any} /\ AsCriteria(f).signatures = {}
        /\ AsCriteria(f).fields = {} /\ AsCriteria(f).from = f.from /\ AsCriteria(f).to = f.to
    BY DEF AsCriteria
  <2>4. QED
    BY <2>1, <2>2, <2>3 DEF F!MatchesCriteria, Meant
<1>2. QED
  BY <1>1 DEF F!FilterEvents, Meant

LEMMA SearchFinds ==
  ASSUME TypeOK, NEW log \in rows, NEW lower \in BOOLEAN, NEW text \in {log.name, log.contract},
         NEW found \in SearchEvents(Text(text, lower), Everything)
  PROVE  log \in found
<1> DEFINE query == Text(text, lower)
           hits == {d \in rows : query = Any \/
                      \E t \in {S!Text(d.name, FALSE), S!Hex(d.contract), S!Text(d.tx, TRUE)} :
                        S!EqualFold(query, t)}
<1>1. log \in hits
  <2>1. \E t \in {S!Text(log.name, FALSE), S!Hex(log.contract), S!Text(log.tx, TRUE)} :
          S!EqualFold(query, t)
    BY Texts, Zenon
  <2>2. QED
    BY <2>1
<1>2. found \in Listed(Everything, hits)
  <2>1. CASE SQLite
    BY <2>1, SameListed DEF SearchEvents, S!SearchEvents, Everything
  <2>2. CASE ~SQLite
    <3>1. \A d, e : P!EqualFold(d, e) <=> S!EqualFold(d, e)
      BY DEF P!EqualFold, S!EqualFold, P!ToLower, S!ToLower
    <3>2. \A d : P!Hex(d) = S!Hex(d)
      BY DEF P!Hex, S!Hex, P!Text, S!Text
    <3>3. \A d, l : P!Text(d, l) = S!Text(d, l)
      BY DEF P!Text, S!Text
    <3>4. QED
      BY <2>2, <3>1, <3>2, <3>3, SameListed DEF SearchEvents, P!SearchEvents
  <2>3. QED
    BY <2>1, <2>2
<1>3. hits \subseteq Logs
  BY DEF TypeOK
<1>4. Everything.limit = 0 /\ Everything.offset = 0
  BY DEF Everything
<1> HIDE DEF hits
<1>5. found = hits
  BY <1>2, <1>3, <1>4, AllListed
<1>6. QED
  BY <1>1, <1>5

LEMMA Agreement == TypeOK => QueriesAgree
<1> SUFFICES ASSUME TypeOK PROVE QueriesAgree
  OBVIOUS
<1> DEFINE Filter(c, n, from, to, p) ==
             [Everything EXCEPT !.contract = c, !.name = n, !.from = from,
                                !.to = to, !.processed = p]
           Agrees(f, p) ==
             \A found \in GetEvents(f) :
               /\ Cardinality(found) = GetEventCount(f)
               /\ p = Any => found = F!FilterEvents(rows, AsCriteria(f))
               /\ F!ValidFilter(AsCriteria(f)) \/ found = {}
<1>1. ASSUME NEW c \in DigitsOnly \cup {Any}, NEW n \in Names \cup {Any},
             NEW from \in Blocks \cup {Any}, NEW to \in Blocks \cup {Any},
             NEW p \in BOOLEAN \cup {Any}, NEW f, f = Filter(c, n, from, to, p),
             NEW found \in GetEvents(f)
      PROVE  /\ Cardinality(found) = GetEventCount(f)
             /\ p = Any => found = F!FilterEvents(rows, AsCriteria(f))
             /\ F!ValidFilter(AsCriteria(f)) \/ found = {}
  <2>1. /\ f.contract = c /\ f.from = from /\ f.to = to /\ f.processed = p
        /\ f.limit = 0 /\ f.offset = 0
    BY <1>1 DEF Everything
  <2>2. found = Meant(f)
    BY <1>1, <2>1, ListIsMeant
  <2>3. Cardinality(found) = GetEventCount(f)
    BY <2>1, <2>2, CountIsMeant
  <2>4. p = Any => found = F!FilterEvents(rows, AsCriteria(f))
    BY <2>1, <2>2, FilterIsMeant
  <2>5. F!ValidFilter(AsCriteria(f)) \/ found = {}
    <3>1. SUFFICES ASSUME from # Any, to # Any, ~(from <= to), NEW log \in found PROVE FALSE
      BY <2>1 DEF F!ValidFilter, AsCriteria
    <3>2. log.block >= from /\ log.block <= to /\ log \in Logs
      BY <2>1, <2>2, <3>1 DEF Meant, TypeOK
    <3>3. from \in Nat /\ to \in Nat /\ log.block \in Nat
      BY <1>1, <3>1, <3>2, TableAssumption DEF Blocks
    <3>4. QED
      BY <3>1, <3>2, <3>3
  <2>6. QED
    BY <2>3, <2>4, <2>5
<1>2. ASSUME NEW log \in rows, NEW found \in GetEventByHash(log.tx)
      PROVE  \E e \in found : e.tx = log.tx
  BY <1>2 DEF GetEventByHash, S!GetEventByHash, P!GetEventByHash
<1>3. ASSUME NEW log \in rows, NEW lower \in BOOLEAN, NEW text \in {log.name, log.contract},
             NEW found \in SearchEvents(Text(text, lower), Everything)
      PROVE  log \in found
  BY <1>3, SearchFinds
<1>4. \A c \in DigitsOnly \cup {Any}, n \in Names \cup {Any},
         from, to \in Blocks \cup {Any}, p \in BOOLEAN \cup {Any} :
        Agrees(Filter(c, n, from, to, p), p)
  <2>1. SUFFICES ASSUME NEW c \in DigitsOnly \cup {Any}, NEW n \in Names \cup {Any},
                        NEW from \in Blocks \cup {Any}, NEW to \in Blocks \cup {Any},
                        NEW p \in BOOLEAN \cup {Any}
                 PROVE  Agrees(Filter(c, n, from, to, p), p)
    OBVIOUS
  <2> HIDE DEF Filter
  <2>2. QED
    BY <1>1
<1>5. \A log \in rows, lower \in BOOLEAN :
        /\ \A found \in GetEventByHash(log.tx) : \E e \in found : e.tx = log.tx
        /\ \A text \in {log.name, log.contract} :
             \A found \in SearchEvents(Text(text, lower), Everything) : log \in found
  BY <1>2, <1>3
<1>6. QED
  BY <1>4, <1>5 DEF QueriesAgree
-----------------------------------------------------------------------------
(* Every variable keeps its type: processed events and those in the range  *)
(* of the statistics have a row (UpdateEvent, the deletions).              *)
THEOREM ListingTypeCorrect == Spec => []TypeOK
<1>1. IInv => TypeOK
  BY DEF IInv
<1>2. QED
  BY <1>1, Invariance, PTL

(* A client that pages to the end while events are saved and processed     *)
(* has seen every event that was there throughout and does not share its   *)
(* place in the order (listEventsHandler, GetEvents of both back ends).    *)
THEOREM NoEventIsSkipped == Spec => []PagingSkipsNothing
<1>1. IInv => PagingSkipsNothing
  BY DEF IInv, PagingInv
<1>2. QED
  BY <1>1, Invariance, PTL

(* The sums by type and by contract count no less than the statements      *)
(* before them, and no event is counted as processed and as failed,        *)
(* whatever is saved and processed between them (GetEventStats of SQLite). *)
THEOREM StatsDoAddUp == Spec => []StatsAddUp
<1>1. IInv => StatsAddUp
  <2> SUFFICES ASSUME IInv, stats.pc = "done", ~stats.disturbed PROVE StatsAddUp
    BY DEF StatsAddUp
  <2>1. QED
    BY DEF IInv, StatsInv, StatsAddUp
<1>2. QED
  BY <1>1, Invariance, PTL

(* For any contents of the table, the ways to ask for events agree, in     *)
(* both back ends and in memory (GetEvents, GetEventCount, SearchEvents,   *)
(* GetEventByHash, FilterEvents).                                          *)
THEOREM QueriesDoAgree == Spec => []QueriesAgree
BY Agreement, ListingTypeCorrect, PTL
=============================================================================
