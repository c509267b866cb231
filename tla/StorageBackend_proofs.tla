----------------------- MODULE StorageBackend_proofs -----------------------
(***************************************************************************)
(* Proofs about the two back ends: their types, one row per log, and that  *)
(* they implement module Storage, for any ids, batches and connections.    *)
(***************************************************************************)
EXTENDS StorageBackend, TLAPS

LEMMA RowFacts ==
  ASSUME NEW id \in Ids, NEW p \in BOOLEAN
  PROVE  Row(id, p) \in Events /\ Id(Row(id, p)) = id /\ Row(id, p).log = id.log
PROOF
  <1>1. id = [log |-> id.log, scan |-> id.scan]
    BY StorageAssumption
  <1>2. QED
    BY <1>1 DEF Row, Events, Id

LEMMA EventFacts ==
  ASSUME NEW e \in Events
  PROVE  /\ Id(e) \in Ids /\ e.log = Id(e).log /\ e.log \in Nat
         /\ e = Row(Id(e), e.processed) /\ e.processed \in BOOLEAN
PROOF
  <1>1. PICK id \in Ids, p \in BOOLEAN : e = Row(id, p)
    BY DEF Events
  <1>2. id = [log |-> id.log, scan |-> id.scan] /\ id.log \in Nat
    BY StorageAssumption
  <1>3. QED
    BY <1>1, <1>2 DEF Row, Id

(* Two rows of one table with the same log are the same row. *)
LEMMA LogOfId ==
  ASSUME NEW d \in Events, NEW e \in Events, Id(d) = Id(e)
  PROVE  d.log = e.log
PROOF BY EventFacts

(* What a statement may do to well-formed tables: keep them well-formed,   *)
(* and change nothing unless it answers "ok".                              *)
Fine(out, t) ==
  /\ out.tables \in Tables /\ OnePerLog(out.tables.events)
  /\ out.result \in {"ok", "notfound", "error"}
  /\ out.result # "ok" => out.tables = t

LEMMA ChangeEventsFine ==
  ASSUME NEW t \in Tables, NEW gone, NEW new \in SUBSET Events, NEW k,
         OnePerLog((t.events \ gone) \cup new), OnePerLog(t.events)
  PROVE  /\ Fine(S!ChangeEvents(t, gone, new, k), t)
         /\ S!ChangeEvents(t, gone, new, k).result = "ok" =>
              S!ChangeEvents(t, gone, new, k).tables =
                [t EXCEPT !.events = (@ \ gone) \cup new]
PROOF
  <1>1. t.events \subseteq Events
    BY DEF Tables
  <1>2. [t EXCEPT !.events = (@ \ gone) \cup new] \in Tables
    BY <1>1 DEF Tables
  <1>3. [t EXCEPT !.events = (@ \ gone) \cup new].events = (t.events \ gone) \cup new
    BY DEF Tables
  <1>4. QED
    BY <1>2, <1>3 DEF S!ChangeEvents, S!Ok, S!Error, Fine

-----------------------------------------------------------------------------
(* Inserting and updating events, in both back ends.                       *)

LEMMA WithEventsFine ==
  ASSUME NEW t \in Tables, NEW batch \in SUBSET Events,
         OnePerLog(t.events), OnePerLog(batch)
  PROVE  LET u == Promise!WithEvents(t, batch)
         IN  /\ u \in Tables /\ OnePerLog(u.events)
             /\ u.events = {d \in t.events : \A e \in batch : e.log # d.log} \cup batch
PROOF
  <1> DEFINE kept == {d \in t.events : \A e \in batch : e.log # d.log}
  <1>1. t.events \subseteq Events
    BY DEF Tables
  <1>2. Promise!WithEvents(t, batch) = [t EXCEPT !.events = kept \cup batch]
    BY DEF Promise!WithEvents, Tables
  <1>3. Promise!WithEvents(t, batch) \in Tables
    BY <1>1, <1>2 DEF Tables
  <1>4. Promise!WithEvents(t, batch).events = kept \cup batch
    BY <1>2 DEF Tables
  <1>5. OnePerLog(kept \cup batch)
    BY DEF OnePerLog
  <1>6. QED
    BY <1>3, <1>4, <1>5

LEMMA SQLiteSaveEvent ==
  ASSUME NEW t \in Tables, NEW e \in Events, NEW k, OnePerLog(t.events)
  PROVE  /\ Fine(S!SaveEvent(t, e, k), t)
         /\ S!SaveEvent(t, e, k).result = "ok" =>
              S!SaveEvent(t, e, k).tables = Promise!WithEvents(t, {e})
PROOF
  <1>1. t.events \subseteq Events
    BY DEF Tables
  <1>2. S!Replaced(t, e) = {d \in t.events : d.log = e.log}
    BY <1>1, LogOfId DEF S!Replaced, S!Id, Id
  <1>3. (t.events \ S!Replaced(t, e)) \cup {e}
          = {d \in t.events : \A b \in {e} : b.log # d.log} \cup {e}
    BY <1>2
  <1>4. OnePerLog((t.events \ S!Replaced(t, e)) \cup {e})
    BY <1>2 DEF OnePerLog
  <1>5. /\ Fine(S!ChangeEvents(t, S!Replaced(t, e), {e}, k), t)
        /\ S!ChangeEvents(t, S!Replaced(t, e), {e}, k).result = "ok" =>
             S!ChangeEvents(t, S!Replaced(t, e), {e}, k).tables =
               [t EXCEPT !.events = (@ \ S!Replaced(t, e)) \cup {e}]
    BY <1>4, ChangeEventsFine
  <1>6. QED
    BY <1>3, <1>5 DEF S!SaveEvent, Promise!WithEvents, Tables

(* Rewriting the row of an id, which is the only row of its log. *)
LEMMA RewriteRow ==
  ASSUME NEW t \in Tables, NEW e \in Events, OnePerLog(t.events),
         NEW old, old = {d \in t.events : Id(d) = Id(e)}, old # {}
  PROVE  [t EXCEPT !.events = (@ \ old) \cup {e}] = Promise!WithEvents(t, {e})
PROOF
  <1>1. t.events \subseteq Events
    BY DEF Tables
  <1>2. PICK d \in t.events : Id(d) = Id(e)
    OBVIOUS
  <1>3. d.log = e.log
    BY <1>1, <1>2, LogOfId
  <1>4. \A c \in t.events : c.log = e.log => c = d
    BY <1>3 DEF OnePerLog
  <1>5. \A c \in t.events : c \in old <=> c.log = e.log
    BY <1>1, <1>2, <1>4, LogOfId
  <1>6. (t.events \ old) \cup {e}
          = {c \in t.events : \A b \in {e} : b.log # c.log} \cup {e}
    BY <1>5
  <1>7. QED
    BY <1>6 DEF Promise!WithEvents, Tables

LEMMA UpdateEventFine ==
  ASSUME NEW t \in Tables, NEW e \in Events, OnePerLog(t.events),
         NEW out, out \in {S!UpdateEvent(t, e), P!UpdateEvent(t, e)}
  PROVE  /\ Fine(out, t)
         /\ out.result = "ok" =>
              /\ \E d \in t.events : Id(d) = Id(e)
              /\ out.tables = Promise!WithEvents(t, {e})
PROOF
  <1> DEFINE old == {d \in t.events : Id(d) = Id(e)}
  <1>1. CASE old = {}
    BY <1>1 DEF S!UpdateEvent, P!UpdateEvent, S!NotFound, P!NotFound, S!Id, P!Id, Id, Fine
  <1>2. CASE old # {}
    <2>1. out = [tables |-> Promise!WithEvents(t, {e}), result |-> "ok"]
      BY <1>2, RewriteRow
      DEF S!UpdateEvent, P!UpdateEvent, S!Ok, P!Ok, S!Id, P!Id, Id
    <2>2. QED
      BY <1>2, <2>1, WithEventsFine DEF Fine, OnePerLog
  <1>3. QED
    BY <1>1, <1>2

LEMMA MarkEventProcessedFine ==
  ASSUME NEW t \in Tables, NEW id \in Ids, OnePerLog(t.events)
  PROVE  S!MarkEventProcessed(t, id) = S!UpdateEvent(t, Row(id, TRUE))
PROOF
  <1>1. Id(Row(id, TRUE)) = id
    BY RowFacts
  <1>2. QED
    BY <1>1 DEF S!MarkEventProcessed, S!UpdateEvent, S!Id, Id, S!Row, Row

LEMMA PostgresSaveEvent ==
  ASSUME NEW t \in Tables, NEW e \in Events, OnePerLog(t.events)
  PROVE  /\ Fine(P!SaveEvent(t, e), t)
         /\ P!SaveEvent(t, e).result = "ok" =>
              P!SaveEvent(t, e).tables = Promise!WithEvents(t, {e})
PROOF
  <1>1. CASE \E d \in t.events : d.log = e.log /\ Id(d) # Id(e)
    BY <1>1 DEF P!SaveEvent, P!Error, P!Id, Id, Fine
  <1>2. CASE \A d \in t.events : d.log = e.log => Id(d) = Id(e)
    <2>1. t.events \subseteq Events
      BY DEF Tables
    <2>2. \A d \in t.events : Id(d) # Id(e) <=> e.log # d.log
      BY <1>2, <2>1, LogOfId
    <2>3. {d \in t.events : Id(d) # Id(e)} \cup {e}
            = {d \in t.events : \A b \in {e} : b.log # d.log} \cup {e}
      BY <2>2
    <2>4. P!SaveEvent(t, e) = [tables |-> Promise!WithEvents(t, {e}), result |-> "ok"]
      BY <1>2, <2>3 DEF P!SaveEvent, P!Ok, P!Id, Id, Promise!WithEvents, Tables
    <2>5. QED
      BY <2>4, WithEventsFine DEF Fine, OnePerLog
  <1>3. QED
    BY <1>1, <1>2

-----------------------------------------------------------------------------
(* Deleting events.                                                        *)

LEMMA DeletionFine ==
  ASSUME NEW t \in Tables, NEW gone, OnePerLog(t.events)
  PROVE  /\ Promise!WithoutEvents(t, gone) \in Tables
         /\ Promise!WithoutEvents(t, gone).events = t.events \ gone
         /\ OnePerLog(Promise!WithoutEvents(t, gone).events)
         /\ [t EXCEPT !.events = (@ \ gone) \cup {}] = Promise!WithoutEvents(t, gone)
PROOF
  <1>1. t.events \subseteq Events
    BY DEF Tables
  <1>2. Promise!WithoutEvents(t, gone) \in Tables
    BY <1>1 DEF Promise!WithoutEvents, Tables
  <1>3. Promise!WithoutEvents(t, gone).events = t.events \ gone
    BY DEF Promise!WithoutEvents, Tables
  <1>4. OnePerLog(t.events \ gone)
    BY DEF OnePerLog
  <1>5. (t.events \ gone) \cup {} = t.events \ gone
    OBVIOUS
  <1>6. QED
    BY <1>2, <1>3, <1>4, <1>5 DEF Promise!WithoutEvents

LEMMA ChangeEventsDeletes ==
  ASSUME NEW t \in Tables, NEW gone, NEW k, OnePerLog(t.events)
  PROVE  /\ Fine(S!ChangeEvents(t, gone, {}, k), t)
         /\ S!ChangeEvents(t, gone, {}, k).result = "ok" =>
              S!ChangeEvents(t, gone, {}, k).tables = Promise!WithoutEvents(t, gone)
PROOF
  <1>1. OnePerLog((t.events \ gone) \cup {})
    BY DEF OnePerLog
  <1>2. QED
    BY <1>1, ChangeEventsFine, DeletionFine

LEMMA DeleteEventFine ==
  ASSUME NEW t \in Tables, NEW id \in Ids, NEW k, OnePerLog(t.events),
         NEW out, out \in {S!DeleteEvent(t, id, k), P!DeleteEvent(t, id)}
  PROVE  /\ Fine(out, t)
         /\ out.result = "ok" =>
              /\ \E d \in t.events : Id(d) = id
              /\ out.tables = Promise!WithoutEvents(t, {d \in t.events : Id(d) = id})
PROOF
  <1> DEFINE old == {d \in t.events : Id(d) = id}
  <1>1. CASE old = {}
    BY <1>1 DEF S!DeleteEvent, P!DeleteEvent, S!NotFound, P!NotFound, S!Id, P!Id, Id, Fine
  <1>2. CASE old # {} /\ out = S!DeleteEvent(t, id, k)
    <2>1. out = S!ChangeEvents(t, old, {}, k)
      BY <1>2 DEF S!DeleteEvent, S!Id, Id
    <2>2. QED
      BY <1>2, <2>1, ChangeEventsDeletes
  <1>3. CASE old # {} /\ out = P!DeleteEvent(t, id)
    <2>1. out = [tables |-> [t EXCEPT !.events = @ \ old], result |-> "ok"]
      BY <1>3 DEF P!DeleteEvent, P!Ok, P!Id, Id
    <2>2. out.tables = Promise!WithoutEvents(t, old)
      BY <2>1 DEF Promise!WithoutEvents
    <2>3. out.result = "ok"
      BY <2>1
    <2>4. Promise!WithoutEvents(t, old) \in Tables
          /\ OnePerLog(Promise!WithoutEvents(t, old).events)
      BY DeletionFine
    <2>5. Fine(out, t)
      BY <2>2, <2>3, <2>4 DEF Fine
    <2>6. QED
      BY <1>3, <2>2, <2>5
  <1>4. QED
    BY <1>1, <1>2, <1>3

LEMMA DeleteRangeFine ==
  ASSUME NEW t \in Tables, NEW from, NEW to, NEW k, OnePerLog(t.events)
  PROVE  LET out == S!DeleteEventsByBlockRange(t, from, to, k)
         IN  /\ Fine(out, t)
             /\ out.result \in {"ok", "error"}
             /\ out.result = "ok" =>
                  out.tables = Promise!WithoutEvents(t,
                                 {d \in t.events : d.log \in from .. to})
PROOF
  <1>1. S!DeleteEventsByBlockRange(t, from, to, k).result \in {"ok", "error"}
    BY DEF S!DeleteEventsByBlockRange, S!ChangeEvents, S!Ok, S!Error
  <1>2. QED
    BY <1>1, ChangeEventsDeletes DEF S!DeleteEventsByBlockRange

-----------------------------------------------------------------------------
(* The other tables.                                                       *)

(* A change of the other columns keeps the events as they are. *)
LEMMA OtherTableFine ==
  ASSUME NEW t \in Tables, OnePerLog(t.events), NEW u \in Tables, u.events = t.events,
         NEW out, out = [tables |-> u, result |-> "ok"]
  PROVE  Fine(out, t)
PROOF BY DEF Fine

LEMMA SaveNotificationFine ==
  ASSUME NEW t \in Tables, OnePerLog(t.events), NEW n \in Notifications, NEW k
  PROVE  LET out == S!SaveNotification(t, n, k)
         IN  /\ Fine(out, t)
             /\ out.result \in {"ok", "error"}
             /\ out.result = "ok" =>
                  out.tables =
                    [t EXCEPT !.notifications = {m \in @ : m.id # n.id} \cup {n}]
PROOF
  <1> DEFINE u == [t EXCEPT !.notifications = {m \in @ : m.id # n.id} \cup {n}]
  <1>1. u \in Tables /\ u.events = t.events
    BY DEF Tables
  <1>2. Fine([tables |-> u, result |-> "ok"], t)
    BY <1>1, OtherTableFine
  <1>3. QED
    BY <1>2 DEF S!SaveNotification, S!Ok, S!Error, Fine

LEMMA UpdateNotificationStatusFine ==
  ASSUME NEW t \in Tables, OnePerLog(t.events), NEW id \in NoteIds,
         NEW status \in {"sent", "failed"},
         \A n \in t.notifications : n.id = id => n.attempts < MaxAttempts
  PROVE  LET out == S!UpdateNotificationStatus(t, id, status)
         IN  /\ Fine(out, t)
             /\ out.result = "ok" => out.tables = Promise!WithAttempt(t, id, status)
PROOF
  <1> DEFINE At(n) == Promise!Attempted(n, status)
             old == {n \in t.notifications : n.id = id}
             new == {IF n.id = id THEN At(n) ELSE n : n \in t.notifications}
             u == [t EXCEPT !.notifications = new]
             out == S!UpdateNotificationStatus(t, id, status)
  <1>1. Promise!WithAttempt(t, id, status) = u
    BY DEF Promise!WithAttempt
  <1>2. CASE old = {}
    BY <1>2 DEF S!UpdateNotificationStatus, S!NotFound, Fine
  <1>3. CASE old # {}
    <2>1. (t.notifications \ old) \cup {At(n) : n \in old} = new
      OBVIOUS
    <2>2. out = [tables |-> [t EXCEPT !.notifications =
                               (@ \ old) \cup {At(n) : n \in old}], result |-> "ok"]
      BY <1>3 DEF S!UpdateNotificationStatus, S!Ok, Promise!Attempted
    <2>3. \A n \in Notifications : n.attempts < MaxAttempts => At(n) \in Notifications
      <3>1. SUFFICES ASSUME NEW n \in Notifications, n.attempts < MaxAttempts
                     PROVE  At(n) \in Notifications
        OBVIOUS
      <3>2. n.attempts + 1 \in 0 .. MaxAttempts
        BY <3>1, StorageAssumption DEF Notifications
      <3>3. QED
        BY <3>2 DEF Notifications, Promise!Attempted
    <2>4. t.notifications \subseteq Notifications
      BY DEF Tables
    <2>5. new \subseteq Notifications
      BY <2>3, <2>4
    <2>6. u \in Tables /\ u.events = t.events
      BY <2>5 DEF Tables
    <2>7. out = [tables |-> u, result |-> "ok"]
      BY <2>1, <2>2
    <2>8. Fine(out, t)
      BY <2>6, <2>7, OtherTableFine
    <2>9. QED
      BY <1>1, <2>7, <2>8
  <1>4. QED
    BY <1>2, <1>3

LEMMA SetBlockProcessingStatusFine ==
  ASSUME NEW t \in Tables, OnePerLog(t.events), NEW b \in Statuses,
         NEW out, out \in {S!SetBlockProcessingStatus(t, b),
                           P!SetBlockProcessingStatus(t, b)}
  PROVE  /\ Fine(out, t) /\ out.result = "ok"
         /\ out.tables = [t EXCEPT !.statuses = {r \in @ : r.block # b.block} \cup {b}]
PROOF
  <1> DEFINE u == [t EXCEPT !.statuses = {r \in @ : r.block # b.block} \cup {b}]
  <1>1. u \in Tables /\ u.events = t.events
    BY DEF Tables
  <1>2. out = [tables |-> u, result |-> "ok"]
    BY DEF S!SetBlockProcessingStatus, P!SetBlockProcessingStatus, S!Ok, P!Ok
  <1>3. QED
    BY <1>1, <1>2, OtherTableFine

LEMMA SaveContractFine ==
  ASSUME NEW t \in Tables, OnePerLog(t.events), NEW k \in Contracts,
         NEW out, out \in {S!SaveContract(t, k), P!SaveContract(t, k)}
  PROVE  /\ Fine(out, t) /\ out.result = "ok"
         /\ out.tables = [t EXCEPT !.contracts =
                            {d \in @ : d.address # k.address} \cup {k}]
PROOF
  <1> DEFINE u == [t EXCEPT !.contracts = {d \in @ : d.address # k.address} \cup {k}]
  <1>1. u \in Tables /\ u.events = t.events
    BY DEF Tables
  <1>2. out = [tables |-> u, result |-> "ok"]
    BY DEF S!SaveContract, P!SaveContract, S!Ok, P!Ok
  <1>3. QED
    BY <1>1, <1>2, OtherTableFine

LEMMA UpdateContractFine ==
  ASSUME NEW t \in Tables, OnePerLog(t.events), NEW k \in Contracts,
         NEW out, out \in {S!UpdateContract(t, k), P!UpdateContract(t, k)}
  PROVE  /\ Fine(out, t)
         /\ out.result = "ok" =>
              out.tables = [t EXCEPT !.contracts =
                             {d \in @ : d.address # k.address} \cup {k}]
PROOF
  <1> DEFINE old == {d \in t.contracts : d.address = k.address}
             u == [t EXCEPT !.contracts = {d \in @ : d.address # k.address} \cup {k}]
  <1>1. CASE old = {}
    BY <1>1 DEF S!UpdateContract, P!UpdateContract, S!NotFound, P!NotFound, Fine
  <1>2. CASE old # {}
    <2>1. (t.contracts \ old) \cup {k} = {d \in t.contracts : d.address # k.address} \cup {k}
      OBVIOUS
    <2>2. u \in Tables /\ u.events = t.events
      BY DEF Tables
    <2>3. out = [tables |-> u, result |-> "ok"]
      BY <1>2, <2>1 DEF S!UpdateContract, P!UpdateContract, S!Ok, P!Ok
    <2>4. QED
      BY <2>2, <2>3, OtherTableFine
  <1>3. QED
    BY <1>1, <1>2

LEMMA DeleteContractFine ==
  ASSUME NEW t \in Tables, OnePerLog(t.events), NEW a \in Addresses,
         NEW out, out \in {S!DeleteContract(t, a), P!DeleteContract(t, a)}
  PROVE  /\ Fine(out, t)
         /\ out.result = "ok" =>
              out.tables = [t EXCEPT !.contracts = {c \in @ : c.address # a}]
PROOF
  <1> DEFINE old == {d \in t.contracts : d.address = a}
             u == [t EXCEPT !.contracts = {c \in @ : c.address # a}]
  <1>1. CASE old = {}
    BY <1>1 DEF S!DeleteContract, P!DeleteContract, S!NotFound, P!NotFound, Fine
  <1>2. CASE old # {}
    <2>1. t.contracts \ old = {c \in t.contracts : c.address # a}
      OBVIOUS
    <2>2. u \in Tables /\ u.events = t.events
      BY DEF Tables
    <2>3. out = [tables |-> u, result |-> "ok"]
      BY <1>2, <2>1 DEF S!DeleteContract, P!DeleteContract, S!Ok, P!Ok
    <2>4. QED
      BY <2>2, <2>3, OtherTableFine
  <1>3. QED
    BY <1>1, <1>2

(* SQLite's UPDATE does what PostgreSQL's upsert does as long as migration *)
(* 005 has inserted the row.                                               *)
LEMMA SetLatestProcessedBlockFine ==
  ASSUME NEW t \in Tables, OnePerLog(t.events), NEW n \in Blocks, t.cursor # NoCursor,
         NEW out, out \in {S!SetLatestProcessedBlock(t, n),
                           P!SetLatestProcessedBlock(t, n)}
  PROVE  /\ Fine(out, t) /\ out.result = "ok"
         /\ out.tables = [t EXCEPT !.cursor = n]
PROOF
  <1> DEFINE u == [t EXCEPT !.cursor = n]
  <1>1. u \in Tables /\ u.events = t.events
    BY DEF Tables
  <1>2. out = [tables |-> u, result |-> "ok"]
    BY DEF S!SetLatestProcessedBlock, P!SetLatestProcessedBlock, S!Ok, P!Ok,
           S!NoCursor, NoCursor
  <1>3. QED
    BY <1>1, <1>2, OtherTableFine

-----------------------------------------------------------------------------
(* The invariant.  A SQLite transaction is alone, and its view is the      *)
(* committed tables with what its statements have done so far; a           *)
(* PostgreSQL transaction has copied logs nobody else has.                 *)

Expireds(t) == {e \in t.events : Expired(e)}

Saving(c) ==
  /\ tx[c].op \in {"Insert", "Commit"}
  /\ tx[c].batch # {} /\ OnePerLog(tx[c].batch) /\ tx[c].todo \subseteq tx[c].batch
  /\ tx[c].op = "Commit" => tx[c].todo = {}
  /\ tx[c].view = Promise!WithEvents(tables, tx[c].batch \ tx[c].todo)

CleanedEvents(t) == Promise!WithoutEvents(t, Expireds(t))
CleanedBoth(t) == [CleanedEvents(t) EXCEPT !.notifications = {n \in @ : ~n.old}]

Cleaning(c) ==
  /\ tx[c].batch = {} /\ tx[c].todo = {}
  /\ \/ tx[c].op = "CleanNotifications" /\ tx[c].view = CleanedEvents(tables)
     \/ tx[c].op = "CleanStatuses" /\ tx[c].view = CleanedBoth(tables)
     \/ tx[c].op = "Commit" /\ tx[c].view = Promise!Cleaned(tables)

SQLiteInv ==
  \A c \in Conns : tx[c] # Idle =>
    /\ Saving(c) \/ Cleaning(c)
    /\ \A d \in Conns \ {c} : tx[d] = Idle

PostgresInv ==
  \A c \in Conns : tx[c] # Idle =>
    /\ tx[c].op = "Commit" /\ tx[c].batch # {} /\ OnePerLog(tx[c].batch)
    /\ \A e \in tx[c].batch :
         /\ \A d \in tables.events : d.log # e.log
         /\ \A k \in Conns \ {c} : \A d \in tx[k].batch : d.log # e.log

Seeded == phase = "ready" \/ (phase = "migrating" /\ next > 5)

IInv ==
  /\ TypeOK
  /\ OneRowPerLog
  /\ Seeded => tables.cursor # NoCursor
  /\ phase # "ready" => \A c \in Conns : tx[c] = Idle
  /\ SQLite => SQLiteInv
  /\ ~SQLite => PostgresInv

Sim == [Promise!Next]_(Promise!vars)

LEMMA NoRowsFine == NoRows \in Tables /\ OnePerLog(NoRows.events)
PROOF BY DEF NoRows, Tables, OnePerLog

LEMMA IdleFacts ==
  /\ Idle \in [op : TxOps, batch : SUBSET Events, todo : SUBSET Events, view : Tables]
  /\ Idle.op = "none" /\ Idle.batch = {} /\ Idle.view = NoRows
PROOF BY NoRowsFine DEF Idle, TxOps

THEOREM InitIInv == Init => IInv
PROOF
  <1> SUFFICES ASSUME Init PROVE IInv
    OBVIOUS
  <1>1. \A c \in Conns : tx[c] = Idle
    BY DEF Init
  <1>2. TypeOK
    BY NoRowsFine, IdleFacts DEF Init, TypeOK, Migrations, NoReply, Reply
  <1>3. OneRowPerLog
    BY <1>1, NoRowsFine, IdleFacts DEF Init, OneRowPerLog
  <1>4. ~Seeded
    BY DEF Init, Seeded
  <1>5. QED
    BY <1>1, <1>2, <1>3, <1>4 DEF IInv, SQLiteInv, PostgresInv

-----------------------------------------------------------------------------
(* One statement.                                                          *)

LEMMA NobodyInserts ==
  ASSUME IInv, NEW d \in tables.events
  PROVE  ~Inserting(d.log)
PROOF
  <1> SUFFICES ASSUME backend = "postgres", NEW c \in Conns, NEW e \in tx[c].batch,
                      e.log = d.log
               PROVE  FALSE
    BY DEF Inserting
  <1>1. tx[c] # Idle
    BY IdleFacts
  <1>2. QED
    BY <1>1 DEF IInv, PostgresInv, SQLite

LEMMA StatementKeeps ==
  ASSUME IInv, NEW c \in Conns, NEW op, NEW out, Statement(c, op, out),
         Fine(out, tables), out.tables.cursor # NoCursor,
         \A d \in out.tables.events : ~Inserting(d.log)
  PROVE  IInv'
PROOF
  <1> USE DEF Statement
  <1>1. TypeOK'
    BY DEF IInv, TypeOK, process, Answer, Reply, Fine
  <1>2. OneRowPerLog'
    BY DEF IInv, OneRowPerLog, Fine
  <1>3. tables'.cursor # NoCursor
    OBVIOUS
  <1>4. phase' = "ready"
    BY DEF process
  <1>5. SQLite => \A k \in Conns : tx[k] = Idle
    BY DEF Unlocked, Locked
  <1>6. SQLite' => SQLiteInv'
    BY <1>5 DEF SQLiteInv, SQLite, process
  <1>7. ~SQLite' => PostgresInv'
    <2> SUFFICES ASSUME ~SQLite', NEW k \in Conns, tx'[k] # Idle, NEW e \in tx'[k].batch
                 PROVE  \A d \in tables'.events : d.log # e.log
      BY DEF PostgresInv, IInv, SQLite, process
    <2>1. backend = "postgres"
      BY DEF IInv, TypeOK, SQLite, process
    <2>2. QED
      BY <2>1 DEF Inserting
  <1>8. QED
    BY <1>1, <1>2, <1>3, <1>4, <1>6, <1>7 DEF IInv

LEMMA StatementRefused ==
  ASSUME NEW c \in Conns, NEW op, NEW out, Statement(c, op, out),
         Fine(out, tables), out.result # "ok"
  PROVE  Sim
PROOF
  <1>1. reply' = Promise!Reply("none", {}, out.result)
    BY DEF Statement, Answer, Reply, Promise!Reply
  <1>2. tables' = tables /\ stubs' = stubs
    BY DEF Statement, Fine, process, stubs
  <1>3. out.result \in {"error", "notfound"}
    BY DEF Fine
  <1>4. Promise!Refused
    BY <1>1, <1>2, <1>3 DEF Promise!Refused
  <1>5. QED
    BY <1>4 DEF Sim, Promise!Next

LEMMA StatementDone ==
  ASSUME NEW c \in Conns, NEW op, NEW out, NEW new, Statement(c, op, out),
         out.result = "ok",
         op \in stubs => out.tables = tables,
         op \notin stubs => out.tables = new
  PROVE  Promise!Done(op, new)
PROOF
  <1>1. reply' = Promise!Reply(op, {}, "ok")
    BY DEF Statement, Answer, Reply, Promise!Reply
  <1>2. stubs' = stubs /\ tables' = out.tables
    BY DEF Statement, process, stubs
  <1>3. QED
    BY <1>1, <1>2 DEF Promise!Done, Promise!DoneBatch

(* The two hypotheses of StatementKeeps, for a statement that inserts no   *)
(* event and does not touch the cursor.                                    *)
LEMMA ReadyFacts ==
  ASSUME IInv, NEW c \in Conns, NEW op, NEW out, Statement(c, op, out)
  PROVE  /\ tables \in Tables /\ OnePerLog(tables.events)
         /\ tables.cursor # NoCursor
         /\ backend \in {"sqlite", "postgres"}
PROOF BY DEF IInv, TypeOK, OneRowPerLog, Seeded, Statement

-----------------------------------------------------------------------------
(* The calls that are one statement.                                       *)

LEMMA SaveEventStep ==
  ASSUME IInv, NEW c \in Conns, SaveEvent(c)
  PROVE  IInv' /\ Sim
PROOF
  <1>1. PICK id \in Ids :
          LET e == Row(id, FALSE)
          IN  /\ ~Inserting(e.log)
              /\ Statement(c, "SaveEvent",
                           IF SQLite THEN S!SaveEvent(tables, e, c \in fk)
                                     ELSE P!SaveEvent(tables, e))
    BY DEF SaveEvent
  <1> DEFINE e == Row(id, FALSE)
             out == IF SQLite THEN S!SaveEvent(tables, e, c \in fk)
                              ELSE P!SaveEvent(tables, e)
  <1>2. Statement(c, "SaveEvent", out) /\ ~Inserting(e.log)
    BY <1>1
  <1> HIDE DEF e, out
  <1>3. e \in Events
    BY RowFacts DEF e
  <1>4. tables \in Tables /\ OnePerLog(tables.events) /\ tables.cursor # NoCursor
    BY <1>2, ReadyFacts
  <1>5. Fine(out, tables) /\ (out.result = "ok" => out.tables = Promise!WithEvents(tables, {e}))
    BY <1>3, <1>4, SQLiteSaveEvent, PostgresSaveEvent DEF out
  <1>6. CASE out.result # "ok"
    <2>1. out.tables = tables
      BY <1>5, <1>6 DEF Fine
    <2>2. QED
      BY <1>2, <1>4, <1>5, <1>6, <2>1, NobodyInserts, StatementKeeps, StatementRefused
  <1>7. CASE out.result = "ok"
    <2>1. OnePerLog({e})
      BY DEF OnePerLog
    <2>2. out.tables = Promise!WithEvents(tables, {e})
      BY <1>5, <1>7
    <2>3. out.tables.events = {d \in tables.events : \A b \in {e} : b.log # d.log} \cup {e}
      BY <1>3, <1>4, <2>1, <2>2, WithEventsFine
    <2>4. \A d \in out.tables.events : ~Inserting(d.log)
      BY <1>2, <2>3, NobodyInserts
    <2>5. out.tables.cursor # NoCursor
      BY <1>4, <2>2 DEF Promise!WithEvents, Tables
    <2>6. IInv'
      BY <1>2, <1>5, <2>4, <2>5, StatementKeeps
    <2>7. "SaveEvent" \notin stubs
      BY DEF stubs, Placeholders
    <2>8. Promise!Done("SaveEvent", Promise!WithEvents(tables, {e}))
      BY <1>2, <1>7, <2>2, <2>7, StatementDone
    <2>9. tables'.events = {d \in tables.events : \A b \in {e} : b.log # d.log} \cup {e}
      BY <1>2, <2>3 DEF Statement
    <2>10. Promise!SaveEvent
      BY <2>8, <2>9 DEF Promise!SaveEvent
    <2>11. QED
      BY <2>6, <2>10 DEF Sim, Promise!Next
  <1>8. QED
    BY <1>6, <1>7

LEMMA UpdateEventOut ==
  ASSUME IInv, NEW c \in Conns, NEW e \in Events, NEW out,
         out \in {S!UpdateEvent(tables, e), P!UpdateEvent(tables, e)},
         Statement(c, "UpdateEvent", out)
  PROVE  IInv' /\ Sim
PROOF
  <1>1. tables \in Tables /\ OnePerLog(tables.events) /\ tables.cursor # NoCursor
    BY ReadyFacts
  <1>2. Fine(out, tables)
        /\ (out.result = "ok" => /\ \E d \in tables.events : Id(d) = Id(e)
                                /\ out.tables = Promise!WithEvents(tables, {e}))
    BY <1>1, UpdateEventFine
  <1>3. CASE out.result # "ok"
    <2>1. out.tables = tables
      BY <1>2, <1>3 DEF Fine
    <2>2. QED
      BY <1>1, <1>2, <1>3, <2>1, NobodyInserts, StatementKeeps, StatementRefused
  <1>4. CASE out.result = "ok"
    <2>1. OnePerLog({e})
      BY DEF OnePerLog
    <2>2. PICK b \in tables.events : Id(b) = Id(e)
      BY <1>2, <1>4
    <2>3. b.log = e.log
      BY <1>1, <2>2, LogOfId DEF Tables
    <2>4. out.tables = Promise!WithEvents(tables, {e})
      BY <1>2, <1>4
    <2>5. out.tables.events = {d \in tables.events : \A a \in {e} : a.log # d.log} \cup {e}
      BY <1>1, <2>1, <2>4, WithEventsFine
    <2>6. \A d \in out.tables.events : ~Inserting(d.log)
      BY <2>2, <2>3, <2>5, NobodyInserts
    <2>7. out.tables.cursor # NoCursor
      BY <1>1, <2>4 DEF Promise!WithEvents, Tables
    <2>8. IInv'
      BY <1>2, <2>6, <2>7, StatementKeeps
    <2>9. "UpdateEvent" \notin stubs
      BY DEF stubs, Placeholders
    <2>10. Promise!Done("UpdateEvent", Promise!WithEvents(tables, {e}))
      BY <1>4, <2>4, <2>9, StatementDone
    <2>11. Promise!HasEvent(Promise!Id(e))
      BY <2>2 DEF Promise!HasEvent, Promise!Id, Id
    <2>12. Promise!UpdateEvent
      BY <2>10, <2>11 DEF Promise!UpdateEvent, Promise!Events, Events, Promise!Row, Row
    <2>13. QED
      BY <2>8, <2>12 DEF Sim, Promise!Next
  <1>5. QED
    BY <1>3, <1>4

LEMMA UpdateEventStep ==
  ASSUME IInv, NEW c \in Conns, UpdateEvent(c)
  PROVE  IInv' /\ Sim
PROOF BY UpdateEventOut, RowFacts DEF UpdateEvent

LEMMA MarkEventProcessedStep ==
  ASSUME IInv, NEW c \in Conns, MarkEventProcessed(c)
  PROVE  IInv' /\ Sim
PROOF
  <1>1. PICK id \in Ids : Statement(c, "UpdateEvent", S!MarkEventProcessed(tables, id))
    BY DEF MarkEventProcessed
  <1>2. S!MarkEventProcessed(tables, id) = S!UpdateEvent(tables, Row(id, TRUE))
    BY <1>1, ReadyFacts, MarkEventProcessedFine
  <1>3. QED
    BY <1>1, <1>2, UpdateEventOut, RowFacts

(* A statement that inserts no event: what is left to show of it is what   *)
(* the abstract call is.                                                   *)
LEMMA OtherStatement ==
  ASSUME IInv, NEW c \in Conns, NEW op, NEW out, Statement(c, op, out),
         Fine(out, tables), out.tables.events \subseteq tables.events,
         out.tables.cursor # NoCursor,
         NEW new,
         op \in stubs => out.tables = tables,
         op \notin stubs /\ out.result = "ok" => out.tables = new,
         out.result = "ok" /\ Promise!Done(op, new) => Promise!Next
  PROVE  IInv' /\ Sim
PROOF
  <1>1. IInv'
    BY NobodyInserts, StatementKeeps
  <1>2. CASE out.result # "ok"
    BY <1>1, <1>2, StatementRefused
  <1>3. CASE out.result = "ok"
    BY <1>1, <1>3, StatementDone DEF Sim
  <1>4. QED
    BY <1>2, <1>3

LEMMA DeleteEventStep ==
  ASSUME IInv, NEW c \in Conns, DeleteEvent(c)
  PROVE  IInv' /\ Sim
PROOF
  <1>1. PICK id \in Ids :
          Statement(c, "DeleteEvent", IF SQLite THEN S!DeleteEvent(tables, id, c \in fk)
                                                ELSE P!DeleteEvent(tables, id))
    BY DEF DeleteEvent
  <1> DEFINE gone == {d \in tables.events : Id(d) = id}
             new == Promise!WithoutEvents(tables, gone)
             out == IF SQLite THEN S!DeleteEvent(tables, id, c \in fk)
                              ELSE P!DeleteEvent(tables, id)
  <1>2. Statement(c, "DeleteEvent", out)
    BY <1>1
  <1>3. tables \in Tables /\ OnePerLog(tables.events) /\ tables.cursor # NoCursor
    BY <1>2, ReadyFacts
  <1>4. out \in {S!DeleteEvent(tables, id, c \in fk), P!DeleteEvent(tables, id)}
    OBVIOUS
  <1> HIDE DEF out
  <1>5. Fine(out, tables)
        /\ (out.result = "ok" => (\E d \in tables.events : Id(d) = id) /\ out.tables = new)
    BY <1>3, <1>4, DeleteEventFine
  <1>6. new.events \subseteq tables.events /\ new.cursor # NoCursor
    BY <1>3, DeletionFine DEF Promise!WithoutEvents, Tables
  <1>7. out.tables.events \subseteq tables.events /\ out.tables.cursor # NoCursor
    BY <1>3, <1>5, <1>6 DEF Fine
  <1>8. "DeleteEvent" \notin stubs
    BY DEF stubs, Placeholders
  <1>9. ASSUME out.result = "ok", Promise!Done("DeleteEvent", new) PROVE Promise!Next
    <2>1. Promise!HasEvent(id)
      BY <1>5, <1>9 DEF Promise!HasEvent, Promise!Id, Id
    <2>2. gone = {e \in tables.events : Promise!Id(e) = id}
      BY DEF Promise!Id, Id
    <2>3. Promise!DeleteEvent
      BY <1>9, <2>1, <2>2 DEF Promise!DeleteEvent
    <2>4. QED
      BY <2>3 DEF Promise!Next
  <1> HIDE DEF new
  <1>10. QED
    BY <1>2, <1>5, <1>7, <1>8, <1>9, OtherStatement

LEMMA DeleteEventsByBlockRangeStep ==
  ASSUME IInv, NEW c \in Conns, DeleteEventsByBlockRange(c)
  PROVE  IInv' /\ Sim
PROOF
  <1>1. PICK from \in Logs, to \in Logs :
          Statement(c, "DeleteEventsByBlockRange", IF SQLite THEN S!DeleteEventsByBlockRange(tables, from, to, c \in fk) ELSE P!DeleteEventsByBlockRange(tables))
    BY DEF DeleteEventsByBlockRange
  <1> DEFINE new == Promise!WithoutEvents(tables, {d \in tables.events : d.log \in from .. to})
             out == IF SQLite THEN S!DeleteEventsByBlockRange(tables, from, to, c \in fk) ELSE P!DeleteEventsByBlockRange(tables)
  <1>2. Statement(c, "DeleteEventsByBlockRange", out)
    BY <1>1
  <1>3. tables \in Tables /\ OnePerLog(tables.events) /\ tables.cursor # NoCursor
        /\ backend \in {"sqlite", "postgres"}
    BY <1>2, ReadyFacts
  <1>4. CASE SQLite
    <2>1. out = S!DeleteEventsByBlockRange(tables, from, to, c \in fk)
      BY <1>4
    <2>2. Fine(out, tables) /\ (out.result = "ok" => out.tables = new)
      BY <1>1, <1>3, <2>1, DeleteRangeFine
    <2>3. "DeleteEventsByBlockRange" \notin stubs
      BY <1>4 DEF stubs, SQLite
    <2>4. new.events \subseteq tables.events /\ new.cursor = tables.cursor
      BY <1>3 DEF Promise!WithoutEvents, Tables
    <2>5. Promise!Done("DeleteEventsByBlockRange", new) => Promise!Next
      BY DEF Promise!DeleteEventsByBlockRange, Promise!Logs, Logs, Promise!Next
    <2> HIDE DEF new, out
    <2>6. out.tables.events \subseteq tables.events /\ out.tables.cursor # NoCursor
      BY <1>3, <2>2, <2>4 DEF Fine
    <2>7. QED
      BY <1>2, <2>2, <2>3, <2>5, <2>6, OtherStatement
  <1>5. CASE ~SQLite
    <2>1. out = [tables |-> tables, result |-> "ok"]
      BY <1>5 DEF P!DeleteEventsByBlockRange, P!Ok
    <2>2. "DeleteEventsByBlockRange" \in stubs
      BY <1>3, <1>5 DEF stubs, SQLite, Placeholders
    <2>3. Promise!Done("DeleteEventsByBlockRange", new) => Promise!Next
      BY DEF Promise!DeleteEventsByBlockRange, Promise!Logs, Logs, Promise!Next
    <2> HIDE DEF new, out
    <2>4. Fine(out, tables) /\ out.tables = tables
      BY <1>3, <2>1 DEF Fine
    <2>5. QED
      BY <1>2, <1>3, <2>2, <2>3, <2>4, OtherStatement
  <1>6. QED
    BY <1>4, <1>5

LEMMA SaveNotificationStep ==
  ASSUME IInv, NEW c \in Conns, SaveNotification(c)
  PROVE  IInv' /\ Sim
PROOF
  <1>1. PICK n \in Notifications :
          Statement(c, "SaveNotification", IF SQLite THEN S!SaveNotification(tables, n, c \in fk) ELSE P!SaveNotification(tables))
    BY DEF SaveNotification
  <1> DEFINE new == [tables EXCEPT !.notifications = {m \in @ : m.id # n.id} \cup {n}]
             out == IF SQLite THEN S!SaveNotification(tables, n, c \in fk) ELSE P!SaveNotification(tables)
  <1>2. Statement(c, "SaveNotification", out)
    BY <1>1
  <1>3. tables \in Tables /\ OnePerLog(tables.events) /\ tables.cursor # NoCursor
        /\ backend \in {"sqlite", "postgres"}
    BY <1>2, ReadyFacts
  <1>4. CASE SQLite
    <2>1. out = S!SaveNotification(tables, n, c \in fk)
      BY <1>4
    <2>2. Fine(out, tables) /\ (out.result = "ok" => out.tables = new)
      BY <1>1, <1>3, <2>1, SaveNotificationFine
    <2>3. "SaveNotification" \notin stubs
      BY <1>4 DEF stubs, SQLite
    <2>4. new.events \subseteq tables.events /\ new.cursor = tables.cursor
      BY <1>3 DEF Tables
    <2>5. Promise!Done("SaveNotification", new) => Promise!Next
      BY DEF Promise!SaveNotification, Promise!Notifications, Notifications, Promise!Next
    <2> HIDE DEF new, out
    <2>6. out.tables.events \subseteq tables.events /\ out.tables.cursor # NoCursor
      BY <1>3, <2>2, <2>4 DEF Fine
    <2>7. QED
      BY <1>2, <2>2, <2>3, <2>5, <2>6, OtherStatement
  <1>5. CASE ~SQLite
    <2>1. out = [tables |-> tables, result |-> "ok"]
      BY <1>5 DEF P!SaveNotification, P!Ok
    <2>2. "SaveNotification" \in stubs
      BY <1>3, <1>5 DEF stubs, SQLite, Placeholders
    <2>3. Promise!Done("SaveNotification", new) => Promise!Next
      BY DEF Promise!SaveNotification, Promise!Notifications, Notifications, Promise!Next
    <2> HIDE DEF new, out
    <2>4. Fine(out, tables) /\ out.tables = tables
      BY <1>3, <2>1 DEF Fine
    <2>5. QED
      BY <1>2, <1>3, <2>2, <2>3, <2>4, OtherStatement
  <1>6. QED
    BY <1>4, <1>5

LEMMA UpdateNotificationStatusStep ==
  ASSUME IInv, NEW c \in Conns, UpdateNotificationStatus(c)
  PROVE  IInv' /\ Sim
PROOF
  <1>1. PICK id \in NoteIds, status \in {"sent", "failed"} :
          /\ \A n \in tables.notifications : n.id = id => n.attempts < MaxAttempts
          /\ Statement(c, "UpdateNotificationStatus", IF SQLite THEN S!UpdateNotificationStatus(tables, id, status) ELSE P!UpdateNotificationStatus(tables))
    BY DEF UpdateNotificationStatus
  <1> DEFINE new == Promise!WithAttempt(tables, id, status)
             out == IF SQLite THEN S!UpdateNotificationStatus(tables, id, status) ELSE P!UpdateNotificationStatus(tables)
  <1>2. Statement(c, "UpdateNotificationStatus", out)
    BY <1>1
  <1>3. tables \in Tables /\ OnePerLog(tables.events) /\ tables.cursor # NoCursor
        /\ backend \in {"sqlite", "postgres"}
    BY <1>2, ReadyFacts
  <1>4. CASE SQLite
    <2>1. out = S!UpdateNotificationStatus(tables, id, status)
      BY <1>4
    <2>2. Fine(out, tables) /\ (out.result = "ok" => out.tables = new)
      BY <1>1, <1>3, <2>1, UpdateNotificationStatusFine
    <2>3. "UpdateNotificationStatus" \notin stubs
      BY <1>4 DEF stubs, SQLite
    <2>4. new.events \subseteq tables.events /\ new.cursor = tables.cursor
      BY <1>3 DEF Promise!WithAttempt, Tables
    <2>5. Promise!Done("UpdateNotificationStatus", new) => Promise!Next
      BY DEF Promise!UpdateNotificationStatus, Promise!Next
    <2> HIDE DEF new, out
    <2>6. out.tables.events \subseteq tables.events /\ out.tables.cursor # NoCursor
      BY <1>3, <2>2, <2>4 DEF Fine
    <2>7. QED
      BY <1>2, <2>2, <2>3, <2>5, <2>6, OtherStatement
  <1>5. CASE ~SQLite
    <2>1. out = [tables |-> tables, result |-> "ok"]
      BY <1>5 DEF P!UpdateNotificationStatus, P!Ok
    <2>2. "UpdateNotificationStatus" \in stubs
      BY <1>3, <1>5 DEF stubs, SQLite, Placeholders
    <2>3. Promise!Done("UpdateNotificationStatus", new) => Promise!Next
      BY DEF Promise!UpdateNotificationStatus, Promise!Next
    <2> HIDE DEF new, out
    <2>4. Fine(out, tables) /\ out.tables = tables
      BY <1>3, <2>1 DEF Fine
    <2>5. QED
      BY <1>2, <1>3, <2>2, <2>3, <2>4, OtherStatement
  <1>6. QED
    BY <1>4, <1>5

LEMMA SaveContractStep ==
  ASSUME IInv, NEW c \in Conns, SaveContract(c)
  PROVE  IInv' /\ Sim
PROOF
  <1>1. PICK k \in Contracts :
          Statement(c, "SaveContract", IF SQLite THEN S!SaveContract(tables, k) ELSE P!SaveContract(tables, k))
    BY DEF SaveContract
  <1> DEFINE new == [tables EXCEPT !.contracts = {d \in @ : d.address # k.address} \cup {k}]
             out == IF SQLite THEN S!SaveContract(tables, k) ELSE P!SaveContract(tables, k)
  <1>2. Statement(c, "SaveContract", out)
    BY <1>1
  <1>3. tables \in Tables /\ OnePerLog(tables.events) /\ tables.cursor # NoCursor
        /\ backend \in {"sqlite", "postgres"}
    BY <1>2, ReadyFacts
  <1>4. Fine(out, tables) /\ (out.result = "ok" => out.tables = new)
    BY <1>1, <1>3, SaveContractFine
  <1>5. "SaveContract" \notin stubs
    BY DEF stubs, Placeholders
  <1>6. new.events \subseteq tables.events /\ new.cursor # NoCursor
    BY <1>3, StorageAssumption DEF Tables
  <1>7. Promise!Done("SaveContract", new) => Promise!Next
    BY DEF Promise!SaveContract, Promise!Contracts, Contracts, Promise!Next
  <1> HIDE DEF new, out
  <1>8. out.tables.events \subseteq tables.events /\ out.tables.cursor # NoCursor
    BY <1>3, <1>4, <1>6 DEF Fine
  <1>9. QED
    BY <1>2, <1>4, <1>5, <1>7, <1>8, OtherStatement

LEMMA UpdateContractStep ==
  ASSUME IInv, NEW c \in Conns, UpdateContract(c)
  PROVE  IInv' /\ Sim
PROOF
  <1>1. PICK k \in Contracts :
          Statement(c, "UpdateContract", IF SQLite THEN S!UpdateContract(tables, k) ELSE P!UpdateContract(tables, k))
    BY DEF UpdateContract
  <1> DEFINE new == [tables EXCEPT !.contracts = {d \in @ : d.address # k.address} \cup {k}]
             out == IF SQLite THEN S!UpdateContract(tables, k) ELSE P!UpdateContract(tables, k)
  <1>2. Statement(c, "UpdateContract", out)
    BY <1>1
  <1>3. tables \in Tables /\ OnePerLog(tables.events) /\ tables.cursor # NoCursor
        /\ backend \in {"sqlite", "postgres"}
    BY <1>2, ReadyFacts
  <1>4. Fine(out, tables) /\ (out.result = "ok" => out.tables = new)
    BY <1>1, <1>3, UpdateContractFine
  <1>5. "UpdateContract" \notin stubs
    BY DEF stubs, Placeholders
  <1>6. new.events \subseteq tables.events /\ new.cursor # NoCursor
    BY <1>3, StorageAssumption DEF Tables
  <1>7. Promise!Done("UpdateContract", new) => Promise!Next
    BY DEF Promise!SaveContract, Promise!Contracts, Contracts, Promise!Next
  <1> HIDE DEF new, out
  <1>8. out.tables.events \subseteq tables.events /\ out.tables.cursor # NoCursor
    BY <1>3, <1>4, <1>6 DEF Fine
  <1>9. QED
    BY <1>2, <1>4, <1>5, <1>7, <1>8, OtherStatement

LEMMA DeleteContractStep ==
  ASSUME IInv, NEW c \in Conns, DeleteContract(c)
  PROVE  IInv' /\ Sim
PROOF
  <1>1. PICK a \in Addresses :
          Statement(c, "DeleteContract", IF SQLite THEN S!DeleteContract(tables, a) ELSE P!DeleteContract(tables, a))
    BY DEF DeleteContract
  <1> DEFINE new == [tables EXCEPT !.contracts = {k \in @ : k.address # a}]
             out == IF SQLite THEN S!DeleteContract(tables, a) ELSE P!DeleteContract(tables, a)
  <1>2. Statement(c, "DeleteContract", out)
    BY <1>1
  <1>3. tables \in Tables /\ OnePerLog(tables.events) /\ tables.cursor # NoCursor
        /\ backend \in {"sqlite", "postgres"}
    BY <1>2, ReadyFacts
  <1>4. Fine(out, tables) /\ (out.result = "ok" => out.tables = new)
    BY <1>1, <1>3, DeleteContractFine
  <1>5. "DeleteContract" \notin stubs
    BY DEF stubs, Placeholders
  <1>6. new.events \subseteq tables.events /\ new.cursor # NoCursor
    BY <1>3, StorageAssumption DEF Tables
  <1>7. Promise!Done("DeleteContract", new) => Promise!Next
    BY DEF Promise!DeleteContract, Promise!Next
  <1> HIDE DEF new, out
  <1>8. out.tables.events \subseteq tables.events /\ out.tables.cursor # NoCursor
    BY <1>3, <1>4, <1>6 DEF Fine
  <1>9. QED
    BY <1>2, <1>4, <1>5, <1>7, <1>8, OtherStatement

LEMMA SetLatestProcessedBlockStep ==
  ASSUME IInv, NEW c \in Conns, SetLatestProcessedBlock(c)
  PROVE  IInv' /\ Sim
PROOF
  <1>1. PICK n \in Blocks :
          Statement(c, "SetLatestProcessedBlock", IF SQLite THEN S!SetLatestProcessedBlock(tables, n) ELSE P!SetLatestProcessedBlock(tables, n))
    BY DEF SetLatestProcessedBlock
  <1> DEFINE new == [tables EXCEPT !.cursor = n]
             out == IF SQLite THEN S!SetLatestProcessedBlock(tables, n) ELSE P!SetLatestProcessedBlock(tables, n)
  <1>2. Statement(c, "SetLatestProcessedBlock", out)
    BY <1>1
  <1>3. tables \in Tables /\ OnePerLog(tables.events) /\ tables.cursor # NoCursor
        /\ backend \in {"sqlite", "postgres"}
    BY <1>2, ReadyFacts
  <1>4. Fine(out, tables) /\ (out.result = "ok" => out.tables = new)
    BY <1>1, <1>3, SetLatestProcessedBlockFine
  <1>5. "SetLatestProcessedBlock" \notin stubs
    BY DEF stubs, Placeholders
  <1>6. new.events \subseteq tables.events /\ new.cursor # NoCursor
    BY <1>3, StorageAssumption DEF Tables, NoCursor
  <1>7. Promise!Done("SetLatestProcessedBlock", new) => Promise!Next
    BY DEF Promise!SetLatestProcessedBlock, Promise!Next
  <1> HIDE DEF new, out
  <1>8. out.tables.events \subseteq tables.events /\ out.tables.cursor # NoCursor
    BY <1>3, <1>4, <1>6 DEF Fine
  <1>9. QED
    BY <1>2, <1>4, <1>5, <1>7, <1>8, OtherStatement

LEMMA SetBlockProcessingStatusStep ==
  ASSUME IInv, NEW c \in Conns, SetBlockProcessingStatus(c)
  PROVE  IInv' /\ Sim
PROOF
  <1>1. PICK b \in Statuses :
          Statement(c, "SetBlockProcessingStatus", IF SQLite THEN S!SetBlockProcessingStatus(tables, b) ELSE P!SetBlockProcessingStatus(tables, b))
    BY DEF SetBlockProcessingStatus
  <1> DEFINE new == [tables EXCEPT !.statuses = {r \in @ : r.block # b.block} \cup {b}]
             out == IF SQLite THEN S!SetBlockProcessingStatus(tables, b) ELSE P!SetBlockProcessingStatus(tables, b)
  <1>2. Statement(c, "SetBlockProcessingStatus", out)
    BY <1>1
  <1>3. tables \in Tables /\ OnePerLog(tables.events) /\ tables.cursor # NoCursor
        /\ backend \in {"sqlite", "postgres"}
    BY <1>2, ReadyFacts
  <1>4. Fine(out, tables) /\ (out.result = "ok" => out.tables = new)
    BY <1>1, <1>3, SetBlockProcessingStatusFine
  <1>5. "SetBlockProcessingStatus" \notin stubs
    BY DEF stubs, Placeholders
  <1>6. new.events \subseteq tables.events /\ new.cursor # NoCursor
    BY <1>3, StorageAssumption DEF Tables
  <1>7. Promise!Done("SetBlockProcessingStatus", new) => Promise!Next
    BY DEF Promise!SetBlockProcessingStatus, Promise!Statuses, Statuses, Promise!Next
  <1> HIDE DEF new, out
  <1>8. out.tables.events \subseteq tables.events /\ out.tables.cursor # NoCursor
    BY <1>3, <1>4, <1>6 DEF Fine
  <1>9. QED
    BY <1>2, <1>4, <1>5, <1>7, <1>8, OtherStatement

LEMMA LogEventStep ==
  ASSUME IInv, NEW c \in Conns, LogEvent(c)
  PROVE  IInv' /\ Sim
PROOF
  <1> DEFINE out == IF SQLite THEN S!LogEvent(tables) ELSE P!LogEvent(tables)
  <1>1. Statement(c, "LogEvent", out)
    BY DEF LogEvent
  <1>2. tables \in Tables /\ OnePerLog(tables.events) /\ tables.cursor # NoCursor
        /\ backend \in {"sqlite", "postgres"}
    BY <1>1, ReadyFacts
  <1>3. out.tables = tables /\ out.result \in {"ok", "error"}
        /\ (out.result = "ok" => "LogEvent" \in stubs)
    BY <1>2 DEF S!LogEvent, P!LogEvent, S!Error, P!Ok, stubs, SQLite, Placeholders
  <1>4. "LogEvent" \in stubs /\ Promise!Done("LogEvent", tables) => Promise!Next
    BY DEF Promise!Unsupported, Promise!Next
  <1> HIDE DEF out
  <1>5. Fine(out, tables)
    BY <1>2, <1>3 DEF Fine
  <1>6. QED
    BY <1>1, <1>2, <1>3, <1>4, <1>5, OtherStatement

LEMMA StoreProcessingResultStep ==
  ASSUME IInv, NEW c \in Conns, StoreProcessingResult(c)
  PROVE  IInv' /\ Sim
PROOF
  <1> DEFINE out == IF SQLite THEN S!StoreProcessingResult(tables) ELSE P!StoreProcessingResult(tables)
  <1>1. Statement(c, "StoreProcessingResult", out)
    BY DEF StoreProcessingResult
  <1>2. tables \in Tables /\ OnePerLog(tables.events) /\ tables.cursor # NoCursor
        /\ backend \in {"sqlite", "postgres"}
    BY <1>1, ReadyFacts
  <1>3. out.tables = tables /\ out.result \in {"ok", "error"}
        /\ (out.result = "ok" => "StoreProcessingResult" \in stubs)
    BY <1>2 DEF S!StoreProcessingResult, P!StoreProcessingResult, S!Error, P!Ok, stubs, SQLite, Placeholders
  <1>4. "StoreProcessingResult" \in stubs /\ Promise!Done("StoreProcessingResult", tables) => Promise!Next
    BY DEF Promise!Unsupported, Promise!Next
  <1> HIDE DEF out
  <1>5. Fine(out, tables)
    BY <1>2, <1>3 DEF Fine
  <1>6. QED
    BY <1>1, <1>2, <1>3, <1>4, <1>5, OtherStatement

LEMMA CleanupPlaceholderStep ==
  ASSUME IInv, NEW c \in Conns, CleanupPlaceholder(c)
  PROVE  IInv' /\ Sim
PROOF
  <1> DEFINE out == P!Cleanup(tables)
  <1>1. Statement(c, "Cleanup", out) /\ ~SQLite
    BY DEF CleanupPlaceholder
  <1>2. tables \in Tables /\ OnePerLog(tables.events) /\ tables.cursor # NoCursor
        /\ backend \in {"sqlite", "postgres"}
    BY <1>1, ReadyFacts
  <1>3. out.tables = tables /\ out.result = "ok" /\ "Cleanup" \in stubs
    BY <1>1, <1>2 DEF P!Cleanup, P!Ok, stubs, SQLite, Placeholders
  <1>4. Promise!Done("Cleanup", Promise!Cleaned(tables)) => Promise!Next
    BY DEF Promise!Cleanup, Promise!Next
  <1> HIDE DEF out
  <1>5. Fine(out, tables)
    BY <1>2, <1>3 DEF Fine
  <1>6. QED
    BY <1>1, <1>2, <1>3, <1>4, <1>5, OtherStatement

-----------------------------------------------------------------------------
(* The start and the end of the process, and the pool.                     *)

(* A step that keeps the tables and either keeps or resets the reply.      *)
LEMMA QuietStep ==
  ASSUME UNCHANGED <<backend, tables>>,
         reply' = reply \/ reply' = NoReply \/ reply' = Failure
  PROVE  Sim
PROOF
  <1>1. stubs' = stubs
    BY DEF stubs
  <1>2. CASE reply' = reply
    BY <1>1, <1>2 DEF Sim, Promise!vars
  <1>3. CASE reply' = NoReply \/ reply' = Failure
    <2>1. Promise!Refused
      BY <1>1, <1>3 DEF Promise!Refused, NoReply, Failure, Reply, Promise!Reply
    <2>2. QED
      BY <2>1 DEF Sim, Promise!Next
  <1>4. QED
    BY <1>2, <1>3

LEMMA ConnectStep ==
  ASSUME IInv, Connect
  PROVE  IInv' /\ Sim
PROOF
  <1> USE DEF Connect
  <1>1. TypeOK'
    BY DEF IInv, TypeOK, Migrations
  <1>2. OneRowPerLog'
    BY DEF IInv, OneRowPerLog
  <1>3. \A c \in Conns : tx'[c] = Idle
    BY DEF IInv
  <1>4. ~Seeded'
    BY DEF Seeded
  <1>5. IInv'
    BY <1>1, <1>2, <1>3, <1>4 DEF IInv, SQLiteInv, PostgresInv
  <1>6. QED
    BY <1>5, QuietStep

LEMMA SeedFine ==
  ASSUME NEW t \in Tables, NEW u, u \in {S!SeedCursor(t), P!SeedCursor(t)}
  PROVE  /\ u \in Tables /\ u.events = t.events /\ u.cursor # NoCursor
         /\ u = t \/ (t.cursor = NoCursor /\ u = [t EXCEPT !.cursor = 0])
PROOF
  <1>1. u = IF t.cursor = NoCursor THEN [t EXCEPT !.cursor = 0] ELSE [t EXCEPT !.cursor = t.cursor]
    BY DEF S!SeedCursor, P!SeedCursor, S!NoCursor, P!NoCursor, NoCursor
  <1>2. [t EXCEPT !.cursor = t.cursor] = t
    BY DEF Tables
  <1>3. [t EXCEPT !.cursor = 0] \in Tables /\ [t EXCEPT !.cursor = 0].events = t.events
        /\ [t EXCEPT !.cursor = 0].cursor = 0
    BY DEF Tables
  <1>4. QED
    BY <1>1, <1>2, <1>3 DEF NoCursor

LEMMA ApplyMigrationStep ==
  ASSUME IInv, ApplyMigration
  PROVE  IInv' /\ Sim
PROOF
  <1> USE DEF ApplyMigration
  <1>1. tables \in Tables /\ next \in 1 .. 6 /\ stubs' = stubs
    BY DEF IInv, TypeOK, Migrations, stubs
  <1>2. tables' \in Tables /\ tables'.events = tables.events
    BY <1>1, SeedFine DEF SeedCursor
  <1>3. TypeOK'
    BY <1>1, <1>2 DEF IInv, TypeOK, Migrations
  <1>4. OneRowPerLog'
    BY <1>2 DEF IInv, OneRowPerLog
  <1>5. \A c \in Conns : tx'[c] = Idle
    BY DEF IInv
  <1>6. Seeded' => tables'.cursor # NoCursor
    <2>1. CASE next = 5
      BY <1>1, <2>1, SeedFine DEF SeedCursor
    <2>2. CASE next > 5
      BY <2>2 DEF IInv, Seeded
    <2>3. CASE next < 5
      BY <1>1, <2>3 DEF Seeded, Migrations
    <2>4. QED
      BY <1>1, <2>1, <2>2, <2>3
  <1>7. IInv'
    BY <1>3, <1>4, <1>5, <1>6 DEF IInv, SQLiteInv, PostgresInv
  <1>8. Sim
    <2>1. tables' = tables \/ (tables.cursor = NoCursor /\ tables' = [tables EXCEPT !.cursor = 0])
      BY <1>1, SeedFine DEF SeedCursor
    <2>2. CASE tables' = tables
      BY <2>2, QuietStep
    <2>3. CASE tables.cursor = NoCursor /\ tables' = [tables EXCEPT !.cursor = 0]
      BY <1>1, <2>3 DEF Promise!Migrate, Promise!Next, Sim, Promise!NoCursor, NoCursor
    <2>4. QED
      BY <2>1, <2>2, <2>3
  <1>9. QED
    BY <1>7, <1>8

LEMMA ExitStep ==
  ASSUME IInv, Exit
  PROVE  IInv' /\ Sim
PROOF
  <1> USE DEF Exit
  <1>1. \A c \in Conns : tx'[c] = Idle
    OBVIOUS
  <1>2. TypeOK'
    BY IdleFacts DEF IInv, TypeOK, Migrations, NoReply, Reply
  <1>3. OneRowPerLog'
    BY <1>1, IdleFacts, NoRowsFine DEF IInv, OneRowPerLog
  <1>4. ~Seeded'
    BY DEF Seeded
  <1>5. IInv'
    BY <1>1, <1>2, <1>3, <1>4 DEF IInv, SQLiteInv, PostgresInv
  <1>6. QED
    BY <1>5, QuietStep

(* Steps that keep everything the invariant is about. *)
LEMMA InvariantKept ==
  ASSUME IInv, UNCHANGED <<process, tables, tx>>, fk' \subseteq Conns,
         reply'.result \in {"none", "ok", "notfound", "error"}
  PROVE  IInv'
PROOF
  <1>1. TypeOK'
    BY DEF IInv, TypeOK, process
  <1>2. OneRowPerLog' /\ (Seeded => Seeded')
    BY DEF IInv, OneRowPerLog, Seeded, process
  <1>3. (SQLiteInv => SQLiteInv') /\ (PostgresInv => PostgresInv')
    BY DEF SQLite, SQLiteInv, PostgresInv, Saving, Cleaning, process
  <1>4. QED
    BY <1>1, <1>2, <1>3 DEF IInv, SQLite, Seeded, process

LEMMA ReplaceStep ==
  ASSUME IInv, NEW c \in Conns, Replace(c)
  PROVE  IInv' /\ Sim
PROOF
  <1>1. fk' \subseteq Conns /\ reply'.result \in {"none", "ok", "notfound", "error"}
    BY DEF Replace, IInv, TypeOK
  <1>2. QED
    BY <1>1, InvariantKept, QuietStep DEF Replace, process

LEMMA StatementFailsStep ==
  ASSUME IInv, NEW c \in Conns, StatementFails(c)
  PROVE  IInv' /\ Sim
PROOF
  <1>1. fk' \subseteq Conns /\ reply'.result \in {"none", "ok", "notfound", "error"}
    BY DEF StatementFails, IInv, TypeOK, Failure, Reply
  <1>2. QED
    BY <1>1, InvariantKept, QuietStep DEF StatementFails, process

-----------------------------------------------------------------------------
(* Transactions.                                                           *)

(* A SQLite transaction that is alone wrote what the invariant says of it. *)
LEMMA WroteKeeps ==
  ASSUME IInv, SQLite, phase = "ready", NEW c \in Conns,
         \A d \in Conns \ {c} : tx[d] = Idle,
         NEW view \in Tables, OnePerLog(view.events), NEW op \in TxOps,
         NEW batch \in SUBSET Events, NEW todo \in SUBSET Events,
         Wrote(c, view, op, batch, todo),
         Saving(c)' \/ Cleaning(c)'
  PROVE  IInv' /\ Sim
PROOF
  <1> USE DEF Wrote
  <1> DEFINE new == [op |-> op, batch |-> batch, todo |-> todo, view |-> view]
  <1>1. tx' = [tx EXCEPT ![c] = new]
    OBVIOUS
  <1>2. tx \in [Conns -> [op : TxOps, batch : SUBSET Events, todo : SUBSET Events,
                          view : Tables]]
    BY DEF IInv, TypeOK
  <1>3. tx'[c] = new /\ \A d \in Conns \ {c} : tx'[d] = Idle
    BY <1>1, <1>2
  <1>4. TypeOK'
    <2>1. new \in [op : TxOps, batch : SUBSET Events, todo : SUBSET Events, view : Tables]
      OBVIOUS
    <2>2. tx' \in [Conns -> [op : TxOps, batch : SUBSET Events, todo : SUBSET Events,
                             view : Tables]]
      BY <1>1, <1>2, <2>1
    <2>3. QED
      BY <2>2 DEF IInv, TypeOK, process, NoReply, Reply
  <1>5. OneRowPerLog'
    BY <1>3, IdleFacts, NoRowsFine DEF IInv, OneRowPerLog
  <1>6. SQLiteInv'
    BY <1>3 DEF SQLiteInv
  <1>7. SQLite' /\ phase' = "ready" /\ tables'.cursor # NoCursor
    BY DEF SQLite, process, IInv, Seeded
  <1>8. IInv'
    BY <1>4, <1>5, <1>6, <1>7 DEF IInv
  <1>9. QED
    BY <1>8, QuietStep DEF process

LEMMA WithNoEvents ==
  ASSUME NEW t \in Tables
  PROVE  Promise!WithEvents(t, {}) = t
PROOF
  <1>1. {d \in t.events : \A e \in {} : e.log # d.log} \cup {} = t.events
    OBVIOUS
  <1>2. QED
    BY <1>1 DEF Promise!WithEvents, Tables

LEMMA WithOneMore ==
  ASSUME NEW t \in Tables, NEW batch \in SUBSET Events, NEW e \in Events,
         OnePerLog(batch \cup {e})
  PROVE  Promise!WithEvents(Promise!WithEvents(t, batch), {e})
           = Promise!WithEvents(t, batch \cup {e})
PROOF
  <1> DEFINE kept(b) == {d \in t.events : \A a \in b : a.log # d.log}
             u == Promise!WithEvents(t, batch)
  <1>1. u = [t EXCEPT !.events = kept(batch) \cup batch]
    BY DEF Promise!WithEvents, Tables
  <1>2. u.events = kept(batch) \cup batch
    BY <1>1 DEF Tables
  <1>3. {d \in kept(batch) \cup batch : e.log # d.log} \cup {e}
          = kept(batch \cup {e}) \cup (batch \cup {e})
    <2>1. \A d \in batch : d.log = e.log => d = e
      BY DEF OnePerLog
    <2>2. QED
      BY <2>1
  <1>4. Promise!WithEvents(u, {e})
          = [u EXCEPT !.events = {d \in u.events : e.log # d.log} \cup {e}]
    BY <1>1 DEF Promise!WithEvents, Tables
  <1>5. Promise!WithEvents(u, {e})
          = [u EXCEPT !.events = kept(batch \cup {e}) \cup (batch \cup {e})]
    BY <1>2, <1>3, <1>4
  <1>6. Promise!WithEvents(t, batch \cup {e})
          = [t EXCEPT !.events = kept(batch \cup {e}) \cup (batch \cup {e})]
    BY DEF Promise!WithEvents, Tables
  <1>7. QED
    BY <1>1, <1>5, <1>6 DEF Tables

LEMMA NewFacts ==
  ASSUME NEW batch \in Batches
  PROVE  New(batch) \in SUBSET Events /\ New(batch) # {} /\ OnePerLog(New(batch))
PROOF
  <1>1. batch \subseteq Ids /\ batch # {} /\ OnePerLog(batch)
    BY BackendAssumption
  <1>2. New(batch) \in SUBSET Events
    BY <1>1, RowFacts DEF New
  <1>3. \A id \in batch : Row(id, FALSE).log = id.log
    BY <1>1, RowFacts
  <1>4. OnePerLog(New(batch))
    <2> SUFFICES ASSUME NEW d \in New(batch), NEW e \in New(batch), d.log = e.log
                 PROVE  d = e
      BY DEF OnePerLog
    <2>1. PICK i \in batch : d = Row(i, FALSE)
      BY DEF New
    <2>2. PICK j \in batch : e = Row(j, FALSE)
      BY DEF New
    <2>3. i = j
      BY <1>1, <1>3, <2>1, <2>2 DEF OnePerLog
    <2>4. QED
      BY <2>1, <2>2, <2>3
  <1>5. QED
    BY <1>1, <1>2, <1>4 DEF New

(* One more insert of SaveEvents. *)
LEMMA InsertKeeps ==
  ASSUME IInv, SQLite, phase = "ready", NEW c \in Conns,
         \A d \in Conns \ {c} : tx[d] = Idle,
         NEW batch \in SUBSET Events, batch # {}, OnePerLog(batch),
         NEW todo \in SUBSET batch,
         NEW t, t = Promise!WithEvents(tables, batch \ todo), t \in Tables,
         OnePerLog(t.events),
         Insert(c, t, batch, todo)
  PROVE  IInv' /\ Sim
PROOF
  <1>1. PICK e \in todo :
          LET out == S!SaveEvent(t, e, c \in fk)
          IN  /\ out.result = "ok"
              /\ Wrote(c, out.tables, IF todo = {e} THEN "Commit" ELSE "Insert",
                       batch, todo \ {e})
    BY DEF Insert
  <1> DEFINE out == S!SaveEvent(t, e, c \in fk)
             op == IF todo = {e} THEN "Commit" ELSE "Insert"
             rest == todo \ {e}
  <1>2. out.result = "ok" /\ Wrote(c, out.tables, op, batch, rest)
    BY <1>1
  <1>3. e \in Events
    OBVIOUS
  <1>4. Fine(out, t) /\ out.tables = Promise!WithEvents(t, {e})
    BY <1>2, <1>3, SQLiteSaveEvent
  <1>5. (batch \ todo) \cup {e} = batch \ rest
    OBVIOUS
  <1>6. OnePerLog((batch \ todo) \cup {e})
    BY DEF OnePerLog
  <1>7. tables \in Tables
    BY DEF IInv, TypeOK
  <1>8. out.tables = Promise!WithEvents(tables, batch \ rest)
    BY <1>3, <1>4, <1>5, <1>6, <1>7, WithOneMore
  <1> HIDE DEF out
  <1>9. tx'[c] = [op |-> op, batch |-> batch, todo |-> rest, view |-> out.tables]
        /\ tables' = tables
    BY <1>2 DEF Wrote, IInv, TypeOK
  <1>10. Saving(c)'
    BY <1>8, <1>9 DEF Saving
  <1>11. op \in TxOps /\ rest \in SUBSET Events
    BY DEF TxOps
  <1>12. out.tables \in Tables /\ OnePerLog(out.tables.events)
    BY <1>4 DEF Fine
  <1> HIDE DEF op, rest
  <1>13. QED
    BY <1>2, <1>10, <1>11, <1>12, WroteKeeps

LEMMA Alone ==
  ASSUME IInv, SQLite, NEW c \in Conns, tx[c].op # "none"
  PROVE  /\ Saving(c) \/ Cleaning(c)
         /\ \A d \in Conns \ {c} : tx[d] = Idle
         /\ phase = "ready"
         /\ tx[c].view \in Tables /\ OnePerLog(tx[c].view.events)
         /\ tx[c].batch \in SUBSET Events /\ tx[c].todo \in SUBSET Events
PROOF
  <1>1. tx[c] # Idle
    BY IdleFacts
  <1>2. QED
    BY <1>1 DEF IInv, SQLiteInv, TypeOK, OneRowPerLog

LEMMA BeginSaveEventsStep ==
  ASSUME IInv, NEW c \in Conns, BeginSaveEvents(c)
  PROVE  IInv' /\ Sim
PROOF
  <1>1. PICK b \in Batches : Insert(c, tables, New(b), New(b))
    BY DEF BeginSaveEvents
  <1>2. SQLite /\ phase = "ready" /\ \A d \in Conns : tx[d] = Idle
    BY DEF BeginSaveEvents, Starts, Unlocked, Locked
  <1>3. tables \in Tables /\ OnePerLog(tables.events)
    BY DEF IInv, TypeOK, OneRowPerLog
  <1>4. New(b) \ New(b) = {}
    OBVIOUS
  <1>5. tables = Promise!WithEvents(tables, New(b) \ New(b))
    BY <1>3, <1>4, WithNoEvents
  <1>6. QED
    BY <1>1, <1>2, <1>3, <1>5, NewFacts, InsertKeeps

LEMMA OnlySQLiteInserts ==
  ASSUME IInv, NEW c \in Conns, tx[c].op \in TxOps \ {"none", "Commit"}
  PROVE  SQLite
PROOF
  <1>1. tx[c] # Idle
    BY IdleFacts
  <1>2. QED
    BY <1>1 DEF IInv, PostgresInv

LEMMA InsertNextStep ==
  ASSUME IInv, NEW c \in Conns, InsertNext(c)
  PROVE  IInv' /\ Sim
PROOF
  <1>1. tx[c].op = "Insert" /\ Insert(c, tx[c].view, tx[c].batch, tx[c].todo)
    BY DEF InsertNext
  <1>2. SQLite
    BY <1>1, OnlySQLiteInserts DEF TxOps
  <1>3. Saving(c)
    BY <1>1, <1>2, Alone DEF Cleaning
  <1>4. QED
    BY <1>1, <1>2, <1>3, Alone, InsertKeeps DEF Saving

LEMMA CleanedFine ==
  ASSUME NEW t \in Tables, OnePerLog(t.events)
  PROVE  /\ CleanedEvents(t) \in Tables /\ OnePerLog(CleanedEvents(t).events)
         /\ CleanedBoth(t) \in Tables /\ OnePerLog(CleanedBoth(t).events)
         /\ Promise!Cleaned(t) \in Tables /\ OnePerLog(Promise!Cleaned(t).events)
         /\ Promise!Cleaned(t) = [CleanedBoth(t) EXCEPT !.statuses = {s \in @ : ~s.old}]
         /\ Promise!Cleaned(t).cursor = t.cursor
PROOF
  <1> DEFINE v == CleanedEvents(t)
             w == CleanedBoth(t)
             x == [w EXCEPT !.statuses = {s \in @ : ~s.old}]
  <1>1. v \in Tables /\ OnePerLog(v.events)
    BY DeletionFine DEF CleanedEvents
  <1>2. v = [t EXCEPT !.events = t.events \ Expireds(t)]
    BY DEF CleanedEvents, Promise!WithoutEvents
  <1>3. w = [v EXCEPT !.notifications = {n \in v.notifications : ~n.old}]
    BY DEF CleanedBoth
  <1> HIDE DEF v
  <1>4. w \in Tables /\ w.events = v.events
    BY <1>1, <1>3 DEF Tables
  <1> HIDE DEF w
  <1>5. x \in Tables /\ x.events = w.events
    BY <1>4 DEF Tables
  <1>6. t.events \ Expireds(t) = {e \in t.events : ~Expired(e)}
    BY DEF Expireds
  <1>7. Promise!Cleaned(t) =
          [t EXCEPT !.events = {e \in t.events : ~Expired(e)},
                    !.notifications = {n \in t.notifications : ~n.old},
                    !.statuses = {s \in t.statuses : ~s.old}]
    BY DEF Promise!Cleaned, Promise!Expired, Expired
  <1>8. Promise!Cleaned(t) = x
    BY <1>2, <1>3, <1>6, <1>7 DEF Tables
  <1>9. Promise!Cleaned(t).cursor = t.cursor
    BY <1>7 DEF Tables
  <1>10. QED
    BY <1>1, <1>4, <1>5, <1>8, <1>9 DEF v, w

LEMMA CleanEventsStep ==
  ASSUME IInv, NEW c \in Conns, CleanEvents(c)
  PROVE  IInv' /\ Sim
PROOF
  <1> DEFINE out == S!CleanupEvents(tables, c \in fk)
  <1>1. SQLite /\ phase = "ready" /\ \A d \in Conns : tx[d] = Idle
    BY DEF CleanEvents, Starts, Unlocked, Locked
  <1>2. out.result = "ok" /\ Wrote(c, out.tables, "CleanNotifications", {}, {})
    BY DEF CleanEvents
  <1>3. tables \in Tables /\ OnePerLog(tables.events)
    BY DEF IInv, TypeOK, OneRowPerLog
  <1>4. out = S!ChangeEvents(tables, Expireds(tables), {}, c \in fk)
    BY DEF S!CleanupEvents, S!Expired, Expireds, Expired
  <1>5. out.tables = CleanedEvents(tables)
    BY <1>2, <1>3, <1>4, ChangeEventsDeletes DEF CleanedEvents
  <1> HIDE DEF out
  <1>6. CleanedEvents(tables) \in Tables /\ OnePerLog(CleanedEvents(tables).events)
    BY <1>3, CleanedFine
  <1>7. tx'[c] = [op |-> "CleanNotifications", batch |-> {}, todo |-> {},
                  view |-> CleanedEvents(tables)] /\ tables' = tables
    BY <1>2, <1>5 DEF Wrote, IInv, TypeOK
  <1>8. Cleaning(c)'
    BY <1>7 DEF Cleaning
  <1>9. QED
    BY <1>1, <1>2, <1>5, <1>6, <1>8, WroteKeeps DEF TxOps

LEMMA CleanNotificationsStep ==
  ASSUME IInv, NEW c \in Conns, CleanNotifications(c)
  PROVE  IInv' /\ Sim
PROOF
  <1>1. tx[c].op = "CleanNotifications"
        /\ Wrote(c, S!CleanupNotifications(tx[c].view).tables, "CleanStatuses", {}, {})
    BY DEF CleanNotifications
  <1>2. SQLite
    BY <1>1, OnlySQLiteInserts DEF TxOps
  <1>3. tx[c].view = CleanedEvents(tables)
    BY <1>1, <1>2, Alone DEF Cleaning, Saving
  <1>4. S!CleanupNotifications(tx[c].view).tables = CleanedBoth(tables)
    BY <1>3 DEF S!CleanupNotifications, S!Ok, CleanedBoth
  <1>5. CleanedBoth(tables) \in Tables /\ OnePerLog(CleanedBoth(tables).events)
    BY CleanedFine DEF IInv, TypeOK, OneRowPerLog
  <1>6. tx'[c] = [op |-> "CleanStatuses", batch |-> {}, todo |-> {},
                  view |-> CleanedBoth(tables)] /\ tables' = tables
    BY <1>1, <1>4 DEF Wrote, IInv, TypeOK
  <1>7. Cleaning(c)'
    BY <1>6 DEF Cleaning
  <1>8. QED
    BY <1>1, <1>2, <1>4, <1>5, <1>7, Alone, WroteKeeps DEF TxOps

LEMMA CleanStatusesStep ==
  ASSUME IInv, NEW c \in Conns, CleanStatuses(c)
  PROVE  IInv' /\ Sim
PROOF
  <1>1. tx[c].op = "CleanStatuses"
        /\ Wrote(c, S!CleanupStatuses(tx[c].view).tables, "Commit", {}, {})
    BY DEF CleanStatuses
  <1>2. SQLite
    BY <1>1, OnlySQLiteInserts DEF TxOps
  <1>3. tx[c].view = CleanedBoth(tables)
    BY <1>1, <1>2, Alone DEF Cleaning, Saving
  <1>4. Promise!Cleaned(tables) \in Tables /\ OnePerLog(Promise!Cleaned(tables).events)
        /\ Promise!Cleaned(tables) =
             [CleanedBoth(tables) EXCEPT !.statuses = {s \in @ : ~s.old}]
    BY CleanedFine DEF IInv, TypeOK, OneRowPerLog
  <1>5. S!CleanupStatuses(tx[c].view).tables = Promise!Cleaned(tables)
    BY <1>3, <1>4 DEF S!CleanupStatuses, S!Ok
  <1>6. tx'[c] = [op |-> "Commit", batch |-> {}, todo |-> {},
                  view |-> Promise!Cleaned(tables)] /\ tables' = tables
    BY <1>1, <1>5 DEF Wrote, IInv, TypeOK
  <1>7. Cleaning(c)'
    BY <1>6 DEF Cleaning
  <1>8. "Commit" \in TxOps /\ {} \in SUBSET Events
    BY DEF TxOps
  <1>9. phase = "ready" /\ \A d \in Conns \ {c} : tx[d] = Idle
    BY <1>1, <1>2, Alone
  <1>10. Wrote(c, Promise!Cleaned(tables), "Commit", {}, {})
    BY <1>1, <1>5
  <1>11. QED
    BY <1>2, <1>4, <1>7, <1>8, <1>9, <1>10, WroteKeeps

LEMMA CopyInStep ==
  ASSUME IInv, NEW c \in Conns, CopyIn(c)
  PROVE  IInv' /\ Sim
PROOF
  <1>1. PICK b \in Batches :
          /\ \A e \in New(b) : ~Inserting(e.log)
          /\ P!CopyAccepts(tables, New(b))
          /\ Wrote(c, NoRows, "Commit", New(b), {})
    BY DEF CopyIn
  <1>2. backend = "postgres" /\ phase = "ready" /\ tx[c] = Idle
    BY DEF CopyIn, Starts
  <1>3. New(b) \in SUBSET Events /\ New(b) # {} /\ OnePerLog(New(b))
    BY NewFacts
  <1> DEFINE new == [op |-> "Commit", batch |-> New(b), todo |-> {}, view |-> NoRows]
  <1>4. tx' = [tx EXCEPT ![c] = new] /\ reply' = NoReply
        /\ UNCHANGED <<process, tables, fk>>
    BY <1>1 DEF Wrote
  <1>5. tx \in [Conns -> [op : TxOps, batch : SUBSET Events, todo : SUBSET Events,
                          view : Tables]]
    BY DEF IInv, TypeOK
  <1>6. tx'[c] = new /\ \A d \in Conns \ {c} : tx'[d] = tx[d]
    BY <1>4, <1>5
  <1>7. TypeOK'
    <2>1. new \in [op : TxOps, batch : SUBSET Events, todo : SUBSET Events, view : Tables]
      BY <1>3, NoRowsFine DEF TxOps
    <2>2. tx' \in [Conns -> [op : TxOps, batch : SUBSET Events, todo : SUBSET Events,
                             view : Tables]]
      BY <1>4, <1>5, <2>1
    <2>3. QED
      BY <1>4, <2>2 DEF IInv, TypeOK, process, NoReply, Reply
  <1>8. OneRowPerLog'
    BY <1>4, <1>6, NoRowsFine DEF IInv, OneRowPerLog
  <1>9. PostgresInv'
    <2>1. PostgresInv
      BY <1>2 DEF IInv, SQLite
    <2>2. \A e \in New(b) : \A d \in tables.events : d.log # e.log
      BY <1>1 DEF P!CopyAccepts
    <2>3. \A e \in New(b) : \A k \in Conns : \A d \in tx[k].batch : d.log # e.log
      BY <1>1, <1>2 DEF Inserting
    <2> SUFFICES ASSUME NEW k \in Conns, tx'[k] # Idle
                 PROVE  /\ tx'[k].op = "Commit" /\ tx'[k].batch # {}
                        /\ OnePerLog(tx'[k].batch)
                        /\ \A e \in tx'[k].batch :
                             /\ \A d \in tables.events : d.log # e.log
                             /\ \A j \in Conns \ {k} : \A d \in tx'[j].batch : d.log # e.log
      BY <1>4 DEF PostgresInv
    <2>4. CASE k = c
      <3>1. \A j \in Conns \ {c} : tx'[j].batch = tx[j].batch
        BY <1>6
      <3>2. QED
        BY <1>3, <1>6, <2>2, <2>3, <2>4, <3>1
    <2>5. CASE k # c
      <3>1. tx'[k] = tx[k] /\ tx[k] # Idle
        BY <1>6, <2>5
      <3>2. /\ tx[k].op = "Commit" /\ tx[k].batch # {} /\ OnePerLog(tx[k].batch)
            /\ \A e \in tx[k].batch :
                 /\ \A d \in tables.events : d.log # e.log
                 /\ \A j \in Conns \ {k} : \A d \in tx[j].batch : d.log # e.log
        BY <2>1, <3>1 DEF PostgresInv
      <3>3. \A e \in tx[k].batch : \A d \in New(b) : d.log # e.log
        BY <2>3
      <3>4. \A j \in Conns \ {k} : tx'[j].batch = New(b) \/ tx'[j].batch = tx[j].batch
        BY <1>6
      <3>5. QED
        BY <3>1, <3>2, <3>3, <3>4
    <2>6. QED
      BY <2>4, <2>5
  <1>10. ~SQLite' /\ phase' = "ready" /\ tables'.cursor # NoCursor
    BY <1>2, <1>4 DEF SQLite, process, IInv, Seeded
  <1>11. IInv'
    BY <1>7, <1>8, <1>9, <1>10 DEF IInv
  <1>12. QED
    BY <1>4, <1>11, QuietStep DEF process

(* The end of a transaction. *)
LEMMA TxEnds ==
  ASSUME IInv, NEW c \in Conns, tx[c] # Idle, tx' = [tx EXCEPT ![c] = Idle],
         UNCHANGED <<process, fk>>, reply'.result \in {"none", "ok", "notfound", "error"},
         tables' \in Tables, OnePerLog(tables'.events), tables'.cursor # NoCursor,
         ~SQLite => \A k \in Conns \ {c} : \A e \in tx[k].batch :
                      \A d \in tables'.events : d.log # e.log
  PROVE  IInv'
PROOF
  <1>1. tx \in [Conns -> [op : TxOps, batch : SUBSET Events, todo : SUBSET Events,
                          view : Tables]]
    BY DEF IInv, TypeOK
  <1>2. tx'[c] = Idle /\ \A d \in Conns \ {c} : tx'[d] = tx[d]
    BY <1>1
  <1>3. tx' \in [Conns -> [op : TxOps, batch : SUBSET Events, todo : SUBSET Events,
                           view : Tables]]
    BY <1>1, IdleFacts
  <1>4. TypeOK'
    BY <1>3 DEF IInv, TypeOK, process
  <1>5. OneRowPerLog'
    BY <1>2, IdleFacts, NoRowsFine DEF IInv, OneRowPerLog
  <1>6. phase' = "ready" /\ SQLite' = SQLite
    BY DEF IInv, process, SQLite
  <1>7. SQLite' => SQLiteInv'
    BY <1>2, <1>6 DEF IInv, SQLiteInv
  <1>8. ~SQLite' => PostgresInv'
    BY <1>2, <1>6, IdleFacts DEF IInv, PostgresInv
  <1>9. QED
    BY <1>4, <1>5, <1>6, <1>7, <1>8 DEF IInv

LEMMA RollbackStep ==
  ASSUME IInv, NEW c \in Conns, Rollback(c)
  PROVE  IInv' /\ Sim
PROOF
  <1> USE DEF Rollback
  <1>1. phase = "ready"
    BY DEF IInv
  <1>2. tables' \in Tables /\ OnePerLog(tables'.events) /\ tables'.cursor # NoCursor
    BY <1>1 DEF IInv, TypeOK, OneRowPerLog, Seeded
  <1>3. ~SQLite => \A k \in Conns \ {c} : \A e \in tx[k].batch :
                     \A d \in tables'.events : d.log # e.log
    BY IdleFacts DEF IInv, PostgresInv
  <1>4. IInv'
    BY <1>2, <1>3, TxEnds DEF Failure, Reply
  <1>5. QED
    BY <1>4, QuietStep DEF process

LEMMA CommitSaving ==
  ASSUME IInv, NEW c \in Conns, Commit(c), tx[c].batch # {}, OnePerLog(tx[c].batch),
         tables' = Promise!WithEvents(tables, tx[c].batch),
         tx[c].batch \subseteq tables'.events
  PROVE  Sim
PROOF
  <1>1. "SaveEvents" \notin stubs /\ stubs' = stubs
    BY DEF stubs, Placeholders, Commit, process
  <1>2. reply' = Promise!Reply("SaveEvents", tx[c].batch, "ok")
    BY DEF Commit, Reply, Promise!Reply
  <1>3. Promise!DoneBatch("SaveEvents", tx[c].batch,
                          Promise!WithEvents(tables, tx[c].batch))
    BY <1>1, <1>2 DEF Promise!DoneBatch
  <1>4. Promise!OnePerLog(tx[c].batch)
    BY DEF OnePerLog, Promise!OnePerLog
  <1>5. Promise!SaveEvents
    BY <1>3, <1>4 DEF Promise!SaveEvents
  <1>6. QED
    BY <1>5 DEF Sim, Promise!Next

LEMMA CommitStep ==
  ASSUME IInv, NEW c \in Conns, Commit(c)
  PROVE  IInv' /\ Sim
PROOF
  <1>1. tx[c].op = "Commit" /\ tables' = Committed(c) /\ tx' = [tx EXCEPT ![c] = Idle]
        /\ UNCHANGED <<process, fk>>
    BY DEF Commit
  <1>2. reply'.result \in {"none", "ok", "notfound", "error"}
    BY DEF Commit, Reply
  <1>3. tx[c] # Idle
    BY <1>1, IdleFacts
  <1>4. tables \in Tables /\ OnePerLog(tables.events) /\ tables.cursor # NoCursor
    BY <1>3 DEF IInv, TypeOK, OneRowPerLog, Seeded
  <1>5. tx[c].batch \in SUBSET Events
    BY DEF IInv, TypeOK
  <1>6. CASE SQLite
    <2>1. tables' = tx[c].view /\ tables' \in Tables /\ OnePerLog(tables'.events)
          /\ (Saving(c) \/ Cleaning(c))
      BY <1>1, <1>6, Alone DEF Committed
    <2>2. CASE Saving(c)
      <3>1. tx[c].batch # {} /\ OnePerLog(tx[c].batch) /\ tx[c].todo = {}
        BY <1>1, <2>2 DEF Saving
      <3>2. tx[c].batch \ tx[c].todo = tx[c].batch
        BY <3>1
      <3>3. tables' = Promise!WithEvents(tables, tx[c].batch)
        BY <2>1, <2>2, <3>2 DEF Saving
      <3>4. tx[c].batch \subseteq tables'.events
        BY <1>4, <1>5, <3>1, <3>3, WithEventsFine
      <3>5. tables'.cursor # NoCursor
        BY <1>4, <3>3 DEF Promise!WithEvents, Tables
      <3>6. IInv'
        BY <1>1, <1>2, <1>3, <1>6, <2>1, <3>5, TxEnds
      <3>7. QED
        BY <3>1, <3>3, <3>4, <3>6, CommitSaving
    <2>3. CASE Cleaning(c)
      <3>1. tx[c].batch = {} /\ tables' = Promise!Cleaned(tables)
        BY <1>1, <2>1, <2>3 DEF Cleaning
      <3>2. tables'.cursor # NoCursor
        BY <1>4, <3>1, CleanedFine
      <3>3. IInv'
        BY <1>1, <1>2, <1>3, <1>6, <2>1, <3>2, TxEnds
      <3>4. reply' = Promise!Reply("Cleanup", {}, "ok")
        BY <3>1 DEF Commit, Reply, Promise!Reply
      <3>5. "Cleanup" \notin stubs /\ stubs' = stubs
        BY <1>1, <1>6 DEF stubs, SQLite, process
      <3>6. Promise!Cleanup
        BY <3>1, <3>4, <3>5 DEF Promise!Cleanup, Promise!Done, Promise!DoneBatch
      <3>7. QED
        BY <3>3, <3>6 DEF Sim, Promise!Next
    <2>4. QED
      BY <2>1, <2>2, <2>3
  <1>7. CASE ~SQLite
    <2>1. /\ tx[c].batch # {} /\ OnePerLog(tx[c].batch)
          /\ \A e \in tx[c].batch :
               /\ \A d \in tables.events : d.log # e.log
               /\ \A k \in Conns \ {c} : \A d \in tx[k].batch : d.log # e.log
      BY <1>3, <1>7 DEF IInv, PostgresInv
    <2>2. {d \in tables.events : \A e \in tx[c].batch : e.log # d.log} = tables.events
      BY <2>1
    <2>3. tables' = Promise!WithEvents(tables, tx[c].batch)
      BY <1>1, <1>7, <2>2 DEF Committed, P!Copied, Promise!WithEvents, Tables
    <2>4. tables'.events = tables.events \cup tx[c].batch
          /\ tables' \in Tables /\ OnePerLog(tables'.events)
      BY <1>4, <1>5, <2>1, <2>2, <2>3, WithEventsFine
    <2>5. tables'.cursor # NoCursor
      BY <1>4, <2>3 DEF Promise!WithEvents, Tables
    <2>6. \A k \in Conns \ {c} : \A e \in tx[k].batch :
            \A d \in tables'.events : d.log # e.log
      <3>1. \A k \in Conns \ {c} : \A e \in tx[k].batch :
              \A d \in tables.events : d.log # e.log
        BY <1>7, IdleFacts DEF IInv, PostgresInv
      <3>2. QED
        BY <2>1, <2>4, <3>1
    <2>7. IInv'
      BY <1>1, <1>2, <1>3, <2>4, <2>5, <2>6, TxEnds
    <2>8. QED
      BY <2>1, <2>3, <2>4, <2>7, CommitSaving
  <1>8. QED
    BY <1>6, <1>7

-----------------------------------------------------------------------------
(* The theorems.                                                           *)

LEMMA NextStep ==
  ASSUME IInv, [Next]_vars
  PROVE  IInv' /\ Sim
PROOF
  <1>1. CASE UNCHANGED vars
    BY <1>1, InvariantKept, QuietStep DEF vars, process, IInv, TypeOK
  <1>2. CASE Connect
    BY <1>2, ConnectStep
  <1>3. CASE ApplyMigration
    BY <1>3, ApplyMigrationStep
  <1>4. CASE Exit
    BY <1>4, ExitStep
  <1>5. ASSUME NEW c \in Conns,
               \/ Replace(c) \/ StatementFails(c) \/ SaveEvent(c) \/ UpdateEvent(c) \/ MarkEventProcessed(c)
               \/ DeleteEvent(c) \/ DeleteEventsByBlockRange(c) \/ SaveNotification(c) \/ UpdateNotificationStatus(c) \/ SaveContract(c)
               \/ UpdateContract(c) \/ DeleteContract(c) \/ SetLatestProcessedBlock(c) \/ SetBlockProcessingStatus(c) \/ LogEvent(c)
               \/ StoreProcessingResult(c) \/ CleanupPlaceholder(c) \/ BeginSaveEvents(c) \/ InsertNext(c) \/ CopyIn(c)
               \/ CleanEvents(c) \/ CleanNotifications(c) \/ CleanStatuses(c) \/ Commit(c) \/ Rollback(c)
        PROVE  IInv' /\ Sim
    <2>1. CASE Replace(c)
      BY <2>1, ReplaceStep
    <2>2. CASE StatementFails(c)
      BY <2>2, StatementFailsStep
    <2>3. CASE SaveEvent(c)
      BY <2>3, SaveEventStep
    <2>4. CASE UpdateEvent(c)
      BY <2>4, UpdateEventStep
    <2>5. CASE MarkEventProcessed(c)
      BY <2>5, MarkEventProcessedStep
    <2>6. CASE DeleteEvent(c)
      BY <2>6, DeleteEventStep
    <2>7. CASE DeleteEventsByBlockRange(c)
      BY <2>7, DeleteEventsByBlockRangeStep
    <2>8. CASE SaveNotification(c)
      BY <2>8, SaveNotificationStep
    <2>9. CASE UpdateNotificationStatus(c)
      BY <2>9, UpdateNotificationStatusStep
    <2>10. CASE SaveContract(c)
      BY <2>10, SaveContractStep
    <2>11. CASE UpdateContract(c)
      BY <2>11, UpdateContractStep
    <2>12. CASE DeleteContract(c)
      BY <2>12, DeleteContractStep
    <2>13. CASE SetLatestProcessedBlock(c)
      BY <2>13, SetLatestProcessedBlockStep
    <2>14. CASE SetBlockProcessingStatus(c)
      BY <2>14, SetBlockProcessingStatusStep
    <2>15. CASE LogEvent(c)
      BY <2>15, LogEventStep
    <2>16. CASE StoreProcessingResult(c)
      BY <2>16, StoreProcessingResultStep
    <2>17. CASE CleanupPlaceholder(c)
      BY <2>17, CleanupPlaceholderStep
    <2>18. CASE BeginSaveEvents(c)
      BY <2>18, BeginSaveEventsStep
    <2>19. CASE InsertNext(c)
      BY <2>19, InsertNextStep
    <2>20. CASE CopyIn(c)
      BY <2>20, CopyInStep
    <2>21. CASE CleanEvents(c)
      BY <2>21, CleanEventsStep
    <2>22. CASE CleanNotifications(c)
      BY <2>22, CleanNotificationsStep
    <2>23. CASE CleanStatuses(c)
      BY <2>23, CleanStatusesStep
    <2>24. CASE Commit(c)
      BY <2>24, CommitStep
    <2>25. CASE Rollback(c)
      BY <2>25, RollbackStep
    <2>26. QED
      BY <1>5, <2>1, <2>2, <2>3, <2>4, <2>5, <2>6, <2>7, <2>8, <2>9, <2>10, <2>11, <2>12, <2>13, <2>14, <2>15, <2>16, <2>17, <2>18, <2>19, <2>20, <2>21, <2>22, <2>23, <2>24, <2>25
  <1>6. QED
    BY <1>1, <1>2, <1>3, <1>4, <1>5 DEF Next

(* The invariant holds throughout, for any ids, batches and connections.   *)
THEOREM Invariant == Spec => []IInv
PROOF
  <1>1. IInv /\ [Next]_vars => IInv'
    BY NextStep
  <1>2. QED
    BY <1>1, InitIInv, PTL DEF Spec

(* Every call leaves tables, transactions and answers of the types the     *)
(* code gives them.                                                        *)
THEOREM StorageTypeCorrect == Spec => []TypeOK
PROOF
  <1>1. IInv => TypeOK
    BY DEF IInv
  <1>2. QED
    BY <1>1, Invariant, PTL

(* Saving a log again, with another id, in a batch or alone, on any        *)
(* connection, never leaves two rows of it: INSERT OR REPLACE deletes the  *)
(* old row, ON CONFLICT and COPY fail.                                     *)
THEOREM OneRowPerLogHolds == Spec => []OneRowPerLog
PROOF
  <1>1. IInv => OneRowPerLog
    BY DEF IInv
  <1>2. QED
    BY <1>1, Invariant, PTL

(* Both back ends implement module Storage: what SaveEvents and Cleanup do *)
(* in several statements shows as one step or not at all.                  *)
THEOREM BackendImplementsStorage == Spec => ImplementsStorage
PROOF
  <1>1. Init => Promise!Init
    <2>1. stubs \subseteq Promise!Operations
      BY DEF stubs, Placeholders, Promise!Operations
    <2>2. QED
      BY <2>1 DEF Init, Promise!Init, Promise!NoRows, NoRows, Promise!NoCursor, NoCursor,
                  Promise!NoReply, Promise!Reply, NoReply, Reply
  <1>2. IInv /\ [Next]_vars => [Promise!Next]_(Promise!vars)
    BY NextStep DEF Sim
  <1>3. QED
    BY <1>1, <1>2, Invariant, PTL DEF Spec, ImplementsStorage, Promise!Spec
=============================================================================
