---------------------- MODULE ConnectionManager_proofs ----------------------
(***************************************************************************)
(* Proofs about the connection manager, for any number of callers, nodes   *)
(* and attempts.  cm.mu makes connect exclusive: the invariant says what   *)
(* the caller inside it has tried, and that its new client is its own.     *)
(***************************************************************************)
EXTENDS ConnectionManager, TLAPS

Connecting == {"dial", "verify", "next", "delay", "failed"}

(* None of the first n URLs has answered throughout. *)
Tried(n) == \A j \in 0 .. n - 1 : UrlAt(j) \notin steady

(* What holds of caller t while it is inside connect. *)
ConnectInv(t) ==
  /\ at[t] \in Connecting => mu = t
  /\ at[t] = "delay" => attempt + 1 < RetryAttempts
  /\ at[t] = "verify" =>
       /\ mine[t] \in Clients
       /\ mine[t].node = UrlAt(pos)
       /\ mine[t] # client
       /\ mine[t].node \in Sockets => mine[t] \in open
  /\ t \notin expired /\ RetryAttempts # 0 =>
       /\ at[t] \in {"dial", "verify"} => Tried(pos)
       /\ at[t] = "next" => Tried(pos + 1)
       /\ at[t] \in {"delay", "failed"} => steady = {}

Inv ==
  /\ TypeOK
  /\ SharedClientIsOpen
  /\ steady \subseteq up
  /\ \A t \in Callers : ConnectInv(t)
-----------------------------------------------------------------------------
(* The rotation keeps to the configured URLs and leaves none out.          *)
LEMMA UrlAtNodes ==
  ASSUME current \in Nodes
  PROVE  /\ \A i \in Nodes : UrlAt(i) \in Nodes
         /\ \A n \in Nodes : \E i \in Nodes : UrlAt(i) = n
<1>1. \A i \in Nodes : UrlAt(i) \in Nodes
  BY ConnectionAssumption DEF UrlAt, Nodes
<1>2. ASSUME NEW n \in Nodes PROVE \E i \in Nodes : UrlAt(i) = n
  <2>1. CASE n >= current
    <3>1. n - current \in Nodes /\ UrlAt(n - current) = n
      BY <2>1, ConnectionAssumption DEF UrlAt, Nodes
    <3> QED BY <3>1
  <2>2. CASE n < current
    <3>1. /\ n - current + NodeCount \in Nodes
          /\ UrlAt(n - current + NodeCount) = n
      BY <2>2, ConnectionAssumption DEF UrlAt, Nodes
    <3> QED BY <3>1
  <2> QED BY <2>1, <2>2, ConnectionAssumption DEF Nodes
<1> QED BY <1>1, <1>2

(* When every URL has been tried, no node has answered throughout.         *)
LEMMA AllTried ==
  ASSUME TypeOK, Tried(NodeCount)
  PROVE  steady = {}
<1>1. SUFFICES ASSUME NEW n \in steady PROVE FALSE
  OBVIOUS
<1>2. n \in Nodes /\ current \in Nodes
  BY DEF TypeOK
<1>3. PICK i \in Nodes : UrlAt(i) = n
  BY <1>2, UrlAtNodes
<1>4. UrlAt(i) \notin steady
  BY ConnectionAssumption DEF Tried, Nodes
<1> QED BY <1>3, <1>4

(* A new client is a client of its node that nobody has.                   *)
LEMMA NewClientsAreNew ==
  ASSUME NEW n, NEW c \in NewClients(n)
  PROVE  c \in Clients /\ c.node = n /\ c # client
BY DEF NewClients, Unreachable

LEMMA InitInv == Init => Inv
<1> SUFFICES ASSUME Init PROVE Inv
  OBVIOUS
<1>1. TypeOK
  <2>1. 0 \in Nodes
    BY ConnectionAssumption DEF Nodes
  <2>2. /\ at \in [Callers -> Steps]
        /\ op \in [Callers -> Operations]
        /\ mine \in [Callers -> Clients \cup {NoClient}]
    BY DEF Init, Steps, Operations
  <2> QED BY <2>1, <2>2 DEF Init, TypeOK
<1> QED BY <1>1 DEF Init, Inv, SharedClientIsOpen, ConnectInv, Connecting
-----------------------------------------------------------------------------
(* Steps of the environment. *)
LEMMA EnvironmentInv ==
  ASSUME Inv, Environment
  PROVE  Inv'
<1> USE DEF Inv
<1>1. CASE NodeChanges
  <2>1. TypeOK'
    BY <1>1 DEF NodeChanges, TypeOK, managerVars, callVars
  <2>2. SharedClientIsOpen' /\ (steady \subseteq up)' /\ steady' \subseteq steady
    BY <1>1 DEF NodeChanges, SharedClientIsOpen, managerVars
  <2>3. ASSUME NEW t \in Callers PROVE ConnectInv(t)'
    BY <1>1, <2>2 DEF NodeChanges, ConnectInv, Tried, UrlAt, managerVars,
       callVars
  <2> QED BY <2>1, <2>2, <2>3
<1>2. CASE MinutePasses
  <2>1. TypeOK'
    BY <1>2 DEF MinutePasses, TypeOK, callVars, connectVars
  <2>2. SharedClientIsOpen' /\ (steady \subseteq up)'
    BY <1>2 DEF MinutePasses, SharedClientIsOpen, connectVars
  <2>3. ASSUME NEW t \in Callers PROVE ConnectInv(t)'
    BY <1>2 DEF MinutePasses, ConnectInv, Tried, UrlAt, callVars, connectVars
  <2> QED BY <2>1, <2>2, <2>3
<1>3. ASSUME NEW u \in Callers, ContextEnds(u) PROVE Inv'
  <2>1. TypeOK'
    BY <1>3 DEF ContextEnds, TypeOK, managerVars, connectVars
  <2>2. SharedClientIsOpen' /\ (steady \subseteq up)'
    BY <1>3 DEF ContextEnds, SharedClientIsOpen, managerVars, connectVars
  <2>3. ASSUME NEW t \in Callers PROVE ConnectInv(t)'
    BY <1>3 DEF ContextEnds, ConnectInv, Tried, UrlAt, managerVars,
       connectVars
  <2> QED BY <2>1, <2>2, <2>3
<1> QED BY <1>1, <1>2, <1>3 DEF Environment
-----------------------------------------------------------------------------
(* A step of t outside connect keeps what the invariant says of connect,   *)
(* or takes cm.mu, which then nobody holds.                                *)
LEMMA OtherCaller ==
  ASSUME Inv, NEW t \in Callers, NEW u \in Callers, u # t,
         Begin(t) \/ Proceed(t)
  PROVE  ConnectInv(u)'
<1> USE ConnectionAssumption DEF Inv
<1>1. at'[u] = at[u] /\ mine'[u] = mine[u] /\ (u \in expired <=> u \in expired')
  BY DEF TypeOK, Begin, Proceed, ReadClient, ReadAge, QuickHealthCheck,
     DropClient, Connect, StartConnect, Dial, InstallClient, DiscardClient,
     NextUrl, NextAttempt, DelayCancelled, ConnectFails, Requested, Answered,
     Record, RecordError, Close, Goto, Return
<1>2. CASE at[u] \notin Connecting
  BY <1>1, <1>2 DEF ConnectInv, Connecting
<1>3. CASE at[u] \in Connecting
  <2>1. mu = u /\ mu # t /\ mu # Nobody
    BY <1>3 DEF ConnectInv
  <2>2. at[t] \notin Connecting
    BY <2>1 DEF ConnectInv
  <2>3. UNCHANGED <<mu, client, current, open, attempt, pos, steady>>
    BY <2>1, <2>2 DEF Connecting, Begin, Proceed, ReadClient, ReadAge,
       QuickHealthCheck, DropClient, Connect, StartConnect, Dial,
       InstallClient, DiscardClient, NextUrl, NextAttempt, DelayCancelled,
       ConnectFails, Requested, Answered, Record, RecordError, Close,
       managerVars, connectVars
  <2> QED BY <1>1, <2>3 DEF ConnectInv, Tried, UrlAt
<1> QED BY <1>2, <1>3

(* Steps outside connect. *)
LEMMA OutsideConnect ==
  ASSUME Inv, NEW t \in Callers,
         \/ Begin(t) \/ ReadClient(t) \/ ReadAge(t) \/ QuickHealthCheck(t)
         \/ DropClient(t) \/ Requested(t) \/ Answered(t) \/ Record(t)
         \/ RecordError(t) \/ Close(t)
  PROVE  /\ TypeOK'
         /\ SharedClientIsOpen'
         /\ (steady \subseteq up)'
         /\ ConnectInv(t)'
<1> USE DEF Inv
<1>1. TypeOK'
  <2>1. CASE Begin(t)
    BY <2>1 DEF Begin, TypeOK, managerVars, connectVars, Steps
  <2>2. CASE ReadClient(t)
    BY <2>2 DEF ReadClient, Goto, TypeOK, managerVars, connectVars, Steps
  <2>3. CASE ReadAge(t) \/ QuickHealthCheck(t) \/ Requested(t)
    BY <2>3 DEF ReadAge, QuickHealthCheck, Requested, Goto, TypeOK,
       managerVars, connectVars, Steps
  <2>4. CASE DropClient(t)
    BY <2>4 DEF DropClient, ClearClient, Goto, TypeOK, connectVars, Steps
  <2>5. CASE Answered(t) \/ Record(t) \/ RecordError(t) \/ Close(t)
    <3>1. CASE Answered(t)
      BY <3>1 DEF Answered, Return, TypeOK, managerVars, connectVars, Steps,
         Operations
    <3>2. CASE Record(t)
      BY <3>2 DEF Record, Return, TypeOK, connectVars, Steps, Operations
    <3>3. CASE RecordError(t)
      <4>1. healthy' \in BOOLEAN
        BY <3>3 DEF RecordError
      <4> QED BY <3>3, <4>1 DEF RecordError, Return, TypeOK, connectVars,
            Steps, Operations
    <3>4. CASE Close(t)
      BY <3>4 DEF Close, Return, TypeOK, connectVars, Steps, Operations
    <3> QED BY <2>5, <3>1, <3>2, <3>3, <3>4
  <2> QED BY <2>1, <2>2, <2>3, <2>4, <2>5
<1>2. SharedClientIsOpen'
  <2>1. CASE DropClient(t) \/ Close(t)
    BY <2>1 DEF DropClient, ClearClient, Close, SharedClientIsOpen
  <2>2. CASE ~(DropClient(t) \/ Close(t))
    <3>1. UNCHANGED <<client, open>>
      BY <2>2 DEF Begin, ReadClient, ReadAge, QuickHealthCheck, Requested,
         Answered, Record, RecordError, managerVars
    <3> QED BY <3>1 DEF SharedClientIsOpen
  <2> QED BY <2>1, <2>2
<1>3. (steady \subseteq up)'
  BY DEF Begin, ReadClient, ReadAge, QuickHealthCheck, DropClient, Requested,
     Answered, Record, RecordError, Close, connectVars
<1>4. at'[t] \notin Connecting
  BY DEF TypeOK, Connecting, Begin, ReadClient, ReadAge, QuickHealthCheck,
     DropClient, Requested, Answered, Record, RecordError, Close, Goto, Return
<1>5. ConnectInv(t)'
  BY <1>4 DEF ConnectInv, Connecting
<1> QED BY <1>1, <1>2, <1>3, <1>5
-----------------------------------------------------------------------------
(* The steps of connect. *)
LEMMA StartConnectInv ==
  ASSUME Inv, NEW t \in Callers, StartConnect(t)
  PROVE  /\ TypeOK' /\ SharedClientIsOpen' /\ (steady \subseteq up)'
         /\ ConnectInv(t)'
<1> USE ConnectionAssumption DEF Inv, StartConnect
<1>1. TypeOK'
  BY DEF Goto, TypeOK, Steps, Nodes
<1>2. SharedClientIsOpen' /\ (steady \subseteq up)'
  BY DEF SharedClientIsOpen
<1>3. at'[t] = IF RetryAttempts = 0 THEN "failed" ELSE "dial"
  BY DEF Goto, TypeOK
<1>4. Tried(pos)'
  BY DEF Tried
<1>5. ConnectInv(t)'
  BY <1>3, <1>4 DEF ConnectInv, Connecting
<1> QED BY <1>1, <1>2, <1>5

LEMMA DialInv ==
  ASSUME Inv, NEW t \in Callers, Dial(t)
  PROVE  /\ TypeOK' /\ SharedClientIsOpen' /\ (steady \subseteq up)'
         /\ ConnectInv(t)'
<1> USE ConnectionAssumption DEF Inv
<1>1. UNCHANGED <<up, mu, client, current, healthy, stale, op, expired, attempt,
                  pos, steady>>
  BY DEF Dial, Goto, managerVars, connectVars
<1>2. (steady \subseteq up)' /\ mu' = t
  BY <1>1 DEF Dial, ConnectInv, Connecting
<1>3. t \notin expired /\ RetryAttempts # 0 => Tried(pos)
  BY DEF Dial, ConnectInv
<1>4. CASE Dials(t, UrlAt(pos))
  <2>1. PICK c \in NewClients(UrlAt(pos)) :
          /\ open' = IF c.node \in Sockets THEN open \cup {c} ELSE open
          /\ mine' = [mine EXCEPT ![t] = c]
          /\ at' = [at EXCEPT ![t] = "verify"]
    BY <1>4 DEF Dial, Goto
  <2>2. c \in Clients /\ c.node = UrlAt(pos) /\ c # client
    BY <2>1, NewClientsAreNew
  <2>3. TypeOK'
    BY <1>1, <2>1, <2>2 DEF TypeOK, Steps
  <2>4. SharedClientIsOpen'
    BY <1>1, <2>1 DEF SharedClientIsOpen
  <2>5. at'[t] = "verify" /\ mine'[t] = c
    BY <2>1 DEF TypeOK
  <2>6. ConnectInv(t)'
    BY <1>1, <1>2, <1>3, <2>1, <2>2, <2>5
       DEF ConnectInv, Connecting, Tried, UrlAt
  <2> QED BY <1>2, <2>3, <2>4, <2>6
<1>5. CASE ~Dials(t, UrlAt(pos))
  <2>1. at' = [at EXCEPT ![t] = "next"] /\ UNCHANGED <<open, mine>>
    BY <1>5 DEF Dial, Goto
  <2>2. TypeOK'
    BY <1>1, <2>1 DEF TypeOK, Steps
  <2>3. SharedClientIsOpen'
    BY <1>1, <2>1 DEF SharedClientIsOpen
  <2>4. at'[t] = "next"
    BY <2>1 DEF TypeOK
  <2>5. t \notin expired => UrlAt(pos) \notin steady
    BY <1>5 DEF Dials
  <2>6. t \notin expired /\ RetryAttempts # 0 => Tried(pos + 1)
    BY <1>3, <2>5 DEF Tried, TypeOK, Nodes
  <2>7. ConnectInv(t)'
    BY <1>1, <1>2, <2>4, <2>6 DEF ConnectInv, Connecting, Tried, UrlAt
  <2> QED BY <1>2, <2>2, <2>3, <2>7
<1> QED BY <1>4, <1>5

LEMMA InstallClientInv ==
  ASSUME Inv, NEW t \in Callers, InstallClient(t)
  PROVE  /\ TypeOK' /\ SharedClientIsOpen' /\ (steady \subseteq up)'
         /\ ConnectInv(t)'
<1> USE ConnectionAssumption DEF Inv, InstallClient, EndConnect
<1>1. mine[t] \in Clients
  BY DEF ConnectInv
<1>2. TypeOK'
  <2>1. 0 \in Nodes
    BY DEF Nodes
  <2>2. at' \in [Callers -> Steps]
    BY DEF Goto, TypeOK, Steps
  <2> QED BY <1>1, <2>1, <2>2 DEF Goto, TypeOK
<1>3. SharedClientIsOpen' /\ (steady \subseteq up)'
  BY DEF SharedClientIsOpen, Answers
<1>4. at'[t] = "use"
  BY DEF Goto, TypeOK
<1>5. ConnectInv(t)'
  BY <1>4 DEF ConnectInv, Connecting
<1> QED BY <1>2, <1>3, <1>5

LEMMA DiscardClientInv ==
  ASSUME Inv, NEW t \in Callers, DiscardClient(t)
  PROVE  /\ TypeOK' /\ SharedClientIsOpen' /\ (steady \subseteq up)'
         /\ ConnectInv(t)'
<1> USE ConnectionAssumption DEF Inv
<1>1. UNCHANGED <<up, mu, client, current, healthy, stale, op, expired, attempt,
                  pos, steady>>
  BY DEF DiscardClient, Goto, managerVars, connectVars
<1>2. /\ mu = t
      /\ mine[t].node = UrlAt(pos)
      /\ mine[t] # client
      /\ mine[t].node \in Sockets => mine[t] \in open
      /\ t \notin expired /\ RetryAttempts # 0 => Tried(pos)
  BY DEF DiscardClient, ConnectInv, Connecting
<1>3. TypeOK'
  BY <1>1 DEF DiscardClient, Goto, TypeOK, Steps
<1>4. SharedClientIsOpen' /\ (steady \subseteq up)'
  BY <1>1, <1>2 DEF DiscardClient, SharedClientIsOpen
<1>5. at'[t] = "next"
  BY DEF DiscardClient, Goto, TypeOK
<1>6. t \notin expired => UrlAt(pos) \notin steady
  BY <1>2 DEF DiscardClient, Answers
<1>7. t \notin expired /\ RetryAttempts # 0 => Tried(pos + 1)
  BY <1>2, <1>6 DEF Tried, TypeOK, Nodes
<1>8. ConnectInv(t)'
  BY <1>1, <1>2, <1>5, <1>7 DEF ConnectInv, Connecting, Tried, UrlAt
<1> QED BY <1>3, <1>4, <1>8

LEMMA NextUrlInv ==
  ASSUME Inv, NEW t \in Callers, NextUrl(t)
  PROVE  /\ TypeOK' /\ SharedClientIsOpen' /\ (steady \subseteq up)'
         /\ ConnectInv(t)'
<1> USE ConnectionAssumption DEF Inv
<1>1. UNCHANGED <<up, mu, client, current, healthy, stale, open, op, mine,
                  expired, attempt, steady>>
  BY DEF NextUrl, Goto, managerVars
<1>2. mu = t /\ (t \notin expired /\ RetryAttempts # 0 => Tried(pos + 1))
  BY DEF NextUrl, ConnectInv, Connecting
<1>3. SharedClientIsOpen' /\ (steady \subseteq up)'
  BY <1>1 DEF SharedClientIsOpen
<1>4. CASE ~LastUrl
  <2>1. pos' = pos + 1 /\ at' = [at EXCEPT ![t] = "dial"]
    BY <1>4 DEF NextUrl, Goto
  <2>2. pos' \in Nodes
    BY <1>4, <2>1 DEF LastUrl, TypeOK, Nodes
  <2>3. TypeOK'
    BY <1>1, <2>1, <2>2 DEF TypeOK, Steps
  <2>4. at'[t] = "dial"
    BY <2>1 DEF TypeOK
  <2>5. ConnectInv(t)'
    BY <1>1, <1>2, <2>1, <2>4 DEF ConnectInv, Connecting, Tried, UrlAt
  <2> QED BY <1>3, <2>3, <2>5
<1>5. CASE LastUrl
  <2>1. /\ UNCHANGED pos
        /\ at' = [at EXCEPT ![t] = IF MoreAttempts THEN "delay" ELSE "failed"]
    BY <1>5 DEF NextUrl, Goto
  <2>2. TypeOK'
    BY <1>1, <2>1 DEF TypeOK, Steps
  <2>3. at'[t] = IF MoreAttempts THEN "delay" ELSE "failed"
    BY <2>1 DEF TypeOK
  <2>4. t \notin expired /\ RetryAttempts # 0 => steady = {}
    BY <1>2, <1>5, AllTried DEF LastUrl
  <2>5. MoreAttempts => attempt + 1 < RetryAttempts
    BY DEF MoreAttempts, TypeOK
  <2>6. ConnectInv(t)'
    BY <1>1, <1>2, <2>3, <2>4, <2>5 DEF ConnectInv, Connecting
  <2> QED BY <1>3, <2>2, <2>6
<1> QED BY <1>4, <1>5

LEMMA NextAttemptInv ==
  ASSUME Inv, NEW t \in Callers, NextAttempt(t)
  PROVE  /\ TypeOK' /\ SharedClientIsOpen' /\ (steady \subseteq up)'
         /\ ConnectInv(t)'
<1> USE ConnectionAssumption DEF Inv, NextAttempt, managerVars
<1>1. mu = t /\ attempt + 1 < RetryAttempts
  BY DEF ConnectInv, Connecting
<1>2. TypeOK'
  BY <1>1 DEF Goto, TypeOK, Steps, Nodes
<1>3. SharedClientIsOpen' /\ (steady \subseteq up)'
  BY DEF SharedClientIsOpen
<1>4. at'[t] = "dial" /\ Tried(pos)'
  BY DEF Goto, TypeOK, Tried
<1>5. ConnectInv(t)'
  BY <1>1, <1>4 DEF ConnectInv, Connecting
<1> QED BY <1>2, <1>3, <1>5

LEMMA FailInv ==
  ASSUME Inv, NEW t \in Callers, DelayCancelled(t) \/ ConnectFails(t)
  PROVE  /\ TypeOK' /\ SharedClientIsOpen' /\ (steady \subseteq up)'
         /\ ConnectInv(t)'
<1> USE ConnectionAssumption DEF Inv
<1>1. CASE DelayCancelled(t)
  <2>1. TypeOK'
    BY <1>1 DEF DelayCancelled, Goto, TypeOK, Steps, managerVars, connectVars
  <2>2. SharedClientIsOpen' /\ (steady \subseteq up)'
    BY <1>1 DEF DelayCancelled, SharedClientIsOpen, managerVars, connectVars
  <2>3. at'[t] = "failed" /\ mu' = t /\ t \in expired'
    BY <1>1 DEF DelayCancelled, Goto, TypeOK, ConnectInv, Connecting,
       managerVars
  <2> QED BY <2>1, <2>2, <2>3 DEF ConnectInv
<1>2. CASE ConnectFails(t)
  <2>1. TypeOK'
    BY <1>2 DEF ConnectFails, EndConnect, Goto, TypeOK, Steps, Nodes
  <2>2. SharedClientIsOpen' /\ (steady \subseteq up)'
    BY <1>2 DEF ConnectFails, EndConnect, SharedClientIsOpen
  <2>3. at'[t] = "error"
    BY <1>2 DEF ConnectFails, Goto, TypeOK
  <2> QED BY <2>1, <2>2, <2>3 DEF ConnectInv, Connecting
<1> QED BY <1>1, <1>2
-----------------------------------------------------------------------------
LEMMA NextInv == Inv /\ [Next]_vars => Inv'
<1> SUFFICES ASSUME Inv, [Next]_vars PROVE Inv'
  OBVIOUS
<1>1. CASE Environment
  BY <1>1, EnvironmentInv
<1>2. ASSUME NEW t \in Callers, Begin(t) \/ Proceed(t) PROVE Inv'
  <2>1. /\ TypeOK' /\ SharedClientIsOpen' /\ (steady \subseteq up)'
        /\ ConnectInv(t)'
    BY <1>2, OutsideConnect, StartConnectInv, DialInv, InstallClientInv,
       DiscardClientInv, NextUrlInv, NextAttemptInv, FailInv
       DEF Proceed, Connect
  <2>2. ASSUME NEW u \in Callers PROVE ConnectInv(u)'
    BY <1>2, <2>1, OtherCaller
  <2> QED BY <2>1, <2>2 DEF Inv
<1>3. CASE UNCHANGED vars
  <2>1. TypeOK' /\ SharedClientIsOpen' /\ (steady \subseteq up)'
    BY <1>3 DEF vars, managerVars, callVars, connectVars, Inv, TypeOK,
       SharedClientIsOpen
  <2>2. ASSUME NEW u \in Callers PROVE ConnectInv(u)'
    BY <1>3 DEF vars, managerVars, callVars, connectVars, Inv, ConnectInv,
       Tried, UrlAt
  <2> QED BY <2>1, <2>2 DEF Inv
<1> QED BY <1>1, <1>2, <1>3 DEF Next

LEMMA InvHolds == Spec => []Inv
BY InitInv, NextInv, PTL DEF Spec

(* Every variable of the manager keeps its type; connect never exceeds its *)
(* attempts nor its list of URLs.                                          *)
THEOREM ConnectionTypeCorrect == Spec => []TypeOK
<1>1. Inv => TypeOK
  BY DEF Inv
<1> QED BY InvHolds, <1>1, PTL

(* The shared client is never a closed one, whoever closes, fails over or  *)
(* connects at the same time.                                              *)
THEOREM SharedClientStaysOpen == Spec => []SharedClientIsOpen
<1>1. Inv => SharedClientIsOpen
  BY DEF Inv
<1> QED BY InvHolds, <1>1, PTL

(* With at least one attempt, connect gives up only if no node answered    *)
(* throughout, or its context has ended: for any number of nodes and       *)
(* wherever the rotation starts.                                           *)
THEOREM FailoverIsComplete ==
  ASSUME RetryAttempts # 0
  PROVE  Spec => []FailoverFindsTheNode
<1>1. Inv => FailoverFindsTheNode
  BY DEF Inv, ConnectInv, FailoverFindsTheNode
<1> QED BY InvHolds, <1>1, PTL
=============================================================================
