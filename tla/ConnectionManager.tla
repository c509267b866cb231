------------------------- MODULE ConnectionManager -------------------------
(***************************************************************************)
(* The connection manager (internal/connection/manager.go): one client,    *)
(* shared by every goroutine of the program, over a primary node and its   *)
(* backups that come and go.                                               *)
(*                                                                         *)
(* Callers read cm.client under the read lock and use it after the lock is *)
(* gone.  connect holds cm.mu over all its dials, checks and delays.       *)
(***************************************************************************)
EXTENDS Integers

CONSTANTS
  Callers,         \* goroutines that call the manager
  Names,           \* numbers that tell clients of one node apart
  NoClient,        \* nil
  NodeCount,       \* the primary node is 0, its backups are the others
  Sockets,         \* nodes reached over a WebSocket; the others over HTTP
  WrongNetwork,    \* nodes whose network is not the configured one
  RetryAttempts,   \* RSKConfig
  Nobody           \* cm.mu is free

Nodes == 0 .. NodeCount - 1

(* An ethclient.Client, by the node it was dialed to. *)
Clients == [node : Nodes, name : Names]

ASSUME ConnectionAssumption ==
  /\ Nobody \notin Callers
  /\ NoClient \notin Clients
  /\ Names \subseteq Nat
  /\ NodeCount \in Nat \ {0}
  /\ Sockets \subseteq Nodes
  /\ WrongNetwork \subseteq Nodes
  /\ RetryAttempts \in Nat

VARIABLES
  up,        \* the nodes that answer
  mu,        \* who holds cm.mu for writing
  client,    \* cm.client
  current,   \* cm.currentIndex
  healthy,   \* cm.isHealthy
  stale,     \* lastHealthCheck is more than a minute ago
  open,      \* the connections that are not closed (over HTTP, none is kept)
  at, op,    \* where each caller is, in which operation
  mine,      \* the client in the caller's hands
  expired,   \* the callers whose context has ended
  attempt,   \* connect, of the caller that holds cm.mu: attempt,
  pos,       \*   i, the position in urls,
  steady     \*   and (history) the nodes that answered throughout

managerVars == <<mu, client, current, healthy, stale>>
callVars == <<at, op, mine, expired>>
connectVars == <<attempt, pos, steady>>
vars == <<up, managerVars, open, callVars, connectVars>>

Steps == {"idle", "read", "age", "check", "drop", "lock", "dial", "verify",
          "next", "delay", "failed", "use", "block", "record", "error",
          "close"}
Operations == {"request", "health check", "close"}
-----------------------------------------------------------------------------
(* Mutant: the rotation loses the last URL. *)
UrlAtShort(i) ==
  IF current + i < NodeCount - 1 THEN current + i ELSE 0

(* getAllURLs: the configured URLs, rotated to start at currentIndex.      *)
UrlAt(i) ==
  IF current + i < NodeCount THEN current + i ELSE current + i - NodeCount

(* A request of t on client c is answered.  A client over HTTP keeps no    *)
(* connection, and closing it does nothing.                                *)
Answers(t, c) ==
  /\ c.node \in up
  /\ t \notin expired
  /\ c.node \in Sockets => c \in open

(* A WebSocket is connected by the dial, HTTP by the first request.        *)
Dials(t, n) == n \in Sockets => n \in up /\ t \notin expired

Unreachable(c) == c # client /\ \A t \in Callers : mine[t] # c

(* A new client of node n: a name that nobody can reach (any more).        *)
NewClients(n) ==
  {c \in Clients :
     /\ c.node = n /\ Unreachable(c)
     /\ \A d \in Clients : d.node = n /\ Unreachable(d) => c.name <= d.name}
-----------------------------------------------------------------------------
Init ==
  /\ up = Nodes
  /\ mu = Nobody
  /\ client = NoClient
  /\ current = 0
  /\ healthy = FALSE
  /\ stale = TRUE
  /\ open = {}
  /\ at = [t \in Callers |-> "idle"]
  /\ op = [t \in Callers |-> "close"]
  /\ mine = [t \in Callers |-> NoClient]
  /\ expired = {}
  /\ attempt = 0
  /\ pos = 0
  /\ steady = {}
-----------------------------------------------------------------------------
(* The environment. *)
NodeChanges ==
  /\ \E n \in Nodes :
       /\ up' = IF n \in up THEN up \ {n} ELSE up \cup {n}
       /\ steady' = steady \ {n}
  /\ UNCHANGED <<managerVars, open, callVars, attempt, pos>>

MinutePasses ==
  /\ stale' = TRUE
  /\ UNCHANGED <<up, mu, client, current, healthy, open, callVars,
                 connectVars>>

ContextEnds(t) ==
  /\ at[t] # "idle"
  /\ expired' = expired \cup {t}
  /\ UNCHANGED <<up, managerVars, open, at, op, mine, connectVars>>
-----------------------------------------------------------------------------
Goto(t, where) == at' = [at EXCEPT ![t] = where] /\ UNCHANGED <<op, expired>>

(* The operation returns. *)
Return(t) ==
  /\ at' = [at EXCEPT ![t] = "idle"]
  /\ op' = [op EXCEPT ![t] = "close"]
  /\ mine' = [mine EXCEPT ![t] = NoClient]
  /\ expired' = expired \ {t}

Begin(t) ==
  /\ at[t] = "idle"
  /\ \E o \in Operations :
       /\ op' = [op EXCEPT ![t] = o]
       /\ at' = [at EXCEPT ![t] = IF o = "close" THEN "close" ELSE "read"]
  /\ UNCHANGED <<up, managerVars, open, mine, expired, connectVars>>

(* GetClientWithContext: cm.client, under the read lock, ...               *)
ReadClient(t) ==
  /\ at[t] = "read"
  /\ mu = Nobody
  /\ mine' = [mine EXCEPT ![t] = client]
  /\ Goto(t, IF client = NoClient THEN "lock" ELSE "age")
  /\ UNCHANGED <<up, managerVars, open, connectVars>>

(* ... and, without it, whether its last check is old. *)
ReadAge(t) ==
  /\ at[t] = "age"
  /\ Goto(t, IF stale THEN "check" ELSE "use")
  /\ UNCHANGED <<up, managerVars, open, mine, connectVars>>

(* quickHealthCheck; it does not make the last check any younger.          *)
QuickHealthCheck(t) ==
  /\ at[t] = "check"
  /\ Goto(t, IF Answers(t, mine[t]) THEN "use" ELSE "drop")
  /\ UNCHANGED <<up, managerVars, open, mine, connectVars>>

(* Mutant: the closed client stays in place. *)
ClearClientNot == UNCHANGED client

(* cm.client = nil *)
ClearClient == client' = NoClient

(* reconnect closes whatever client there is by now; connect follows.      *)
DropClient(t) ==
  /\ at[t] = "drop"
  /\ mu = Nobody
  /\ open' = open \ {client}
  /\ ClearClient
  /\ mine' = [mine EXCEPT ![t] = NoClient]
  /\ Goto(t, "lock")
  /\ UNCHANGED <<up, mu, current, healthy, stale, connectVars>>

(* connect takes cm.mu until it returns. *)
StartConnect(t) ==
  /\ at[t] = "lock"
  /\ mu = Nobody
  /\ mu' = t
  /\ attempt' = 0
  /\ pos' = 0
  /\ steady' = up
  /\ Goto(t, IF RetryAttempts = 0 THEN "failed" ELSE "dial")
  /\ UNCHANGED <<up, client, current, healthy, stale, open, mine>>

Dial(t) ==
  /\ at[t] = "dial"
  /\ IF Dials(t, UrlAt(pos))
       THEN \E c \in NewClients(UrlAt(pos)) :
              /\ open' = IF c.node \in Sockets THEN open \cup {c} ELSE open
              /\ mine' = [mine EXCEPT ![t] = c]
              /\ Goto(t, "verify")
       ELSE Goto(t, "next") /\ UNCHANGED <<open, mine>>
  /\ UNCHANGED <<up, managerVars, connectVars>>

(* connect is over. *)
EndConnect ==
  /\ mu' = Nobody
  /\ attempt' = 0
  /\ pos' = 0
  /\ steady' = {}

(* The new client answers: it replaces whatever client there is by now.    *)
InstallClient(t) ==
  /\ at[t] = "verify"
  /\ Answers(t, mine[t])
  /\ client' = mine[t]
  /\ current' = pos
  /\ healthy' = TRUE
  /\ stale' = FALSE
  /\ EndConnect
  /\ Goto(t, "use")
  /\ UNCHANGED <<up, open, mine>>

DiscardClient(t) ==
  /\ at[t] = "verify"
  /\ ~Answers(t, mine[t])
  /\ open' = open \ {mine[t]}
  /\ mine' = [mine EXCEPT ![t] = NoClient]
  /\ Goto(t, "next")
  /\ UNCHANGED <<up, managerVars, connectVars>>

LastUrl == pos + 1 = NodeCount

(* Mutant: one attempt too many. *)
MoreAttemptsThanAllowed == attempt < RetryAttempts

MoreAttempts == attempt < RetryAttempts - 1

(* The next URL, the delay before the next attempt, or the end.            *)
NextUrl(t) ==
  /\ at[t] = "next"
  /\ IF ~LastUrl
       THEN pos' = pos + 1 /\ Goto(t, "dial")
       ELSE /\ UNCHANGED pos
            /\ Goto(t, IF MoreAttempts THEN "delay" ELSE "failed")
  /\ UNCHANGED <<up, managerVars, open, mine, attempt, steady>>

(* The delay ends ...                                                      *)
NextAttempt(t) ==
  /\ at[t] = "delay"
  /\ attempt' = attempt + 1
  /\ pos' = 0
  /\ Goto(t, "dial")
  /\ UNCHANGED <<up, managerVars, open, mine, steady>>

(* ... or the context does. *)
DelayCancelled(t) ==
  /\ at[t] = "delay"
  /\ t \in expired
  /\ Goto(t, "failed")
  /\ UNCHANGED <<up, managerVars, open, mine, connectVars>>

(* connect returns an error. *)
ConnectFails(t) ==
  /\ at[t] = "failed"
  /\ EndConnect
  /\ Goto(t, "error")
  /\ UNCHANGED <<up, client, current, healthy, stale, open, mine>>

Connect(t) ==
  \/ StartConnect(t) \/ Dial(t) \/ InstallClient(t) \/ DiscardClient(t)
  \/ NextUrl(t) \/ NextAttempt(t) \/ DelayCancelled(t) \/ ConnectFails(t)
-----------------------------------------------------------------------------
(* HealthCheckWithContext asks for the network and then for the latest     *)
(* block, the other operations make one request; GetLatestBlockNumber      *)
(* records the answer, GetNetworkID and Call return it.                    *)
Rejects(t) ==
  \/ ~Answers(t, mine[t])
  \/ op[t] = "health check" /\ mine[t].node \in WrongNetwork

Requested(t) ==
  /\ at[t] \in {"use", "block"}
  /\ IF Rejects(t) THEN Goto(t, "error")
     ELSE IF op[t] = "health check" /\ at[t] = "use" THEN Goto(t, "block")
     ELSE Goto(t, "record")
  /\ UNCHANGED <<up, managerVars, open, mine, connectVars>>

Answered(t) ==
  /\ at[t] = "use"
  /\ op[t] = "request"
  /\ ~Rejects(t)
  /\ Return(t)
  /\ UNCHANGED <<up, managerVars, open, connectVars>>

(* Results are written under the lock, ... *)
Record(t) ==
  /\ at[t] = "record"
  /\ mu = Nobody
  /\ IF op[t] = "health check" THEN healthy' = TRUE /\ stale' = FALSE
                               ELSE UNCHANGED <<healthy, stale>>
  /\ Return(t)
  /\ UNCHANGED <<up, mu, client, current, open, connectVars>>

(* ... an error of a health check without it. *)
RecordError(t) ==
  /\ at[t] = "error"
  /\ healthy' = (healthy /\ op[t] # "health check")
  /\ Return(t)
  /\ UNCHANGED <<up, mu, client, current, stale, open, connectVars>>

(* Close.  Nothing keeps a later call from connecting again.               *)
Close(t) ==
  /\ at[t] = "close"
  /\ mu = Nobody
  /\ open' = open \ {client}
  /\ client' = NoClient
  /\ healthy' = FALSE
  /\ Return(t)
  /\ UNCHANGED <<up, mu, current, stale, connectVars>>

Proceed(t) ==
  \/ ReadClient(t) \/ ReadAge(t) \/ QuickHealthCheck(t) \/ DropClient(t)
  \/ Connect(t)
  \/ Requested(t) \/ Answered(t) \/ Record(t) \/ RecordError(t)
  \/ Close(t)
-----------------------------------------------------------------------------
Environment ==
  NodeChanges \/ MinutePasses \/ \E t \in Callers : ContextEnds(t)

Next ==
  \/ Environment
  \/ \E t \in Callers : Begin(t) \/ Proceed(t)

Spec == Init /\ [][Next]_vars
-----------------------------------------------------------------------------
(* Every variable has its type; connect stays within its attempts and URLs.*)
TypeOK ==
  /\ up \subseteq Nodes
  /\ mu \in Callers \cup {Nobody}
  /\ client \in Clients \cup {NoClient}
  /\ current \in Nodes
  /\ healthy \in BOOLEAN
  /\ stale \in BOOLEAN
  /\ open \subseteq Clients
  /\ at \in [Callers -> Steps]
  /\ op \in [Callers -> Operations]
  /\ mine \in [Callers -> Clients \cup {NoClient}]
  /\ expired \subseteq Callers
  /\ attempt \in Nat
  /\ attempt = 0 \/ attempt < RetryAttempts
  /\ pos \in Nodes
  /\ steady \subseteq Nodes

(***************************************************************************)
(* However callers that fail over, close and connect overlap, the client   *)
(* the manager shares is never one that has been closed (connect,          *)
(* reconnect, Close).                                                      *)
(***************************************************************************)
SharedClientIsOpen ==
  client # NoClient /\ client.node \in Sockets => client \in open

(***************************************************************************)
(* Fail-over: connect gives up only if each of the nodes, primary and      *)
(* backups, was out of reach at some moment since it began, or its         *)
(* caller's context has ended (connect, getAllURLs).                       *)
(***************************************************************************)
FailoverFindsTheNode ==
  \A t \in Callers : at[t] = "failed" => steady = {} \/ t \in expired
=============================================================================
