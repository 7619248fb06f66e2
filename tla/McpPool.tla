------------------------------- MODULE McpPool -------------------------------
(***************************************************************************)
(* The pool of MCP connections (agents/tools/mcp/mcp-client-pool.ts), of   *)
(* one server, and the turns that take a connection from it.  The pool is  *)
(* keyed by server: two servers share nothing.  Time passes in ticks.      *)
(***************************************************************************)
EXTENDS Naturals

CONSTANTS
  Users,      \* turns
  MaxConns,   \* bound: connections opened
  MaxEdits,   \* bound: changes of the server's record
  MaxAge,     \* MAX_AGE_MS
  Grace       \* RETIRE_GRACE_MS

ASSUME PoolAssumption ==
  MaxConns \in Nat /\ MaxEdits \in Nat /\ MaxAge \in Nat \ {0} /\ Grace \in Nat

Conns   == 1..MaxConns
NoTimer == Grace + 1

VARIABLES
  opened,    \* connections opened so far
  client,    \* each connection's client: none, connecting, open, failed, closed, or late:
             \* its connect timed out and has not settled
  pooled,     \* the server's entry in the pool, conn = 0 if there is none
  closing,   \* closeLater's timer of each connection; 0: it is closed once it is open
  user,      \* each turn: where it is, the record it read, its connection, how long it holds it
  record,    \* version of the server's record
  shut,      \* the pool was closed
  broken     \* history: connections whose connect or whose call failed

poolVars == <<opened, client, pooled, closing, user, record, shut, broken>>

Unpooled == [conn |-> 0, print |-> 0, age |-> 0]

NoTurn == [pc |-> "idle", print |-> 0, conn |-> 0, held |-> 0]

PoolInit ==
  /\ opened = 0
  /\ client = [c \in Conns |-> "none"]
  /\ pooled = Unpooled
  /\ closing = [c \in Conns |-> NoTimer]
  /\ user = [u \in Users |-> NoTurn]
  /\ record = 0
  /\ shut = FALSE
  /\ broken = {}

-----------------------------------------------------------------------------
\* Mutant: a dropped connection is closed at once.
CloseNow(c) == closing' = [closing EXCEPT ![c] = 0]

CloseLater(c) == closing' = [closing EXCEPT ![c] = Grace]

\* Mutant: whatever the pool holds is dropped.
RetireAny(c) ==
  IF pooled.conn = 0 THEN UNCHANGED <<pooled, closing>>
  ELSE pooled' = Unpooled /\ CloseLater(pooled.conn)

\* retireMcpConnection: unless the pool holds another one by now.
Retire(c) ==
  IF pooled.conn # c THEN UNCHANGED <<pooled, closing>>
  ELSE pooled' = Unpooled /\ CloseLater(c)

EditServer ==
  /\ record < MaxEdits
  /\ record' = record + 1
  /\ UNCHANGED <<opened, client, pooled, closing, user, shut, broken>>

\* buildMcpTools: a turn reads the servers; it takes the connection after more awaits.
ListServers(u) ==
  /\ user[u].pc = "idle"
  /\ user' = [user EXCEPT ![u] = [@ EXCEPT !.pc = "listed", !.print = record]]
  /\ UNCHANGED <<opened, client, pooled, closing, record, shut, broken>>

HoldConn(u, c) ==
  user' = [user EXCEPT ![u] = [@ EXCEPT !.pc = IF client[c] = "open" THEN "using" ELSE "waiting", !.conn = c]]

\* acquireMcpConnection: the pooled connection, if it is young and of the same record.
TakePooled(u) ==
  /\ user[u].pc = "listed"
  /\ pooled.conn # 0 /\ pooled.print = user[u].print /\ pooled.age < MaxAge
  /\ HoldConn(u, pooled.conn)
  /\ UNCHANGED <<opened, client, pooled, closing, record, shut, broken>>

\* Mutant: the connection that is replaced is forgotten.
ForgetReplaced == UNCHANGED closing

DropReplaced == IF pooled.conn = 0 THEN UNCHANGED closing ELSE CloseLater(pooled.conn)

\* Otherwise a new one, which replaces it.
TakeNew(u) ==
  /\ user[u].pc = "listed"
  /\ ~(pooled.conn # 0 /\ pooled.print = user[u].print /\ pooled.age < MaxAge)
  /\ opened < MaxConns
  /\ opened' = opened + 1
  /\ DropReplaced
  /\ client' = [client EXCEPT ![opened'] = "connecting"]
  /\ pooled' = [conn |-> opened', print |-> user[u].print, age |-> 0]
  /\ HoldConn(u, opened')
  /\ UNCHANGED <<record, shut, broken>>

\* untilAborted: a turn stops waiting, and the connect goes on.
StopWaiting(u) ==
  /\ user[u].pc = "waiting"
  /\ user' = [user EXCEPT ![u] = NoTurn]
  /\ UNCHANGED <<opened, client, pooled, closing, record, shut, broken>>

Waits(u, c) == user[u].pc = "waiting" /\ user[u].conn = c

ConnectDone(c) ==
  /\ client[c] = "connecting"
  /\ client' = [client EXCEPT ![c] = "open"]
  /\ user' = [u \in Users |-> IF Waits(u, c) THEN [user[u] EXCEPT !.pc = "using"] ELSE user[u]]
  /\ UNCHANGED <<opened, pooled, closing, record, shut, broken>>

\* The connect is refused, or its deadline passes first: it is retired before the turns
\* that wait go on without its tools.
ConnectFails(c) ==
  /\ client[c] = "connecting"
  /\ \E s \in {"failed", "late"} : client' = [client EXCEPT ![c] = s]
  /\ broken' = broken \union {c}
  /\ Retire(c)
  /\ user' = [u \in Users |-> IF Waits(u, c) THEN NoTurn ELSE user[u]]
  /\ UNCHANGED <<opened, record, shut>>

\* connectWithTimeout: a client that comes after its deadline is closed.
LateConnect(c) ==
  /\ client[c] = "late"
  /\ \E s \in {"failed", "closed"} : client' = [client EXCEPT ![c] = s]
  /\ UNCHANGED <<opened, pooled, closing, user, record, shut, broken>>

\* retireOnError: a tool of a pooled connection throws.
CallFails(u) ==
  /\ user[u].pc = "using"
  /\ broken' = broken \union {user[u].conn}
  /\ Retire(user[u].conn)
  /\ UNCHANGED <<opened, client, user, record, shut>>

EndUse(u) ==
  /\ user[u].pc = "using"
  /\ user' = [user EXCEPT ![u] = NoTurn]
  /\ UNCHANGED <<opened, client, pooled, closing, record, shut, broken>>

\* The timer's callback, or the shutdown's: the client is closed once it is open.
CloseClient(c) ==
  /\ closing[c] = 0
  /\ client[c] = "open"
  /\ client' = [client EXCEPT ![c] = "closed"]
  /\ UNCHANGED <<opened, pooled, closing, user, record, shut, broken>>

\* closeMcpClientPool, at shutdown: turns may go on.
ClosePool ==
  /\ ~shut
  /\ shut' = TRUE
  /\ pooled' = Unpooled
  /\ closing' = IF pooled.conn = 0 THEN closing ELSE [closing EXCEPT ![pooled.conn] = 0]
  /\ UNCHANGED <<opened, client, user, record, broken>>

Older(n, most) == IF n < most THEN n + 1 ELSE n

PoolTick ==
  /\ pooled' = IF pooled.conn = 0 THEN pooled ELSE [pooled EXCEPT !.age = Older(@, MaxAge)]
  /\ closing' = [c \in Conns |-> IF closing[c] \in 1..Grace THEN closing[c] - 1 ELSE closing[c]]
  /\ user' = [u \in Users |-> IF user[u].pc \in {"waiting", "using"}
                              THEN [user[u] EXCEPT !.held = Older(@, Grace)] ELSE user[u]]
  /\ UNCHANGED <<opened, client, record, shut, broken>>

PoolNext ==
  \/ \E u \in Users : \/ ListServers(u) \/ TakePooled(u) \/ TakeNew(u) \/ StopWaiting(u)
                      \/ CallFails(u) \/ EndUse(u)
  \/ \E c \in Conns : ConnectDone(c) \/ ConnectFails(c) \/ LateConnect(c) \/ CloseClient(c)
  \/ EditServer \/ ClosePool \/ PoolTick

PoolSpec == PoolInit /\ [][PoolNext]_poolVars

-----------------------------------------------------------------------------
(* Properties.                                                             *)

Entries == [conn : 0..MaxConns, print : 0..MaxEdits, age : 0..MaxAge]

TurnRecord == [pc : {"idle", "listed", "waiting", "using"},
               print : 0..MaxEdits, conn : 0..MaxConns, held : 0..Grace]

PoolTypeOK ==
  /\ opened \in 0..MaxConns
  /\ client \in [Conns -> {"none", "connecting", "open", "failed", "late", "closed"}]
  /\ pooled \in Entries
  /\ closing \in [Conns -> 0..NoTimer]
  /\ user \in [Users -> TurnRecord]
  /\ record \in 0..MaxEdits
  /\ shut \in BOOLEAN
  /\ broken \subseteq Conns

\* No client is closed under a turn that took it less than the grace period ago, though
\* other turns retire it, replace it or change the server meanwhile, until the shutdown.
TakenStaysOpen ==
  \A u \in Users :
    (user[u].pc = "using" /\ client[user[u].conn] = "closed" /\ ~shut) => user[u].held = Grace

\* No client leaks: one that is open is in the pool or will be closed, whoever dropped it
\* and however late its connect was.
NoClientLeaks ==
  \A c \in Conns : client[c] = "open" => pooled.conn = c \/ closing[c] # NoTimer

\* The two together: a dropped client is closed, and not before its turns are done.
ClosedInTime == TakenStaysOpen /\ NoClientLeaks

\* Turns share a connection as long as it is young and works: one that is in the pool
\* leaves it when it has failed, has aged, or a turn comes with another record; never
\* because a turn failed on an older one.
HealthyIsShared ==
  [][pooled.conn # 0 /\ pooled'.conn # pooled.conn =>
       \/ pooled.conn \in broken'
       \/ pooled.age = MaxAge
       \/ pooled'.conn # 0 /\ pooled'.print # pooled.print
       \/ shut']_poolVars

-----------------------------------------------------------------------------
(* The invariant.                                                          *)

Holds(u, c) == user[u].pc \in {"waiting", "using"} /\ user[u].conn = c

\* What was not opened yet has no client, no timer and no turn.
UnopenedIsUntouched ==
  \A c \in Conns : c > opened =>
    client[c] = "none" /\ closing[c] = NoTimer /\ \A u \in Users : ~Holds(u, c)

\* What the pool hands out is being connected or open, and nothing will close it.
PooledIsUsable ==
  pooled.conn # 0 => client[pooled.conn] \in {"connecting", "open"} /\ closing[pooled.conn] = NoTimer

\* A connection that left the pool before it was open will be closed too.
UnpooledWillClose ==
  \A c \in Conns : client[c] \in {"connecting", "open"} => pooled.conn = c \/ closing[c] # NoTimer

\* Turns wait for what is being connected, and use what was open.
HeldIsConnected ==
  \A u \in Users :
    /\ user[u].pc \in {"waiting", "using"} => user[u].conn # 0
    /\ \A c \in Conns :
         /\ Holds(u, c) /\ user[u].pc = "waiting" => client[c] = "connecting"
         /\ Holds(u, c) /\ user[u].pc = "using" => client[c] \in {"open", "closed"}

\* The grace period of a dropped connection began after every turn that holds it took
\* it: what is left of it and the time the turn has held it make up the whole.
GraceCoversUse ==
  ~shut => \A u \in Users, c \in Conns :
    /\ Holds(u, c) /\ closing[c] # NoTimer => user[u].held + closing[c] >= Grace
    /\ Holds(u, c) /\ client[c] = "closed" => closing[c] = 0

PoolInv ==
  /\ PoolTypeOK
  /\ UnopenedIsUntouched
  /\ PooledIsUsable
  /\ UnpooledWillClose
  /\ HeldIsConnected
  /\ GraceCoversUse
=============================================================================
