-------------------------- MODULE GracefulShutdown --------------------------
(***************************************************************************)
(* The graceful shutdown of a process (index.ts, server/graceful-close.ts) *)
(* against the requests in flight and the turns that go on after their     *)
(* request was answered (channels/background-turns.ts).  The rows a turn   *)
(* leaves in the log queues stand for what those flush (InsertQueue).      *)
(***************************************************************************)
EXTENDS Naturals

CONSTANTS
  Calls,        \* HTTP requests
  MaxFailures   \* bound: shutdown steps that throw

ASSUME ShutdownAssumption == MaxFailures \in Nat

VARIABLES
  call,       \* each request: none, open, turn (answered, its turn runs), over, cut
  row,        \* its turn's log row: none, buffered, written, late (no one writes it)
  step,       \* up, or the step of the shutdown that is running
  http,       \* serving, closing, closed
  drain,      \* drainBackgroundTurns: no, waiting, over
  awaited,    \* the turns its Promise.all was made of
  grace,      \* the grace period has passed
  failures,   \* steps that threw
  owed        \* history: turns acknowledged before the drain was over

downVars == <<call, row, step, http, drain, awaited, grace, failures, owed>>

ShutdownInit ==
  /\ call = [c \in Calls |-> "none"]
  /\ row = [c \in Calls |-> "none"]
  /\ step = "up"
  /\ http = "serving"
  /\ drain = "no"
  /\ awaited = {}
  /\ grace = FALSE
  /\ failures = 0
  /\ owed = {}

\* The registered turns (pending).
Running == {c \in Calls : call[c] = "turn"}

-----------------------------------------------------------------------------
(* Requests and turns.                                                     *)

Arrive(c) ==
  /\ http = "serving"
  /\ call[c] = "none"
  /\ call' = [call EXCEPT ![c] = "open"]
  /\ UNCHANGED <<row, step, http, drain, awaited, grace, failures, owed>>

\* A request that is answered when its work is done.
Respond(c) ==
  /\ call[c] = "open"
  /\ call' = [call EXCEPT ![c] = "over"]
  /\ UNCHANGED <<row, step, http, drain, awaited, grace, failures, owed>>

\* A webhook that is answered first: its turn is registered (trackBackgroundTurn).
Acknowledge(c) ==
  /\ call[c] = "open"
  /\ call' = [call EXCEPT ![c] = "turn"]
  /\ owed' = IF drain = "over" THEN owed ELSE owed \union {c}
  /\ UNCHANGED <<row, step, http, drain, awaited, grace, failures>>

TurnOfCallEnds(c) ==
  /\ call[c] = "turn"
  /\ step # "exit"
  /\ call' = [call EXCEPT ![c] = "over"]
  /\ row' = [row EXCEPT ![c] = IF step = "gateway" THEN "late" ELSE "buffered"]
  /\ UNCHANGED <<step, http, drain, awaited, grace, failures, owed>>

Written == row' = [c \in Calls |-> IF row[c] = "buffered" THEN "written" ELSE row[c]]

\* The queues' interval, until they are shut down.
RowsWritten ==
  /\ step \notin {"gateway", "exit"}
  /\ \E c \in Calls : row[c] = "buffered"
  /\ Written
  /\ UNCHANGED <<call, step, http, drain, awaited, grace, failures, owed>>

-----------------------------------------------------------------------------
(* The shutdown.                                                           *)

\* The drain's loop: while turns are registered it waits for all of them.
DrainLoop ==
  /\ awaited' = Running
  /\ drain' = IF Running = {} THEN "over" ELSE "waiting"

\* The schedulers are stopped; the HTTP server closes and the drain begins.
Signal ==
  /\ step = "up"
  /\ step' = "wait"
  /\ http' = "closing"
  /\ DrainLoop
  /\ UNCHANGED <<call, row, grace, failures, owed>>

\* Mutant: the turns registered meanwhile are not looked at.
DrainOnce == drain' = "over" /\ UNCHANGED awaited

DrainAgain == DrainLoop

DrainWakes ==
  /\ drain = "waiting"
  /\ awaited \intersect Running = {}
  /\ DrainAgain
  /\ UNCHANGED <<call, row, step, http, grace, failures, owed>>

HttpClosed ==
  /\ http = "closing"
  /\ \A c \in Calls : call[c] # "open"
  /\ http' = "closed"
  /\ UNCHANGED <<call, row, step, drain, awaited, grace, failures, owed>>

\* Mutant: the drain has no deadline.
DrainGoesOn == UNCHANGED drain

DrainGivesUp == drain' = "over"

\* The deadlines of closeHttpServer and of the drain: open connections are dropped.
GracePasses ==
  /\ step = "wait"
  /\ ~grace
  /\ grace' = TRUE
  /\ call' = [c \in Calls |-> IF call[c] = "open" THEN "cut" ELSE call[c]]
  /\ DrainGivesUp
  /\ UNCHANGED <<row, step, http, awaited, failures, owed>>

\* runShutdownSteps: the step is over or throws; the next one runs in both cases.
Waited ==
  /\ step = "wait"
  /\ http = "closed"
  /\ drain = "over"
  /\ step' = "adapters"
  /\ UNCHANGED <<call, row, http, drain, awaited, grace, failures, owed>>

Threw == failures < MaxFailures /\ failures' = failures + 1

\* Channels and MCP clients are closed ...
AdaptersClosed ==
  /\ step = "adapters"
  /\ step' = "queues"
  /\ UNCHANGED failures \/ Threw
  /\ UNCHANGED <<call, row, http, drain, awaited, grace, owed>>

\* Mutant: the step is missing.
Unflushed == UNCHANGED row

Flushed == Written

\* ... the log queues flushed ...
QueuesFlushed ==
  /\ step = "queues"
  /\ step' = "gateway"
  /\ \/ Flushed /\ UNCHANGED failures
     \/ UNCHANGED row /\ Threw
  /\ UNCHANGED <<call, http, drain, awaited, grace, owed>>

\* ... the AI gateway and the file logger stopped: the process exits.
Exit ==
  /\ step = "gateway"
  /\ step' = "exit"
  /\ UNCHANGED failures \/ Threw
  /\ UNCHANGED <<call, row, http, drain, awaited, grace, owed>>

Proceed ==
  \/ DrainWakes \/ HttpClosed \/ GracePasses \/ Waited
  \/ AdaptersClosed \/ QueuesFlushed \/ Exit

ShutdownNext ==
  \/ \E c \in Calls : Arrive(c) \/ Respond(c) \/ Acknowledge(c) \/ TurnOfCallEnds(c)
  \/ RowsWritten
  \/ Signal
  \/ Proceed

ShutdownSpec == ShutdownInit /\ [][ShutdownNext]_downVars

\* Timers fire, and what a step awaits settles.  A turn or a request need not end.
ShutdownFairness == WF_downVars(Proceed)

-----------------------------------------------------------------------------
(* Properties.                                                             *)

ShutdownTypeOK ==
  /\ call \in [Calls -> {"none", "open", "turn", "over", "cut"}]
  /\ row \in [Calls -> {"none", "buffered", "written", "late"}]
  /\ step \in {"up", "wait", "adapters", "queues", "gateway", "exit"}
  /\ http \in {"serving", "closing", "closed"}
  /\ drain \in {"no", "waiting", "over"}
  /\ awaited \subseteq Calls
  /\ grace \in BOOLEAN
  /\ failures \in 0..MaxFailures
  /\ owed \subseteq Calls

\* Within the grace period no turn is cut off that was acknowledged before the drain
\* was over, also one acknowledged while it waited for others; and its log row is
\* written, unless a step throws.
AwaitedTurnIsServed ==
  (step = "exit" /\ ~grace) =>
    \A c \in owed : call[c] = "over" /\ (failures = 0 => row[c] = "written")

\* "Work registered while waiting (a request still in flight that acknowledges during
\* shutdown) is waited for too" (background-turns.ts:35-36).
AcknowledgedTurnIsWaitedFor == (step = "exit" /\ ~grace) => Running = {}

\* A shutdown that was begun ends, whatever requests and turns do: go on for ever, or
\* acknowledge one another's end with a new turn.
ShutdownEnds == step # "up" ~> step = "exit"

-----------------------------------------------------------------------------
(* The invariant.                                                          *)

\* The shutdown goes on when nothing is accepted any more and the drain is over.
ClosedInOrder ==
  /\ step # "up" => http # "serving"
  /\ step \notin {"up", "wait"} => http = "closed" /\ drain = "over"
  /\ http = "closed" => \A c \in Calls : call[c] # "open"

\* Within the grace period the drain leaves no turn running that it owes a wait.
DrainedIsOver ==
  /\ \A c \in owed : call[c] \in {"turn", "over"}
  /\ drain = "over" /\ ~grace => \A c \in owed : call[c] = "over"

\* The row of such a turn is in its queue in time, and the flush writes it.
OwedRowsAreKept ==
  ~grace =>
    /\ \A c \in owed : call[c] = "over" => row[c] \in {"buffered", "written"}
    /\ step \in {"gateway", "exit"} /\ failures = 0 => \A c \in owed : row[c] = "written"

ShutdownInv ==
  /\ ShutdownTypeOK
  /\ ClosedInOrder
  /\ DrainedIsOver
  /\ OwedRowsAreKept
=============================================================================
