----------------------------- MODULE Scheduler -----------------------------
(***************************************************************************)
(* scheduled-tasks/: one row of scheduled_tasks, its run log, and the      *)
(* replicas that claim it, run it, reap it and recover it after a restart. *)
(* One task is enough: the rows of different tasks share nothing but the   *)
(* concurrency slots of a replica, and a tick that finds none free only    *)
(* picks nothing.                                                          *)
(*                                                                         *)
(* Every step is one database statement or one resumption after an await.  *)
(* Time is kept as the two facts the code asks of it: whether next_run_at  *)
(* has come (next = "due"), and whether a running row is older than its    *)
(* deadline (late).  last_run_at identifies a claim, so it is a serial     *)
(* number: a claim and the write that ends it are a database round trip    *)
(* apart, and two writes of one row never share a millisecond.             *)
(***************************************************************************)
EXTENDS Naturals, FiniteSets

CONSTANTS
  Procs,           \* replicas of the engine
  MaxRuns,         \* bound: calls of executeTask
  MaxFaults,       \* bound: processes that stop and database calls that throw
  MaxEdits,        \* bound: calls of the management API on the task
  MaxRetries,      \* task.maxRetries
  MaxErrors,       \* MAX_CONSECUTIVE_ERRORS
  Schedule,        \* task.schedule at first: "recurring", or "ahead" for a one-shot
  DeleteAfterRun,  \* task.deleteAfterRun
  EnableWhileRuns  \* may the API (re-)enable the task while it is running?

ASSUME SchedulerAssumption ==
  /\ MaxRuns \in Nat
  /\ MaxFaults \in Nat
  /\ MaxEdits \in Nat
  /\ MaxRetries \in Nat
  /\ MaxErrors \in Nat \ {0}
  /\ Schedule \in {"recurring", "ahead"}
  /\ DeleteAfterRun \in BOOLEAN
  /\ EnableWhileRuns \in BOOLEAN

VARIABLES
  gone,      \* the row: "no", deleted by the "api", or deleted by a "run"
  enabled,   \* enabled
  status,    \* last_run_status
  stamp,     \* last_run_at, 0 for null
  next,      \* next_run_at: as the schedule says, a retry, due, or null
  sched,     \* schedule: recurring, or a one-shot whose time is ahead or past
  errors,    \* consecutive_errors
  late,      \* the row is running and updated_at is older than the deadline
  active,    \* the instance of the task is active
  clock,     \* last stamp given out
  edits,     \* API calls so far
  run,       \* the executions, by number
  started,   \* executions so far
  log,       \* scheduled_task_runs: each execution's row, if any, running or closed
  unlanded,  \* executions with a completeRun or failRun call that has yet to land on an open row
  proc,      \* is each replica up, or recovering after its start?
  busy,      \* running.has(task.id), in each replica
  sweep,     \* the reaper or the startup recovery of each replica, under way
  missed,    \* schedule read by handleMissedTasks for a task beyond its first five
  faults,    \* processes stopped and calls thrown so far
  served     \* history: a run of the occurrence that is due has recorded its success

row  == <<gone, enabled, status, stamp, next, sched, errors, late>>
vars == <<row, active, clock, edits, run, started, log, unlanded, proc, busy,
          sweep, missed, faults, served>>

Runs  == 1..MaxRuns
Scheds == {"recurring", "ahead", "past"}
Nexts  == {"scheduled", "retry", "due", "never"}

NoRun == [pc |-> "none", proc |-> "none", manual |-> FALSE, oneShot |-> FALSE, claim |-> 0,
          next |-> "never", doneAt |-> 0, overran |-> FALSE, ofDue |-> FALSE]

\* A run that is over may still have calls to the run log under way.
Over(r) == [NoRun EXCEPT !.pc = "done", !.proc = r.proc]

\* Of a run that delivers only its claim matters, and when it completed, if it held it.
Delivering(r, completed) ==
  [NoRun EXCEPT !.pc = "delivering", !.proc = r.proc, !.oneShot = r.oneShot, !.claim = r.claim,
                !.doneAt = completed]

\* Of a run whose process is gone only the claim it may have left matters, and
\* whether it had overrun its deadline by then.
Dead(r) == [NoRun EXCEPT !.pc = "dead", !.claim = r.claim, !.overran = r.overran]

NoSweep == [pc |-> "idle", claim |-> 0, dangling |-> {}]

At(e, pc) == run[e].pc = pc

Init ==
  /\ gone = "no"
  /\ enabled = TRUE
  /\ status = "none"
  /\ stamp = 0
  /\ next = "scheduled"
  /\ sched = Schedule
  /\ errors = 0
  /\ late = FALSE
  /\ active = TRUE
  /\ clock = 0
  /\ edits = 0
  /\ run = [e \in Runs |-> NoRun]
  /\ started = 0
  /\ log = [e \in Runs |-> "none"]
  /\ unlanded = {}
  /\ proc = [p \in Procs |-> "up"]
  /\ busy = [p \in Procs |-> FALSE]
  /\ sweep = [p \in Procs |-> NoSweep]
  /\ missed = [p \in Procs |-> "none"]
  /\ faults = 0
  /\ served = FALSE

-----------------------------------------------------------------------------
(* The row.                                                                *)

\* computeNextRun, on a schedule read from the row.
NextRun(s) == IF s = "past" THEN "never" ELSE "scheduled"

\* Mutants: a write that ends a run names no claim; a failed task is never
\* disabled at its limit.
HoldsAny(claim)   == gone = "no" /\ status = "running"
DisablesLate(n)   == n > MaxErrors

\* isClaim, with the status every write that ends a run also compares.
Holds(claim) == gone = "no" /\ status = "running" /\ stamp = claim

\* markFailed's shouldDisable.
Disables(n) == n >= MaxErrors

\* markFailed's next_run_at for n consecutive errors.
NextAfterFailure(n) ==
  IF Disables(n) THEN "never" ELSE IF n <= MaxRetries THEN "retry" ELSE NextRun(sched)

\* Mutant: a write of last_run_at that is not told from the next one.
RepeatStamp == stamp' = clock + 1 /\ UNCHANGED clock

\* A write of last_run_at.
TakeStamp == stamp' = clock + 1 /\ clock' = clock + 1

\* What markFailed writes.
FailRow ==
  /\ status' = "error"
  /\ TakeStamp
  /\ errors' = errors + 1
  /\ enabled' = (enabled /\ ~Disables(errors + 1))
  /\ next' = NextAfterFailure(errors + 1)
  /\ late' = FALSE
  /\ UNCHANGED <<gone, sched>>

-----------------------------------------------------------------------------
(* Time.                                                                   *)

BecomesDue ==
  /\ next' = "due"
  /\ served' = FALSE
  /\ run' = [e \in Runs |-> [run[e] EXCEPT !.ofDue = FALSE]]
  /\ UNCHANGED <<gone, enabled, status, stamp, errors, late, active, clock, edits, started, log,
                 unlanded, proc, busy, sweep, missed, faults>>

\* The scheduled time comes; a one-shot's is then past.
SlotComes ==
  /\ next = "scheduled"
  /\ sched' = IF sched = "ahead" THEN "past" ELSE sched
  /\ BecomesDue

RetryComes ==
  /\ next = "retry"
  /\ UNCHANGED sched
  /\ BecomesDue

\* The time of a one-shot passes while a manual run or a retry has the row.
ShotPasses ==
  /\ sched = "ahead"
  /\ next # "scheduled"
  /\ sched' = "past"
  /\ UNCHANGED <<gone, enabled, status, stamp, next, errors, late, active, clock, edits, run, started,
                 log, unlanded, proc, busy, sweep, missed, faults, served>>

\* The deadline of the running row passes (max_run_ms since updated_at).
DeadlinePasses ==
  /\ status = "running"
  /\ ~late
  /\ late' = TRUE
  /\ run' = [e \in Runs |-> [run[e] EXCEPT !.overran = @ \/ (run[e].claim = stamp /\ ~At(e, "dead"))]]
  /\ UNCHANGED <<gone, enabled, status, stamp, next, sched, errors, active, clock, edits, started, log,
                 unlanded, proc, busy, sweep, missed, faults, served>>

-----------------------------------------------------------------------------
(* executeTask.                                                            *)

Due == gone = "no" /\ enabled /\ active /\ next = "due" /\ status # "running"

\* The task is read and then its instance; no run of the task may be alive in
\* this replica.  A skipped execution changes nothing, so it is none at all.
Queue(p, manual) ==
  /\ active
  /\ ~busy[p]
  /\ started < MaxRuns
  /\ started' = started + 1
  /\ run' = [run EXCEPT ![started + 1] =
       [NoRun EXCEPT !.pc = "claiming", !.proc = p, !.manual = manual,
                     !.oneShot = (sched # "recurring" /\ DeleteAfterRun)]]
  /\ UNCHANGED <<row, active, clock, edits, log, unlanded, busy, sweep, faults, served>>

\* tick: the task is due and a slot is free.
Pick(p) ==
  /\ Due
  /\ Queue(p, FALSE)
  /\ UNCHANGED <<proc, missed>>

\* runNow: an operator starts it, due or not.
RunNow(p) ==
  /\ gone = "no"
  /\ Queue(p, TRUE)
  /\ UNCHANGED <<proc, missed>>

Goto(e, pc) == run' = [run EXCEPT ![e].pc = pc]

End(e) == run' = [run EXCEPT ![e] = Over(@)]

\* Mutant: a scheduled run does not look whether the task is still due.
ClaimableAnyTime(manual) == gone = "no" /\ status # "running"

\* The WHERE of markRunning.
Claimable(manual) == gone = "no" /\ status # "running" /\ (manual \/ next = "due")

MarkRunning(e) ==
  /\ At(e, "claiming")
  /\ Claimable(run[e].manual)
  /\ status' = "running"
  /\ TakeStamp
  /\ late' = FALSE
  /\ run' = [run EXCEPT ![e].pc = "claimed", ![e].manual = FALSE, ![e].claim = clock + 1,
                        ![e].ofDue = (next = "due")]
  /\ busy' = [busy EXCEPT ![run[e].proc] = TRUE]
  /\ UNCHANGED <<gone, enabled, next, sched, errors, active, edits, started, log, unlanded, proc,
                 sweep, missed, faults, served>>

ClaimRefused(e) ==
  /\ At(e, "claiming")
  /\ ~Claimable(run[e].manual)
  /\ End(e)
  /\ UNCHANGED <<row, active, clock, edits, started, log, unlanded, proc, busy, sweep, missed,
                 faults, served>>

\* A database call throws.
Throw == faults < MaxFaults /\ faults' = faults + 1

\* createRun.  The run of a row that was deleted has no row, and neither has one
\* whose createRun throws: the error is logged and the run goes on.
CreateRun(e) ==
  /\ At(e, "claimed")
  /\ Goto(e, "handling")
  /\ \/ /\ log' = [log EXCEPT ![e] = IF gone = "no" THEN "running" ELSE @]
        /\ UNCHANGED faults
     \/ Throw /\ UNCHANGED log
  /\ UNCHANGED <<row, active, clock, edits, started, unlanded, proc, busy, sweep, missed, served>>

\* The message handler answers, and markCompleted reads the row and computes the
\* next run ...
ReadCompleted(e) ==
  /\ At(e, "handling")
  /\ run' = [run EXCEPT ![e].pc = "writing", ![e].next = NextRun(sched)]
  /\ UNCHANGED <<row, active, clock, edits, started, log, unlanded, proc, busy, sweep, missed,
                 faults, served>>

\* A run with an open row in the run log closes it (completeRun or failRun), not awaited.
Record(e) == unlanded' = unlanded \union {x \in {e} : log[x] = "running"}

\* ... and writes it, if its claim still holds the row.
WriteCompleted(e) ==
  /\ At(e, "writing")
  /\ Holds(run[e].claim)
  /\ status' = "success"
  /\ TakeStamp
  /\ errors' = 0
  /\ next' = run[e].next
  /\ late' = FALSE
  /\ served' = (served \/ run[e].ofDue)
  /\ run' = [run EXCEPT ![e] = Delivering(@, clock + 1)]
  /\ Record(e)
  /\ UNCHANGED <<gone, enabled, sched, active, edits, started, log, proc, busy, sweep,
                 missed, faults>>

\* The claim was lost: the outcome is not recorded on the task, the reply is delivered.
CompletedLate(e) ==
  /\ At(e, "writing")
  /\ ~Holds(run[e].claim)
  /\ run' = [run EXCEPT ![e] = Delivering(@, 0)]
  /\ Record(e)
  /\ UNCHANGED <<row, active, clock, edits, started, log, proc, busy, sweep, missed, faults, served>>

Deletes(e) == run[e].oneShot /\ run[e].doneAt # 0

\* removeAfterRun: only if nothing has claimed or completed the task since.
MayRemove(e) == gone = "no" /\ status = "success" /\ stamp = run[e].doneAt

\* The outbound message was sent or its failure logged, and the run is over;
\* a one-shot is deleted, and its run log with it.
Deliver(e) ==
  /\ At(e, "delivering")
  /\ End(e)
  /\ busy' = [busy EXCEPT ![run[e].proc] = FALSE]
  /\ IF Deletes(e) /\ MayRemove(e)
     THEN gone' = "run" /\ log' = [x \in Runs |-> "none"]
     ELSE UNCHANGED <<gone, log>>
  /\ UNCHANGED <<enabled, status, stamp, next, sched, errors, late, active, clock, edits, started,
                 unlanded, proc, sweep, missed, faults, served>>

\* A database call of the try block throws: the run is taken as failed.
CallThrows(e) ==
  /\ At(e, "writing") \/ (At(e, "delivering") /\ Deletes(e))
  /\ Throw
  /\ Goto(e, "failing")
  /\ UNCHANGED <<row, active, clock, edits, started, log, unlanded, proc, busy, sweep, missed, served>>

\* The handler threw, or a call after it.
Failing(e) == At(e, "handling") \/ At(e, "failing")

\* markFailed, if the claim still holds the row.  Its SELECT and its UPDATE are
\* one step: while the claim holds, only an edit can change what it read.
MarkFailed(e) ==
  /\ Failing(e)
  /\ End(e)
  /\ busy' = [busy EXCEPT ![run[e].proc] = FALSE]
  /\ Record(e)
  /\ IF Holds(run[e].claim) THEN FailRow ELSE UNCHANGED <<row, clock>>
  /\ UNCHANGED <<active, edits, started, log, proc, sweep, missed, faults, served>>

\* markFailed throws: the row stays as it is, for the reaper.
FailureThrows(e) ==
  /\ Failing(e)
  /\ Throw
  /\ End(e)
  /\ busy' = [busy EXCEPT ![run[e].proc] = FALSE]
  /\ UNCHANGED <<row, active, clock, edits, started, log, unlanded, proc, sweep, missed, served>>

\* The call lands, whatever the row says by then.  One that fails never lands.
LandLog(e) ==
  /\ e \in unlanded
  /\ unlanded' = unlanded \ {e}
  /\ log' = [log EXCEPT ![e] = IF @ = "none" THEN @ ELSE "closed"]
  /\ UNCHANGED <<row, active, clock, edits, run, started, proc, busy, sweep, missed, faults, served>>

RunStep(e) ==
  \/ MarkRunning(e) \/ ClaimRefused(e) \/ CreateRun(e)
  \/ ReadCompleted(e) \/ WriteCompleted(e) \/ CompletedLate(e) \/ Deliver(e) \/ CallThrows(e)
  \/ MarkFailed(e) \/ FailureThrows(e) \/ LandLog(e)

-----------------------------------------------------------------------------
(* The reaper of a tick, and the startup recovery.  Both judge a running   *)
(* row by its age, read the run log while the row is still marked, take    *)
(* the row from the claim they judged, and close the runs they read.       *)

\* Mutants: the row's age is not looked at; only the startup recovery looks for stuck rows.
StuckWhileYoung(p) == gone = "no" /\ status = "running"
StuckAtStart(p) == gone = "no" /\ status = "running" /\ late /\ proc[p] = "recovering"

\* findStuckRunning, and the row's own deadline: at startup and in every tick.
Stuck(p) == gone = "no" /\ status = "running" /\ late

\* A tick reaps; a replica that is starting recovers.  The row is judged and the
\* open runs of the task are read in one step: a claim that moves on between the
\* two reads makes the write that follows do nothing.
Judge(p) ==
  /\ sweep[p].pc = "idle"
  /\ Stuck(p)
  /\ sweep' = [sweep EXCEPT ![p] =
       [pc |-> IF proc[p] = "recovering" THEN "clearing" ELSE "failing",
        claim |-> stamp, dangling |-> {e \in Runs : log[e] = "running"}]]
  /\ UNCHANGED <<row, active, clock, edits, run, started, log, unlanded, proc, busy, missed, faults, served>>

\* clearRunningMarker: neither the errors nor next_run_at change.
ClearMarker(p) ==
  /\ sweep[p].pc = "clearing"
  /\ IF Holds(sweep[p].claim)
     THEN /\ status' = "none" /\ late' = FALSE
          /\ sweep' = [sweep EXCEPT ![p] = [NoSweep EXCEPT !.pc = "closing", !.dangling = sweep[p].dangling]]
     ELSE UNCHANGED <<status, late>> /\ sweep' = [sweep EXCEPT ![p] = NoSweep]
  /\ UNCHANGED <<gone, enabled, stamp, next, sched, errors, active, clock, edits, run, started, log,
                 unlanded, proc, busy, missed, faults, served>>

\* The reaper's markFailed.
ReapRow(p) ==
  /\ sweep[p].pc = "failing"
  /\ IF Holds(sweep[p].claim)
     THEN FailRow /\ sweep' = [sweep EXCEPT ![p] = [NoSweep EXCEPT !.pc = "closing", !.dangling = sweep[p].dangling]]
     ELSE UNCHANGED <<row, clock>> /\ sweep' = [sweep EXCEPT ![p] = NoSweep]
  /\ UNCHANGED <<active, edits, run, started, log, unlanded, proc, busy, missed, faults, served>>

\* Mutant: every open run of the task is closed, not those that were read.
ClosesOpen(dangling) == Runs

\* The rows failDanglingRuns names.
Closes(dangling) == dangling

\* A call for one of these runs that has not landed yet will change nothing more.
CloseRuns(p) ==
  /\ sweep[p].pc = "closing"
  /\ log' = [e \in Runs |-> IF e \in Closes(sweep[p].dangling) /\ log[e] = "running" THEN "closed" ELSE log[e]]
  /\ unlanded' = {e \in unlanded : log'[e] = "running"}
  /\ sweep' = [sweep EXCEPT ![p] = NoSweep]
  /\ UNCHANGED <<row, active, clock, edits, run, started, proc, busy, missed, faults, served>>

Sweep(p) ==
  Judge(p) \/ ClearMarker(p) \/ ReapRow(p) \/ CloseRuns(p)

-----------------------------------------------------------------------------
(* Replicas stop and start.                                                *)

\* A replica stops, by a crash or a deploy, and is started again: until it takes
\* a step it is down.
Crash(p) ==
  /\ faults < MaxFaults
  /\ faults' = faults + 1
  /\ proc' = [proc EXCEPT ![p] = "recovering"]
  /\ busy' = [busy EXCEPT ![p] = FALSE]
  /\ sweep' = [sweep EXCEPT ![p] = NoSweep]
  /\ missed' = [missed EXCEPT ![p] = "none"]
  /\ run' = [e \in Runs |-> IF run[e].proc = p /\ run[e].pc \notin {"none", "done"} THEN Dead(run[e]) ELSE run[e]]
  /\ unlanded' = {e \in unlanded : run[e].proc # p}
  /\ UNCHANGED <<row, active, clock, edits, started, log, served>>

\* The recovery has found nothing old enough (its grace may exceed the deadline)
\* or is done, and handleMissedTasks reads the tasks that are due: this one is
\* executed, or, behind the first five, held with the schedule it had (a one-shot
\* that is past has no next run to move to).
MissedTasks(p) ==
  /\ proc[p] = "recovering"
  /\ sweep[p].pc = "idle"
  /\ proc' = [proc EXCEPT ![p] = "up"]
  /\ \/ Due /\ Queue(p, FALSE) /\ UNCHANGED missed
     \/ /\ Due => sched # "past"
        /\ missed' = [missed EXCEPT ![p] = IF Due THEN sched ELSE "none"]
        /\ UNCHANGED <<row, active, clock, edits, run, started, log, unlanded, busy, sweep, faults, served>>

\* Once the first five have run, the schedule that was read is written back.
AdvanceMissed(p) ==
  /\ missed[p] # "none"
  /\ missed' = [missed EXCEPT ![p] = "none"]
  /\ IF gone = "no"
     THEN sched' = missed[p] /\ next' = NextRun(missed[p]) /\ late' = FALSE
     ELSE UNCHANGED <<sched, next, late>>
  /\ UNCHANGED <<gone, enabled, status, stamp, errors, active, clock, edits, run, started, log, unlanded,
                 proc, busy, sweep, faults, served>>

-----------------------------------------------------------------------------
(* The management API (and the agent's own tool).  An edit moves           *)
(* updated_at, which a running row's deadline is counted from.             *)

Edit ==
  /\ gone = "no"
  /\ edits < MaxEdits
  /\ edits' = edits + 1
  /\ UNCHANGED <<clock, run, started, unlanded, proc, busy, sweep, missed, faults, served>>

Disable ==
  /\ Edit
  /\ enabled' = FALSE
  /\ late' = FALSE
  /\ UNCHANGED <<gone, status, stamp, next, sched, errors, active, log>>

\* Re-enabling resets the error state, last_run_status included.  Its read of
\* the schedule and its write are one step: only another edit changes what it read.
Enable ==
  /\ Edit
  /\ status = "running" => EnableWhileRuns
  /\ enabled' = TRUE
  /\ status' = "none"
  /\ errors' = 0
  /\ next' = NextRun(sched)
  /\ late' = FALSE
  /\ UNCHANGED <<gone, stamp, sched, active, log>>

EditSchedule ==
  /\ Edit
  /\ sched' \in {"recurring", "ahead"}
  /\ next' = "scheduled"
  /\ late' = FALSE
  /\ UNCHANGED <<gone, enabled, status, stamp, errors, active, log>>

Remove ==
  /\ Edit
  /\ gone' = "api"
  /\ log' = [e \in Runs |-> "none"]
  /\ UNCHANGED <<enabled, status, stamp, next, sched, errors, late, active>>

\* An operator switches the instance off or on.
SwitchInstance ==
  /\ Edit
  /\ active' = ~active
  /\ UNCHANGED <<row, log>>

-----------------------------------------------------------------------------
Time == SlotComes \/ RetryComes \/ ShotPasses \/ DeadlinePasses

Api == Disable \/ Enable \/ EditSchedule \/ Remove \/ SwitchInstance

Replica(p) ==
  Pick(p) \/ RunNow(p) \/ Sweep(p) \/ Crash(p) \/ MissedTasks(p) \/ AdvanceMissed(p)

Next ==
  \/ Time
  \/ Api
  \/ \E p \in Procs : Replica(p)
  \/ \E e \in Runs : RunStep(e)

Spec == Init /\ [][Next]_vars

\* Deadlines pass, a process that stopped is started again, and a replica goes
\* on with its recovery and its reaper.  A run may hang for ever.
Fairness ==
  /\ WF_vars(DeadlinePasses)
  /\ \A p \in Procs : WF_vars(Sweep(p)) /\ WF_vars(MissedTasks(p))

FairSpec == Spec /\ Fairness

-----------------------------------------------------------------------------
(* Properties.                                                             *)

\* The execution believes that it holds the task.
Live(e) ==
  /\ run[e].pc \in {"claimed", "handling", "writing", "failing"}
  /\ run[e].doneAt = 0

RunRecord ==
  [pc : {"none", "claiming", "claimed", "handling", "writing",
         "delivering", "failing", "done", "dead"},
   proc : Procs \union {"none"}, manual : BOOLEAN, oneShot : BOOLEAN, claim : 0..clock, next : Nexts,
   doneAt : 0..clock, overran : BOOLEAN, ofDue : BOOLEAN]

SweepRecord ==
  [pc : {"idle", "clearing", "failing", "closing"}, claim : 0..clock,
   dangling : SUBSET Runs]

\* The variables have their types, and no claim is newer than the last stamp.
TypeOK ==
  /\ gone \in {"no", "api", "run"}
  /\ enabled \in BOOLEAN
  /\ status \in {"none", "running", "success", "error"}
  /\ clock \in Nat
  /\ stamp \in 0..clock
  /\ next \in Nexts
  /\ sched \in Scheds
  /\ errors \in Nat
  /\ late \in BOOLEAN
  /\ active \in BOOLEAN
  /\ edits \in 0..MaxEdits
  /\ run \in [Runs -> RunRecord]
  /\ started \in 0..MaxRuns
  /\ log \in [Runs -> {"none", "running", "closed"}]
  /\ unlanded \in SUBSET Runs
  /\ proc \in [Procs -> {"up", "recovering"}]
  /\ busy \in [Procs -> BOOLEAN]
  /\ sweep \in [Procs -> SweepRecord]
  /\ missed \in [Procs -> Scheds \union {"none"}]
  /\ faults \in 0..MaxFaults
  /\ served \in BOOLEAN

\* "An edit while the run is live does not cost the run its completion", nor
\* does another replica's reaper, recovery or late completion: until its own
\* deadline a live run holds the row, so no other run of the task starts.
ClaimHeldUntilDeadline ==
  \A e \in Runs : (Live(e) /\ ~run[e].overran /\ gone # "api") => Holds(run[e].claim)

\* What a run is to the task: nobody yet, at work, past its deadline, or nothing more.
LeaseState(e) ==
  IF run[e].pc \in {"none", "claiming"} THEN "waiting"
  ELSE IF ~Live(e) THEN "over"
  ELSE IF run[e].overran THEN "overdue" ELSE "working"

\* The claims, deadlines and sweeps make a lease of the row: a task is started only when
\* nobody is at work on it in time, freed only from an owner that is late or dead, and
\* settled by its owner alone, whatever a late run or another replica tries.
Lease == INSTANCE TaskLease WITH
           state   <- [e \in Runs |-> LeaseState(e)],
           taken   <- gone = "no" /\ status = "running",
           owner   <- {e \in Runs : Live(e) /\ Holds(run[e].claim)},
           removed <- gone # "no"

ImplementsLease == Lease!Spec

\* The run log of a run that is alive and in time says it is running: a sweep
\* closes only runs of the claim it took the row from.
LiveRunStaysOpen ==
  \A e \in Runs : (Live(e) /\ ~run[e].overran /\ log[e] # "none") => log[e] = "running"

\* Only re-enabling the task takes the claim from a run that is live and in time.
KeepsItsClaim ==
  [][\A e \in Runs :
        (Live(e) /\ ~run[e].overran /\ Holds(run[e].claim) /\ ~Enable)
        => Holds(run[e].claim)' \/ ~Live(e)' \/ run'[e].overran \/ gone' = "api"]_vars

\* Claiming a task another replica has run meanwhile would run the same
\* occurrence twice: a scheduled run never claims an occurrence already served.
ServedOnce ==
  [][\A e \in Runs : (At(e, "claiming") /\ run'[e].pc = "claimed" /\ ~run[e].manual)
                     => next = "due" /\ ~served]_vars

\* A task that fails every time is stopped: it is disabled at its limit,
\* whichever of a run and a reaper records the last failure.
DisabledAtLimit == enabled => errors < MaxErrors

\* A task interrupted by a crash or hung in a live process does not stay
\* marked as running, which would keep it from ever being due again.
RowIsFreed == (status = "running" /\ gone = "no") ~> (status # "running" \/ gone # "no")

\* "Does NOT count a failure for an interrupted run": its process was gone
\* before the deadline.
InterruptedRunNotCounted ==
  [][\A e \in Runs : (At(e, "dead") /\ ~run[e].overran /\ Holds(run[e].claim))
                     => errors' <= errors]_vars

\* "Just advance their nextRunAt": the schedule of a task is the one its last
\* edit set; only the time of a one-shot passes.
ScheduleIsTheEdited ==
  [][sched' # sched => edits' # edits \/ (sched = "ahead" /\ sched' = "past")]_vars

-----------------------------------------------------------------------------
(* The inductive invariant behind the safety properties.                   *)

\* A claim belongs to one execution, and one that is live has a claim.
ClaimsDiffer ==
  /\ \A e, f \in Runs : (e # f /\ run[e].claim = run[f].claim) => run[e].claim = 0
  /\ \A e \in Runs : Live(e) => run[e].claim # 0

\* Who holds the row while it is late has overrun its deadline, and so has
\* whoever held the claim that a sweep has judged.
LateMeansOverran ==
  (status = "running" /\ late) => \A e \in Runs : (Live(e) /\ run[e].claim = stamp) => run[e].overran

JudgedMeansOverran ==
  \A p \in Procs : sweep[p].pc \in {"clearing", "failing"} =>
     \A e \in Runs : (Live(e) /\ run[e].claim = sweep[p].claim) => run[e].overran

\* Executions are numbered in order, only one that got past its claim has a row
\* in the run log, and the run log goes with the task.
LogFollowsRun ==
  /\ gone # "no" => \A e \in Runs : log[e] = "none"
  /\ \A e \in Runs : e > started => run[e].pc = "none"
  /\ \A e \in Runs : log[e] # "none" => run[e].pc \notin {"none", "claiming", "claimed"}
  /\ \A p \in Procs : \A e \in sweep[p].dangling : run[e].pc \notin {"none", "claiming", "claimed"}

\* What will close a row of the run log belongs to no run that is live in time.
ClosedMeansOver ==
  /\ \A e \in unlanded : ~Live(e) /\ run[e].pc \notin {"none", "claiming"}
  /\ \A p \in Procs : sweep[p].pc = "closing" =>
        \A e \in sweep[p].dangling : ~Live(e) \/ run[e].overran \/ gone # "no"

\* A due occurrence has not been served: whoever serves it moves next_run_at.
ServedIsNotDue ==
  /\ served => next # "due"
  /\ \A e \in Runs : run[e].next # "due"
  /\ \A p \in Procs : missed[p] \in Scheds \union {"none"}

\* What holds of a task however it is edited, ...
RowInv ==
  /\ TypeOK
  /\ ClaimsDiffer
  /\ LateMeansOverran
  /\ JudgedMeansOverran
  /\ LogFollowsRun
  /\ ServedIsNotDue
  /\ DisabledAtLimit

\* ... and what a re-enabling while a run is live takes from it.
HeldInv ==
  /\ ClaimHeldUntilDeadline
  /\ ClosedMeansOver
  /\ LiveRunStaysOpen

ClaimInv == RowInv /\ HeldInv

\* A run that has not claimed has no claim and no deadline, and only one that delivers,
\* or fails to, has recorded its success, after it claimed.
ClaimComesFirst(r) ==
  /\ r.pc \in {"none", "claiming"} => r.claim = 0 /\ ~r.overran
  /\ r.doneAt # 0 => r.claim < r.doneAt /\ r.pc \in {"delivering", "failing"}

\* The row carries the last stamp given out, and a running row has one.
RowIsStamped ==
  /\ stamp = clock
  /\ status = "running" => stamp # 0
  /\ \A e \in Runs : ClaimComesFirst(run[e])
=============================================================================
