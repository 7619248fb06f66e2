-------------------------- MODULE SchedulerProofs --------------------------
(***************************************************************************)
(* Scheduler for every number of replicas, runs, faults and edits: its     *)
(* type invariant, the claim invariant and what follows from it.  One pair *)
(* of lemmas per action, or per group of actions that do the same to what  *)
(* the invariant speaks of: ...Type for TypeOK, ...Inv for ClaimInv.       *)
(***************************************************************************)
EXTENDS Scheduler, TLAPS

-----------------------------------------------------------------------------
(* Types.  TypeOK is taken in five parts: the provers do not take Boolean  *)
(* variables and arithmetic in one step.                                   *)

RowTyped ==
  /\ gone \in {"no", "api", "run"}
  /\ status \in {"none", "running", "success", "error"}
  /\ clock \in Nat
  /\ stamp \in 0..clock
  /\ next \in Nexts
  /\ sched \in Scheds
  /\ errors \in Nat

FlagsTyped ==
  /\ enabled \in BOOLEAN
  /\ late \in BOOLEAN
  /\ active \in BOOLEAN
  /\ served \in BOOLEAN

CountsTyped ==
  /\ edits \in 0..MaxEdits
  /\ started \in 0..MaxRuns
  /\ log \in [Runs -> {"none", "running", "closed"}]
  /\ unlanded \in SUBSET Runs
  /\ faults \in 0..MaxFaults

RunsTyped == run \in [Runs -> RunRecord]

ReplicasTyped ==
  /\ proc \in [Procs -> {"up", "recovering"}]
  /\ busy \in [Procs -> BOOLEAN]
  /\ sweep \in [Procs -> SweepRecord]
  /\ missed \in [Procs -> Scheds \union {"none"}]

\* The five parts are TypeOK.
LEMMA TypeParts == TypeOK <=> (RowTyped /\ FlagsTyped /\ CountsTyped /\ RunsTyped /\ ReplicasTyped)
BY DEF TypeOK, RowTyped, FlagsTyped, CountsTyped, RunsTyped, ReplicasTyped

\* The initial state is typed.
LEMMA TypeInit == Init => TypeOK
<1> SUFFICES ASSUME Init PROVE TypeOK
  OBVIOUS
<1> USE SchedulerAssumption DEF Init
<1>1. RowTyped
  BY DEF RowTyped, Nexts, Scheds
<1>0. FlagsTyped
  BY DEF FlagsTyped
<1>2. CountsTyped
  BY DEF CountsTyped
<1>3. RunsTyped
  BY DEF RunsTyped, RunRecord, NoRun, Nexts
<1>4. ReplicasTyped
  BY DEF ReplicasTyped, SweepRecord, NoSweep
<1> QED
  BY <1>0, <1>1, <1>2, <1>3, <1>4, TypeParts

\* Only the clock of the record types moves, and it moves forward.
LEMMA RecordsGrow ==
  ASSUME clock \in Nat, clock' \in {clock, clock + 1}
  PROVE  RunRecord \subseteq RunRecord' /\ SweepRecord \subseteq SweepRecord'
<1>1. 0..clock \subseteq 0..clock'
  OBVIOUS
<1> QED
  BY <1>1 DEF RunRecord, SweepRecord, Nexts


\* The records of the runs that end, or are gone with their process, are typed.
LEMMA RecordsTyped ==
  ASSUME TypeOK, clock' \in {clock, clock + 1}
  PROVE  /\ NoRun \in RunRecord'
         /\ NoSweep \in SweepRecord'
         /\ \A x \in Runs : run[x] \in RunRecord' /\ Over(run[x]) \in RunRecord' /\ Dead(run[x]) \in RunRecord'
<1> USE TypeParts DEF RowTyped, RunsTyped
<1>1. NoRun \in RunRecord'
  BY DEF RunRecord, NoRun, Nexts
<1>2. NoSweep \in SweepRecord'
  BY DEF SweepRecord, NoSweep
<1>3. ASSUME NEW x \in Runs PROVE run[x] \in RunRecord'
  BY RecordsGrow
<1>4. ASSUME NEW x \in Runs PROVE Over(run[x]) \in RunRecord'
  BY <1>1, <1>3 DEF RunRecord, Over, NoRun
<1>5. ASSUME NEW x \in Runs PROVE Dead(run[x]) \in RunRecord'
  BY <1>1, <1>3 DEF RunRecord, Dead, NoRun
<1> QED
  BY <1>1, <1>2, <1>3, <1>4, <1>5

\* A run that ends, ...
LEMMA EndTyped ==
  ASSUME TypeOK, clock' \in {clock, clock + 1}, NEW e \in Runs, End(e)
  PROVE  RunsTyped'
BY RecordsTyped, TypeParts DEF End, RunsTyped

\* ... one that comes to deliver, which keeps its claim and no deadline, ...
Delivers(e, completed) == run' = [run EXCEPT ![e] = Delivering(@, completed)]

LEMMA DeliversWith ==
  ASSUME RunsTyped, NEW e \in Runs, NEW completed, Delivers(e, completed)
  PROVE  /\ \A x \in Runs : x # e => run'[x] = run[x]
         /\ run'[e] = Delivering(run[e], completed)
         /\ run'[e].pc = "delivering" /\ run'[e].claim = run[e].claim
         /\ run'[e].next = "never" /\ run'[e].doneAt = completed
<1>1. run'[e] = Delivering(run[e], completed) /\ \A x \in Runs : x # e => run'[x] = run[x]
  BY DEF Delivers, RunsTyped
<1> QED
  BY <1>1 DEF Delivering, NoRun

LEMMA DeliversTyped ==
  ASSUME TypeOK, clock' \in {clock, clock + 1}, NEW e \in Runs, NEW completed \in 0..clock',
         Delivers(e, completed)
  PROVE  RunsTyped'
<1> USE TypeParts
<1>1. run[e] \in RunRecord'
  BY RecordsTyped
<1>2. Delivering(run[e], completed) \in RunRecord'
  BY <1>1, RecordsTyped DEF RunRecord, Delivering, NoRun
<1> QED
  BY <1>2, RecordsTyped DEF Delivers, RunsTyped

\* ... and one that moves on.
LEMMA GotoTyped ==
  ASSUME TypeOK, UNCHANGED clock, NEW e \in Runs,
         NEW pc \in {"handling", "failing"}, Goto(e, pc)
  PROVE  RunsTyped'
BY TypeParts DEF Goto, RunsTyped, RunRecord, Nexts

-----------------------------------------------------------------------------
(* What most steps do to the executions: none is claimed, none comes back, *)
(* and what was live and in time still is, with its claim.                 *)

Early == {"none", "claiming", "claimed"}

Follows ==
  \A x \in Runs :
    /\ run'[x].claim \in {run[x].claim, 0}
    /\ Live(x)' => /\ Live(x)
                   /\ run'[x].claim = run[x].claim
                   /\ run'[x].overran = run[x].overran
    /\ run[x].pc \notin Early => run'[x].pc \notin Early
    /\ run[x].pc \notin {"none", "claiming"} => run'[x].pc \notin {"none", "claiming"}
    /\ run'[x].next # "due"
    /\ x > started' => run'[x].pc = "none"

\* An execution that ends, ...
LEMMA EndFollows ==
  ASSUME RowInv, NEW e \in Runs, End(e), run[e].pc # "none", UNCHANGED started
  PROVE  Follows
<1> USE DEF RowInv, TypeOK, LogFollowsRun, ServedIsNotDue, End, Early, Live
<1>1. ASSUME NEW x \in Runs, x # e PROVE run'[x] = run[x]
  BY <1>1
<1>2. run'[e].claim = 0 /\ run'[e].pc = "done" /\ run'[e].next = "never"
  BY DEF Over, NoRun
<1> QED
  BY <1>1, <1>2 DEF Follows

\* ... one that comes to deliver, ...
LEMMA DeliversFollows ==
  ASSUME RowInv, NEW e \in Runs, NEW completed, Delivers(e, completed),
         run[e].pc \notin Early, UNCHANGED started
  PROVE  Follows
<1>1. RunsTyped
  BY TypeParts DEF RowInv
<1>2. ~(e > started')
  BY DEF RowInv, LogFollowsRun, Early
<1> QED
  BY <1>1, <1>2, DeliversWith DEF Follows, Live, RowInv, LogFollowsRun, ServedIsNotDue, Early

\* ... and one that moves on.
LEMMA GotoFollows ==
  ASSUME RowInv, NEW e \in Runs, NEW pc \in {"handling", "failing"}, Goto(e, pc),
         run[e].pc \notin {"none", "claiming"}, UNCHANGED started,
         Live(e) \/ run[e].doneAt # 0
  PROVE  Follows
<1> USE DEF RowInv, TypeOK, LogFollowsRun, ServedIsNotDue, Goto, Early, Live
<1>1. ASSUME NEW x \in Runs, x # e PROVE run'[x] = run[x]
  BY <1>1
<1>2. /\ run'[e].pc = pc
      /\ run'[e].claim = run[e].claim
      /\ run'[e].overran = run[e].overran
      /\ run'[e].next = run[e].next
      /\ run'[e].doneAt = run[e].doneAt
  BY DEF RunRecord
<1> QED
  BY <1>1, <1>2 DEF Follows

\* Such a step keeps what ties the executions to the row, if it leaves the
\* claim of the row alone and no sweep judges.
SweepsFollow ==
  \A p \in Procs : sweep'[p].pc \in {"clearing", "failing"} => sweep'[p] = sweep[p]

LEMMA FollowsKeepsClaims ==
  ASSUME RowInv, Follows, SweepsFollow, UNCHANGED <<status, stamp>>, late' => late,
         gone' \in {gone, "api"}
  PROVE  ClaimsDiffer' /\ LateMeansOverran' /\ JudgedMeansOverran' /\ (HeldInv => ClaimHeldUntilDeadline')
<1> USE DEF RowInv, Follows
<1>1. ClaimsDiffer'
  BY DEF ClaimsDiffer
<1>2. LateMeansOverran'
  BY DEF LateMeansOverran
<1>3. JudgedMeansOverran'
  BY DEF JudgedMeansOverran, SweepsFollow
<1>4. HeldInv => ClaimHeldUntilDeadline'
  BY DEF HeldInv, ClaimHeldUntilDeadline, Holds
<1> QED
  BY <1>1, <1>2, <1>3, <1>4

\* It keeps what ties them to the run log, if no row of the log is opened but
\* by a run that goes on, and none of a live run is closed.
LEMMA FollowsKeepsLog ==
  ASSUME RowInv, Follows,
         \A x \in Runs : log'[x] = log[x] \/ (gone = "no" /\ log'[x] = "running" /\ run'[x].pc \notin Early),
         \A p \in Procs : sweep'[p] = sweep[p] \/ sweep'[p].dangling = {},
         \A x \in unlanded' : x \in unlanded \/ (~Live(x)' /\ x \in Runs /\ run'[x].pc \notin Early),
         UNCHANGED gone
  PROVE  LogFollowsRun' /\ (HeldInv => ClosedMeansOver' /\ LiveRunStaysOpen')
<1> USE DEF RowInv, HeldInv, Follows, LogFollowsRun, ClosedMeansOver, LiveRunStaysOpen, TypeOK, SweepRecord, Early
<1>1. LogFollowsRun'
  OBVIOUS
<1>2. HeldInv => ClosedMeansOver'
  OBVIOUS
<1>3. HeldInv => LiveRunStaysOpen'
  OBVIOUS
<1> QED
  BY <1>1, <1>2, <1>3

-----------------------------------------------------------------------------
(* The actions.                                                            *)

\* Steps of an execution that leave the row alone.
LEMMA QuietType ==
  ASSUME TypeOK, NEW e \in Runs, ClaimRefused(e) \/ CreateRun(e) \/ ReadCompleted(e) \/ CompletedLate(e) \/ CallThrows(e) \/ FailureThrows(e)
  PROVE  TypeOK'
<1> USE SchedulerAssumption, TypeParts DEF row, ClaimRefused, CreateRun, ReadCompleted, CompletedLate, CallThrows, FailureThrows, Failing, Record, Throw
<1>1. RowTyped'
  BY DEF RowTyped, Nexts, Scheds
<1>2. FlagsTyped'
  BY DEF FlagsTyped
<1>3. CountsTyped'
  BY DEF CountsTyped
<1>4. clock' \in {clock, clock + 1}
  OBVIOUS
<1>5. RunsTyped'
  <2>1. CASE ClaimRefused(e) \/ FailureThrows(e)
    BY <2>1, EndTyped
  <2>2. CASE CreateRun(e)
    BY <2>2, GotoTyped
  <2>3. CASE CompletedLate(e)
    <3>1. Delivers(e, 0) /\ 0 \in 0..clock'
      BY <2>3 DEF Delivers, RowTyped
    <3> QED
      BY <3>1, <1>4, DeliversTyped
  <2>4. CASE CallThrows(e)
    BY <2>4, GotoTyped
  <2>5. CASE ReadCompleted(e)
    <3>1. NextRun(sched) \in Nexts
      BY DEF NextRun, Nexts
    <3>2. [run[e] EXCEPT !.pc = "writing", !.next = NextRun(sched)] \in RunRecord
      BY ZenonT(60), <3>1 DEF RunsTyped, RunRecord
    <3> QED
      BY <2>5, <3>2 DEF RunsTyped, RunRecord
  <2> QED
    BY <2>1, <2>2, <2>3, <2>4, <2>5
<1>6. ReplicasTyped'
  <2>1. sweep \in [Procs -> SweepRecord']
    BY <1>4, RecordsGrow DEF ReplicasTyped, RowTyped
  <2> QED
    BY <2>1, <1>1 DEF ReplicasTyped, RowTyped, SweepRecord, CountsTyped
<1> QED
  BY <1>1, <1>2, <1>3, <1>5, <1>6 DEF TypeOK, RowTyped, FlagsTyped, CountsTyped, RunsTyped, ReplicasTyped

\* The same for the claim invariant.
LEMMA QuietInv ==
  ASSUME RowInv, NEW e \in Runs, ClaimRefused(e) \/ CreateRun(e) \/ ReadCompleted(e) \/ CompletedLate(e) \/ CallThrows(e) \/ FailureThrows(e)
  PROVE  RowInv' /\ (HeldInv => HeldInv')
<1>1. TypeOK'
  BY QuietType DEF RowInv
<1>2. Follows
  <2> USE DEF ClaimRefused, CreateRun, CompletedLate, CallThrows, FailureThrows, Failing, At, Deletes
  <2>1. CASE ClaimRefused(e) \/ FailureThrows(e)
    BY <2>1, EndFollows
  <2>2. CASE CreateRun(e)
    BY <2>2, GotoFollows DEF Live, RowInv, TypeOK, RunRecord
  <2>5. CASE CompletedLate(e)
    <3>1. Delivers(e, 0) /\ run[e].pc \notin Early /\ UNCHANGED started
      BY <2>5 DEF Delivers, Early
    <3> QED
      BY <3>1, DeliversFollows
  <2>3. CASE CallThrows(e)
    BY <2>3, GotoFollows DEF Live
  <2>4. CASE ReadCompleted(e)
    BY <2>4 DEF ReadCompleted, Follows, RowInv, TypeOK, RunRecord, LogFollowsRun, ServedIsNotDue, Live, Early, NextRun
  <2> QED
    BY <2>1, <2>2, <2>3, <2>4, <2>5
<1> USE DEF ClaimRefused, CreateRun, ReadCompleted, CompletedLate, CallThrows, FailureThrows
<1>3. UNCHANGED row /\ UNCHANGED sweep /\ UNCHANGED missed /\ UNCHANGED served
  BY DEF row
<1>4. ClaimsDiffer' /\ LateMeansOverran' /\ JudgedMeansOverran' /\ (HeldInv => ClaimHeldUntilDeadline')
  BY <1>2, <1>3, FollowsKeepsClaims DEF row, SweepsFollow
<1>5. \A x \in Runs : log'[x] = log[x] \/ (gone = "no" /\ log'[x] = "running" /\ run'[x].pc \notin Early)
  <2>1. CASE CreateRun(e)
    BY <2>1 DEF Goto, Early, RowInv, TypeOK
  <2>2. CASE ~CreateRun(e)
    <3>1. UNCHANGED log
      BY <2>2
    <3> QED
      BY <3>1
  <2> QED
    BY <2>1, <2>2
<1>6. \A x \in unlanded' : x \in unlanded \/ (~Live(x)' /\ x \in Runs /\ run'[x].pc \notin Early)
  <2>1. CASE CompletedLate(e)
    <3>1. Delivers(e, 0) /\ Record(e)
      BY <2>1 DEF Delivers
    <3>2. run'[e].pc = "delivering"
      BY <3>1, DeliversWith, TypeParts DEF RowInv
    <3> QED
      BY <3>1, <3>2 DEF Record, Live, Early
  <2>2. CASE ~CompletedLate(e)
    <3>1. UNCHANGED unlanded
      BY <2>2
    <3> QED
      BY <3>1
  <2> QED
    BY <2>1, <2>2
<1>7. LogFollowsRun' /\ (HeldInv => ClosedMeansOver' /\ LiveRunStaysOpen')
  BY <1>2, <1>3, <1>5, <1>6, FollowsKeepsLog DEF row
<1>8. ServedIsNotDue' /\ DisabledAtLimit'
  BY <1>2, <1>3 DEF row, ServedIsNotDue, DisabledAtLimit, Follows, RowInv
<1> QED
  BY <1>1, <1>4, <1>7, <1>8 DEF RowInv, HeldInv

\* Time: a deadline passes, and whoever holds the row has overrun.
LEMMA DeadlineType ==
  ASSUME TypeOK, DeadlinePasses
  PROVE  TypeOK'
<1> USE SchedulerAssumption, TypeParts DEF row, DeadlinePasses
<1>1. RowTyped'
  BY DEF RowTyped, Nexts, Scheds
<1>2. FlagsTyped'
  BY DEF FlagsTyped
<1>3. CountsTyped'
  BY DEF CountsTyped
<1>4. clock' \in {clock, clock + 1}
  OBVIOUS
<1>5. RunsTyped'
  <2>1. ASSUME NEW x \in Runs, NEW b \in BOOLEAN PROVE [run[x] EXCEPT !.overran = b] \in RunRecord
    BY DEF RunsTyped, RunRecord
  <2>2. ASSUME NEW x \in Runs PROVE (run[x].overran \/ (run[x].claim = stamp /\ ~At(x, "dead"))) \in BOOLEAN
    BY DEF RunsTyped, RunRecord
  <2>3. ASSUME NEW x \in Runs PROVE run'[x] \in RunRecord
    BY <2>1, <2>2
  <2> QED
    BY <2>3 DEF RunsTyped, RunRecord
<1>6. ReplicasTyped'
  <2>1. sweep \in [Procs -> SweepRecord']
    BY <1>4, RecordsGrow DEF ReplicasTyped, RowTyped
  <2> QED
    BY <2>1, <1>1 DEF ReplicasTyped, RowTyped, SweepRecord, CountsTyped
<1> QED
  BY <1>1, <1>2, <1>3, <1>5, <1>6 DEF TypeOK, RowTyped, FlagsTyped, CountsTyped, RunsTyped, ReplicasTyped

\* The same for the claim invariant.
LEMMA DeadlineInv ==
  ASSUME RowInv, DeadlinePasses
  PROVE  RowInv' /\ (HeldInv => HeldInv')
<1> USE SchedulerAssumption DEF row, RowInv, At, Live, Holds, DeadlinePasses
<1>1. TypeOK'
  BY DeadlineType
<1>2. ClaimsDiffer'
  BY DEF ClaimsDiffer, TypeOK, RunRecord
<1>3. LateMeansOverran'
  BY ZenonT(60) DEF LateMeansOverran, TypeOK, RunRecord
<1>4. JudgedMeansOverran'
  BY DEF JudgedMeansOverran, LateMeansOverran, TypeOK, RunRecord, SweepRecord
<1>5. HeldInv => ClaimHeldUntilDeadline'
  BY DEF HeldInv, ClaimHeldUntilDeadline, ClaimsDiffer, JudgedMeansOverran, TypeOK, RunRecord, SweepRecord
<1>6. LogFollowsRun'
  BY DEF LogFollowsRun, TypeOK, RunRecord, SweepRecord
<1>7. HeldInv => ClosedMeansOver'
  BY DEF HeldInv, ClosedMeansOver, LogFollowsRun, TypeOK, RunRecord, SweepRecord
<1>8. HeldInv => LiveRunStaysOpen'
  BY DEF HeldInv, LiveRunStaysOpen, LogFollowsRun, ClosedMeansOver, TypeOK, RunRecord
<1>9. ServedIsNotDue'
  BY DEF ServedIsNotDue, TypeOK, RunRecord, Nexts
<1>10. DisabledAtLimit'
  BY DEF DisabledAtLimit, TypeOK
<1> QED
  BY <1>1, <1>2, <1>3, <1>4, <1>5, <1>6, <1>7, <1>8, <1>9, <1>10 DEF HeldInv

\* The scheduled time, or that of a retry, comes: no execution and no claim moves.
LEMMA TimeType ==
  ASSUME TypeOK, SlotComes \/ RetryComes \/ ShotPasses
  PROVE  TypeOK'
<1> USE SchedulerAssumption, TypeParts DEF row, SlotComes, RetryComes, ShotPasses, BecomesDue
<1>1. RowTyped'
  BY DEF RowTyped, Nexts, Scheds
<1>2. FlagsTyped'
  BY DEF FlagsTyped
<1>3. CountsTyped'
  BY DEF CountsTyped
<1>4. clock' \in {clock, clock + 1}
  OBVIOUS
<1>5. RunsTyped'
  <2>1. CASE BecomesDue
    <3>1. ASSUME NEW x \in Runs PROVE [run[x] EXCEPT !.ofDue = FALSE] \in RunRecord
      BY ZenonT(60) DEF RunsTyped, RunRecord
    <3> QED
      BY <2>1, <3>1 DEF RunsTyped, RunRecord
  <2>2. CASE UNCHANGED <<run, clock>>
    BY <2>2 DEF RunsTyped, RunRecord
  <2> QED
    BY <2>1, <2>2
<1>6. ReplicasTyped'
  <2>1. sweep \in [Procs -> SweepRecord']
    BY <1>4, RecordsGrow DEF ReplicasTyped, RowTyped
  <2> QED
    BY <2>1, <1>1 DEF ReplicasTyped, RowTyped, SweepRecord, CountsTyped
<1> QED
  BY <1>1, <1>2, <1>3, <1>5, <1>6 DEF TypeOK, RowTyped, FlagsTyped, CountsTyped, RunsTyped, ReplicasTyped

\* The same for the claim invariant.
LEMMA TimeInv ==
  ASSUME RowInv, SlotComes \/ RetryComes \/ ShotPasses
  PROVE  RowInv' /\ (HeldInv => HeldInv')
<1>1. TypeOK'
  BY TimeType DEF RowInv
<1>2. Follows
  <2> USE DEF RowInv, TypeOK, RunRecord, LogFollowsRun, ServedIsNotDue
  <2>1. CASE BecomesDue
    BY <2>1 DEF BecomesDue, Follows, Live
  <2>2. CASE ShotPasses
    BY <2>2 DEF ShotPasses, Follows, Live
  <2> QED
    BY <2>1, <2>2 DEF SlotComes, RetryComes
<1> USE DEF row, SlotComes, RetryComes, ShotPasses, BecomesDue
<1>3. ClaimsDiffer' /\ LateMeansOverran' /\ JudgedMeansOverran' /\ (HeldInv => ClaimHeldUntilDeadline')
  BY <1>2, FollowsKeepsClaims DEF SweepsFollow
<1>4. LogFollowsRun' /\ (HeldInv => ClosedMeansOver' /\ LiveRunStaysOpen')
  BY <1>2, FollowsKeepsLog
<1>5. ServedIsNotDue' /\ DisabledAtLimit'
  BY <1>2 DEF row, ServedIsNotDue, DisabledAtLimit, Follows, RowInv
<1> QED
  BY <1>1, <1>3, <1>4, <1>5 DEF RowInv, HeldInv

\* The record of an execution that starts is typed.
LEMMA NewRunTyped ==
  ASSUME clock \in Nat, NEW p \in Procs, NEW m \in BOOLEAN, NEW b \in BOOLEAN
  PROVE  [NoRun EXCEPT !.pc = "claiming", !.proc = p, !.manual = m, !.oneShot = b] \in RunRecord
<1>1. 0 \in 0..clock /\ FALSE \in BOOLEAN
  OBVIOUS
<1> QED
  BY <1>1, Zenon DEF NoRun, RunRecord, Nexts

\* An execution starts: it is the next in order, and holds nothing yet.
LEMMA StartType ==
  ASSUME TypeOK, NEW p \in Procs, Pick(p) \/ RunNow(p) \/ MissedTasks(p)
  PROVE  TypeOK'
<1> USE SchedulerAssumption, TypeParts DEF row, Pick, RunNow, MissedTasks, Queue
<1>1. RowTyped'
  BY DEF RowTyped, Nexts, Scheds
<1>2. FlagsTyped'
  BY DEF FlagsTyped
<1>3. CountsTyped'
  BY DEF CountsTyped
<1>4. clock' \in {clock, clock + 1}
  OBVIOUS
<1>5. RunsTyped'
  <2>1. CASE UNCHANGED run
    BY <2>1 DEF RunsTyped, RunRecord
  <2>2. ASSUME NEW manual \in BOOLEAN, Queue(p, manual) PROVE RunsTyped'
    <3>1. ASSUME NEW b \in BOOLEAN
          PROVE  [NoRun EXCEPT !.pc = "claiming", !.proc = p, !.manual = manual, !.oneShot = b] \in RunRecord
      BY NewRunTyped DEF RowTyped
    <3>2. (sched # "recurring" /\ DeleteAfterRun) \in BOOLEAN
      OBVIOUS
    <3> QED
      BY <2>2, <3>1, <3>2 DEF RunsTyped, RunRecord
  <2> QED
    BY <2>1, <2>2
<1>6. ReplicasTyped'
  <2>1. sweep \in [Procs -> SweepRecord']
    BY <1>4, RecordsGrow DEF ReplicasTyped, RowTyped
  <2> QED
    BY ZenonT(60), <2>1, <1>1 DEF ReplicasTyped, RowTyped, SweepRecord, CountsTyped
<1> QED
  BY <1>1, <1>2, <1>3, <1>5, <1>6 DEF TypeOK, RowTyped, FlagsTyped, CountsTyped, RunsTyped, ReplicasTyped

\* The same for the claim invariant.
LEMMA StartInv ==
  ASSUME RowInv, NEW p \in Procs, Pick(p) \/ RunNow(p) \/ MissedTasks(p)
  PROVE  RowInv' /\ (HeldInv => HeldInv')
<1>1. TypeOK'
  BY StartType DEF RowInv
<1>2. Follows
  <2> USE DEF RowInv, TypeOK, LogFollowsRun, ServedIsNotDue
  <2>1. CASE UNCHANGED <<run, started>>
    BY <2>1 DEF Follows, Live
  <2>2. ASSUME NEW manual, Queue(p, manual) PROVE Follows
    <3>1. ASSUME NEW x \in Runs, x # started + 1 PROVE run'[x] = run[x]
      BY <2>2, <3>1 DEF Queue
    <3>2. started + 1 \in Runs => /\ run[started + 1].pc = "none"
                                 /\ run'[started + 1].pc = "claiming"
                                 /\ run'[started + 1].claim = 0
                                 /\ run'[started + 1].next = "never"
      BY <2>2 DEF Queue, NoRun
    <3>3. started' = started + 1
      BY <2>2 DEF Queue
    <3> QED
      <4>1. started \in Nat /\ Runs \subseteq Nat
        BY DEF Runs
      <4>2. ASSUME NEW x \in Runs, x # started + 1
            PROVE  run'[x] = run[x] /\ (x > started' => run'[x].pc = "none")
        BY <3>1, <3>3, <4>1, <4>2
      <4> QED
        BY <4>1, <4>2, <3>2, <3>3 DEF Follows, Live, Early
  <2> QED
    BY <2>1, <2>2 DEF Pick, RunNow, MissedTasks
<1> USE DEF row, Pick, RunNow, MissedTasks, Queue
<1>3. ClaimsDiffer' /\ LateMeansOverran' /\ JudgedMeansOverran' /\ (HeldInv => ClaimHeldUntilDeadline')
  BY <1>2, FollowsKeepsClaims DEF SweepsFollow
<1>4. LogFollowsRun' /\ (HeldInv => ClosedMeansOver' /\ LiveRunStaysOpen')
  BY <1>2, FollowsKeepsLog
<1>5. ServedIsNotDue' /\ DisabledAtLimit'
  <2>1. served' = served /\ next' = next /\ enabled' = enabled /\ errors' = errors
    OBVIOUS
  <2>2. missed' \in [Procs -> Scheds \union {"none"}]
    BY <1>1 DEF TypeOK
  <2> QED
    BY <1>2, <2>1, <2>2 DEF ServedIsNotDue, DisabledAtLimit, Follows, RowInv
<1> QED
  BY <1>1, <1>3, <1>4, <1>5 DEF RowInv, HeldInv

\* A claim: the row was not running, so no other execution was live in time,
\* and the new stamp is above every claim given out.
LEMMA MarkRunningType ==
  ASSUME TypeOK, NEW e \in Runs, MarkRunning(e)
  PROVE  TypeOK'
<1> USE SchedulerAssumption, TypeParts DEF row, MarkRunning, TakeStamp
<1>1. RowTyped'
  BY DEF RowTyped, Nexts, Scheds
<1>2. FlagsTyped'
  BY DEF FlagsTyped
<1>3. CountsTyped'
  BY DEF CountsTyped
<1>4. clock' \in {clock, clock + 1}
  OBVIOUS
<1>5. RunsTyped'
  <2>1. run \in [Runs -> RunRecord']
    BY <1>4, RecordsGrow DEF RunsTyped, RowTyped
  <2> QED
    BY <2>1, <1>1 DEF RowTyped, RunsTyped, RunRecord, Nexts, Scheds
<1>6. ReplicasTyped'
  <2>1. sweep \in [Procs -> SweepRecord']
    BY <1>4, RecordsGrow DEF ReplicasTyped, RowTyped
  <2> QED
    BY <2>1, <1>1 DEF ReplicasTyped, RowTyped, SweepRecord, CountsTyped
<1> QED
  BY <1>1, <1>2, <1>3, <1>5, <1>6 DEF TypeOK, RowTyped, FlagsTyped, CountsTyped, RunsTyped, ReplicasTyped

\* The same for the claim invariant.
LEMMA MarkRunningInv ==
  ASSUME RowInv, NEW e \in Runs, MarkRunning(e)
  PROVE  RowInv' /\ (HeldInv => HeldInv')
<1> USE SchedulerAssumption DEF row, RowInv, At, Live, Holds, MarkRunning, TakeStamp, Claimable
<1>1. TypeOK'
  BY MarkRunningType
<1>2. ClaimsDiffer'
  BY DEF ClaimsDiffer, TypeOK, RunRecord
<1>3. LateMeansOverran'
  BY DEF LateMeansOverran, TypeOK, RunRecord
<1>4. JudgedMeansOverran'
  BY DEF JudgedMeansOverran, LateMeansOverran, TypeOK, RunRecord, SweepRecord
<1>5. HeldInv => ClaimHeldUntilDeadline'
  BY DEF HeldInv, ClaimHeldUntilDeadline, ClaimsDiffer, JudgedMeansOverran, TypeOK, RunRecord, SweepRecord
<1>6. LogFollowsRun'
  BY DEF LogFollowsRun, TypeOK, RunRecord, SweepRecord
<1>7. HeldInv => ClosedMeansOver'
  BY DEF HeldInv, ClosedMeansOver, LogFollowsRun, TypeOK, RunRecord, SweepRecord
<1>8. HeldInv => LiveRunStaysOpen'
  BY DEF HeldInv, LiveRunStaysOpen, LogFollowsRun, ClosedMeansOver, TypeOK, RunRecord
<1>9. ServedIsNotDue'
  BY DEF ServedIsNotDue, TypeOK, RunRecord, Nexts
<1>10. DisabledAtLimit'
  BY DEF DisabledAtLimit, TypeOK
<1> QED
  BY <1>1, <1>2, <1>3, <1>4, <1>5, <1>6, <1>7, <1>8, <1>9, <1>10 DEF HeldInv

\* A completion: its claim held the row, so no other live execution did.
LEMMA WriteCompletedType ==
  ASSUME TypeOK, NEW e \in Runs, WriteCompleted(e)
  PROVE  TypeOK'
<1> USE SchedulerAssumption, TypeParts DEF row, WriteCompleted, TakeStamp, Record
<1>1. RowTyped'
  BY DEF RowTyped, RunsTyped, RunRecord
<1>2. FlagsTyped'
  BY DEF FlagsTyped
<1>3. CountsTyped'
  BY DEF CountsTyped
<1>4. clock' \in {clock, clock + 1}
  OBVIOUS
<1>5. RunsTyped'
  <2>1. Delivers(e, clock + 1) /\ clock + 1 \in 0..clock'
    BY DEF Delivers, RowTyped
  <2> QED
    BY <2>1, <1>4, DeliversTyped
<1>6. ReplicasTyped'
  <2>1. sweep \in [Procs -> SweepRecord']
    BY <1>4, RecordsGrow DEF ReplicasTyped, RowTyped
  <2> QED
    BY <2>1, <1>1 DEF ReplicasTyped, RowTyped, SweepRecord, CountsTyped
<1> QED
  BY <1>1, <1>2, <1>3, <1>5, <1>6 DEF TypeOK, RowTyped, FlagsTyped, CountsTyped, RunsTyped, ReplicasTyped

\* The same for the claim invariant.
LEMMA WriteCompletedInv ==
  ASSUME RowInv, NEW e \in Runs, WriteCompleted(e)
  PROVE  RowInv' /\ (HeldInv => HeldInv')
<1> USE SchedulerAssumption DEF row, RowInv, At, Live, Holds, WriteCompleted, TakeStamp, Record
<1>0. /\ \A x \in Runs : x # e => run'[x] = run[x]
      /\ run'[e].pc = "delivering" /\ run'[e].claim = run[e].claim
      /\ run'[e].next = "never" /\ run'[e].doneAt = clock + 1
  BY DeliversWith, TypeParts DEF Delivers
<1>1. TypeOK'
  BY WriteCompletedType
<1>2. ClaimsDiffer'
  BY <1>0 DEF ClaimsDiffer, TypeOK, RunRecord
<1>3. LateMeansOverran'
  BY <1>0 DEF LateMeansOverran, TypeOK, RunRecord
<1>4. JudgedMeansOverran'
  BY <1>0 DEF JudgedMeansOverran, LateMeansOverran, TypeOK, RunRecord, SweepRecord
<1>5. HeldInv => ClaimHeldUntilDeadline'
  BY <1>0 DEF HeldInv, ClaimHeldUntilDeadline, ClaimsDiffer, JudgedMeansOverran, TypeOK, RunRecord, SweepRecord
<1>6. LogFollowsRun'
  BY <1>0 DEF LogFollowsRun, TypeOK, RunRecord, SweepRecord
<1>7. HeldInv => ClosedMeansOver'
  BY <1>0 DEF HeldInv, ClosedMeansOver, LogFollowsRun, TypeOK, RunRecord, SweepRecord
<1>8. HeldInv => LiveRunStaysOpen'
  BY <1>0 DEF HeldInv, LiveRunStaysOpen, LogFollowsRun, ClosedMeansOver, TypeOK, RunRecord
<1>9. ServedIsNotDue'
  BY <1>0 DEF ServedIsNotDue, TypeOK, RunRecord, Nexts
<1>10. DisabledAtLimit'
  BY <1>0 DEF DisabledAtLimit, TypeOK
<1> QED
  BY <1>1, <1>2, <1>3, <1>4, <1>5, <1>6, <1>7, <1>8, <1>9, <1>10 DEF HeldInv

\* A failed run: it gives up its claim, and the row only if it held it.
LEMMA MarkFailedType ==
  ASSUME TypeOK, NEW e \in Runs, MarkFailed(e)
  PROVE  TypeOK'
<1> USE SchedulerAssumption, TypeParts DEF row, MarkFailed, Record
<1>1. RowTyped'
  <2>1. NextAfterFailure(errors + 1) \in Nexts
    BY DEF NextAfterFailure, NextRun, Nexts
  <2>2. CASE FailRow
    BY <2>1, <2>2 DEF FailRow, TakeStamp, RowTyped
  <2>3. CASE UNCHANGED <<row, clock>>
    BY <2>3 DEF RowTyped
  <2> QED
    BY <2>2, <2>3
<1>2. FlagsTyped'
  <2>1. CASE FailRow
    <3>1. enabled' \in BOOLEAN
      BY <2>1 DEF FailRow, FlagsTyped
    <3> QED
      BY <2>1, <3>1 DEF FailRow, FlagsTyped
  <2>2. CASE UNCHANGED <<row, clock>>
    BY <2>2 DEF FlagsTyped
  <2> QED
    BY <2>1, <2>2
<1>3. CountsTyped'
  BY DEF CountsTyped
<1>4. clock' \in {clock, clock + 1}
  BY DEF FailRow, TakeStamp
<1>5. RunsTyped'
  BY <1>4, EndTyped
<1>6. ReplicasTyped'
  <2>1. sweep \in [Procs -> SweepRecord']
    BY <1>4, RecordsGrow DEF ReplicasTyped, RowTyped
  <2> QED
    BY <2>1, <1>1 DEF ReplicasTyped, RowTyped, SweepRecord, CountsTyped
<1> QED
  BY <1>1, <1>2, <1>3, <1>5, <1>6 DEF TypeOK, RowTyped, FlagsTyped, CountsTyped, RunsTyped, ReplicasTyped

\* A failure that is recorded disables the task at its limit.
LEMMA FailRowDisables ==
  ASSUME TypeOK, FailRow
  PROVE  DisabledAtLimit'
<1>1. errors + 1 \in Nat /\ MaxErrors \in Nat
  BY SchedulerAssumption DEF TypeOK
<1>2. enabled' => ~Disables(errors + 1)
  BY DEF FailRow
<1>3. ~Disables(errors + 1) => errors + 1 < MaxErrors
  BY <1>1 DEF Disables
<1>4. errors' = errors + 1
  BY DEF FailRow
<1> QED
  BY <1>2, <1>3, <1>4 DEF DisabledAtLimit

\* The same for the claim invariant.
LEMMA MarkFailedInv ==
  ASSUME RowInv, NEW e \in Runs, MarkFailed(e)
  PROVE  RowInv' /\ (HeldInv => HeldInv')
<1>1. TypeOK'
  BY MarkFailedType DEF RowInv
<1>2. Follows /\ ~Live(e)'
  <2>1. run[e].pc # "none" /\ run'[e].pc = "done"
    BY DEF MarkFailed, Failing, At, End, Over, NoRun, RowInv, TypeOK
  <2> QED
    BY <2>1, EndFollows DEF MarkFailed, Live
<1> USE DEF row, MarkFailed
<1>3. ClaimsDiffer' /\ LateMeansOverran' /\ JudgedMeansOverran' /\ (HeldInv => ClaimHeldUntilDeadline')
  <2>1. CASE Holds(run[e].claim)
    <3>1. status' = "error" /\ gone' = gone /\ status = "running" /\ stamp = run[e].claim
      BY <2>1 DEF FailRow, Holds
    <3>2. ClaimsDiffer' /\ LateMeansOverran' /\ JudgedMeansOverran'
      BY <1>2, <3>1 DEF Follows, RowInv, ClaimsDiffer, LateMeansOverran, JudgedMeansOverran
    <3>3. ASSUME HeldInv, NEW x \in Runs, Live(x)', ~run'[x].overran, gone # "api" PROVE FALSE
      <4>1. x # e
        BY <1>2, <3>3
      <4>2. Live(x) /\ ~run[x].overran
        BY <1>2, <3>3 DEF Follows
      <4>3. run[x].claim = run[e].claim /\ run[x].claim # 0
        BY <3>1, <3>3, <4>2 DEF RowInv, HeldInv, ClaimHeldUntilDeadline, ClaimsDiffer, Holds
      <4> QED
        BY <4>1, <4>3 DEF RowInv, ClaimsDiffer
    <3> QED
      BY <3>1, <3>2, <3>3 DEF ClaimHeldUntilDeadline
  <2>2. CASE ~Holds(run[e].claim)
    BY <1>2, <2>2, FollowsKeepsClaims DEF SweepsFollow
  <2> QED
    BY <2>1, <2>2
<1>4. \A x \in unlanded' : x \in unlanded \/ (~Live(x)' /\ x \in Runs /\ run'[x].pc \notin Early)
  BY <1>2 DEF Record, End, Over, NoRun, Early, RowInv, TypeOK
<1>5. LogFollowsRun' /\ (HeldInv => ClosedMeansOver' /\ LiveRunStaysOpen')
  BY <1>2, <1>4, FollowsKeepsLog DEF FailRow
<1>6. ServedIsNotDue'
  <2>1. NextAfterFailure(errors + 1) # "due"
    BY DEF NextAfterFailure, NextRun
  <2> QED
    BY <1>2, <2>1 DEF FailRow, ServedIsNotDue, Follows, RowInv
<1>7. DisabledAtLimit'
  BY FailRowDisables DEF DisabledAtLimit, RowInv
<1> QED
  BY <1>1, <1>3, <1>5, <1>6, <1>7 DEF RowInv, HeldInv

\* The end of a run: a task is only deleted when its status is success, so no
\* execution was live in time.
LEMMA DeliverType ==
  ASSUME TypeOK, NEW e \in Runs, Deliver(e)
  PROVE  TypeOK'
<1> USE SchedulerAssumption, TypeParts DEF row, Deliver
<1>1. RowTyped'
  BY DEF RowTyped, Nexts, Scheds
<1>2. FlagsTyped'
  BY DEF FlagsTyped
<1>3. CountsTyped'
  BY DEF CountsTyped
<1>4. clock' \in {clock, clock + 1}
  OBVIOUS
<1>5. RunsTyped'
  BY <1>4, EndTyped
<1>6. ReplicasTyped'
  <2>1. sweep \in [Procs -> SweepRecord']
    BY <1>4, RecordsGrow DEF ReplicasTyped, RowTyped
  <2> QED
    BY <2>1, <1>1 DEF ReplicasTyped, RowTyped, SweepRecord, CountsTyped
<1> QED
  BY <1>1, <1>2, <1>3, <1>5, <1>6 DEF TypeOK, RowTyped, FlagsTyped, CountsTyped, RunsTyped, ReplicasTyped

\* The same for the claim invariant.
LEMMA DeliverInv ==
  ASSUME RowInv, NEW e \in Runs, Deliver(e)
  PROVE  RowInv' /\ (HeldInv => HeldInv')
<1> USE SchedulerAssumption DEF row, RowInv, At, Live, Holds, Deliver, Deletes, MayRemove, End, Over, NoRun
<1>1. TypeOK'
  BY DeliverType
<1>2. ClaimsDiffer'
  BY DEF ClaimsDiffer, TypeOK, RunRecord
<1>3. LateMeansOverran'
  BY DEF LateMeansOverran, TypeOK, RunRecord
<1>4. JudgedMeansOverran'
  BY DEF JudgedMeansOverran, LateMeansOverran, TypeOK, RunRecord, SweepRecord
<1>5. HeldInv => ClaimHeldUntilDeadline'
  BY DEF HeldInv, ClaimHeldUntilDeadline, ClaimsDiffer, JudgedMeansOverran, TypeOK, RunRecord, SweepRecord
<1>6. LogFollowsRun'
  BY DEF LogFollowsRun, TypeOK, RunRecord, SweepRecord
<1>7. HeldInv => ClosedMeansOver'
  BY DEF HeldInv, ClosedMeansOver, LogFollowsRun, TypeOK, RunRecord, SweepRecord
<1>8. HeldInv => LiveRunStaysOpen'
  BY DEF HeldInv, LiveRunStaysOpen, LogFollowsRun, ClosedMeansOver, TypeOK, RunRecord
<1>9. ServedIsNotDue'
  BY DEF ServedIsNotDue, TypeOK, RunRecord, Nexts
<1>10. DisabledAtLimit'
  BY DEF DisabledAtLimit, TypeOK
<1> QED
  BY <1>1, <1>2, <1>3, <1>4, <1>5, <1>6, <1>7, <1>8, <1>9, <1>10 DEF HeldInv

\* A late call to the run log belongs to an execution that is over.
LEMMA LandLogType ==
  ASSUME TypeOK, NEW e \in Runs, LandLog(e)
  PROVE  TypeOK'
<1> USE SchedulerAssumption, TypeParts DEF row, LandLog
<1>1. RowTyped'
  BY DEF RowTyped, Nexts, Scheds
<1>2. FlagsTyped'
  BY DEF FlagsTyped
<1>3. CountsTyped'
  BY DEF CountsTyped
<1>4. clock' \in {clock, clock + 1}
  OBVIOUS
<1>5. RunsTyped'
  <2>1. run \in [Runs -> RunRecord']
    BY <1>4, RecordsGrow DEF RunsTyped, RowTyped
  <2> QED
    BY <2>1, <1>1 DEF RowTyped, RunsTyped, RunRecord, Nexts, Scheds
<1>6. ReplicasTyped'
  <2>1. sweep \in [Procs -> SweepRecord']
    BY <1>4, RecordsGrow DEF ReplicasTyped, RowTyped
  <2> QED
    BY <2>1, <1>1 DEF ReplicasTyped, RowTyped, SweepRecord, CountsTyped
<1> QED
  BY <1>1, <1>2, <1>3, <1>5, <1>6 DEF TypeOK, RowTyped, FlagsTyped, CountsTyped, RunsTyped, ReplicasTyped

\* The same for the claim invariant.
LEMMA LandLogInv ==
  ASSUME RowInv, NEW e \in Runs, LandLog(e)
  PROVE  RowInv' /\ (HeldInv => HeldInv')
<1> USE SchedulerAssumption DEF row, RowInv, At, Live, Holds, LandLog
<1>1. TypeOK'
  BY LandLogType
<1>2. ClaimsDiffer'
  BY DEF ClaimsDiffer, TypeOK, RunRecord
<1>3. LateMeansOverran'
  BY DEF LateMeansOverran, TypeOK, RunRecord
<1>4. JudgedMeansOverran'
  BY DEF JudgedMeansOverran, LateMeansOverran, TypeOK, RunRecord, SweepRecord
<1>5. HeldInv => ClaimHeldUntilDeadline'
  BY DEF HeldInv, ClaimHeldUntilDeadline, ClaimsDiffer, JudgedMeansOverran, TypeOK, RunRecord, SweepRecord
<1>6. LogFollowsRun'
  BY DEF LogFollowsRun, TypeOK, RunRecord, SweepRecord
<1>7. HeldInv => ClosedMeansOver'
  BY DEF HeldInv, ClosedMeansOver, LogFollowsRun, TypeOK, RunRecord, SweepRecord
<1>8. HeldInv => LiveRunStaysOpen'
  BY DEF HeldInv, LiveRunStaysOpen, LogFollowsRun, ClosedMeansOver, TypeOK, RunRecord
<1>9. ServedIsNotDue'
  BY DEF ServedIsNotDue, TypeOK, RunRecord, Nexts
<1>10. DisabledAtLimit'
  BY DEF DisabledAtLimit, TypeOK
<1> QED
  BY <1>1, <1>2, <1>3, <1>4, <1>5, <1>6, <1>7, <1>8, <1>9, <1>10 DEF HeldInv

\* A sweep judges a row that is late, so its holder has overrun.
LEMMA JudgeType ==
  ASSUME TypeOK, NEW p \in Procs, Judge(p)
  PROVE  TypeOK'
<1> USE SchedulerAssumption, TypeParts DEF row, Judge, Stuck
<1>1. RowTyped'
  BY DEF RowTyped, Nexts, Scheds
<1>2. FlagsTyped'
  BY DEF FlagsTyped
<1>3. CountsTyped'
  BY DEF CountsTyped
<1>4. clock' \in {clock, clock + 1}
  OBVIOUS
<1>5. RunsTyped'
  <2>1. run \in [Runs -> RunRecord']
    BY <1>4, RecordsGrow DEF RunsTyped, RowTyped
  <2> QED
    BY <2>1, <1>1 DEF RowTyped, RunsTyped, RunRecord, Nexts, Scheds
<1>6. ReplicasTyped'
  <2>1. sweep \in [Procs -> SweepRecord']
    BY <1>4, RecordsGrow DEF ReplicasTyped, RowTyped
  <2> QED
    BY <2>1, <1>1 DEF ReplicasTyped, RowTyped, SweepRecord, CountsTyped
<1> QED
  BY <1>1, <1>2, <1>3, <1>5, <1>6 DEF TypeOK, RowTyped, FlagsTyped, CountsTyped, RunsTyped, ReplicasTyped

\* The same for the claim invariant.
LEMMA JudgeInv ==
  ASSUME RowInv, NEW p \in Procs, Judge(p)
  PROVE  RowInv' /\ (HeldInv => HeldInv')
<1> USE SchedulerAssumption DEF row, RowInv, At, Live, Holds, Judge, Stuck
<1>1. TypeOK'
  BY JudgeType
<1>2. ClaimsDiffer'
  BY DEF ClaimsDiffer, TypeOK, RunRecord
<1>3. LateMeansOverran'
  BY DEF LateMeansOverran, TypeOK, RunRecord
<1>4. JudgedMeansOverran'
  BY DEF JudgedMeansOverran, LateMeansOverran, TypeOK, RunRecord, SweepRecord
<1>5. HeldInv => ClaimHeldUntilDeadline'
  BY DEF HeldInv, ClaimHeldUntilDeadline, ClaimsDiffer, JudgedMeansOverran, TypeOK, RunRecord, SweepRecord
<1>6. LogFollowsRun'
  BY DEF LogFollowsRun, TypeOK, RunRecord, SweepRecord
<1>7. HeldInv => ClosedMeansOver'
  BY DEF HeldInv, ClosedMeansOver, LogFollowsRun, TypeOK, RunRecord, SweepRecord
<1>8. HeldInv => LiveRunStaysOpen'
  BY DEF HeldInv, LiveRunStaysOpen, LogFollowsRun, ClosedMeansOver, TypeOK, RunRecord
<1>9. ServedIsNotDue'
  BY DEF ServedIsNotDue, TypeOK, RunRecord, Nexts
<1>10. DisabledAtLimit'
  BY DEF DisabledAtLimit, TypeOK
<1> QED
  BY <1>1, <1>2, <1>3, <1>4, <1>5, <1>6, <1>7, <1>8, <1>9, <1>10 DEF HeldInv

\* A step that leaves the executions alone.
LEMMA SameRunsFollow ==
  ASSUME RowInv, UNCHANGED <<run, started>>
  PROVE  Follows
BY DEF Follows, RowInv, LogFollowsRun, ServedIsNotDue, Live

\* A sweep takes the row: the claim it judged had overrun, so no execution that
\* is live and in time loses the row, or is among the runs it will close.
LEMMA SweepTakes ==
  ASSUME RowInv, NEW p \in Procs, sweep[p].pc \in {"clearing", "failing"}, Holds(sweep[p].claim),
         UNCHANGED <<gone, run, started, log, unlanded>>, status' # "running",
         sweep' = [sweep EXCEPT ![p] = [NoSweep EXCEPT !.pc = "closing", !.dangling = sweep[p].dangling]]
  PROVE  /\ ClaimsDiffer' /\ LateMeansOverran' /\ JudgedMeansOverran' /\ (HeldInv => ClaimHeldUntilDeadline')
         /\ LogFollowsRun' /\ (HeldInv => ClosedMeansOver' /\ LiveRunStaysOpen')
<1> USE DEF RowInv, Live
<1>1. /\ sweep'[p].pc = "closing" /\ sweep'[p].dangling = sweep[p].dangling
      /\ \A q \in Procs : q # p => sweep'[q] = sweep[q]
  BY DEF TypeOK, NoSweep
<1>2. ASSUME HeldInv, NEW x \in Runs, Live(x), ~run[x].overran, gone # "api" PROVE FALSE
  BY <1>2 DEF HeldInv, ClaimHeldUntilDeadline, JudgedMeansOverran, Holds
<1>3. ClaimsDiffer' /\ LateMeansOverran'
  BY DEF ClaimsDiffer, LateMeansOverran
<1>4. JudgedMeansOverran'
  BY <1>1 DEF JudgedMeansOverran
<1>5. HeldInv => ClaimHeldUntilDeadline'
  BY <1>2 DEF ClaimHeldUntilDeadline
<1>6. LogFollowsRun'
  BY <1>1 DEF LogFollowsRun
<1>7. HeldInv => ClosedMeansOver'
  <2>1. gone # "api"
    BY DEF Holds
  <2>2. sweep[p].dangling \subseteq Runs
    BY DEF TypeOK, SweepRecord
  <2> QED
    BY <1>1, <1>2, <2>1, <2>2 DEF HeldInv, ClosedMeansOver
<1>8. HeldInv => LiveRunStaysOpen'
  BY DEF HeldInv, LiveRunStaysOpen
<1> QED
  BY <1>3, <1>4, <1>5, <1>6, <1>7, <1>8

\* A sweep whose claim was taken over in the meantime gives up.
LEMMA SweepGivesUp ==
  ASSUME RowInv, NEW p \in Procs, UNCHANGED <<gone, status, stamp, late, run, started, log, unlanded>>,
         sweep' = [sweep EXCEPT ![p] = NoSweep]
  PROVE  /\ ClaimsDiffer' /\ LateMeansOverran' /\ JudgedMeansOverran' /\ (HeldInv => ClaimHeldUntilDeadline')
         /\ LogFollowsRun' /\ (HeldInv => ClosedMeansOver' /\ LiveRunStaysOpen')
<1>1. /\ sweep'[p].pc = "idle" /\ sweep'[p].dangling = {}
      /\ \A q \in Procs : q # p => sweep'[q] = sweep[q]
  BY DEF RowInv, TypeOK, NoSweep
<1>2. SweepsFollow
  BY <1>1 DEF SweepsFollow
<1> QED
  BY <1>1, <1>2, SameRunsFollow, FollowsKeepsClaims, FollowsKeepsLog

\* The startup recovery frees the row.
LEMMA ClearMarkerType ==
  ASSUME TypeOK, NEW p \in Procs, ClearMarker(p)
  PROVE  TypeOK'
<1> USE SchedulerAssumption, TypeParts DEF row, ClearMarker
<1>1. RowTyped'
  BY DEF RowTyped, Nexts, Scheds
<1>2. FlagsTyped'
  BY DEF FlagsTyped
<1>3. CountsTyped'
  BY DEF CountsTyped
<1>4. clock' \in {clock, clock + 1}
  OBVIOUS
<1>5. RunsTyped'
  <2>1. run \in [Runs -> RunRecord']
    BY <1>4, RecordsGrow DEF RunsTyped, RowTyped
  <2> QED
    BY <2>1, <1>1 DEF RowTyped, RunsTyped, RunRecord, Nexts, Scheds
<1>6. ReplicasTyped'
  <2>1. [NoSweep EXCEPT !.pc = "closing", !.dangling = sweep[p].dangling] \in SweepRecord'
    <3>1. NoSweep \in SweepRecord' /\ sweep[p].dangling \subseteq Runs
      BY <1>4, RecordsTyped DEF SweepRecord, ReplicasTyped
    <3> QED
      BY <3>1 DEF SweepRecord
  <2>2. \A q \in Procs : sweep[q] \in SweepRecord'
    BY <1>4, RecordsGrow DEF ReplicasTyped, RowTyped
  <2>3. sweep' \in [Procs -> SweepRecord']
    BY <1>4, <2>1, <2>2, RecordsTyped DEF ReplicasTyped
  <2> QED
    BY <2>3 DEF ReplicasTyped
<1> QED
  BY <1>1, <1>2, <1>3, <1>5, <1>6 DEF TypeOK, RowTyped, FlagsTyped, CountsTyped, RunsTyped, ReplicasTyped

\* The reaper fails the row.
LEMMA ReapRowType ==
  ASSUME TypeOK, NEW p \in Procs, ReapRow(p)
  PROVE  TypeOK'
<1> USE SchedulerAssumption, TypeParts DEF row, ReapRow
<1>1. RowTyped'
  <2>1. NextAfterFailure(errors + 1) \in Nexts
    BY DEF NextAfterFailure, NextRun, Nexts
  <2>2. CASE FailRow
    BY <2>1, <2>2 DEF FailRow, TakeStamp, RowTyped
  <2>3. CASE UNCHANGED <<row, clock>>
    BY <2>3 DEF RowTyped
  <2> QED
    BY <2>2, <2>3
<1>2. FlagsTyped'
  <2>1. CASE FailRow
    <3>1. enabled' \in BOOLEAN
      BY <2>1 DEF FailRow, FlagsTyped
    <3> QED
      BY <2>1, <3>1 DEF FailRow, FlagsTyped
  <2>2. CASE UNCHANGED <<row, clock>>
    BY <2>2 DEF FlagsTyped
  <2> QED
    BY <2>1, <2>2
<1>3. CountsTyped'
  BY DEF CountsTyped
<1>4. clock' \in {clock, clock + 1}
  BY DEF FailRow, TakeStamp
<1>5. RunsTyped'
  <2>1. run \in [Runs -> RunRecord']
    BY <1>4, RecordsGrow DEF RunsTyped, RowTyped
  <2> QED
    BY <2>1, <1>1 DEF RowTyped, RunsTyped, RunRecord, Nexts, Scheds
<1>6. ReplicasTyped'
  <2>1. [NoSweep EXCEPT !.pc = "closing", !.dangling = sweep[p].dangling] \in SweepRecord'
    <3>1. NoSweep \in SweepRecord' /\ sweep[p].dangling \subseteq Runs
      BY <1>4, RecordsTyped DEF SweepRecord, ReplicasTyped
    <3> QED
      BY <3>1 DEF SweepRecord
  <2>2. \A q \in Procs : sweep[q] \in SweepRecord'
    BY <1>4, RecordsGrow DEF ReplicasTyped, RowTyped
  <2>3. sweep' \in [Procs -> SweepRecord']
    BY <1>4, <2>1, <2>2, RecordsTyped DEF ReplicasTyped
  <2> QED
    BY <2>3 DEF ReplicasTyped
<1> QED
  BY <1>1, <1>2, <1>3, <1>5, <1>6 DEF TypeOK, RowTyped, FlagsTyped, CountsTyped, RunsTyped, ReplicasTyped

\* The same for the claim invariant.
LEMMA ClearMarkerInv ==
  ASSUME RowInv, NEW p \in Procs, ClearMarker(p)
  PROVE  RowInv' /\ (HeldInv => HeldInv')
<1>1. TypeOK'
  BY ClearMarkerType DEF RowInv
<1> USE DEF row, ClearMarker
<1>2. /\ ClaimsDiffer' /\ LateMeansOverran' /\ JudgedMeansOverran' /\ (HeldInv => ClaimHeldUntilDeadline')
      /\ LogFollowsRun' /\ (HeldInv => ClosedMeansOver' /\ LiveRunStaysOpen')
  <2>1. CASE Holds(sweep[p].claim)
    BY <2>1, SweepTakes
  <2>2. CASE ~Holds(sweep[p].claim)
    BY <2>2, SweepGivesUp
  <2> QED
    BY <2>1, <2>2
<1>3. ServedIsNotDue' /\ DisabledAtLimit'
  BY SameRunsFollow DEF ServedIsNotDue, DisabledAtLimit, RowInv
<1> QED
  BY <1>1, <1>2, <1>3 DEF RowInv, HeldInv

\* The same for the claim invariant.
LEMMA ReapRowInv ==
  ASSUME RowInv, NEW p \in Procs, ReapRow(p)
  PROVE  RowInv' /\ (HeldInv => HeldInv')
<1>1. TypeOK'
  BY ReapRowType DEF RowInv
<1> USE DEF row, ReapRow
<1>2. /\ ClaimsDiffer' /\ LateMeansOverran' /\ JudgedMeansOverran' /\ (HeldInv => ClaimHeldUntilDeadline')
      /\ LogFollowsRun' /\ (HeldInv => ClosedMeansOver' /\ LiveRunStaysOpen')
  <2>1. CASE Holds(sweep[p].claim)
    BY <2>1, SweepTakes DEF FailRow
  <2>2. CASE ~Holds(sweep[p].claim)
    BY <2>2, SweepGivesUp
  <2> QED
    BY <2>1, <2>2
<1>3. ServedIsNotDue' /\ DisabledAtLimit'
  <2>1. NextAfterFailure(errors + 1) # "due"
    BY DEF NextAfterFailure, NextRun
  <2>2. ServedIsNotDue'
    BY <2>1 DEF FailRow, ServedIsNotDue, RowInv
  <2> QED
    BY <2>2, FailRowDisables DEF DisabledAtLimit, RowInv
<1> QED
  BY <1>1, <1>2, <1>3 DEF RowInv, HeldInv

\* A sweep closes runs that are over, or have overrun.
LEMMA CloseRunsType ==
  ASSUME TypeOK, NEW p \in Procs, CloseRuns(p)
  PROVE  TypeOK'
<1> USE SchedulerAssumption, TypeParts DEF row, CloseRuns
<1>1. RowTyped'
  BY DEF RowTyped, Nexts, Scheds
<1>2. FlagsTyped'
  BY DEF FlagsTyped
<1>3. CountsTyped'
  BY DEF CountsTyped, ReplicasTyped, SweepRecord
<1>4. clock' \in {clock, clock + 1}
  OBVIOUS
<1>5. RunsTyped'
  <2>1. run \in [Runs -> RunRecord']
    BY <1>4, RecordsGrow DEF RunsTyped, RowTyped
  <2> QED
    BY <2>1, <1>1 DEF RowTyped, RunsTyped, RunRecord, Nexts, Scheds
<1>6. ReplicasTyped'
  BY <1>4, RecordsTyped DEF ReplicasTyped, RowTyped, SweepRecord, NoSweep
<1> QED
  BY <1>1, <1>2, <1>3, <1>5, <1>6 DEF TypeOK, RowTyped, FlagsTyped, CountsTyped, RunsTyped, ReplicasTyped

\* The same for the claim invariant.
LEMMA CloseRunsInv ==
  ASSUME RowInv, NEW p \in Procs, CloseRuns(p)
  PROVE  RowInv' /\ (HeldInv => HeldInv')
<1> USE SchedulerAssumption DEF row, RowInv, At, Live, Holds, CloseRuns, NoSweep, Closes
<1>1. TypeOK'
  BY CloseRunsType
<1>2. ClaimsDiffer'
  BY DEF ClaimsDiffer, TypeOK, RunRecord
<1>3. LateMeansOverran'
  BY DEF LateMeansOverran, TypeOK, RunRecord
<1>4. JudgedMeansOverran'
  BY DEF JudgedMeansOverran, LateMeansOverran, TypeOK, RunRecord, SweepRecord
<1>5. HeldInv => ClaimHeldUntilDeadline'
  BY DEF HeldInv, ClaimHeldUntilDeadline, ClaimsDiffer, JudgedMeansOverran, TypeOK, RunRecord, SweepRecord
<1>6. LogFollowsRun'
  BY DEF LogFollowsRun, TypeOK, RunRecord, SweepRecord
<1>7. HeldInv => ClosedMeansOver'
  BY DEF HeldInv, ClosedMeansOver, LogFollowsRun, TypeOK, RunRecord, SweepRecord
<1>8. HeldInv => LiveRunStaysOpen'
  <2>1. ASSUME HeldInv, NEW x \in Runs, Live(x), ~run[x].overran, x \in sweep[p].dangling PROVE log[x] = "none"
    BY <2>1 DEF HeldInv, LogFollowsRun, ClosedMeansOver, TypeOK
  <2> QED
    BY <2>1 DEF HeldInv, LiveRunStaysOpen, TypeOK
<1>9. ServedIsNotDue'
  BY DEF ServedIsNotDue, TypeOK, RunRecord, Nexts
<1>10. DisabledAtLimit'
  BY DEF DisabledAtLimit, TypeOK
<1> QED
  BY <1>1, <1>2, <1>3, <1>4, <1>5, <1>6, <1>7, <1>8, <1>9, <1>10 DEF HeldInv

\* A crash: the executions of the replica are dead, and what its sweep and its
\* missed tasks held is lost.
LEMMA CrashType ==
  ASSUME TypeOK, NEW p \in Procs, Crash(p)
  PROVE  TypeOK'
<1> USE SchedulerAssumption, TypeParts DEF row, Crash
<1>1. RowTyped'
  BY DEF RowTyped, Nexts, Scheds
<1>2. FlagsTyped'
  BY DEF FlagsTyped
<1>3. CountsTyped'
  BY DEF CountsTyped, Throw
<1>4. clock' \in {clock, clock + 1}
  OBVIOUS
<1>5. RunsTyped'
  <2>1. \A x \in Runs : run'[x] \in RunRecord'
    BY <1>4, RecordsTyped
  <2> QED
    BY <2>1 DEF RunsTyped
<1>6. ReplicasTyped'
  <2>1. \A q \in Procs : sweep'[q] \in SweepRecord'
    BY <1>4, RecordsTyped, RecordsGrow DEF ReplicasTyped, RowTyped
  <2> QED
    BY <2>1 DEF ReplicasTyped
<1> QED
  BY <1>1, <1>2, <1>3, <1>5, <1>6 DEF TypeOK, RowTyped, FlagsTyped, CountsTyped, RunsTyped, ReplicasTyped

\* The same for the claim invariant.
LEMMA CrashInv ==
  ASSUME RowInv, NEW p \in Procs, Crash(p)
  PROVE  RowInv' /\ (HeldInv => HeldInv')
<1>1. TypeOK'
  BY CrashType DEF RowInv
<1>2. Follows
  <2>1. ASSUME NEW x \in Runs
        PROVE  \/ run'[x] = run[x]
               \/ run'[x] = Dead(run[x])
    BY DEF Crash
  <2>2. ASSUME NEW x \in Runs, x > started PROVE run'[x].pc = "none"
    BY <2>2 DEF Crash, RowInv, LogFollowsRun
  <2> QED
    BY ZenonT(60), <2>1, <2>2 DEF Follows, Dead, NoRun, Live, Early, Crash, RowInv, LogFollowsRun, ServedIsNotDue
<1> USE DEF row, Crash, NoSweep
<1>3. ClaimsDiffer' /\ LateMeansOverran' /\ JudgedMeansOverran' /\ (HeldInv => ClaimHeldUntilDeadline')
  BY <1>2, FollowsKeepsClaims DEF SweepsFollow, RowInv, TypeOK
<1>4. LogFollowsRun' /\ (HeldInv => ClosedMeansOver' /\ LiveRunStaysOpen')
  BY <1>2, FollowsKeepsLog DEF RowInv, TypeOK
<1>5. ServedIsNotDue' /\ DisabledAtLimit'
  BY <1>2 DEF row, ServedIsNotDue, DisabledAtLimit, Follows, RowInv
<1> QED
  BY <1>1, <1>3, <1>4, <1>5 DEF RowInv, HeldInv

\* The missed-tasks pass writes a schedule back: no claim moves.
LEMMA AdvanceMissedType ==
  ASSUME TypeOK, NEW p \in Procs, AdvanceMissed(p)
  PROVE  TypeOK'
<1> USE SchedulerAssumption, TypeParts DEF row, AdvanceMissed
<1>1. RowTyped'
  BY DEF ReplicasTyped, RowTyped, NextRun, Nexts, Scheds
<1>2. FlagsTyped'
  BY DEF FlagsTyped
<1>3. CountsTyped'
  BY DEF CountsTyped
<1>4. clock' \in {clock, clock + 1}
  OBVIOUS
<1>5. RunsTyped'
  <2>1. run \in [Runs -> RunRecord']
    BY <1>4, RecordsGrow DEF RunsTyped, RowTyped
  <2> QED
    BY <2>1, <1>1 DEF RowTyped, RunsTyped, RunRecord, Nexts, Scheds
<1>6. ReplicasTyped'
  <2>1. sweep \in [Procs -> SweepRecord']
    BY <1>4, RecordsGrow DEF ReplicasTyped, RowTyped
  <2> QED
    BY <2>1, <1>1 DEF ReplicasTyped, RowTyped, SweepRecord, CountsTyped
<1> QED
  BY <1>1, <1>2, <1>3, <1>5, <1>6 DEF TypeOK, RowTyped, FlagsTyped, CountsTyped, RunsTyped, ReplicasTyped

\* The same for the claim invariant.
LEMMA AdvanceMissedInv ==
  ASSUME RowInv, NEW p \in Procs, AdvanceMissed(p)
  PROVE  RowInv' /\ (HeldInv => HeldInv')
<1>1. TypeOK'
  BY AdvanceMissedType DEF RowInv
<1>2. Follows
  BY SameRunsFollow DEF AdvanceMissed
<1> USE DEF row, AdvanceMissed
<1>3. ClaimsDiffer' /\ LateMeansOverran' /\ JudgedMeansOverran' /\ (HeldInv => ClaimHeldUntilDeadline')
  BY <1>2, FollowsKeepsClaims DEF SweepsFollow
<1>4. LogFollowsRun' /\ (HeldInv => ClosedMeansOver' /\ LiveRunStaysOpen')
  BY <1>2, FollowsKeepsLog
<1>5. ServedIsNotDue' /\ DisabledAtLimit'
  <2>1. next' = next \/ next' # "due"
    BY DEF NextRun
  <2>2. missed' \in [Procs -> Scheds \union {"none"}]
    BY <1>1 DEF TypeOK
  <2> QED
    BY <2>1, <2>2 DEF ServedIsNotDue, DisabledAtLimit, RowInv
<1> QED
  BY <1>1, <1>3, <1>4, <1>5 DEF RowInv, HeldInv

\* Edits of the schedule, of enabled (to off) and of the instance move no claim.
LEMMA EditsType ==
  ASSUME TypeOK, EditSchedule \/ Disable \/ SwitchInstance
  PROVE  TypeOK'
<1> USE SchedulerAssumption, TypeParts DEF row, EditSchedule, Disable, SwitchInstance, Edit
<1>1. RowTyped'
  BY DEF RowTyped, NextRun, Nexts, Scheds
<1>2. FlagsTyped'
  BY DEF FlagsTyped
<1>3. CountsTyped'
  BY DEF CountsTyped
<1>4. clock' \in {clock, clock + 1}
  OBVIOUS
<1>5. RunsTyped'
  <2>1. run \in [Runs -> RunRecord']
    BY <1>4, RecordsGrow DEF RunsTyped, RowTyped
  <2> QED
    BY <2>1, <1>1 DEF RowTyped, RunsTyped, RunRecord, Nexts, Scheds
<1>6. ReplicasTyped'
  <2>1. sweep \in [Procs -> SweepRecord']
    BY <1>4, RecordsGrow DEF ReplicasTyped, RowTyped
  <2> QED
    BY <2>1, <1>1 DEF ReplicasTyped, RowTyped, SweepRecord, CountsTyped
<1> QED
  BY <1>1, <1>2, <1>3, <1>5, <1>6 DEF TypeOK, RowTyped, FlagsTyped, CountsTyped, RunsTyped, ReplicasTyped

\* The same for the claim invariant.
LEMMA EditsInv ==
  ASSUME RowInv, EditSchedule \/ Disable \/ SwitchInstance
  PROVE  RowInv' /\ (HeldInv => HeldInv')
<1>1. TypeOK'
  BY EditsType DEF RowInv
<1>2. Follows
  BY SameRunsFollow DEF EditSchedule, Disable, SwitchInstance, Edit
<1> USE DEF row, EditSchedule, Disable, SwitchInstance, Edit
<1>3. ClaimsDiffer' /\ LateMeansOverran' /\ JudgedMeansOverran' /\ (HeldInv => ClaimHeldUntilDeadline')
  BY <1>2, FollowsKeepsClaims DEF SweepsFollow
<1>4. LogFollowsRun' /\ (HeldInv => ClosedMeansOver' /\ LiveRunStaysOpen')
  BY <1>2, FollowsKeepsLog
<1>5. ServedIsNotDue' /\ DisabledAtLimit'
  <2>1. served' = served /\ next' \in {next, "scheduled"} /\ missed' = missed
    OBVIOUS
  <2>2. ServedIsNotDue'
    BY <1>2, <2>1 DEF ServedIsNotDue, Follows, RowInv
  <2>3. enabled' => enabled
    OBVIOUS
  <2>4. errors' = errors
    OBVIOUS
  <2> QED
    BY <2>2, <2>3, <2>4 DEF DisabledAtLimit, RowInv
<1> QED
  BY <1>1, <1>3, <1>4, <1>5 DEF RowInv, HeldInv

\* Re-enabling clears the status of the row, whoever holds it, if the API allows it.
LEMMA EnableType ==
  ASSUME TypeOK, Enable
  PROVE  TypeOK'
<1> USE SchedulerAssumption, TypeParts DEF row, Enable, Edit
<1>1. RowTyped'
  BY DEF RowTyped, NextRun, Nexts
<1>2. FlagsTyped'
  BY DEF FlagsTyped
<1>3. CountsTyped'
  BY DEF CountsTyped
<1>4. clock' \in {clock, clock + 1}
  OBVIOUS
<1>5. RunsTyped'
  <2>1. run \in [Runs -> RunRecord']
    BY <1>4, RecordsGrow DEF RunsTyped, RowTyped
  <2> QED
    BY <2>1, <1>1 DEF RowTyped, RunsTyped, RunRecord, Nexts, Scheds
<1>6. ReplicasTyped'
  <2>1. sweep \in [Procs -> SweepRecord']
    BY <1>4, RecordsGrow DEF ReplicasTyped, RowTyped
  <2> QED
    BY <2>1, <1>1 DEF ReplicasTyped, RowTyped, SweepRecord, CountsTyped
<1> QED
  BY <1>1, <1>2, <1>3, <1>5, <1>6 DEF TypeOK, RowTyped, FlagsTyped, CountsTyped, RunsTyped, ReplicasTyped

\* The same for the claim invariant.
LEMMA EnableInv ==
  ASSUME RowInv, Enable
  PROVE  RowInv' /\ (~EnableWhileRuns /\ HeldInv => HeldInv')
<1> USE SchedulerAssumption DEF row, RowInv, At, Live, Holds, Enable, Edit, NextRun
<1>1. TypeOK'
  BY EnableType
<1>2. ClaimsDiffer'
  BY DEF ClaimsDiffer, TypeOK, RunRecord
<1>3. LateMeansOverran'
  BY DEF LateMeansOverran, TypeOK, RunRecord
<1>4. JudgedMeansOverran'
  BY DEF JudgedMeansOverran, LateMeansOverran, TypeOK, RunRecord, SweepRecord
<1>5. ~EnableWhileRuns /\ HeldInv => ClaimHeldUntilDeadline'
  BY DEF HeldInv, ClaimHeldUntilDeadline, ClaimsDiffer, JudgedMeansOverran, TypeOK, RunRecord, SweepRecord
<1>6. LogFollowsRun'
  BY DEF LogFollowsRun, TypeOK, RunRecord, SweepRecord
<1>7. ~EnableWhileRuns /\ HeldInv => ClosedMeansOver'
  BY DEF HeldInv, ClosedMeansOver, LogFollowsRun, TypeOK, RunRecord, SweepRecord
<1>8. ~EnableWhileRuns /\ HeldInv => LiveRunStaysOpen'
  BY DEF HeldInv, LiveRunStaysOpen, LogFollowsRun, ClosedMeansOver, TypeOK, RunRecord
<1>9. ServedIsNotDue'
  BY DEF ServedIsNotDue, TypeOK, RunRecord, Nexts
<1>10. DisabledAtLimit'
  BY DEF DisabledAtLimit, TypeOK
<1> QED
  BY <1>1, <1>2, <1>3, <1>4, <1>5, <1>6, <1>7, <1>8, <1>9, <1>10 DEF HeldInv

\* The API deletes the task, whoever runs it.
LEMMA RemoveType ==
  ASSUME TypeOK, Remove
  PROVE  TypeOK'
<1> USE SchedulerAssumption, TypeParts DEF row, Remove, Edit
<1>1. RowTyped'
  BY DEF RowTyped, Nexts, Scheds
<1>2. FlagsTyped'
  BY DEF FlagsTyped
<1>3. CountsTyped'
  BY DEF CountsTyped
<1>4. clock' \in {clock, clock + 1}
  OBVIOUS
<1>5. RunsTyped'
  <2>1. run \in [Runs -> RunRecord']
    BY <1>4, RecordsGrow DEF RunsTyped, RowTyped
  <2> QED
    BY <2>1, <1>1 DEF RowTyped, RunsTyped, RunRecord, Nexts, Scheds
<1>6. ReplicasTyped'
  <2>1. sweep \in [Procs -> SweepRecord']
    BY <1>4, RecordsGrow DEF ReplicasTyped, RowTyped
  <2> QED
    BY <2>1, <1>1 DEF ReplicasTyped, RowTyped, SweepRecord, CountsTyped
<1> QED
  BY <1>1, <1>2, <1>3, <1>5, <1>6 DEF TypeOK, RowTyped, FlagsTyped, CountsTyped, RunsTyped, ReplicasTyped

\* The same for the claim invariant.
LEMMA RemoveInv ==
  ASSUME RowInv, Remove
  PROVE  RowInv' /\ (HeldInv => HeldInv')
<1> USE SchedulerAssumption DEF row, RowInv, At, Live, Holds, Remove, Edit
<1>1. TypeOK'
  BY RemoveType
<1>2. ClaimsDiffer'
  BY DEF ClaimsDiffer, TypeOK, RunRecord
<1>3. LateMeansOverran'
  BY DEF LateMeansOverran, TypeOK, RunRecord
<1>4. JudgedMeansOverran'
  BY DEF JudgedMeansOverran, LateMeansOverran, TypeOK, RunRecord, SweepRecord
<1>5. HeldInv => ClaimHeldUntilDeadline'
  BY DEF HeldInv, ClaimHeldUntilDeadline, ClaimsDiffer, JudgedMeansOverran, TypeOK, RunRecord, SweepRecord
<1>6. LogFollowsRun'
  BY DEF LogFollowsRun, TypeOK, RunRecord, SweepRecord
<1>7. HeldInv => ClosedMeansOver'
  BY DEF HeldInv, ClosedMeansOver, LogFollowsRun, TypeOK, RunRecord, SweepRecord
<1>8. HeldInv => LiveRunStaysOpen'
  BY DEF HeldInv, LiveRunStaysOpen, LogFollowsRun, ClosedMeansOver, TypeOK, RunRecord
<1>9. ServedIsNotDue'
  BY DEF ServedIsNotDue, TypeOK, RunRecord, Nexts
<1>10. DisabledAtLimit'
  BY DEF DisabledAtLimit, TypeOK
<1> QED
  BY <1>1, <1>2, <1>3, <1>4, <1>5, <1>6, <1>7, <1>8, <1>9, <1>10 DEF HeldInv

\* Nothing happens.
LEMMA StutterType ==
  ASSUME TypeOK, UNCHANGED vars
  PROVE  TypeOK'
<1> USE SchedulerAssumption, TypeParts DEF row, vars
<1>1. RowTyped'
  BY DEF RowTyped, Nexts, Scheds
<1>2. FlagsTyped'
  BY DEF FlagsTyped
<1>3. CountsTyped'
  BY DEF CountsTyped
<1>4. clock' \in {clock, clock + 1}
  OBVIOUS
<1>5. RunsTyped'
  <2>1. run \in [Runs -> RunRecord']
    BY <1>4, RecordsGrow DEF RunsTyped, RowTyped
  <2> QED
    BY <2>1, <1>1 DEF RowTyped, RunsTyped, RunRecord, Nexts, Scheds
<1>6. ReplicasTyped'
  <2>1. sweep \in [Procs -> SweepRecord']
    BY <1>4, RecordsGrow DEF ReplicasTyped, RowTyped
  <2> QED
    BY <2>1, <1>1 DEF ReplicasTyped, RowTyped, SweepRecord, CountsTyped
<1> QED
  BY <1>1, <1>2, <1>3, <1>5, <1>6 DEF TypeOK, RowTyped, FlagsTyped, CountsTyped, RunsTyped, ReplicasTyped

\* The same for the claim invariant.
LEMMA StutterInv ==
  ASSUME RowInv, UNCHANGED vars
  PROVE  RowInv' /\ (HeldInv => HeldInv')
<1>1. TypeOK'
  BY StutterType DEF RowInv
<1>2. Follows
  BY SameRunsFollow DEF vars
<1> USE DEF row, vars
<1>3. ClaimsDiffer' /\ LateMeansOverran' /\ JudgedMeansOverran' /\ (HeldInv => ClaimHeldUntilDeadline')
  BY <1>2, FollowsKeepsClaims DEF SweepsFollow
<1>4. LogFollowsRun' /\ (HeldInv => ClosedMeansOver' /\ LiveRunStaysOpen')
  BY <1>2, FollowsKeepsLog
<1>5. ServedIsNotDue' /\ DisabledAtLimit'
  BY <1>2 DEF row, ServedIsNotDue, DisabledAtLimit, Follows, RowInv
<1> QED
  BY <1>1, <1>3, <1>4, <1>5 DEF RowInv, HeldInv

-----------------------------------------------------------------------------
(* The theorems.                                                           *)

\* Every step keeps the types.
LEMMA TypeStep == TypeOK /\ [Next]_vars => TypeOK'
<1> SUFFICES ASSUME TypeOK, [Next]_vars PROVE TypeOK'
  OBVIOUS
<1>1. CASE Time
  BY <1>1, TimeType, DeadlineType DEF Time
<1>2. CASE Api
  BY <1>2, EditsType, EnableType, RemoveType DEF Api
<1>3. ASSUME NEW p \in Procs, Replica(p) PROVE TypeOK'
  BY <1>3, StartType, JudgeType, ClearMarkerType, ReapRowType, CloseRunsType, CrashType, AdvanceMissedType
     DEF Replica, Sweep
<1>4. ASSUME NEW e \in Runs, RunStep(e) PROVE TypeOK'
  BY <1>4, MarkRunningType, QuietType, WriteCompletedType, DeliverType, MarkFailedType, LandLogType DEF RunStep
<1>5. CASE UNCHANGED vars
  BY <1>5, StutterType
<1> QED
  BY <1>1, <1>2, <1>3, <1>4, <1>5 DEF Next

\* The claim invariant holds at first.
LEMMA ClaimInit == Init => ClaimInv
<1> SUFFICES ASSUME Init PROVE ClaimInv
  OBVIOUS
<1>1. TypeOK
  BY TypeInit
<1>2. \A x \in Runs : ~Live(x) /\ run[x].claim = 0 /\ run[x].pc = "none" /\ run[x].next = "never" /\ log[x] = "none"
  BY DEF Init, NoRun, Live
<1>3. \A p \in Procs : sweep[p].pc = "idle" /\ sweep[p].dangling = {}
  BY DEF Init, NoSweep
<1>4. ClaimsDiffer /\ LateMeansOverran /\ JudgedMeansOverran /\ ClaimHeldUntilDeadline
  BY <1>2, <1>3 DEF ClaimsDiffer, LateMeansOverran, JudgedMeansOverran, ClaimHeldUntilDeadline
<1>5. LogFollowsRun /\ LiveRunStaysOpen
  BY <1>2, <1>3 DEF LogFollowsRun, LiveRunStaysOpen
<1>6. ClosedMeansOver
  BY <1>2, <1>3 DEF ClosedMeansOver, Init
<1>7. ServedIsNotDue
  BY <1>2 DEF ServedIsNotDue, Init
<1>8. DisabledAtLimit
  BY SchedulerAssumption DEF DisabledAtLimit, Init
<1> QED
  BY <1>1, <1>4, <1>5, <1>6, <1>7, <1>8 DEF ClaimInv, RowInv, HeldInv

\* Every step keeps the invariant of the row, and what is held unless the task is
\* re-enabled.
LEMMA RowStep ==
  ASSUME RowInv, [Next]_vars
  PROVE  RowInv' /\ (~EnableWhileRuns /\ HeldInv => HeldInv')
<1>1. CASE Time
  BY <1>1, TimeInv, DeadlineInv DEF Time
<1>2. CASE Api
  BY <1>2, EditsInv, EnableInv, RemoveInv DEF Api
<1>3. ASSUME NEW p \in Procs, Replica(p) PROVE RowInv' /\ (HeldInv => HeldInv')
  BY <1>3, StartInv, JudgeInv, ClearMarkerInv, ReapRowInv, CloseRunsInv, CrashInv, AdvanceMissedInv
     DEF Replica, Sweep
<1>4. ASSUME NEW e \in Runs, RunStep(e) PROVE RowInv' /\ (HeldInv => HeldInv')
  BY <1>4, MarkRunningInv, QuietInv, WriteCompletedInv, DeliverInv, MarkFailedInv, LandLogInv DEF RunStep
<1>5. CASE UNCHANGED vars
  BY <1>5, StutterInv
<1> QED
  BY <1>1, <1>2, <1>3, <1>4, <1>5 DEF Next

\* With the proviso, the claim invariant is kept.
LEMMA ClaimStep ==
  ASSUME ~EnableWhileRuns, ClaimInv, [Next]_vars
  PROVE  ClaimInv'
BY RowStep DEF ClaimInv

\* Only markRunning turns a claiming execution into one that has its claim, and
\* for a scheduled one it asks that the task is due.
LEMMA ClaimsWhatIsDue ==
  ASSUME RowInv, [Next]_vars, NEW e \in Runs,
         At(e, "claiming"), run'[e].pc = "claimed", ~run[e].manual
  PROVE  next = "due" /\ ~served
<1> USE DEF At, RowInv
<1>1. next = "due" => ~served
  BY DEF ServedIsNotDue
<1>2. ASSUME NEW f \in Runs, MarkRunning(f) PROVE next = "due"
  <2>1. f = e
    BY <1>2 DEF MarkRunning, TypeOK
  <2> QED
    BY <1>2, <2>1 DEF MarkRunning, Claimable
<1>3. ASSUME NEW f \in Runs, RunStep(f), ~MarkRunning(f) PROVE FALSE
  <2> USE DEF TypeOK, RunRecord, Over, NoRun, End, Goto
  <2>1. CASE ClaimRefused(f) \/ Deliver(f) \/ MarkFailed(f) \/ FailureThrows(f)
    <3>1. End(f)
      BY <2>1 DEF ClaimRefused, Deliver, MarkFailed, FailureThrows
    <3> QED
      BY <3>1
  <2>2. CASE CreateRun(f) \/ CompletedLate(f) \/ CallThrows(f)
    BY <2>2 DEF CreateRun, CompletedLate, CallThrows
  <2>3. CASE ReadCompleted(f)
    BY <2>3 DEF ReadCompleted
  <2>4. CASE WriteCompleted(f)
    BY <2>4 DEF WriteCompleted
  <2>5. CASE LandLog(f)
    BY <2>5 DEF LandLog
  <2> QED
    BY <1>3, <2>1, <2>2, <2>3, <2>4, <2>5 DEF RunStep
<1>4. ASSUME NEW p \in Procs, Replica(p) PROVE FALSE
  <2>1. ASSUME NEW m, Queue(p, m) PROVE FALSE
    <3>1. started + 1 # e
      BY DEF TypeOK, LogFollowsRun, Runs
    <3> QED
      BY <2>1, <3>1 DEF Queue
  <2>2. CASE Crash(p)
    BY <2>2 DEF Crash, Dead, NoRun
  <2>3. CASE UNCHANGED run
    BY <2>3
  <2> QED
    BY <1>4, <2>1, <2>2, <2>3
       DEF Replica, Pick, RunNow, MissedTasks, AdvanceMissed, Sweep, Judge, ClearMarker, ReapRow, CloseRuns
<1>5. CASE Time
  <2>1. run'[e].pc = run[e].pc
    <3> USE DEF TypeOK, RunRecord
    <3>1. CASE BecomesDue
      BY <3>1 DEF BecomesDue
    <3>2. CASE DeadlinePasses
      BY <3>2 DEF DeadlinePasses
    <3>3. CASE UNCHANGED run
      BY <3>3
    <3> QED
      BY <1>5, <3>1, <3>2, <3>3 DEF Time, SlotComes, RetryComes, ShotPasses
  <2> QED
    BY <2>1
<1>6. CASE Api \/ UNCHANGED vars
  BY <1>6 DEF Api, Disable, Enable, EditSchedule, Remove, SwitchInstance, Edit, vars
<1> QED
  BY <1>1, <1>2, <1>3, <1>4, <1>5, <1>6 DEF Next

\* The variables of the scheduler keep their types, whatever the API does.
THEOREM TypeCorrect == Spec => []TypeOK
<1>1. TypeOK /\ [Next]_vars => TypeOK'
  BY TypeStep
<1> QED
  BY <1>1, TypeInit, PTL DEF Spec

\* Claims differ, whoever holds a late or judged row has overrun, a served occurrence
\* is not due: whatever the API does.
THEOREM RowIsInvariant == Spec => []RowInv
<1>1. RowInv /\ [Next]_vars => RowInv'
  BY RowStep
<1>2. Init => RowInv
  BY ClaimInit DEF ClaimInv
<1> QED
  BY <1>1, <1>2, PTL DEF Spec

\* As long as nobody re-enables a task that is running, the claim invariant holds.
THEOREM ClaimIsInvariant == ~EnableWhileRuns => (Spec => []ClaimInv)
<1> SUFFICES ASSUME ~EnableWhileRuns PROVE Spec => []ClaimInv
  OBVIOUS
<1>1. ClaimInv /\ [Next]_vars => ClaimInv'
  BY ClaimStep
<1>2. Init => ClaimInv
  BY ClaimInit
<1> QED
  BY <1>1, <1>2, PTL DEF Spec

\* An execution that is live and within its deadline holds the row of its task,
\* so no other execution of the task can start: for every number of replicas,
\* runs, crashes and edits that do not re-enable a running task.
THEOREM LiveRunHoldsItsTask == ~EnableWhileRuns => (Spec => []ClaimHeldUntilDeadline)
<1>1. ClaimInv => ClaimHeldUntilDeadline
  BY DEF ClaimInv, HeldInv
<1> QED
  BY <1>1, ClaimIsInvariant, PTL

\* Reaper, recovery and late completions never close its row in the run log.
THEOREM LiveRunIsLogged == ~EnableWhileRuns => (Spec => []LiveRunStaysOpen)
<1>1. ClaimInv => LiveRunStaysOpen
  BY DEF ClaimInv, HeldInv
<1> QED
  BY <1>1, ClaimIsInvariant, PTL

\* A task that is enabled has failed fewer than MaxErrors times in a row, however
\* it is edited.
THEOREM FailingTaskIsDisabled == Spec => []DisabledAtLimit
<1>1. RowInv => DisabledAtLimit
  BY DEF RowInv
<1> QED
  BY <1>1, RowIsInvariant, PTL

\* A scheduled run claims only an occurrence that is due and not yet served, also
\* when the task was re-enabled under a run.
THEOREM OccurrenceServedOnce == Spec => ServedOnce
<1> DEFINE Claims ==
      \A e \in Runs : (At(e, "claiming") /\ run'[e].pc = "claimed" /\ ~run[e].manual) => next = "due" /\ ~served
<1>1. RowInv /\ [Next]_vars => [Claims]_vars
  BY ClaimsWhatIsDue
<1> QED
  BY <1>1, RowIsInvariant, PTL DEF Spec, ServedOnce

\* A run that ends or goes on loses no claim by that.
LEMMA MovingOnKeeps ==
  ASSUME TypeOK, NEW e \in Runs, NEW f \in Runs, Live(e), Holds(run[e].claim), UNCHANGED <<gone, status, stamp>>,
         End(f) \/ Goto(f, "handling") \/ Goto(f, "failing") \/ Delivers(f, 0)
  PROVE  Holds(run[e].claim)' \/ ~Live(e)'
<1>1. CASE End(f)
  <2>1. f # e => run'[e] = run[e]
    BY <1>1 DEF End
  <2>2. f = e => run'[e].pc = "done"
    BY <1>1 DEF End, Over, NoRun, TypeOK
  <2> QED
    BY <2>1, <2>2 DEF Holds, Live
<1>2. ASSUME NEW pc \in {"handling", "failing"}, Goto(f, pc) PROVE run'[e].claim = run[e].claim
  BY <1>2 DEF Goto, TypeOK, RunRecord
<1>3. CASE Delivers(f, 0)
  BY <1>3, DeliversWith, TypeParts DEF Holds
<1> QED
  BY <1>1, <1>2, <1>3 DEF Holds

\* A live run that holds the row in time loses it in none of the steps but Enable: who
\* ends a run or frees the row names the claim, and claims differ.
LEMMA LosesItToNobody ==
  ASSUME RowInv, [Next]_vars, ~Enable,
         NEW e \in Runs, Live(e), ~run[e].overran, Holds(run[e].claim)
  PROVE  Holds(run[e].claim)' \/ ~Live(e)' \/ run'[e].overran \/ gone' = "api"
<1> TypeOK
  BY DEF RowInv
<1>1. ASSUME NEW f \in Runs, Holds(run[f].claim) PROVE f = e
  BY <1>1 DEF Holds, RowInv, ClaimsDiffer
<1>2. ASSUME UNCHANGED <<gone, status, stamp>>, run'[e].claim = run[e].claim PROVE Holds(run[e].claim)'
  BY <1>2 DEF Holds
<1>3. ASSUME NEW f \in Runs, RunStep(f)
      PROVE  Holds(run[e].claim)' \/ ~Live(e)'
  <2>1. CASE MarkRunning(f)
    BY <2>1 DEF MarkRunning, Claimable, Holds
  <2>2. CASE ClaimRefused(f) \/ CreateRun(f) \/ CompletedLate(f) \/ CallThrows(f) \/ FailureThrows(f)
    BY <2>2, MovingOnKeeps DEF ClaimRefused, CreateRun, CompletedLate, CallThrows, FailureThrows, Delivers, row
  <2>3. CASE ReadCompleted(f)
    <3>1. run'[e].claim = run[e].claim
      BY <2>3 DEF ReadCompleted, TypeOK, RunRecord
    <3> QED
      BY <2>3, <3>1, <1>2 DEF ReadCompleted, row
  <2>4. CASE WriteCompleted(f)
    <3>1. f = e
      BY <2>4, <1>1 DEF WriteCompleted
    <3>2. run'[e].pc = "delivering"
      BY <2>4, <3>1, DeliversWith, TypeParts DEF WriteCompleted, Delivers
    <3> QED
      BY <3>2 DEF Live
  <2>5. CASE Deliver(f)
    <3>1. End(f) /\ UNCHANGED <<gone, status, stamp>>
      BY <2>5 DEF Deliver, MayRemove, Holds
    <3> QED
      BY <3>1, MovingOnKeeps
  <2>6. CASE MarkFailed(f) /\ Holds(run[f].claim)
    <3>1. f = e /\ End(e)
      BY <2>6, <1>1 DEF MarkFailed
    <3>2. run'[e].pc = "done"
      BY <3>1 DEF End, Over, NoRun, TypeOK
    <3> QED
      BY <3>2 DEF Live
  <2>7. CASE MarkFailed(f) /\ ~Holds(run[f].claim)
    BY <2>7, MovingOnKeeps DEF MarkFailed, row
  <2>8. CASE LandLog(f)
    BY <2>8, <1>2 DEF LandLog, row
  <2> QED
    BY <1>3, <2>1, <2>2, <2>3, <2>4, <2>5, <2>6, <2>7, <2>8 DEF RunStep
<1>4. ASSUME NEW p \in Procs, Replica(p)
      PROVE  Holds(run[e].claim)' \/ ~Live(e)'
  <2>1. ASSUME NEW m, Queue(p, m) PROVE UNCHANGED <<gone, status, stamp>> /\ run'[e].claim = run[e].claim
    <3>1. e # started + 1
      BY SchedulerAssumption DEF RowInv, LogFollowsRun, TypeOK, Runs, Live
    <3> QED
      BY <2>1, <3>1 DEF Queue, row
  <2>2. CASE Crash(p)
    <3>1. UNCHANGED <<gone, status, stamp>> /\ (run'[e] = run[e] \/ run'[e] = Dead(run[e]))
      BY <2>2 DEF Crash, row
    <3> QED
      BY <3>1, <1>2 DEF Dead, NoRun, Live
  <2>3. CASE (ClearMarker(p) \/ ReapRow(p)) /\ Holds(sweep[p].claim)
    <3>1. sweep[p].pc \in {"clearing", "failing"} /\ run[e].claim = sweep[p].claim
      BY <2>3 DEF ClearMarker, ReapRow, Holds
    <3> QED
      BY <3>1 DEF RowInv, JudgedMeansOverran
  <2>4. CASE (ClearMarker(p) \/ ReapRow(p)) /\ ~Holds(sweep[p].claim)
    BY <2>4, <1>2 DEF ClearMarker, ReapRow, row
  <2>5. CASE UNCHANGED <<gone, status, stamp, run>>
    BY <2>5, <1>2
  <2> QED
    BY <1>2, <1>4, <2>1, <2>2, <2>3, <2>4, <2>5
       DEF Replica, Pick, RunNow, MissedTasks, AdvanceMissed, Sweep, Judge, CloseRuns, row
<1>5. CASE Time
  <2>1. UNCHANGED <<gone, status, stamp>>
    BY <1>5 DEF Time, SlotComes, RetryComes, ShotPasses, BecomesDue, DeadlinePasses
  <2>2. run'[e].claim = run[e].claim
    <3>1. CASE BecomesDue
      BY <3>1 DEF BecomesDue, TypeOK, RunRecord
    <3>2. CASE DeadlinePasses
      BY <3>2 DEF DeadlinePasses, TypeOK, RunRecord
    <3>3. CASE ShotPasses
      BY <3>3 DEF ShotPasses
    <3> QED
      BY <1>5, <3>1, <3>2, <3>3 DEF Time, SlotComes, RetryComes
  <2> QED
    BY <2>1, <2>2, <1>2
<1>6. CASE Api
  <2>1. CASE Remove
    BY <2>1 DEF Remove
  <2>2. CASE Disable \/ EditSchedule \/ SwitchInstance
    BY <2>2, <1>2 DEF Disable, EditSchedule, SwitchInstance, Edit, row
  <2> QED
    BY <1>6, <2>1, <2>2 DEF Api
<1>7. CASE UNCHANGED vars
  BY <1>7, <1>2 DEF vars, row
<1> QED
  BY <1>3, <1>4, <1>5, <1>6, <1>7 DEF Next

\* Re-enabling the task is the only way a live run in time can lose its claim (store.ts:152),
\* for any number of replicas, runs, faults and edits.
THEOREM OnlyEnableTakesTheClaim == Spec => KeepsItsClaim
<1> DEFINE Keeps ==
      \A e \in Runs :
        (Live(e) /\ ~run[e].overran /\ Holds(run[e].claim) /\ ~Enable)
        => Holds(run[e].claim)' \/ ~Live(e)' \/ run'[e].overran \/ gone' = "api"
<1>1. RowInv /\ [Next]_vars => [Keeps]_vars
  BY LosesItToNobody
<1> QED
  BY <1>1, RowIsInvariant, PTL DEF Spec, KeepsItsClaim

-----------------------------------------------------------------------------
(* The lease.  RowIsStamped first: what it adds to the claim invariant is  *)
(* when an execution has a claim at all.                                   *)

\* One execution moves, and the row keeps its stamp.
LEMMA StampKept ==
  ASSUME TypeOK, RowIsStamped, NEW e \in Runs, \A x \in Runs : x # e => run'[x] = run[x],
         ClaimComesFirst(run'[e]), UNCHANGED <<stamp, clock>>, status' = status \/ status' # "running"
  PROVE  RowIsStamped'
BY DEF RowIsStamped, ClaimComesFirst

\* An execution that is over, or whose process is gone, recorded nothing.
LEMMA OverFirst ==
  ASSUME NEW r
  PROVE  ClaimComesFirst(Over(r)) /\ ClaimComesFirst(Dead(r)) /\ ClaimComesFirst(NoRun)
BY DEF ClaimComesFirst, Over, Dead, NoRun

LEMMA EndFirst ==
  ASSUME TypeOK, NEW e \in Runs, End(e)
  PROVE  (\A x \in Runs : x # e => run'[x] = run[x]) /\ run'[e] = Over(run[e]) /\ ClaimComesFirst(run'[e])
BY OverFirst DEF End, TypeOK

\* An execution that moves on with its claim.
LEMMA GotoFirst ==
  ASSUME TypeOK, NEW e \in Runs, NEW pc \in {"handling", "failing"}, Goto(e, pc)
  PROVE  /\ \A x \in Runs : x # e => run'[x] = run[x]
         /\ run'[e].pc = pc /\ run'[e].claim = run[e].claim
         /\ run'[e].overran = run[e].overran /\ run'[e].doneAt = run[e].doneAt
BY DEF Goto, TypeOK, RunRecord

LEMMA GotoStamped ==
  ASSUME TypeOK, RowIsStamped, NEW e \in Runs, NEW pc \in {"handling", "failing"}, Goto(e, pc),
         UNCHANGED row, UNCHANGED clock, run[e].doneAt = 0 \/ pc = "failing"
  PROVE  RowIsStamped'
<1>1. ClaimComesFirst(run'[e])
  BY GotoFirst DEF RowIsStamped, ClaimComesFirst
<1>2. UNCHANGED <<status, stamp>>
  BY DEF row
<1> QED
  BY <1>1, <1>2, GotoFirst, StampKept

\* The steps of an execution.
LEMMA RunStamped ==
  ASSUME TypeOK, RowIsStamped, NEW e \in Runs, RunStep(e)
  PROVE  RowIsStamped'
<1>1. CASE MarkRunning(e)
  <2>1. /\ stamp' = clock + 1 /\ clock' = clock + 1 /\ At(e, "claiming")
        /\ run' = [run EXCEPT ![e].pc = "claimed", ![e].manual = FALSE, ![e].claim = clock + 1,
                              ![e].ofDue = (next = "due")]
    BY <1>1 DEF MarkRunning, TakeStamp
  <2>2. run'[e].pc = "claimed" /\ run'[e].doneAt = run[e].doneAt /\ \A x \in Runs : x # e => run'[x] = run[x]
    BY <2>1 DEF TypeOK, RunRecord
  <2>3. run[e].doneAt = 0
    BY <2>1 DEF RowIsStamped, ClaimComesFirst, At
  <2>4. clock + 1 # 0
    BY DEF TypeOK
  <2> QED
    BY <2>1, <2>2, <2>3, <2>4 DEF RowIsStamped, ClaimComesFirst
<1>2. CASE ClaimRefused(e) \/ FailureThrows(e)
  <2>1. End(e) /\ UNCHANGED row /\ UNCHANGED clock
    BY <1>2 DEF ClaimRefused, FailureThrows
  <2> QED
    BY <2>1, EndFirst, StampKept DEF row
<1>3. CASE CreateRun(e)
  <2>1. UNCHANGED row /\ UNCHANGED clock /\ Goto(e, "handling") /\ run[e].pc = "claimed"
    BY <1>3 DEF CreateRun, At
  <2>2. run[e].doneAt = 0
    BY <2>1 DEF RowIsStamped, ClaimComesFirst
  <2> QED
    BY <2>1, <2>2, GotoStamped
<1>10. CASE CompletedLate(e)
  <2>1. UNCHANGED row /\ UNCHANGED clock /\ Delivers(e, 0)
    BY <1>10 DEF CompletedLate, Delivers
  <2>2. ClaimComesFirst(run'[e]) /\ \A x \in Runs : x # e => run'[x] = run[x]
    BY <2>1, DeliversWith, TypeParts DEF ClaimComesFirst
  <2> QED
    BY <2>1, <2>2, StampKept DEF row
<1>4. CASE CallThrows(e)
  <2>1. UNCHANGED row /\ UNCHANGED clock /\ Goto(e, "failing")
    BY <1>4 DEF CallThrows
  <2> QED
    BY <2>1, GotoStamped
<1>5. CASE ReadCompleted(e)
  <2>1. /\ UNCHANGED row /\ UNCHANGED clock /\ At(e, "handling")
        /\ run' = [run EXCEPT ![e].pc = "writing", ![e].next = NextRun(sched)]
    BY <1>5 DEF ReadCompleted
  <2>2. /\ \A x \in Runs : x # e => run'[x] = run[x]
        /\ run'[e].pc = "writing" /\ run'[e].doneAt = run[e].doneAt
    BY <2>1 DEF TypeOK, RunRecord
  <2>3. ClaimComesFirst(run'[e])
    BY <2>1, <2>2 DEF RowIsStamped, ClaimComesFirst, At
  <2> QED
    BY <2>1, <2>2, <2>3, StampKept DEF row
<1>6. CASE WriteCompleted(e)
  <2>1. stamp' = clock + 1 /\ clock' = clock + 1 /\ status' = "success" /\ Delivers(e, clock + 1)
    BY <1>6 DEF WriteCompleted, TakeStamp, Delivers
  <2>2. /\ \A x \in Runs : x # e => run'[x] = run[x]
        /\ run'[e].pc = "delivering" /\ run'[e].doneAt = clock + 1 /\ run'[e].claim = run[e].claim
    BY <2>1, DeliversWith, TypeParts
  <2>3. run[e].claim < clock + 1
    <3>1. clock \in Nat /\ run[e].claim \in 0..clock
      BY DEF TypeOK, RunRecord
    <3> QED
      BY <3>1
  <2> QED
    BY <2>1, <2>2, <2>3 DEF RowIsStamped, ClaimComesFirst
<1>7. CASE Deliver(e)
  <2>1. End(e) /\ UNCHANGED <<status, stamp, clock>>
    BY <1>7 DEF Deliver
  <2> QED
    BY <2>1, EndFirst, StampKept
<1>8. CASE MarkFailed(e)
  <2>1. End(e) /\ (FailRow \/ (UNCHANGED row /\ UNCHANGED clock))
    BY <1>8 DEF MarkFailed
  <2>2. CASE FailRow
    <3>1. stamp' = clock' /\ status' # "running"
      BY <2>2 DEF FailRow, TakeStamp
    <3> QED
      BY <2>1, <3>1, EndFirst DEF RowIsStamped
  <2>3. CASE UNCHANGED row /\ UNCHANGED clock
    BY <2>1, <2>3, EndFirst, StampKept DEF row
  <2> QED
    BY <2>1, <2>2, <2>3
<1>9. CASE LandLog(e)
  BY <1>9 DEF LandLog, row, RowIsStamped
<1> QED
  BY <1>1, <1>2, <1>3, <1>4, <1>5, <1>6, <1>7, <1>8, <1>9, <1>10 DEF RunStep

LEMMA StampStep ==
  ASSUME TypeOK, RowIsStamped, [Next]_vars
  PROVE  RowIsStamped'
<1>1. CASE \E e \in Runs : RunStep(e)
  BY <1>1, RunStamped
<1>2. CASE Api
  <2>1. UNCHANGED <<stamp, clock, run>> /\ status' \in {status, "none"}
    BY <1>2 DEF Api, Disable, Enable, EditSchedule, Remove, SwitchInstance, Edit, row
  <2> QED
    BY <2>1 DEF RowIsStamped
<1>3. CASE Time
  <2>1. UNCHANGED <<stamp, clock, status>>
    BY <1>3 DEF Time, SlotComes, RetryComes, ShotPasses, BecomesDue, DeadlinePasses
  <2>2. ASSUME NEW x \in Runs PROVE ClaimComesFirst(run'[x])
    <3>1. CASE BecomesDue
      <4>1. run'[x].pc = run[x].pc /\ run'[x].claim = run[x].claim /\ run'[x].doneAt = run[x].doneAt
            /\ run'[x].overran = run[x].overran
        BY <3>1 DEF BecomesDue, TypeOK, RunRecord
      <4> QED
        BY <4>1 DEF RowIsStamped, ClaimComesFirst
    <3>2. CASE DeadlinePasses
      <4>1. /\ run'[x].pc = run[x].pc /\ run'[x].claim = run[x].claim /\ run'[x].doneAt = run[x].doneAt
            /\ run'[x].overran = (run[x].overran \/ (run[x].claim = stamp /\ ~At(x, "dead")))
        BY <3>2 DEF DeadlinePasses, TypeOK, RunRecord
      <4>2. stamp # 0
        BY <3>2 DEF DeadlinePasses, RowIsStamped
      <4> QED
        BY <4>1, <4>2 DEF RowIsStamped, ClaimComesFirst
    <3>3. CASE UNCHANGED run
      BY <3>3 DEF RowIsStamped
    <3> QED
      BY <1>3, <3>1, <3>2, <3>3 DEF Time, SlotComes, RetryComes, ShotPasses
  <2> QED
    BY <2>1, <2>2 DEF RowIsStamped
<1>4. ASSUME NEW p \in Procs, Replica(p) PROVE RowIsStamped'
  <2>1. ASSUME NEW m, Queue(p, m) PROVE RowIsStamped'
    <3>1. started + 1 \in Runs
      BY <2>1, SchedulerAssumption DEF Queue, TypeOK, Runs
    <3>2. /\ \A x \in Runs : x # started + 1 => run'[x] = run[x]
          /\ ClaimComesFirst(run'[started + 1])
      BY <2>1, <3>1 DEF Queue, TypeOK, ClaimComesFirst, NoRun
    <3> QED
      BY <2>1, <3>1, <3>2, StampKept DEF Queue, row
  <2>2. CASE Crash(p)
    <3>1. \A x \in Runs : run'[x] = run[x] \/ run'[x] = Dead(run[x])
      BY <2>2 DEF Crash
    <3> QED
      BY <2>2, <3>1, OverFirst DEF Crash, RowIsStamped, row
  <2>3. CASE ReapRow(p) \/ ClearMarker(p)
    <3>1. UNCHANGED run /\ (UNCHANGED <<stamp, clock>> \/ stamp' = clock') /\ (status' = status \/ status' # "running")
      BY <2>3 DEF ReapRow, ClearMarker, FailRow, TakeStamp, row
    <3>2. CASE status' = status /\ UNCHANGED <<stamp, clock>>
      BY <3>1, <3>2 DEF RowIsStamped
    <3>3. CASE status' # "running"
      BY <3>1, <3>3 DEF RowIsStamped
    <3> QED
      BY <2>3, <3>1, <3>2, <3>3 DEF ReapRow, ClearMarker, FailRow, row
  <2>4. CASE UNCHANGED <<stamp, clock, status, run>>
    BY <2>4 DEF RowIsStamped
  <2> QED
    BY <1>4, <2>1, <2>2, <2>3, <2>4
       DEF Replica, Pick, RunNow, MissedTasks, AdvanceMissed, Sweep, Judge, CloseRuns, row
<1>5. CASE UNCHANGED vars
  BY <1>5 DEF vars, row, RowIsStamped
<1> QED
  BY <1>1, <1>2, <1>3, <1>4, <1>5 DEF Next

\* The lease sees of an execution what LeaseState says, and whether it holds the row.
LEMMA LeaseKept ==
  ASSUME \A x \in Runs : LeaseState(x)' = LeaseState(x),
         \A x \in Runs : Live(x)' => Live(x) /\ run'[x].claim = run[x].claim,
         \A x \in Runs : Live(x) => Live(x)',
         UNCHANGED <<gone, status, stamp>>
  PROVE  UNCHANGED Lease!vars
<1>1. [e \in Runs |-> LeaseState(e)]' = [e \in Runs |-> LeaseState(e)]
  OBVIOUS
<1>2. {e \in Runs : Live(e) /\ Holds(run[e].claim)}' = {e \in Runs : Live(e) /\ Holds(run[e].claim)}
  BY DEF Holds
<1> QED
  BY <1>1, <1>2 DEF Lease!vars

\* A step that changes of the executions only what the lease does not see.
LEMMA SameLease ==
  ASSUME \A x \in Runs : /\ run'[x].pc = run[x].pc /\ run'[x].claim = run[x].claim
                         /\ run'[x].overran = run[x].overran /\ run'[x].doneAt = run[x].doneAt,
         UNCHANGED <<gone, status, stamp>>
  PROVE  UNCHANGED Lease!vars
<1>1. \A x \in Runs : Live(x)' <=> Live(x)
  BY DEF Live
<1>2. \A x \in Runs : LeaseState(x)' = LeaseState(x)
  BY <1>1 DEF LeaseState
<1> QED
  BY <1>1, <1>2, LeaseKept

\* Executions that end without a word to the row.
LEMMA LeaseEnds ==
  ASSUME NEW ended \in SUBSET Runs, UNCHANGED <<gone, status, stamp>>,
         \A x \in ended : run'[x].pc \in {"done", "dead", "delivering"},
         \A x \in Runs \ ended : run'[x] = run[x]
  PROVE  Lease!End(ended)
<1>1. \A x \in ended : LeaseState(x)' = "over" /\ ~Live(x)'
  BY DEF LeaseState, Live
<1>2. \A x \in Runs \ ended : LeaseState(x)' = LeaseState(x) /\ (Live(x)' <=> Live(x)) /\ run'[x] = run[x]
  BY DEF LeaseState, Live
<1>3. [e \in Runs |-> LeaseState(e)]' = [e \in Runs |-> IF e \in ended THEN "over" ELSE [x \in Runs |-> LeaseState(x)][e]]
  BY <1>1, <1>2
<1>4. {e \in Runs : Live(e) /\ Holds(run[e].claim)}' = {e \in Runs : Live(e) /\ Holds(run[e].claim)} \ ended
  BY <1>1, <1>2 DEF Holds
<1> QED
  BY <1>3, <1>4 DEF Lease!End

LEMMA LeaseEndsOne ==
  ASSUME TypeOK, NEW e \in Runs, End(e), UNCHANGED <<gone, status, stamp>>
  PROVE  Lease!End({e})
<1>1. run'[e].pc = "done"
  BY EndFirst DEF Over, NoRun
<1> QED
  BY <1>1, EndFirst, LeaseEnds

\* The owner settles the task.
LEMMA LeaseSettles ==
  ASSUME NEW e \in Runs, Live(e), Holds(run[e].claim), UNCHANGED gone, status' # "running",
         ~Live(e)', run'[e].pc \notin {"none", "claiming"}, \A x \in Runs : x # e => run'[x] = run[x]
  PROVE  Lease!Settle(e)
<1>1. LeaseState(e)' = "over"
  BY DEF LeaseState
<1>2. \A x \in Runs : x # e => LeaseState(x)' = LeaseState(x)
  BY DEF LeaseState, Live
<1>3. [x \in Runs |-> LeaseState(x)]' = [[x \in Runs |-> LeaseState(x)] EXCEPT ![e] = "over"]
  BY <1>1, <1>2
<1>4. {x \in Runs : Live(x) /\ Holds(run[x].claim)}' = {} /\ e \in {x \in Runs : Live(x) /\ Holds(run[x].claim)}
  BY DEF Holds
<1> QED
  BY <1>3, <1>4 DEF Lease!Settle

\* Steps of an execution.
LEMMA LeaseRunStep ==
  ASSUME ClaimInv, RowIsStamped, NEW e \in Runs, RunStep(e)
  PROVE  Lease!Next \/ UNCHANGED Lease!vars
<1> TypeOK
  BY DEF ClaimInv, RowInv, HeldInv
<1>1. CASE MarkRunning(e)
  <2>1. /\ At(e, "claiming") /\ gone = "no" /\ status # "running" /\ status' = "running" /\ UNCHANGED gone
        /\ stamp' = clock + 1
        /\ run' = [run EXCEPT ![e].pc = "claimed", ![e].manual = FALSE, ![e].claim = clock + 1,
                              ![e].ofDue = (next = "due")]
    BY <1>1 DEF MarkRunning, TakeStamp, Claimable
  <2>2. /\ \A x \in Runs : x # e => run'[x] = run[x]
        /\ run'[e].pc = "claimed" /\ run'[e].doneAt = run[e].doneAt /\ run'[e].claim = clock + 1
        /\ run'[e].overran = run[e].overran
    BY <2>1 DEF TypeOK, RunRecord
  <2>3. run[e].doneAt = 0 /\ ~run[e].overran
    BY <2>1 DEF RowIsStamped, ClaimComesFirst, At
  <2>4. Live(e)' /\ LeaseState(e)' = "working" /\ LeaseState(e) = "waiting"
    BY <2>1, <2>2, <2>3 DEF Live, LeaseState, At
  <2>5. \A x \in Runs : x # e => LeaseState(x)' = LeaseState(x)
    BY <2>2 DEF LeaseState, Live
  <2>6. [x \in Runs |-> LeaseState(x)]' = [[x \in Runs |-> LeaseState(x)] EXCEPT ![e] = "working"]
    BY <2>4, <2>5
  <2>7. {x \in Runs : Live(x) /\ Holds(run[x].claim)}' = {e}
    <3>1. \A x \in Runs : x # e => run'[x].claim # clock + 1
      <4>1. \A x \in Runs : run[x].claim \in 0..clock /\ clock \in Nat
        BY DEF TypeOK, RunRecord
      <4> QED
        BY <2>2, <4>1
    <3> QED
      BY <2>1, <2>2, <2>4, <3>1 DEF Holds
  <2>8. Lease!Start(e)
    BY <2>1, <2>4, <2>6, <2>7 DEF Lease!Start
  <2> QED
    BY <2>8 DEF Lease!Next
<1>2. CASE ClaimRefused(e) \/ FailureThrows(e)
  <2>1. End(e) /\ UNCHANGED <<gone, status, stamp>>
    BY <1>2 DEF ClaimRefused, FailureThrows, row
  <2> QED
    BY <2>1, LeaseEndsOne DEF Lease!Next
<1>3. CASE CreateRun(e) \/ CallThrows(e) \/ ReadCompleted(e)
  <2>1. UNCHANGED <<gone, status, stamp>>
    BY <1>3 DEF CreateRun, CallThrows, ReadCompleted, row
  <2>2. /\ \A x \in Runs : x # e => run'[x] = run[x]
        /\ run'[e].claim = run[e].claim /\ run'[e].overran = run[e].overran /\ run'[e].doneAt = run[e].doneAt
        /\ \/ run[e].pc = "claimed" /\ run'[e].pc = "handling"
           \/ run[e].pc = "handling" /\ run'[e].pc = "writing"
           \/ run[e].pc = "writing" /\ run'[e].pc = "failing"
           \/ run[e].pc = "delivering" /\ run'[e].pc = "failing" /\ run[e].doneAt # 0
    <3>1. CASE CreateRun(e)
      BY <3>1, GotoFirst DEF CreateRun, At
    <3>2. CASE CallThrows(e)
      BY <3>2, GotoFirst DEF CallThrows, At, Deletes
    <3>3. CASE ReadCompleted(e)
      BY <3>3 DEF ReadCompleted, At, TypeOK, RunRecord
    <3> QED
      BY <1>3, <3>1, <3>2, <3>3
  <2>3. \A x \in Runs : Live(x)' <=> Live(x)
    BY <2>2 DEF Live
  <2>4. \A x \in Runs : LeaseState(x)' = LeaseState(x)
    BY <2>2, <2>3 DEF LeaseState
  <2> QED
    BY <2>1, <2>2, <2>3, <2>4, LeaseKept
<1>4. CASE WriteCompleted(e)
  <2>1. /\ At(e, "writing") /\ Holds(run[e].claim) /\ status' = "success" /\ UNCHANGED gone
        /\ Delivers(e, clock + 1)
    BY <1>4 DEF WriteCompleted, Delivers
  <2>2. /\ \A x \in Runs : x # e => run'[x] = run[x]
        /\ run'[e].pc = "delivering"
    BY <2>1, DeliversWith, TypeParts
  <2>3. Live(e) /\ ~Live(e)'
    BY <2>1, <2>2 DEF RowIsStamped, ClaimComesFirst, At, Live
  <2>4. Lease!Settle(e)
    BY <2>1, <2>2, <2>3, LeaseSettles
  <2> QED
    BY <2>4 DEF Lease!Next
<1>5. CASE CompletedLate(e)
  <2>1. UNCHANGED <<gone, status, stamp>> /\ Delivers(e, 0)
    BY <1>5 DEF CompletedLate, Delivers, row
  <2>2. /\ \A x \in Runs : x # e => run'[x] = run[x]
        /\ run'[e].pc = "delivering"
    BY <2>1, DeliversWith, TypeParts
  <2>3. Lease!End({e})
    BY <2>1, <2>2, LeaseEnds
  <2> QED
    BY <2>3 DEF Lease!Next
<1>6. CASE Deliver(e)
  <2>1. At(e, "delivering") /\ End(e) /\ UNCHANGED <<status, stamp>>
        /\ (gone' = gone \/ (gone' = "run" /\ status = "success"))
    BY <1>6 DEF Deliver, MayRemove
  <2>2. CASE gone' = gone
    BY <2>1, <2>2, LeaseEndsOne DEF Lease!Next
  <2>3. CASE gone' = "run" /\ status = "success"
    <3>1. \A x \in Runs : LeaseState(x)' = LeaseState(x)
      BY <2>1, EndFirst DEF LeaseState, Live, At, Over, NoRun
    <3>2. {x \in Runs : Live(x) /\ Holds(run[x].claim)}' = {}
      BY <2>3 DEF Holds
    <3>3. Lease!Remove
      BY <2>1, <2>3, <3>1, <3>2 DEF Lease!Remove
    <3> QED
      BY <3>3 DEF Lease!Next
  <2> QED
    BY <2>1, <2>2, <2>3
<1>7. CASE MarkFailed(e)
  <2>1. /\ End(e) /\ Failing(e)
        /\ IF Holds(run[e].claim) THEN FailRow ELSE UNCHANGED <<row, clock>>
    BY <1>7 DEF MarkFailed
  <2>2. CASE Holds(run[e].claim)
    <3>1. status' # "running" /\ UNCHANGED gone
      BY <2>1, <2>2 DEF FailRow
    <3>2. run[e].doneAt = 0
      <4>1. run[e].claim = clock
        BY <2>2 DEF Holds, RowIsStamped
      <4>2. run[e].doneAt # 0 => run[e].claim < run[e].doneAt
        BY DEF RowIsStamped, ClaimComesFirst
      <4>3. run[e].doneAt \in 0..clock /\ clock \in Nat
        BY DEF TypeOK, RunRecord
      <4> QED
        BY <4>1, <4>2, <4>3
    <3>3. Live(e) /\ ~Live(e)' /\ run'[e].pc \notin {"none", "claiming"}
      BY <2>1, <3>2, EndFirst DEF Failing, At, Live, Over, NoRun
    <3>4. Lease!Settle(e)
      BY <2>1, <2>2, <3>1, <3>3, EndFirst, LeaseSettles
    <3> QED
      BY <3>4 DEF Lease!Next
  <2>3. CASE ~Holds(run[e].claim)
    BY <2>1, <2>3, LeaseEndsOne DEF Lease!Next, row
  <2> QED
    BY <2>2, <2>3
<1>8. CASE LandLog(e)
  BY <1>8, SameLease DEF LandLog, row
<1> QED
  BY <1>1, <1>2, <1>3, <1>4, <1>5, <1>6, <1>7, <1>8 DEF RunStep

\* Time: the one that holds the row may overrun its deadline.
LEMMA LeaseTime ==
  ASSUME ClaimInv, RowIsStamped, Time
  PROVE  Lease!Next \/ UNCHANGED Lease!vars
<1> TypeOK
  BY DEF ClaimInv, RowInv, HeldInv
<1>1. CASE SlotComes \/ RetryComes
  <2>1. UNCHANGED <<gone, status, stamp>> /\ BecomesDue
    BY <1>1 DEF SlotComes, RetryComes, BecomesDue
  <2>2. \A x \in Runs : /\ run'[x].pc = run[x].pc /\ run'[x].claim = run[x].claim
                        /\ run'[x].overran = run[x].overran /\ run'[x].doneAt = run[x].doneAt
    BY <2>1 DEF BecomesDue, TypeOK, RunRecord
  <2> QED
    BY <2>1, <2>2, SameLease
<1>2. CASE ShotPasses
  BY <1>2, SameLease DEF ShotPasses
<1>3. CASE DeadlinePasses
  <2>1. /\ status = "running" /\ UNCHANGED <<gone, status, stamp>> /\ stamp # 0
        /\ \A x \in Runs : /\ run'[x].pc = run[x].pc /\ run'[x].claim = run[x].claim
                           /\ run'[x].doneAt = run[x].doneAt
                           /\ run'[x].overran = (run[x].overran \/ (run[x].claim = stamp /\ ~At(x, "dead")))
    BY <1>3 DEF DeadlinePasses, TypeOK, RunRecord, RowIsStamped
  <2>2. \A x \in Runs : Live(x)' <=> Live(x)
    BY <2>1 DEF Live
  <2>3. {x \in Runs : Live(x) /\ Holds(run[x].claim)}' = {x \in Runs : Live(x) /\ Holds(run[x].claim)}
    BY <2>1, <2>2 DEF Holds
  <2>4. \A x \in Runs : ~(Live(x) /\ run[x].claim = stamp /\ ~run[x].overran) => LeaseState(x)' = LeaseState(x)
    BY <2>1, <2>2 DEF LeaseState
  <2>5. CASE \A x \in Runs : ~(Live(x) /\ run[x].claim = stamp /\ ~run[x].overran)
    BY <2>1, <2>2, <2>4, <2>5, LeaseKept
  <2>6. ASSUME NEW e \in Runs, Live(e), run[e].claim = stamp, ~run[e].overran PROVE Lease!Overrun(e)
    <3>1. \A x \in Runs : x # e => run[x].claim # stamp
      BY <2>1, <2>6 DEF ClaimInv, RowInv, HeldInv, ClaimsDiffer
    <3>2. LeaseState(e) = "working" /\ LeaseState(e)' = "overdue"
      BY <2>1, <2>2, <2>6 DEF LeaseState, Live, At
    <3>3. \A x \in Runs : x # e => LeaseState(x)' = LeaseState(x)
      BY <2>4, <3>1
    <3>4. [x \in Runs |-> LeaseState(x)]' = [[x \in Runs |-> LeaseState(x)] EXCEPT ![e] = "overdue"]
      BY <3>2, <3>3
    <3> QED
      BY <2>1, <2>3, <3>2, <3>4 DEF Lease!Overrun
  <2> QED
    BY <2>5, <2>6 DEF Lease!Next
<1> QED
  BY <1>1, <1>2, <1>3 DEF Time

\* A replica queues runs, which wait, frees the row of who is late, and stops.
LEMMA LeaseReplica ==
  ASSUME ClaimInv, RowIsStamped, NEW p \in Procs, Replica(p)
  PROVE  Lease!Next \/ UNCHANGED Lease!vars
<1> TypeOK
  BY DEF ClaimInv, RowInv, HeldInv
<1>1. ASSUME NEW m, Queue(p, m) PROVE UNCHANGED Lease!vars
  <2>1. started + 1 \in Runs /\ UNCHANGED <<gone, status, stamp>>
    BY <1>1, SchedulerAssumption DEF Queue, TypeOK, Runs, row
  <2>2. /\ \A x \in Runs : x # started + 1 => run'[x] = run[x]
        /\ run'[started + 1].pc = "claiming" /\ run[started + 1].pc = "none"
    <3>1. run[started + 1].pc = "none"
      BY <2>1 DEF ClaimInv, RowInv, HeldInv, LogFollowsRun, TypeOK
    <3> QED
      BY <1>1, <2>1, <3>1 DEF Queue, TypeOK, NoRun
  <2>3. \A x \in Runs : LeaseState(x)' = LeaseState(x) /\ (Live(x)' <=> Live(x))
    BY <2>2 DEF LeaseState, Live
  <2>4. \A x \in Runs : Live(x) => run'[x].claim = run[x].claim
    BY <2>2 DEF Live
  <2> QED
    BY <2>1, <2>3, <2>4, LeaseKept
<1>2. CASE Crash(p)
  <2> DEFINE ended == {x \in Runs : run[x].proc = p /\ run[x].pc \notin {"none", "done"}}
  <2>1. UNCHANGED <<gone, status, stamp>>
    BY <1>2 DEF Crash, row
  <2>2. \A x \in ended : run'[x].pc = "dead"
    BY <1>2 DEF Crash, Dead, NoRun
  <2>3. \A x \in Runs \ ended : run'[x] = run[x]
    BY <1>2 DEF Crash
  <2>4. ended \in SUBSET Runs
    OBVIOUS
  <2> HIDE DEF ended
  <2>5. Lease!End(ended)
    BY <2>1, <2>2, <2>3, <2>4, LeaseEnds
  <2> QED
    BY <2>4, <2>5 DEF Lease!Next
<1>3. CASE (ClearMarker(p) \/ ReapRow(p)) /\ Holds(sweep[p].claim)
  <2>1. /\ UNCHANGED <<run, gone>> /\ status' # "running" /\ sweep[p].pc \in {"clearing", "failing"}
    BY <1>3 DEF ClearMarker, ReapRow, FailRow
  <2>2. \A x \in Runs : Live(x) /\ Holds(run[x].claim) => LeaseState(x) = "overdue"
    <3> SUFFICES ASSUME NEW x \in Runs, Live(x), Holds(run[x].claim) PROVE LeaseState(x) = "overdue"
      OBVIOUS
    <3>1. run[x].claim = sweep[p].claim
      BY <1>3 DEF Holds
    <3>2. run[x].overran
      BY <2>1, <3>1 DEF ClaimInv, RowInv, HeldInv, JudgedMeansOverran
    <3> QED
      BY <3>2 DEF LeaseState, Live
  <2>3. \A x \in Runs : LeaseState(x)' = LeaseState(x)
    BY <2>1 DEF LeaseState, Live
  <2>4. {x \in Runs : Live(x) /\ Holds(run[x].claim)}' = {}
    BY <2>1 DEF Holds
  <2>5. gone = "no" /\ status = "running"
    BY <1>3 DEF Holds
  <2>6. Lease!Revoke
    BY <2>1, <2>2, <2>3, <2>4, <2>5 DEF Lease!Revoke
  <2> QED
    BY <2>6 DEF Lease!Next
<1>4. CASE (ClearMarker(p) \/ ReapRow(p)) /\ ~Holds(sweep[p].claim)
  BY <1>4, SameLease DEF ClearMarker, ReapRow, row
<1>5. CASE UNCHANGED <<gone, status, stamp, run>>
  BY <1>5, SameLease
<1> QED
  BY <1>1, <1>2, <1>3, <1>4, <1>5
     DEF Replica, Pick, RunNow, MissedTasks, AdvanceMissed, Sweep, Judge, CloseRuns, row

\* The API: while nobody works on it, enabling a task is nothing to the lease.
LEMMA LeaseApi ==
  ASSUME ~EnableWhileRuns, Api
  PROVE  Lease!Next \/ UNCHANGED Lease!vars
<1>1. CASE Disable \/ EditSchedule \/ SwitchInstance
  BY <1>1, SameLease DEF Disable, EditSchedule, SwitchInstance, Edit, row
<1>2. CASE Enable
  <2>1. status # "running" /\ status' # "running" /\ UNCHANGED <<run, gone>>
    BY <1>2 DEF Enable, Edit
  <2>2. /\ \A x \in Runs : LeaseState(x)' = LeaseState(x)
        /\ {x \in Runs : Live(x) /\ Holds(run[x].claim)}' = {x \in Runs : Live(x) /\ Holds(run[x].claim)}
    BY <2>1 DEF LeaseState, Live, Holds
  <2> QED
    BY <2>1, <2>2 DEF Lease!vars
<1>3. CASE Remove
  <2>1. gone' = "api" /\ UNCHANGED run
    BY <1>3 DEF Remove, Edit
  <2>2. /\ \A x \in Runs : LeaseState(x)' = LeaseState(x)
        /\ {x \in Runs : Live(x) /\ Holds(run[x].claim)}' = {}
    BY <2>1 DEF LeaseState, Live, Holds
  <2>3. Lease!Remove
    BY <2>1, <2>2 DEF Lease!Remove
  <2> QED
    BY <2>3 DEF Lease!Next
<1> QED
  BY <1>1, <1>2, <1>3 DEF Api

\* Claims, deadlines, reapers and recoveries make a lease of the row, as TaskLease
\* specifies it: a run is started only when nobody works on the task in time, and an
\* outcome is recorded only by the run that started last.
THEOREM SchedulerImplementsLease == ~EnableWhileRuns => (Spec => ImplementsLease)
<1> SUFFICES ASSUME ~EnableWhileRuns PROVE Spec => ImplementsLease
  OBVIOUS
<1>1. Init => Lease!Init /\ RowIsStamped
  <2> SUFFICES ASSUME Init PROVE Lease!Init /\ RowIsStamped
    OBVIOUS
  <2>1. \A x \in Runs : run[x] = NoRun
    BY DEF Init
  <2>2. \A x \in Runs : LeaseState(x) = "waiting" /\ ~Live(x)
    BY <2>1 DEF LeaseState, Live, NoRun
  <2>3. Lease!Init
    BY <2>2 DEF Lease!Init, Init
  <2>4. RowIsStamped
    BY <2>1, OverFirst DEF RowIsStamped, Init
  <2> QED
    BY <2>3, <2>4
<1>2. ClaimInv /\ RowIsStamped /\ [Next]_vars => RowIsStamped'
  BY StampStep DEF ClaimInv, RowInv, HeldInv
<1>3. ClaimInv /\ RowIsStamped /\ [Next]_vars => [Lease!Next]_(Lease!vars)
  <2> SUFFICES ASSUME ClaimInv, RowIsStamped, [Next]_vars PROVE Lease!Next \/ UNCHANGED Lease!vars
    OBVIOUS
  <2>1. CASE UNCHANGED vars
    BY <2>1, SameLease DEF vars, row
  <2> QED
    BY <2>1, LeaseTime, LeaseApi, LeaseReplica, LeaseRunStep DEF Next
<1> QED
  BY <1>1, <1>2, <1>3, ClaimIsInvariant, PTL DEF Spec, ImplementsLease, Lease!Spec

-----------------------------------------------------------------------------
(* What a lease is good for.                                               *)

\* Who works in time is the one owner of the task, unless it was removed meanwhile.
WorkerOwns ==
  LET state == [e \in Runs |-> LeaseState(e)]
      owner == {e \in Runs : Live(e) /\ Holds(run[e].claim)}
      taken == gone = "no" /\ status = "running"
  IN  /\ Lease!OneWorks
      /\ \A e \in Runs : state[e] = "working" => gone # "no" \/ (taken /\ e \in owner)
      /\ \A e, f \in owner : e = f

LEMMA WorkerOwnsStep ==
  ASSUME WorkerOwns, [Lease!Next]_(Lease!vars)
  PROVE  WorkerOwns'
<1> DEFINE state == [e \in Runs |-> LeaseState(e)]
           owner == {e \in Runs : Live(e) /\ Holds(run[e].claim)}
           taken == gone = "no" /\ status = "running"
           removed == gone # "no"
           One(s) == \A e, f \in Runs : s[e] = "working" /\ s[f] = "working" => e = f
           Owns(s, t, o, r) == /\ One(s)
                               /\ \A e \in Runs : s[e] = "working" => r \/ (t /\ e \in o)
                               /\ \A e, f \in o : e = f
<1>1. Owns(state, taken, owner, removed)
  BY DEF WorkerOwns, Lease!OneWorks
<1>2. DOMAIN state = Runs /\ taken \in BOOLEAN /\ removed \in BOOLEAN
  OBVIOUS
<1>3. Owns(state', taken', owner', removed')
  <2>1. ASSUME NEW e \in Runs, Lease!Start(e) PROVE Owns(state', taken', owner', removed')
    <3>1. state' = [state EXCEPT ![e] = "working"] /\ ~taken /\ ~removed /\ taken' /\ owner' = {e} /\ removed' = removed
      BY <2>1 DEF Lease!Start
    <3> HIDE DEF state, owner, taken, removed
    <3> QED
      BY <1>1, <1>2, <3>1
  <2>2. ASSUME NEW e \in Runs, Lease!Overrun(e) PROVE Owns(state', taken', owner', removed')
    <3>1. state' = [state EXCEPT ![e] = "overdue"] /\ taken' = taken /\ owner' = owner /\ removed' = removed
      BY <2>2 DEF Lease!Overrun
    <3> HIDE DEF state, owner, taken, removed
    <3> QED
      BY <1>1, <1>2, <3>1
  <2>3. ASSUME NEW e \in Runs, Lease!Settle(e) PROVE Owns(state', taken', owner', removed')
    <3>1. state' = [state EXCEPT ![e] = "over"] /\ e \in owner /\ owner' = {} /\ removed' = removed
      BY <2>3 DEF Lease!Settle
    <3> HIDE DEF state, owner, taken, removed
    <3> QED
      BY <1>1, <1>2, <3>1
  <2>4. ASSUME NEW ended \in SUBSET Runs, Lease!End(ended) PROVE Owns(state', taken', owner', removed')
    <3>1. /\ state' = [e \in Runs |-> IF e \in ended THEN "over" ELSE state[e]]
          /\ owner' = owner \ ended /\ taken' = taken /\ removed' = removed
      BY <2>4 DEF Lease!End
    <3> HIDE DEF state, owner, taken, removed
    <3> QED
      BY <1>1, <1>2, <3>1
  <2>5. CASE Lease!Revoke
    <3>1. /\ \A e \in owner : state[e] = "overdue"
          /\ state' = state /\ owner' = {} /\ removed' = removed
      BY <2>5 DEF Lease!Revoke
    <3> HIDE DEF state, owner, taken, removed
    <3> QED
      BY <1>1, <1>2, <3>1
  <2>6. CASE Lease!Remove
    <3>1. state' = state /\ owner' = {} /\ removed'
      BY <2>6 DEF Lease!Remove
    <3> HIDE DEF state, owner, taken, removed
    <3> QED
      BY <1>1, <1>2, <3>1
  <2>7. CASE UNCHANGED Lease!vars
    <3>1. state' = state /\ owner' = owner /\ taken' = taken /\ removed' = removed
      BY <2>7 DEF Lease!vars
    <3> HIDE DEF state, owner, taken, removed
    <3> QED
      BY <1>1, <1>2, <3>1
  <2> QED
    BY <2>1, <2>2, <2>3, <2>4, <2>5, <2>6, <2>7 DEF Lease!Next
<1> QED
  BY <1>3 DEF WorkerOwns, Lease!OneWorks

\* Two runs of a task never work on it at once in time, not even when it was removed
\* under one of them.
THEOREM OneRunInTime == ~EnableWhileRuns => (Spec => []Lease!OneWorks)
<1> SUFFICES ASSUME ~EnableWhileRuns PROVE Spec => []Lease!OneWorks
  OBVIOUS
<1>1. Lease!Init => WorkerOwns
  <2> SUFFICES ASSUME Lease!Init PROVE WorkerOwns
    OBVIOUS
  <2>1. /\ \A e \in Runs : [x \in Runs |-> LeaseState(x)][e] = "waiting"
        /\ {e \in Runs : Live(e) /\ Holds(run[e].claim)} = {}
    BY DEF Lease!Init
  <2> QED
    BY <2>1 DEF WorkerOwns, Lease!OneWorks
<1>2. WorkerOwns /\ [Lease!Next]_(Lease!vars) => WorkerOwns'
  BY WorkerOwnsStep
<1>3. WorkerOwns => Lease!OneWorks
  BY DEF WorkerOwns
<1> QED
  BY <1>1, <1>2, <1>3, SchedulerImplementsLease, PTL DEF ImplementsLease, Lease!Spec
=============================================================================
