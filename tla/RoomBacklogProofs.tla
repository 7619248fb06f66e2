------------------------- MODULE RoomBacklogProofs -------------------------
(***************************************************************************)
(* Proofs about RoomBacklog, for every set of processes, cycles and events *)
(* and every bound: where no cycle runs anywhere when a process starts, no *)
(* event is ever in the hands of two cycles.                               *)
(***************************************************************************)
EXTENDS RoomBacklog, TLAPS

\* The invariant holds initially: there is no cycle and no event.
LEMMA RoomInit == Init => RoomInv
<1> SUFFICES ASSUME Init PROVE RoomInv
  OBVIOUS
<1>1. TypeOK
  <2>1. cycle \in [Cycles -> CycleRecord]
    BY DEF Init, CycleRecord, Free
  <2>2. stops \in 0..MaxStops /\ throws \in 0..MaxThrows
    BY RoomAssumption DEF Init
  <2> QED
    BY <2>1, <2>2 DEF Init, TypeOK, NotesOfCompleted
<1>2. HeldIsTaken /\ HeldByOne
  BY DEF Init, HeldIsTaken, HeldByOne, Free
<1>3. PendingIsNotGiven
  BY DEF Init, PendingIsNotGiven, Free, At
<1>4. RunningIsMarked /\ OneCyclePerProcess
  BY DEF Init, RunningIsMarked, OneCyclePerProcess, Free, At, Live
<1> QED
  BY <1>1, <1>2, <1>3, <1>4 DEF RoomInv

-----------------------------------------------------------------------------
(* Webhook events, ticks and the operator.                                 *)

\* A row that no cycle holds yet, or a completed one, changes.
LEMMA EventInv ==
  ASSUME RoomInv, NEW e \in Events, Event(e)
  PROVE  RoomInv'
<1>1. TypeOK'
  BY RoomAssumption DEF RoomInv, TypeOK, NotesOfCompleted, Event, Insert, CommitInsert, InsertFails, Purge, Throw
<1>2. HeldIsTaken'
  <2>1. \A d \in Events : status[d] \in {"processing", "completed", "purged"}
                           => status'[d] \in {"processing", "completed", "purged"}
    BY DEF RoomInv, TypeOK, Event, Insert, CommitInsert, InsertFails, Purge
  <2>2. UNCHANGED cycle /\ \A c \in Cycles : cycle[c].events \in SUBSET Events
    BY DEF RoomInv, TypeOK, CycleRecord, Event, Insert, CommitInsert, InsertFails, Purge
  <2> QED
    BY <2>1, <2>2 DEF RoomInv, HeldIsTaken
<1>3. HeldByOne' /\ RunningIsMarked' /\ OneCyclePerProcess'
  BY DEF RoomInv, HeldByOne, RunningIsMarked, OneCyclePerProcess, At, Live,
         Event, Insert, CommitInsert, InsertFails, Purge
<1>4. PendingIsNotGiven'
  BY DEF RoomInv, TypeOK, PendingIsNotGiven, At, Event, Insert, CommitInsert, InsertFails, Purge
<1> QED
  BY <1>1, <1>2, <1>3, <1>4 DEF RoomInv

\* No row and no cycle changes.
LEMMA IdleInv ==
  ASSUME RoomInv, SwitchRoom \/ (\E p \in Procs : TickReads(p)) \/ UNCHANGED vars
  PROVE  RoomInv'
<1>1. TypeOK'
  BY DEF RoomInv, TypeOK, NotesOfCompleted, SwitchRoom, TickReads, vars, rows
<1>2. HeldIsTaken' /\ HeldByOne' /\ RunningIsMarked' /\ OneCyclePerProcess' /\ PendingIsNotGiven'
  BY DEF RoomInv, HeldIsTaken, HeldByOne, RunningIsMarked, OneCyclePerProcess, PendingIsNotGiven,
         At, Live, SwitchRoom, TickReads, vars, rows
<1> QED
  BY <1>1, <1>2 DEF RoomInv

\* A new cycle takes a free slot of a process that has none.
LEMMA StartInv ==
  ASSUME RoomInv, NEW p \in Procs, TickStarts(p) \/ HumanWrites(p)
  PROVE  RoomInv'
<1>1. UNCHANGED <<rows, enabled, up, stray, stops, throws, given, broken>> /\ seen' \in [Procs -> BOOLEAN]
  BY DEF RoomInv, TypeOK, TickStarts, HumanWrites
<1>2. CASE UNCHANGED <<running, cycle>>
  BY <1>1, <1>2 DEF RoomInv, TypeOK, NotesOfCompleted, HeldIsTaken, HeldByOne, RunningIsMarked,
       OneCyclePerProcess, PendingIsNotGiven, At, Live, rows
<1>3. ASSUME NEW human \in BOOLEAN, Open(p, human) PROVE RoomInv'
  <2>1. PICK c \in Cycles :
          /\ At(c, "free")
          /\ cycle' = [cycle EXCEPT ![c] = [Free EXCEPT !.proc = p, !.pc = "opening", !.human = human]]
          /\ ~running[p]
          /\ running' = [running EXCEPT ![p] = TRUE]
    BY <1>3 DEF Open, MayStart
  <2>2. /\ cycle'[c] = [proc |-> p, pc |-> "opening", human |-> human, events |-> {}]
        /\ \A d \in Cycles : d # c => cycle'[d] = cycle[d]
    BY <2>1 DEF RoomInv, TypeOK, Free
  <2>3. TypeOK'
    BY <1>1, <2>1 DEF RoomInv, TypeOK, NotesOfCompleted, CycleRecord, Free, rows
  <2>4. HeldIsTaken' /\ HeldByOne' /\ PendingIsNotGiven'
    BY <1>1, <2>2 DEF RoomInv, HeldIsTaken, HeldByOne, PendingIsNotGiven, At, rows
  <2>5. RunningIsMarked' /\ OneCyclePerProcess'
    BY <2>1, <2>2 DEF RoomInv, TypeOK, RunningIsMarked, OneCyclePerProcess, At, Live
  <2> QED
    BY <2>3, <2>4, <2>5 DEF RoomInv
<1> QED
  BY <1>2, <1>3 DEF TickStarts, HumanWrites

-----------------------------------------------------------------------------
(* The end of a cycle.                                                     *)

\* A cycle that ends frees its slot and its process; the others stay.
LEMMA EndCycleInv ==
  ASSUME RoomInv, NEW c \in Cycles, Live(c), EndCycle(c)
  PROVE  /\ cycle' \in [Cycles -> CycleRecord]
         /\ running' \in [Procs -> BOOLEAN]
         /\ cycle'[c] = Free
         /\ \A d \in Cycles : d # c => cycle'[d] = cycle[d]
         /\ HeldByOne'
         /\ RunningIsMarked'
         /\ OneCyclePerProcess'
<1>1. /\ cycle' \in [Cycles -> CycleRecord]
      /\ cycle'[c] = Free
      /\ \A d \in Cycles : d # c => cycle'[d] = cycle[d]
  BY DEF RoomInv, TypeOK, EndCycle, CycleRecord, Free
<1>2. /\ running' \in [Procs -> BOOLEAN]
      /\ \A p \in Procs : p # cycle[c].proc => running'[p] = running[p]
  BY DEF RoomInv, TypeOK, EndCycle
<1>3. HeldByOne'
  BY <1>1 DEF RoomInv, HeldByOne, Free
<1>4. OneCyclePerProcess'
  BY <1>1 DEF RoomInv, OneCyclePerProcess, Live, At, Free
<1>5. RunningIsMarked'
  BY <1>1, <1>2 DEF RoomInv, RunningIsMarked, OneCyclePerProcess, Live, At, Free
<1> QED
  BY <1>1, <1>2, <1>3, <1>4, <1>5

\* A cycle that fails leaves its events as they are.
LEMMA FailInv ==
  ASSUME RoomInv, NEW c \in Cycles, OpenFails(c) \/ CycleFails(c)
  PROVE  RoomInv'
<1>1. Live(c) /\ EndCycle(c) /\ UNCHANGED <<rows, enabled, up, seen, stops, given>>
  BY DEF OpenFails, CycleFails, Live, At
<1>2. stray' \in [Procs -> BOOLEAN] /\ throws' \in 0..MaxThrows /\ broken' \in BOOLEAN
  <2>1. stray' \in [Procs -> BOOLEAN]
    BY DEF RoomInv, TypeOK, OpenFails, CycleFails
  <2>2. throws' \in 0..MaxThrows
    BY RoomAssumption DEF RoomInv, TypeOK, OpenFails, CycleFails, Throw
  <2>3. broken' \in BOOLEAN
    BY DEF OpenFails, CycleFails
  <2> QED
    BY <2>1, <2>2, <2>3
<1>3. TypeOK'
  BY <1>1, <1>2, EndCycleInv DEF RoomInv, TypeOK, NotesOfCompleted, rows
<1>4. HeldIsTaken' /\ PendingIsNotGiven'
  BY <1>1, EndCycleInv DEF RoomInv, HeldIsTaken, PendingIsNotGiven, At, Free, rows
<1> QED
  BY <1>1, <1>3, <1>4, EndCycleInv DEF RoomInv

\* Completing takes the events out of no other cycle's hands.
LEMMA CompleteRows ==
  ASSUME RoomInv, NEW events \in SUBSET Events, NEW by \in {"tool", "cycle"}, MarkCompleted(events, by)
  PROVE  /\ status' \in [Events -> {"none", "inserting", "dropped", "pending", "processing", "completed", "purged"}]
         /\ notes' \in [Events -> {"none", "tool", "cycle"}]
         /\ NotesOfCompleted'
         /\ \A e \in Events : status[e] \in {"processing", "completed", "purged"}
                                => status'[e] \in {"processing", "completed", "purged"}
         /\ \A e \in Events : status'[e] \in {"none", "inserting", "dropped", "pending"} => status'[e] = status[e]
BY DEF RoomInv, TypeOK, NotesOfCompleted, MarkCompleted, Mark, Completes

\* The tool completes one of the events of its cycle.
LEMMA ToolInv ==
  ASSUME RoomInv, NEW c \in Cycles, ToolMarks(c)
  PROVE  RoomInv'
<1>1. PICK e \in cycle[c].events : MarkCompleted({e}, "tool")
  BY DEF ToolMarks
<1>2. {e} \in SUBSET Events
  BY <1>1 DEF RoomInv, TypeOK, CycleRecord
<1>3. UNCHANGED <<enabled, up, running, seen, cycle, stray, stops, throws, given, broken>>
  BY DEF ToolMarks
<1>4. TypeOK'
  BY <1>1, <1>2, <1>3, CompleteRows DEF RoomInv, TypeOK
<1>5. HeldIsTaken' /\ PendingIsNotGiven'
  BY <1>1, <1>2, <1>3, CompleteRows DEF RoomInv, TypeOK, CycleRecord, HeldIsTaken, PendingIsNotGiven, At
<1>6. HeldByOne' /\ RunningIsMarked' /\ OneCyclePerProcess'
  BY <1>3 DEF RoomInv, HeldByOne, RunningIsMarked, OneCyclePerProcess, At, Live
<1> QED
  BY <1>4, <1>5, <1>6 DEF RoomInv

\* A cycle completes its events and ends.
LEMMA FinishInv ==
  ASSUME RoomInv, NEW c \in Cycles, Finish(c)
  PROVE  RoomInv'
<1>1. Live(c) /\ EndCycle(c) /\ MarkCompleted(cycle[c].events, "cycle")
  BY DEF Finish, Live, At
<1>2. UNCHANGED <<enabled, up, seen, stray, stops, throws, given, broken>>
  BY DEF Finish
<1>3. \A d \in Cycles : cycle[d].events \in SUBSET Events
  BY DEF RoomInv, TypeOK, CycleRecord
<1>4. TypeOK'
  BY <1>1, <1>2, <1>3, EndCycleInv, CompleteRows DEF RoomInv, TypeOK
<1>5. HeldIsTaken' /\ PendingIsNotGiven'
  BY <1>1, <1>2, <1>3, EndCycleInv, CompleteRows DEF RoomInv, HeldIsTaken, PendingIsNotGiven, At, Free
<1> QED
  BY <1>1, <1>4, <1>5, EndCycleInv DEF RoomInv

-----------------------------------------------------------------------------
(* Claiming.                                                               *)

\* The pending rows are marked; what was held before is held still.
LEMMA ClaimRows ==
  ASSUME RoomInv, Mark(Claims, "processing"), UNCHANGED notes
  PROVE  /\ status' \in [Events -> {"none", "inserting", "dropped", "pending", "processing", "completed", "purged"}]
         /\ NotesOfCompleted'
         /\ \A e \in Claims : e \in Events /\ status'[e] = "processing" /\ e \notin given
                              /\ \A d \in Cycles : e \notin cycle[d].events
         /\ \A e \in Events : e \notin Claims => status'[e] = status[e]
BY DEF RoomInv, TypeOK, NotesOfCompleted, Mark, Claims, Pending, HeldIsTaken, PendingIsNotGiven

\* The claim of a cycle.
LEMMA ClaimInv ==
  ASSUME RoomInv, NEW c \in Cycles, Claim(c)
  PROVE  RoomInv'
<1>1. /\ Live(c) /\ Mark(Claims, "processing")
      /\ UNCHANGED <<notes, enabled, up, seen, stray, stops, throws, given, broken>>
  BY DEF Claim, Live, At
<1>2. CASE EndCycle(c)
  <2>1. TypeOK'
    BY <1>1, <1>2, ClaimRows, EndCycleInv DEF RoomInv, TypeOK
  <2>2. HeldIsTaken' /\ PendingIsNotGiven'
    BY SMTT(30), <1>1, <1>2, ClaimRows, EndCycleInv DEF RoomInv, TypeOK, CycleRecord,
        HeldIsTaken, PendingIsNotGiven, At, Free
  <2> QED
    BY <1>1, <1>2, <2>1, <2>2, EndCycleInv DEF RoomInv
<1>3. CASE /\ cycle' = [cycle EXCEPT ![c].pc = "claimed", ![c].events = Claims]
           /\ UNCHANGED running
  <2>1. /\ cycle'[c] = [proc |-> cycle[c].proc, pc |-> "claimed", human |-> cycle[c].human, events |-> Claims]
        /\ \A d \in Cycles : d # c => cycle'[d] = cycle[d]
    BY ZenonT(60), <1>3 DEF RoomInv, TypeOK, CycleRecord
  <2>2. cycle' \in [Cycles -> CycleRecord]
    <3>1. Claims \in SUBSET Events /\ cycle[c] \in CycleRecord
      BY DEF RoomInv, TypeOK, Claims, Pending
    <3>2. cycle'[c] \in CycleRecord
      BY <2>1, <3>1 DEF CycleRecord
    <3> QED
      BY <1>3, <2>1, <3>2 DEF RoomInv, TypeOK
  <2>3. TypeOK'
    BY <1>1, <1>3, <2>2, ClaimRows DEF RoomInv, TypeOK
  <2>4. HeldIsTaken' /\ PendingIsNotGiven'
    BY <1>1, <2>1, ClaimRows DEF RoomInv, TypeOK, CycleRecord, HeldIsTaken, PendingIsNotGiven, At
  <2>5. HeldByOne'
    BY <1>1, <2>1, ClaimRows DEF RoomInv, HeldByOne
  <2>6. RunningIsMarked' /\ OneCyclePerProcess'
    <3>1. \A d \in Cycles : (Live(d)' <=> Live(d)) /\ cycle'[d].proc = cycle[d].proc
      BY <1>1, <2>1 DEF At, Live
    <3>2. \A d \in Cycles : At(d, "free")' => cycle'[d] = cycle[d] /\ At(d, "free")
      BY <2>1 DEF At
    <3> QED
      BY ZenonT(60), <1>3, <3>1, <3>2 DEF RoomInv, RunningIsMarked, OneCyclePerProcess
  <2> QED
    BY <2>3, <2>4, <2>5, <2>6 DEF RoomInv
<1> QED
  BY <1>2, <1>3 DEF Claim

\* A claim whose cycle has failed: its rows are in nobody's hands.
LEMMA StrayInv ==
  ASSUME RoomInv, NEW p \in Procs, StrayClaim(p)
  PROVE  RoomInv'
<1>1. /\ Mark(Claims, "processing") /\ stray' \in [Procs -> BOOLEAN]
      /\ UNCHANGED <<notes, enabled, up, running, seen, cycle, stops, throws, given, broken>>
  BY DEF RoomInv, TypeOK, StrayClaim
<1>2. TypeOK'
  BY <1>1, ClaimRows DEF RoomInv, TypeOK
<1>3. HeldIsTaken' /\ PendingIsNotGiven'
  BY <1>1, ClaimRows DEF RoomInv, TypeOK, CycleRecord, HeldIsTaken, PendingIsNotGiven, At
<1>4. HeldByOne' /\ RunningIsMarked' /\ OneCyclePerProcess'
  BY <1>1 DEF RoomInv, HeldByOne, RunningIsMarked, OneCyclePerProcess, At, Live
<1> QED
  BY <1>2, <1>3, <1>4 DEF RoomInv

\* The events of a cycle go to the model.
LEMMA GiveInv ==
  ASSUME RoomInv, NEW c \in Cycles, GiveToModel(c)
  PROVE  RoomInv'
<1>1. /\ At(c, "claimed")
      /\ cycle' = [cycle EXCEPT ![c].pc = "handling"]
      /\ given' = given \union cycle[c].events
      /\ UNCHANGED <<rows, enabled, up, running, seen, stray, stops, throws, broken>>
  BY DEF GiveToModel
<1>2. /\ cycle'[c].pc = "handling" /\ cycle'[c].proc = cycle[c].proc /\ cycle'[c].events = cycle[c].events
      /\ \A d \in Cycles : d # c => cycle'[d] = cycle[d]
      /\ cycle' \in [Cycles -> CycleRecord]
  BY <1>1 DEF RoomInv, TypeOK, CycleRecord
<1>3. TypeOK'
  BY <1>1, <1>2 DEF RoomInv, TypeOK, NotesOfCompleted, CycleRecord, rows
<1>4. HeldIsTaken' /\ HeldByOne'
  BY <1>1, <1>2 DEF RoomInv, HeldIsTaken, HeldByOne, rows
<1>5. PendingIsNotGiven'
  BY <1>1, <1>2 DEF RoomInv, HeldIsTaken, HeldByOne, PendingIsNotGiven, At, rows
<1>6. RunningIsMarked' /\ OneCyclePerProcess'
  BY <1>1, <1>2 DEF RoomInv, RunningIsMarked, OneCyclePerProcess, At, Live
<1> QED
  BY <1>3, <1>4, <1>5, <1>6 DEF RoomInv

-----------------------------------------------------------------------------
(* Processes.                                                              *)

\* The cycles of a process that stops are gone.
LEMMA StopInv ==
  ASSUME RoomInv, NEW p \in Procs, Stop(p)
  PROVE  RoomInv'
<1>1. /\ cycle' = [c \in Cycles |-> IF cycle[c].proc = p THEN Free ELSE cycle[c]]
      /\ running' = [running EXCEPT ![p] = FALSE]
      /\ UNCHANGED <<rows, enabled, throws, given, broken>>
  BY DEF Stop
<1>2. TypeOK'
  BY RoomAssumption DEF RoomInv, TypeOK, NotesOfCompleted, CycleRecord, Free, Stop, rows
<1>3. HeldIsTaken' /\ HeldByOne' /\ PendingIsNotGiven'
  BY <1>1 DEF RoomInv, HeldIsTaken, HeldByOne, PendingIsNotGiven, At, Free, rows
<1>4. \A q \in Procs : q # p => running'[q] = running[q]
  BY <1>1 DEF RoomInv, TypeOK
<1>5. RunningIsMarked'
  <2> SUFFICES ASSUME NEW c \in Cycles
               PROVE  /\ Live(c)' => cycle'[c].proc \in Procs /\ running'[cycle'[c].proc]
                      /\ At(c, "free")' => cycle'[c].events = {} /\ cycle'[c].proc = "none"
    BY DEF RunningIsMarked
  <2>1. CASE cycle[c].proc = p
    BY <1>1, <2>1 DEF Live, At, Free
  <2>2. CASE cycle[c].proc # p
    <3>1. cycle'[c] = cycle[c]
      BY <1>1, <2>2
    <3> QED
      BY <1>4, <2>2, <3>1 DEF RoomInv, RunningIsMarked, Live, At
  <2> QED
    BY <2>1, <2>2
<1>6. OneCyclePerProcess'
  BY <1>1 DEF RoomInv, OneCyclePerProcess, At, Live, Free
<1> QED
  BY <1>2, <1>3, <1>5, <1>6 DEF RoomInv

\* A boot puts processing rows back: no cycle holds them.
LEMMA BootInv ==
  ASSUME RoomInv, NoCycleAtBoot, NEW p \in Procs, Boot(p) \/ BootFails(p)
  PROVE  RoomInv'
<1>1. CASE BootFails(p)
  <2>1. TypeOK'
    BY <1>1, RoomAssumption DEF RoomInv, TypeOK, NotesOfCompleted, BootFails, Throw, rows
  <2>2. HeldIsTaken' /\ HeldByOne' /\ PendingIsNotGiven' /\ RunningIsMarked' /\ OneCyclePerProcess'
    BY <1>1 DEF RoomInv, HeldIsTaken, HeldByOne, PendingIsNotGiven, RunningIsMarked, OneCyclePerProcess,
         At, Live, BootFails, rows
  <2> QED
    BY <2>1, <2>2 DEF RoomInv
<1>2. CASE Boot(p)
  <2>1. \A c \in Cycles : cycle[c].events = {} /\ At(c, "free")
    BY <1>2 DEF Boot, Fresh, RoomInv, RunningIsMarked
  <2>2. UNCHANGED <<notes, enabled, running, seen, cycle, stray, stops, throws>>
    BY <1>2 DEF Boot
  <2>3. TypeOK'
    BY <1>2, <2>2 DEF RoomInv, TypeOK, NotesOfCompleted, Boot, Mark, PutsBack, Processing
  <2>4. HeldIsTaken' /\ HeldByOne'
    BY <2>1, <2>2 DEF HeldIsTaken, HeldByOne
  <2>5. PendingIsNotGiven'
    BY <1>2, <2>1, <2>2 DEF RoomInv, TypeOK, PendingIsNotGiven, Boot, Mark, PutsBack, Processing, At
  <2>6. RunningIsMarked' /\ OneCyclePerProcess'
    BY <2>2 DEF RoomInv, RunningIsMarked, OneCyclePerProcess, At, Live
  <2> QED
    BY <2>3, <2>4, <2>5, <2>6 DEF RoomInv
<1> QED
  BY <1>1, <1>2

-----------------------------------------------------------------------------
(* The theorems.                                                           *)

\* Every step keeps the invariant.
LEMMA RoomStep ==
  ASSUME RoomInv, NoCycleAtBoot, [Next]_vars
  PROVE  RoomInv'
<1>1. ASSUME NEW e \in Events, Event(e) PROVE RoomInv'
  BY <1>1, EventInv
<1>2. CASE SwitchRoom \/ (\E p \in Procs : TickReads(p)) \/ UNCHANGED vars
  BY <1>2, IdleInv
<1>3. ASSUME NEW p \in Procs, TickStarts(p) \/ HumanWrites(p) PROVE RoomInv'
  BY <1>3, StartInv
<1>4. ASSUME NEW p \in Procs, StrayClaim(p) PROVE RoomInv'
  BY <1>4, StrayInv
<1>5. ASSUME NEW c \in Cycles, CycleStep(c) \/ OpenFails(c) \/ ToolMarks(c) \/ CycleFails(c) PROVE RoomInv'
  BY <1>5, ClaimInv, GiveInv, FinishInv, FailInv, ToolInv DEF CycleStep
<1>6. ASSUME NEW p \in Procs, Stop(p) \/ Boot(p) \/ BootFails(p) PROVE RoomInv'
  BY <1>6, StopInv, BootInv
<1> QED
  BY <1>1, <1>2, <1>3, <1>4, <1>5, <1>6 DEF Next

\* The invariant of the backlog, where a process starts only while no cycle
\* runs elsewhere: the assumption of resetStuckProcessingEvents.
THEOREM BacklogIsInvariant == NoCycleAtBoot => (Spec => []RoomInv)
<1> SUFFICES ASSUME NoCycleAtBoot PROVE Spec => []RoomInv
  OBVIOUS
<1>1. Init => RoomInv
  BY RoomInit
<1>2. RoomInv /\ [Next]_vars => RoomInv'
  BY RoomStep
<1> QED
  BY <1>1, <1>2, PTL DEF Spec

\* Type correctness: what the rows, cycles and processes can hold (schema of event_backlog,
\* room-scheduler.ts), and notes only of completed events.
THEOREM TypeCorrect == NoCycleAtBoot => (Spec => []TypeOK)
<1> SUFFICES ASSUME NoCycleAtBoot PROVE Spec => []TypeOK
  OBVIOUS
<1>1. RoomInv => TypeOK
  BY DEF RoomInv
<1> QED
  BY <1>1, BacklogIsInvariant, PTL

\* No event is in the hands of two cycles (listAndMarkPendingEventsProcessing).
THEOREM EventHeldByOneCycle == NoCycleAtBoot => (Spec => []HeldByOne)
<1> SUFFICES ASSUME NoCycleAtBoot PROVE Spec => []HeldByOne
  OBVIOUS
<1>1. RoomInv => HeldByOne
  BY DEF RoomInv
<1> QED
  BY <1>1, BacklogIsInvariant, PTL

\* The in-process guard lets one cycle of the Room run at a time.
THEOREM OneCycleAtATime == NoCycleAtBoot => (Spec => []OneCyclePerProcess)
<1> SUFFICES ASSUME NoCycleAtBoot PROVE Spec => []OneCyclePerProcess
  OBVIOUS
<1>1. RoomInv => OneCyclePerProcess
  BY DEF RoomInv
<1> QED
  BY <1>1, BacklogIsInvariant, PTL

\* An event goes to the model once, unless a boot puts it back.
THEOREM EventGivenOnce == NoCycleAtBoot => (Spec => GivenOnce)
<1> SUFFICES ASSUME NoCycleAtBoot PROVE Spec => GivenOnce
  OBVIOUS
<1>1. RoomInv => \A c \in Cycles : (At(c, "claimed") /\ cycle'[c].pc = "handling")
                                     => cycle[c].events \intersect given = {}
  BY DEF RoomInv, PendingIsNotGiven
<1> QED
  BY <1>1, BacklogIsInvariant, PTL DEF GivenOnce

\* A step that completes rows leaves those the tool completed alone.
LEMMA NotesStay ==
  ASSUME RoomInv, [Next]_vars
  PROVE  \A e \in Events : notes[e] = "tool" => notes'[e] = "tool"
<1> SUFFICES ASSUME NEW e \in Events, notes[e] = "tool" PROVE notes'[e] = "tool"
  OBVIOUS
<1>1. status[e] # "processing"
  BY DEF RoomInv, TypeOK, NotesOfCompleted
<1>2. ASSUME NEW events, NEW by, MarkCompleted(events, by) PROVE notes'[e] = "tool"
  BY <1>1, <1>2 DEF MarkCompleted, Completes
<1>3. CASE UNCHANGED notes
  BY <1>3
<1>4. ASSUME NEW c \in Cycles, ToolMarks(c) \/ Finish(c) PROVE notes'[e] = "tool"
  BY <1>2, <1>4 DEF ToolMarks, Finish
<1> QED
  BY <1>3, <1>4 DEF Next, Event, CycleStep, Insert, CommitInsert, InsertFails, Purge, SwitchRoom, TickReads,
       TickStarts, HumanWrites, StrayClaim, Claim, GiveToModel, OpenFails, CycleFails, Stop, Boot, BootFails, vars, rows

\* What the tool resolved keeps its notes (the status test of markEventsCompleted).
THEOREM ToolNotesAreKept == NoCycleAtBoot => (Spec => ResolutionKept)
<1> SUFFICES ASSUME NoCycleAtBoot PROVE Spec => ResolutionKept
  OBVIOUS
<1>1. RoomInv /\ [Next]_vars => \A e \in Events : notes[e] = "tool" => notes'[e] = "tool"
  BY NotesStay
<1> QED
  BY <1>1, BacklogIsInvariant, PTL DEF Spec, ResolutionKept

-----------------------------------------------------------------------------
(* What the backlog promises.                                              *)

\* Rows that are marked move, all at once, and the others stay where they are.
LEMMA MarkMoves ==
  ASSUME NEW events \in SUBSET Events, NEW row, NEW to, Mark(events, row),
         \/ row = "pending" /\ to = "waiting"
         \/ row = "processing" /\ to = "taken"
         \/ row = "completed" /\ to = "settled"
  PROVE  [e \in Events |-> Place(e)]' = [e \in Events |-> IF e \in events THEN to ELSE [x \in Events |-> Place(x)][e]]
<1>1. ASSUME NEW e \in Events PROVE Place(e)' = IF e \in events THEN to ELSE Place(e)
  <2>1. status'[e] = IF e \in events THEN row ELSE status[e]
    BY DEF Mark
  <2>2. CASE e \in events
    BY <2>1, <2>2 DEF Place
  <2>3. CASE e \notin events
    BY <2>1, <2>3 DEF Place
  <2> QED
    BY <2>2, <2>3
<1> QED
  BY <1>1

\* The events of each place.
LEMMA PlacesAre ==
  ASSUME TypeOK
  PROVE  /\ \A e \in Events : Place(e) = "waiting" <=> status[e] = "pending"
         /\ \A e \in Events : Place(e) = "taken" <=> status[e] = "processing"
         /\ \A e \in Events : Place(e) = "settled" <=> status[e] \in {"completed", "purged"}
         /\ Pending = {e \in Events : [x \in Events |-> Place(x)][e] = "waiting"}
         /\ Processing = {e \in Events : [x \in Events |-> Place(x)][e] = "taken"}
<1>1. ASSUME NEW e \in Events
      PROVE  /\ Place(e) = "waiting" <=> status[e] = "pending"
             /\ Place(e) = "taken" <=> status[e] = "processing"
             /\ Place(e) = "settled" <=> status[e] \in {"completed", "purged"}
  <2>1. status[e] \in {"none", "inserting", "dropped", "pending", "processing", "completed", "purged"}
    BY DEF TypeOK
  <2> QED
    BY <2>1 DEF Place
<1> QED
  BY <1>1 DEF Pending, Processing

\* The rows and what the cycles hold stay.
LEMMA BacklogKept ==
  ASSUME \A e \in Events : Place(e)' = Place(e), \A c \in Cycles : cycle'[c].events = cycle[c].events
  PROVE  UNCHANGED Backlog!vars
BY DEF Backlog!vars

LEMMA SameRows ==
  ASSUME UNCHANGED status, \A c \in Cycles : cycle'[c].events = cycle[c].events
  PROVE  UNCHANGED Backlog!vars
<1>1. \A e \in Events : Place(e)' = Place(e)
  BY DEF Place
<1> QED
  BY <1>1, BacklogKept

\* A row is committed; before that, and after its completion, nobody sees it.
LEMMA EventStep ==
  ASSUME TypeOK, NEW e \in Events, Event(e)
  PROVE  Backlog!Next \/ UNCHANGED Backlog!vars
<1>1. CASE CommitInsert(e)
  <2>1. status[e] = "inserting" /\ status' = [status EXCEPT ![e] = "pending"] /\ UNCHANGED cycle
    BY <1>1 DEF CommitInsert
  <2>2. Mark({e}, "pending") /\ Place(e) = "outside"
    BY <2>1 DEF Mark, TypeOK, Place
  <2>3. [x \in Events |-> Place(x)]' = [x \in Events |-> IF x \in {e} THEN "waiting" ELSE [y \in Events |-> Place(y)][x]]
    BY <2>2, MarkMoves
  <2>4. Backlog!Enter(e)
    BY <2>1, <2>2, <2>3 DEF Backlog!Enter, Backlog!Move
  <2> QED
    BY <2>4 DEF Backlog!Next
<1>2. CASE Insert(e) \/ InsertFails(e) \/ Purge(e)
  <2>1. /\ UNCHANGED cycle /\ \A x \in Events : x # e => status'[x] = status[x]
        /\ \/ status[e] \in {"none", "inserting"} /\ status'[e] \in {"inserting", "dropped"}
           \/ status[e] = "completed" /\ status'[e] = "purged"
    BY <1>2 DEF Insert, InsertFails, Purge, TypeOK
  <2>2. \A x \in Events : Place(x)' = Place(x)
    BY <2>1 DEF Place
  <2> QED
    BY <2>1, <2>2, BacklogKept
<1> QED
  BY <1>1, <1>2 DEF Event

\* What waits is claimed, for a cycle or for nobody.
LEMMA ClaimStep ==
  ASSUME TypeOK, Mark(Claims, "processing")
  PROVE  Backlog!Move(Backlog!In("waiting"), "taken") /\ Claims = Backlog!In("waiting")
<1>1. Claims = Backlog!In("waiting") /\ Claims \in SUBSET Events
  BY PlacesAre DEF Claims, Backlog!In, Pending
<1>3. [e \in Events |-> Place(e)]' = [e \in Events |-> IF e \in Claims THEN "taken" ELSE [x \in Events |-> Place(x)][e]]
  BY <1>1, MarkMoves
<1> QED
  BY <1>1, <1>3 DEF Backlog!Move

\* Rows are completed: those a cycle holds that are not settled yet.
LEMMA CompleteStep ==
  ASSUME RoomInv, NEW c \in Cycles, NEW events \in SUBSET cycle[c].events, NEW by, MarkCompleted(events, by)
  PROVE  Backlog!Move(events, "settled")
<1> TypeOK
  BY DEF RoomInv
<1>1. events \in SUBSET Events /\ Completes(events) \in SUBSET Events /\ Mark(Completes(events), "completed")
  BY DEF TypeOK, CycleRecord, Completes, MarkCompleted
<1>3. [e \in Events |-> Place(e)]'
        = [e \in Events |-> IF e \in Completes(events) THEN "settled" ELSE [x \in Events |-> Place(x)][e]]
  BY <1>1, MarkMoves
<1>4. \A e \in events \ Completes(events) : Place(e) = "settled"
  <2>1. \A e \in events : status[e] \in {"processing", "completed", "purged"}
    BY DEF RoomInv, HeldIsTaken
  <2> QED
    BY <1>1, <2>1, PlacesAre DEF Completes
<1>5. Completes(events) \subseteq events
  BY DEF Completes
<1>6. [e \in Events |-> Place(e)]' = [e \in Events |-> IF e \in events THEN "settled" ELSE [x \in Events |-> Place(x)][e]]
  BY <1>1, <1>3, <1>4, <1>5
<1> QED
  BY <1>6 DEF Backlog!Move

\* Cycles that end without completing anything let go of what they hold.
LEMMA LetGoStep ==
  ASSUME NEW cycles \in SUBSET Cycles, UNCHANGED status,
         \A c \in cycles : cycle'[c].events = {}, \A c \in Cycles \ cycles : cycle'[c] = cycle[c]
  PROVE  Backlog!LetGo(cycles)
<1>1. [e \in Events |-> Place(e)]' = [e \in Events |-> Place(e)]
  BY DEF Place
<1>2. [c \in Cycles |-> cycle[c].events]'
        = [c \in Cycles |-> IF c \in cycles THEN {} ELSE [d \in Cycles |-> cycle[d].events][c]]
  OBVIOUS
<1> QED
  BY <1>1, <1>2 DEF Backlog!LetGo

\* A cycle that is over holds nothing, and the others what they held.
LEMMA EndHolds ==
  ASSUME TypeOK, NEW c \in Cycles, EndCycle(c)
  PROVE  /\ cycle'[c].events = {} /\ \A d \in Cycles : d # c => cycle'[d] = cycle[d]
         /\ [d \in Cycles |-> cycle[d].events]' = [[d \in Cycles |-> cycle[d].events] EXCEPT ![c] = {}]
BY DEF EndCycle, Free, TypeOK

\* The steps of a cycle.
LEMMA CycleSteps ==
  ASSUME RoomInv, OpeningHoldsNothing, NEW c \in Cycles,
         CycleStep(c) \/ OpenFails(c) \/ ToolMarks(c) \/ CycleFails(c)
  PROVE  Backlog!Next \/ UNCHANGED Backlog!vars
<1> TypeOK
  BY DEF RoomInv
<1>1. CASE Claim(c)
  <2>1. Mark(Claims, "processing") /\ cycle[c].events = {}
    BY <1>1 DEF Claim, OpeningHoldsNothing
  <2>2. Backlog!Move(Backlog!In("waiting"), "taken") /\ Claims = Backlog!In("waiting")
    BY <2>1, ClaimStep
  <2>3. [d \in Cycles |-> cycle[d].events]' = [[d \in Cycles |-> cycle[d].events] EXCEPT ![c] = Claims]
    <3>1. CASE EndCycle(c) /\ Claims = {}
      BY <3>1, EndHolds
    <3>2. CASE cycle' = [cycle EXCEPT ![c].pc = "claimed", ![c].events = Claims]
      BY <3>2 DEF TypeOK, CycleRecord
    <3> QED
      BY <1>1, <3>1, <3>2 DEF Claim
  <2>4. Backlog!Take(c)
    BY <2>1, <2>2, <2>3 DEF Backlog!Take
  <2> QED
    BY <2>4 DEF Backlog!Next
<1>2. CASE GiveToModel(c)
  <2>1. UNCHANGED status /\ \A d \in Cycles : cycle'[d].events = cycle[d].events
    BY <1>2 DEF GiveToModel, rows, TypeOK, CycleRecord
  <2> QED
    BY <2>1, SameRows
<1>3. CASE Finish(c)
  <2>1. MarkCompleted(cycle[c].events, "cycle") /\ EndCycle(c)
    BY <1>3 DEF Finish
  <2>2. Backlog!Move(cycle[c].events, "settled")
    BY <2>1, CompleteStep
  <2>3. Backlog!Finish(c)
    BY <2>1, <2>2, EndHolds DEF Backlog!Finish
  <2> QED
    BY <2>3 DEF Backlog!Next
<1>4. CASE ToolMarks(c)
  <2>1. PICK e \in cycle[c].events : MarkCompleted({e}, "tool")
    BY <1>4 DEF ToolMarks
  <2>2. UNCHANGED cycle
    BY <1>4 DEF ToolMarks
  <2>3. {e} \in SUBSET cycle[c].events /\ {e} \in SUBSET Events
    BY DEF TypeOK, CycleRecord
  <2>4. Backlog!Move({e}, "settled")
    BY <2>1, <2>3, CompleteStep
  <2>5. Backlog!Resolve(c, {e})
    BY <2>2, <2>3, <2>4 DEF Backlog!Resolve
  <2> QED
    BY <2>3, <2>5 DEF Backlog!Next
<1>5. CASE OpenFails(c) \/ CycleFails(c)
  <2>1. EndCycle(c) /\ UNCHANGED status
    BY <1>5 DEF OpenFails, CycleFails, rows
  <2>2. Backlog!LetGo({c})
    BY <2>1, EndHolds, LetGoStep
  <2> QED
    BY <2>2 DEF Backlog!Next
<1> QED
  BY <1>1, <1>2, <1>3, <1>4, <1>5 DEF CycleStep

\* Processes start cycles, stop, and put back what is processing.
LEMMA ProcessSteps ==
  ASSUME RoomInv, NoCycleAtBoot, NEW p \in Procs,
         \/ TickReads(p) \/ TickStarts(p) \/ HumanWrites(p) \/ StrayClaim(p)
         \/ Stop(p) \/ Boot(p) \/ BootFails(p)
  PROVE  Backlog!Next \/ UNCHANGED Backlog!vars
<1> TypeOK
  BY DEF RoomInv
<1>1. ASSUME NEW human, Open(p, human) PROVE \A c \in Cycles : cycle'[c].events = cycle[c].events
  <2>1. PICK c \in Cycles : /\ At(c, "free")
                            /\ cycle' = [cycle EXCEPT ![c] = [Free EXCEPT !.proc = p, !.pc = "opening", !.human = human]]
    BY <1>1 DEF Open
  <2>2. cycle[c].events = {}
    BY <2>1 DEF RoomInv, RunningIsMarked
  <2> QED
    BY <2>1, <2>2 DEF TypeOK, Free
<1>2. CASE TickReads(p) \/ TickStarts(p) \/ HumanWrites(p) \/ BootFails(p)
  <2>1. UNCHANGED status /\ (UNCHANGED cycle \/ Open(p, FALSE) \/ Open(p, TRUE))
    BY <1>2 DEF TickReads, TickStarts, HumanWrites, BootFails, rows
  <2> QED
    BY <1>1, <2>1, SameRows
<1>3. CASE StrayClaim(p)
  <2>1. Mark(Claims, "processing") /\ UNCHANGED cycle
    BY <1>3 DEF StrayClaim
  <2>2. Backlog!TakeForNobody
    BY <2>1, ClaimStep DEF Backlog!TakeForNobody
  <2> QED
    BY <2>2 DEF Backlog!Next
<1>4. CASE Stop(p)
  <2> PICK stopped \in SUBSET Cycles : stopped = {c \in Cycles : cycle[c].proc = p}
    OBVIOUS
  <2>1. UNCHANGED status /\ cycle' = [c \in Cycles |-> IF cycle[c].proc = p THEN Free ELSE cycle[c]]
    BY <1>4 DEF Stop, rows
  <2>2. \A c \in stopped : cycle'[c].events = {}
    BY <2>1 DEF Free
  <2>3. \A c \in Cycles \ stopped : cycle'[c] = cycle[c]
    BY <2>1
  <2>4. Backlog!LetGo(stopped)
    BY <2>1, <2>2, <2>3, LetGoStep
  <2> QED
    BY <2>4 DEF Backlog!Next
<1>5. CASE Boot(p)
  <2>1. Mark(Processing, "pending") /\ UNCHANGED cycle /\ \A c \in Cycles : cycle[c].events = {}
    BY <1>5 DEF Boot, PutsBack, Fresh, RoomInv, RunningIsMarked
  <2>3. Processing \in SUBSET Events /\ Processing = Backlog!In("taken")
    BY PlacesAre DEF Processing, Backlog!In
  <2>4. [e \in Events |-> Place(e)]'
          = [e \in Events |-> IF e \in Processing THEN "waiting" ELSE [x \in Events |-> Place(x)][e]]
    BY <2>1, <2>3, MarkMoves
  <2>5. Backlog!PutBack
    BY <2>1, <2>3, <2>4 DEF Backlog!PutBack, Backlog!Move
  <2> QED
    BY <2>5 DEF Backlog!Next
<1> QED
  BY <1>2, <1>3, <1>4, <1>5

LEMMA OpeningStep ==
  ASSUME RoomInv, OpeningHoldsNothing, [Next]_vars
  PROVE  OpeningHoldsNothing'
<1> USE DEF RoomInv, TypeOK, CycleRecord, OpeningHoldsNothing, At, Free
<1>1. ASSUME NEW p \in Procs, NEW human, Open(p, human) PROVE OpeningHoldsNothing'
  BY <1>1 DEF Open
<1>2. ASSUME NEW c \in Cycles, EndCycle(c) PROVE OpeningHoldsNothing'
  BY <1>2 DEF EndCycle
<1>3. ASSUME NEW c \in Cycles, Claim(c) \/ GiveToModel(c), ~EndCycle(c) PROVE OpeningHoldsNothing'
  BY <1>3 DEF Claim, GiveToModel
<1>4. ASSUME NEW p \in Procs, Stop(p) PROVE OpeningHoldsNothing'
  BY <1>4 DEF Stop
<1>5. CASE UNCHANGED cycle
  BY <1>5
<1>6. ASSUME NEW p \in Procs, TickStarts(p) \/ HumanWrites(p) PROVE OpeningHoldsNothing'
  BY <1>1, <1>5, <1>6 DEF TickStarts, HumanWrites
<1>7. ASSUME NEW c \in Cycles, CycleStep(c) \/ OpenFails(c) \/ CycleFails(c) PROVE OpeningHoldsNothing'
  BY <1>2, <1>3, <1>7 DEF CycleStep, Finish, OpenFails, CycleFails
<1> QED
  BY <1>4, <1>5, <1>6, <1>7 DEF Next, Event, Insert, CommitInsert, InsertFails, Purge, SwitchRoom, TickReads,
     StrayClaim, ToolMarks, Boot, BootFails, vars

\* Claiming by one statement implements the backlog that EventBacklog specifies: what a
\* cycle holds is nobody else's, and what is completed does not come back.
THEOREM RoomImplementsBacklog == NoCycleAtBoot => (Spec => ImplementsBacklog)
<1> SUFFICES ASSUME NoCycleAtBoot PROVE Spec => ImplementsBacklog
  OBVIOUS
<1>1. Init => Backlog!Init /\ OpeningHoldsNothing
  BY DEF Init, Backlog!Init, OpeningHoldsNothing, Place, Free, At
<1>2. RoomInv /\ OpeningHoldsNothing /\ [Next]_vars => OpeningHoldsNothing'
  BY OpeningStep
<1>3. RoomInv /\ OpeningHoldsNothing /\ [Next]_vars => [Backlog!Next]_(Backlog!vars)
  <2> SUFFICES ASSUME RoomInv, OpeningHoldsNothing, [Next]_vars
               PROVE  Backlog!Next \/ UNCHANGED Backlog!vars
    OBVIOUS
  <2>1. CASE SwitchRoom \/ UNCHANGED vars
    BY <2>1, SameRows DEF SwitchRoom, vars, rows
  <2>2. ASSUME NEW e \in Events, Event(e) PROVE Backlog!Next \/ UNCHANGED Backlog!vars
    BY <2>2, EventStep DEF RoomInv
  <2> QED
    BY <2>1, <2>2, CycleSteps, ProcessSteps DEF Next
<1> QED
  BY <1>1, <1>2, <1>3, BacklogIsInvariant, PTL DEF Spec, ImplementsBacklog, Backlog!Spec
=============================================================================
