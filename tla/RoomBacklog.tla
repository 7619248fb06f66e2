---------------------------- MODULE RoomBacklog ----------------------------
(***************************************************************************)
(* room/ and webhooks/webhook-backlog.store.ts: the event backlog of one   *)
(* Room, the ticks that find events in it, the cycles that claim them and  *)
(* put them to the model, and the boot that puts back what a process left. *)
(* Rooms share nothing, so one is enough.                                  *)
(*                                                                         *)
(* Every step is one database statement or transaction, or one resumption  *)
(* after an await.  Cycles are slots: a cycle that is over frees its slot. *)
(***************************************************************************)
EXTENDS Naturals, FiniteSets

CONSTANTS
  Procs,          \* engine processes
  Cycles,         \* slots for calls of executeRoomCycle
  Events,         \* bound: webhook events that match a definition
  Cap,            \* BACKLOG_CAP
  MaxStops,       \* bound: processes that stop
  MaxThrows,      \* bound: calls that throw
  NoCycleAtBoot   \* does a process only start while no cycle runs elsewhere?

ASSUME RoomAssumption ==
  /\ Cap \in Nat
  /\ MaxStops \in Nat
  /\ MaxThrows \in Nat
  /\ NoCycleAtBoot \in BOOLEAN

VARIABLES
  status,    \* each event's row in event_backlog, or what became of its INSERT
  notes,     \* react_notes: who completed the event
  enabled,   \* the Room is enabled
  up,        \* is each process up?
  running,   \* running.has(room), in each process
  seen,      \* a tick has counted pending events and not yet looked at running
  cycle,     \* the cycles under way
  stray,     \* a claim whose cycle has failed meanwhile is still under way
  stops,     \* processes stopped so far
  throws,    \* calls thrown so far
  given,     \* history: events put to the model since they were last put back
  broken     \* history: a cycle or a recovery has failed since the last recovery

rows == <<status, notes>>
vars == <<rows, enabled, up, running, seen, cycle, stray, stops, throws, given, broken>>

Free == [proc |-> "none", pc |-> "free", human |-> FALSE, events |-> {}]

At(c, pc) == cycle[c].pc = pc

Pending    == {e \in Events : status[e] = "pending"}
Processing == {e \in Events : status[e] = "processing"}

Init ==
  /\ status = [e \in Events |-> "none"]
  /\ notes = [e \in Events |-> "none"]
  /\ enabled = TRUE
  /\ up = [p \in Procs |-> TRUE]
  /\ running = [p \in Procs |-> FALSE]
  /\ seen = [p \in Procs |-> FALSE]
  /\ cycle = [c \in Cycles |-> Free]
  /\ stray = [p \in Procs |-> FALSE]
  /\ stops = 0
  /\ throws = 0
  /\ given = {}
  /\ broken = FALSE

\* A call throws.
Throw == throws < MaxThrows /\ throws' = throws + 1

-----------------------------------------------------------------------------
(* Webhook events.                                                         *)

\* insertEvent.  Its SELECT count(*) sees the rows committed when the statement
\* starts, so two inserts under way do not see each other.
Insert(e) ==
  /\ status[e] = "none"
  /\ enabled
  /\ status' = [status EXCEPT ![e] = IF Cardinality(Pending) < Cap THEN "inserting" ELSE "dropped"]
  /\ UNCHANGED <<notes, enabled, up, running, seen, cycle, stray, stops, throws, given, broken>>

CommitInsert(e) ==
  /\ status[e] = "inserting"
  /\ status' = [status EXCEPT ![e] = "pending"]
  /\ UNCHANGED <<notes, enabled, up, running, seen, cycle, stray, stops, throws, given, broken>>

InsertFails(e) ==
  /\ status[e] = "inserting"
  /\ Throw
  /\ status' = [status EXCEPT ![e] = "dropped"]
  /\ UNCHANGED <<notes, enabled, up, running, seen, cycle, stray, stops, given, broken>>

\* deleteOldCompletedBacklog.
Purge(e) ==
  /\ status[e] = "completed"
  /\ status' = [status EXCEPT ![e] = "purged"]
  /\ UNCHANGED <<notes, enabled, up, running, seen, cycle, stray, stops, throws, given, broken>>

\* An operator switches the Room off or on.
SwitchRoom ==
  /\ enabled' = ~enabled
  /\ UNCHANGED <<rows, up, running, seen, cycle, stray, stops, throws, given, broken>>

-----------------------------------------------------------------------------
(* Starting a cycle.                                                       *)

\* tick: the enabled rooms and the pending events are read (a tick that overlaps
\* another one reads after it) ...
TickReads(p) ==
  /\ up[p]
  /\ ~seen[p]
  /\ enabled
  /\ Pending # {}
  /\ seen' = [seen EXCEPT ![p] = TRUE]
  /\ UNCHANGED <<rows, enabled, up, running, cycle, stray, stops, throws, given, broken>>

\* Mutant: a tick does not look whether the room is running.
StartsAnyway(p) == TRUE

MayStart(p) == ~running[p]

Open(p, human) ==
  /\ MayStart(p)
  /\ running' = [running EXCEPT ![p] = TRUE]
  /\ \E c \in Cycles :
        /\ At(c, "free")
        /\ cycle' = [cycle EXCEPT ![c] = [Free EXCEPT !.proc = p, !.pc = "opening", !.human = human]]

\* ... and a cycle is started unless one is running in this process.
TickStarts(p) ==
  /\ seen[p]
  /\ seen' = [seen EXCEPT ![p] = FALSE]
  /\ Open(p, FALSE) \/ (~MayStart(p) /\ UNCHANGED <<running, cycle>>)
  /\ UNCHANGED <<rows, enabled, up, stray, stops, throws, given, broken>>

\* triggerImmediate, from a Room configuration cached for half a minute: the
\* Room may be disabled by now.  A message that finds it running is dropped.
HumanWrites(p) ==
  /\ up[p]
  /\ Open(p, TRUE)
  /\ UNCHANGED <<rows, enabled, up, seen, stray, stops, throws, given, broken>>

-----------------------------------------------------------------------------
(* executeRoomCycle.                                                       *)

\* The cycle is over, and the finally block of its caller has run.
EndCycle(c) ==
  /\ cycle' = [cycle EXCEPT ![c] = Free]
  /\ running' = [running EXCEPT ![cycle[c].proc] = FALSE]

\* Mutant: the claim takes what is not completed, processing rows included.
ClaimsOpen == Pending \union Processing

\* The rows listAndMarkPendingEventsProcessing locks and marks.
Claims == Pending

Mark(events, to) == status' = [e \in Events |-> IF e \in events THEN to ELSE status[e]]

\* With neither events nor a message there is nothing to do; else it no longer matters who began it.
Claim(c) ==
  /\ At(c, "opening")
  /\ Mark(Claims, "processing")
  /\ IF Claims = {} /\ ~cycle[c].human
     THEN EndCycle(c)
     ELSE /\ cycle' = [cycle EXCEPT ![c].pc = "claimed", ![c].human = FALSE, ![c].events = Claims]
          /\ UNCHANGED running
  /\ UNCHANGED <<notes, enabled, up, seen, stray, stops, throws, given, broken>>

\* One of the three calls of the Promise.all throws, or the one before it.  The
\* claim may be under way by then; it goes on without the cycle.
OpenFails(c) ==
  /\ At(c, "opening")
  /\ Throw
  /\ EndCycle(c)
  /\ stray' \in {stray, [stray EXCEPT ![cycle[c].proc] = TRUE]}
  /\ broken' = TRUE
  /\ UNCHANGED <<rows, enabled, up, seen, stops, given>>

StrayClaim(p) ==
  /\ stray[p]
  /\ stray' = [stray EXCEPT ![p] = FALSE]
  /\ Mark(Claims, "processing")
  /\ UNCHANGED <<notes, enabled, up, running, seen, cycle, stops, throws, given, broken>>

\* The message is built and the model called.
GiveToModel(c) ==
  /\ At(c, "claimed")
  /\ cycle' = [cycle EXCEPT ![c].pc = "handling"]
  /\ given' = given \union cycle[c].events
  /\ UNCHANGED <<rows, enabled, up, running, seen, stray, stops, throws, broken>>

\* Mutant: a row is completed whatever its status.
CompletesAll(events) == events

\* The WHERE of markEventsCompleted.
Completes(events) == {e \in events : status[e] = "processing"}

MarkCompleted(events, by) ==
  /\ Mark(Completes(events), "completed")
  /\ notes' = [e \in Events |-> IF e \in Completes(events) THEN by ELSE notes[e]]

\* The model calls mark_events_completed.
ToolMarks(c) ==
  /\ At(c, "handling")
  /\ \E e \in cycle[c].events : MarkCompleted({e}, "tool")
  /\ UNCHANGED <<enabled, up, running, seen, cycle, stray, stops, throws, given, broken>>

\* The model has answered, or failed: either way the events are completed.  What
\* follows (the conversation id, the activity log) only keeps the room running longer.
Finish(c) ==
  /\ At(c, "handling")
  /\ MarkCompleted(cycle[c].events, "cycle")
  /\ EndCycle(c)
  /\ UNCHANGED <<enabled, up, seen, stray, stops, throws, given, broken>>

\* A call before or after the model's throws: what was claimed stays so.
CycleFails(c) ==
  /\ At(c, "claimed") \/ At(c, "handling")
  /\ Throw
  /\ EndCycle(c)
  /\ broken' = TRUE
  /\ UNCHANGED <<rows, enabled, up, seen, stray, stops, given>>

-----------------------------------------------------------------------------
(* Processes stop and start.                                               *)

\* A crash, or a shutdown: it stops the ticks and does not wait for a cycle.
Stop(p) ==
  /\ up[p]
  /\ stops < MaxStops
  /\ stops' = stops + 1
  /\ up' = [up EXCEPT ![p] = FALSE]
  /\ running' = [running EXCEPT ![p] = FALSE]
  /\ seen' = [seen EXCEPT ![p] = FALSE]
  /\ stray' = [stray EXCEPT ![p] = FALSE]
  /\ cycle' = [c \in Cycles |-> IF cycle[c].proc = p THEN Free ELSE cycle[c]]
  /\ UNCHANGED <<rows, enabled, throws, given, broken>>

\* "A fresh engine has no running cycle by definition."
Fresh == NoCycleAtBoot => (\A c \in Cycles : At(c, "free")) /\ \A p \in Procs : ~stray[p]

\* Mutants: the boot puts nothing back, or the completed rows too.
PutsBackNone == {}
PutsBackAll  == {e \in Events : status[e] \in {"processing", "completed"}}

\* The rows resetStuckProcessingEvents names.
PutsBack == Processing

Boot(p) ==
  /\ ~up[p]
  /\ Fresh
  /\ up' = [up EXCEPT ![p] = TRUE]
  /\ Mark(PutsBack, "pending")
  /\ given' = given \ PutsBack
  /\ broken' = FALSE
  /\ UNCHANGED <<notes, enabled, running, seen, cycle, stray, stops, throws>>

\* The reset throws: logged, and the boot goes on.
BootFails(p) ==
  /\ ~up[p]
  /\ Throw
  /\ up' = [up EXCEPT ![p] = TRUE]
  /\ broken' = TRUE
  /\ UNCHANGED <<rows, enabled, running, seen, cycle, stray, stops, given>>

-----------------------------------------------------------------------------
Event(e) == Insert(e) \/ CommitInsert(e) \/ InsertFails(e) \/ Purge(e)

CycleStep(c) == Claim(c) \/ GiveToModel(c) \/ Finish(c)

Next ==
  \/ \E e \in Events : Event(e)
  \/ SwitchRoom
  \/ \E p \in Procs : TickReads(p) \/ TickStarts(p) \/ HumanWrites(p) \/ StrayClaim(p)
  \/ \E c \in Cycles : CycleStep(c) \/ OpenFails(c) \/ ToolMarks(c) \/ CycleFails(c)
  \/ \E p \in Procs : Stop(p) \/ Boot(p) \/ BootFails(p)

Spec == Init /\ [][Next]_vars

\* Ticks come, whatever became of the ones before, and a process that stopped is
\* started again.  Nothing makes a cycle end: its turn has no abort signal, and
\* neither its tools nor its statements have a timeout.
Fairness ==
  \A p \in Procs : WF_vars(TickReads(p)) /\ WF_vars(TickStarts(p)) /\ WF_vars(Boot(p))

FairSpec == Spec /\ Fairness

-----------------------------------------------------------------------------
(* Properties.                                                             *)

Live(c) == ~At(c, "free")

CycleRecord ==
  [proc : Procs \union {"none"}, pc : {"free", "opening", "claimed", "handling"},
   human : BOOLEAN, events : SUBSET Events]

\* A row has notes once it is completed, and only then.
NotesOfCompleted ==
  \A e \in Events : notes[e] # "none" <=> status[e] \in {"completed", "purged"}

\* The variables have their types.
TypeOK ==
  /\ NotesOfCompleted
  /\ status \in [Events -> {"none", "inserting", "dropped", "pending", "processing", "completed", "purged"}]
  /\ notes \in [Events -> {"none", "tool", "cycle"}]
  /\ enabled \in BOOLEAN
  /\ up \in [Procs -> BOOLEAN]
  /\ running \in [Procs -> BOOLEAN]
  /\ seen \in [Procs -> BOOLEAN]
  /\ cycle \in [Cycles -> CycleRecord]
  /\ stray \in [Procs -> BOOLEAN]
  /\ stops \in 0..MaxStops
  /\ throws \in 0..MaxThrows
  /\ given \in SUBSET Events
  /\ broken \in BOOLEAN

\* Two cycles never work on the same event, in one process or in two: what a
\* cycle does for an event (a message, a booking) is not done twice at once.
HeldByOne ==
  \A c, d \in Cycles : c # d => cycle[c].events \intersect cycle[d].events = {}

\* A process runs one cycle of a Room at a time, though ticks may overlap and a
\* person may write while one is counting.
OneCyclePerProcess ==
  \A c, d \in Cycles : (Live(c) /\ Live(d) /\ cycle[c].proc = cycle[d].proc) => c = d

\* An event is put to the model again only after a boot has put it back: not by
\* the next tick, and not because the cycle that had it failed.
GivenOnce ==
  [][\A c \in Cycles : (At(c, "claimed") /\ cycle'[c].pc = "handling")
                        => cycle[c].events \intersect given = {}]_vars

\* "Must not be overwritten": what the model resolved with its tool keeps the
\* notes the tool wrote, although the cycle completes its events at the end.
ResolutionKept ==
  [][\A e \in Events : notes[e] = "tool" => notes'[e] = "tool"]_vars

\* "Do NOT use for events that still need follow-up - leave them in the backlog":
\* what the model of a cycle has not marked completed is not completed.
FollowUpStays ==
  [][\A e \in Events : notes'[e] # notes[e] => notes'[e] = "tool"]_vars

\* What an event's row says to who would claim it.
Place(e) ==
  CASE status[e] = "pending"                 -> "waiting"
    [] status[e] = "processing"              -> "taken"
    [] status[e] \in {"completed", "purged"} -> "settled"
    [] OTHER                                 -> "outside"

\* Marking and claiming in one statement is enough: an event that a cycle has claimed is
\* neither claimed by another nor put back under it, and one that is completed stays so.
Backlog == INSTANCE EventBacklog WITH
             place <- [e \in Events |-> Place(e)],
             hold  <- [c \in Cycles |-> cycle[c].events]

ImplementsBacklog == Backlog!Spec

\* No cycle hangs: none is under way for ever.
CyclesEnd == \A c \in Cycles : []<>(~Live(c))

\* Unless a cycle hangs, which keeps its room running and its events processing with
\* nobody to reap it, every pending event is completed by a cycle of an enabled Room, and
\* so is one that a process left processing once a boot has put it back.
PendingIsCompleted ==
  CyclesEnd =>
    \A e \in Events : (status[e] \in {"pending", "processing"})
       ~> (status[e] \in {"completed", "purged"} \/ ~enabled \/ broken \/ \E p \in Procs : ~up[p])

-----------------------------------------------------------------------------
(* The inductive invariant behind the safety properties.                   *)

\* An event a cycle holds is not there for another one to claim.
HeldIsTaken ==
  \A c \in Cycles : \A e \in cycle[c].events : status[e] \in {"processing", "completed", "purged"}

\* A pending event has not been put to the model, nor has one just claimed.
PendingIsNotGiven ==
  /\ \A e \in Events : status[e] \in {"none", "inserting", "dropped", "pending"} => e \notin given
  /\ \A c \in Cycles : At(c, "claimed") => cycle[c].events \intersect given = {}

\* A process is marked as running while it has a cycle; a free slot holds nothing.
RunningIsMarked ==
  /\ \A c \in Cycles : Live(c) => cycle[c].proc \in Procs /\ running[cycle[c].proc]
  /\ \A c \in Cycles : At(c, "free") => cycle[c].events = {} /\ cycle[c].proc = "none"

RoomInv ==
  /\ TypeOK
  /\ HeldIsTaken
  /\ HeldByOne
  /\ PendingIsNotGiven
  /\ RunningIsMarked
  /\ OneCyclePerProcess

\* A cycle that has not claimed yet holds nothing.
OpeningHoldsNothing == \A c \in Cycles : At(c, "opening") => cycle[c].events = {}
=============================================================================
