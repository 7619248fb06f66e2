---------------------------- MODULE Coordinator ----------------------------
(***************************************************************************)
(* channels/message-coordinator.ts: the fragment debouncer of WhatsApp and *)
(* Telegram, with the part of a turn (pipeline.ts) that a cancellation can *)
(* interleave with.  One conversation: every field of the coordinator is   *)
(* keyed by the conversation and no operation touches two keys, except     *)
(* shutdown, which does to each key what Shutdown does here.               *)
(*                                                                         *)
(* Fragments are numbered in arrival order.  An attachment travels with    *)
(* its fragment (the code moves both lists at the same places), so one     *)
(* sequence stands for both.  Runs are numbered in the order their timer   *)
(* fired, which is the order of flushChain; run done + 1 is the one that   *)
(* is executing or starts next.                                            *)
(*                                                                         *)
(* JavaScript runs every microtask before the next timer or I/O callback,  *)
(* so a chain step that is ready runs before anything else: timers,        *)
(* arrivals and I/O completions are guarded by Quiet.                      *)
(***************************************************************************)
EXTENDS Naturals, Sequences, FiniteSets

CONSTANTS
  MaxFragments,   \* bound: fragments that arrive
  MaxRestarts,    \* timings.maxRestarts
  TypingDelay,    \* timings.typingDelayMs (only its being 0 matters)
  SentHooksWait   \* does the turn wait (hooks, hook lookup) after it was saved?

ASSUME CoordinatorAssumption ==
  /\ MaxFragments \in Nat
  /\ MaxRestarts \in Nat
  /\ TypingDelay \in Nat
  /\ SentHooksWait \in BOOLEAN

VARIABLES
  arrived,      \* number of fragments handed to onMessage
  starting,     \* fragments of a burst whose timings are being read: owner, then waiters
  live,         \* states.has(key)
  buffer,       \* state.buffer (and attachments)
  timer,        \* state.pipelineTimer is armed
  typingTimer,  \* state.typingTimer is armed
  typingSent,   \* state.typingSent
  current,      \* state.currentAbort: the run it belongs to, 0 for null
  restarts,     \* state.restartCount
  toolStarted,  \* state.toolStarted
  fired,        \* runs appended to flushChain so far in this burst
  done,         \* runs of flushChain that have ended
  aborted,      \* runs whose signal is aborted
  phase,        \* where the executing run is
  taken,        \* its snapshot of the fragments
  toolRun,      \* history: the executing run has run a tool
  saved,        \* history: fragments stored in the conversation by a turn
  answered,     \* history: fragments of the runs that were finalized
  tries,        \* history: runs started since the last one that was finalized
  down          \* shutdown() was called

burst    == <<live, buffer, timer, typingTimer, typingSent, current, restarts, toolStarted>>
runVars  == <<fired, done, aborted, phase, taken, toolRun, saved, answered, tries>>
vars     == <<arrived, starting, burst, runVars, down>>

-----------------------------------------------------------------------------
Active == done + 1

Run    == 1..fired

\* A chain step is ready: flushChain's previous run has ended and another waits.
ChainReady == phase = "idle" /\ done < fired

\* No microtask is left to run.  A saved turn that has nothing to wait for
\* returns to the coordinator within the same microtasks.
Quiet == ~ChainReady /\ (phase = "saved" => SentHooksWait)

Init ==
  /\ arrived = 0
  /\ starting = <<>>
  /\ live = FALSE
  /\ buffer = <<>>
  /\ timer = FALSE
  /\ typingTimer = FALSE
  /\ typingSent = FALSE
  /\ current = 0
  /\ restarts = 0
  /\ toolStarted = FALSE
  /\ fired = 0
  /\ done = 0
  /\ aborted = {}
  /\ phase = "idle"
  /\ taken = <<>>
  /\ toolRun = FALSE
  /\ saved = {}
  /\ answered = <<>>
  /\ tries = 0
  /\ down = FALSE

-----------------------------------------------------------------------------
(* Fragments arrive.                                                       *)

\* No state for the conversation: the first caller reads the timings
\* (startBurst), the ones after it wait for its promise.
StartBurst ==
  /\ ~live
  /\ starting' = Append(starting, arrived')
  /\ UNCHANGED <<burst, runVars>>

\* Mutants: the cap, or the tool that has started, is not looked at.
MaySupersedeUncapped == ~toolStarted
MaySupersedeAnyway   == restarts < MaxRestarts

\* The run in flight may be cancelled for a new fragment.
MaySupersede == restarts < MaxRestarts /\ ~toolStarted

\* Mutant: the cancelled run's window is not opened again.
ArmedBySupersede == timer

\* armPipelineTimer, after a cancellation.
RearmedTimer == TRUE

\* A run is in flight and may still be superseded.
Supersede ==
  /\ live
  /\ current # 0
  /\ MaySupersede
  /\ aborted' = aborted \union {current}
  /\ current' = 0
  /\ restarts' = restarts + 1
  /\ timer' = RearmedTimer
  /\ buffer' = Append(buffer, arrived')
  /\ UNCHANGED <<starting, live, typingTimer, typingSent, toolStarted,
                 fired, done, phase, taken, toolRun, saved, answered, tries>>

\* Restarts used up, or a tool has started: the fragment waits for the run.
Accumulate ==
  /\ live
  /\ current # 0
  /\ ~MaySupersede
  /\ buffer' = Append(buffer, arrived')
  /\ UNCHANGED <<starting, live, timer, typingTimer, typingSent, current, restarts,
                 toolStarted, runVars>>

\* No controller: the debounce window slides.
Debounce ==
  /\ live
  /\ current = 0
  /\ buffer' = Append(buffer, arrived')
  /\ timer' = TRUE
  /\ typingTimer' = (typingTimer \/ ~typingSent)
  /\ UNCHANGED <<starting, live, typingSent, current, restarts, toolStarted, runVars>>

OnMessage ==
  /\ Quiet
  /\ ~down
  /\ arrived < MaxFragments
  /\ arrived' = arrived + 1
  /\ UNCHANGED down
  /\ StartBurst \/ Supersede \/ Accumulate \/ Debounce

\* The timings are read: the owner installs the state, and the waiters, resumed
\* in the microtasks that follow, append to it.  A new state has a new chain.
InstallState ==
  /\ Quiet
  /\ starting # <<>>
  /\ starting' = <<>>
  /\ live' = TRUE
  /\ buffer' = starting
  /\ timer' = TRUE
  /\ typingTimer' = TRUE
  /\ typingSent' = FALSE
  /\ current' = 0
  /\ restarts' = 0
  /\ toolStarted' = FALSE
  /\ fired' = 0
  /\ done' = 0
  /\ aborted' = {}
  /\ UNCHANGED <<arrived, phase, taken, toolRun, saved, answered, tries, down>>

-----------------------------------------------------------------------------
(* Timers.                                                                 *)

OnTypingTimer ==
  /\ Quiet
  /\ typingTimer
  /\ typingTimer' = FALSE
  /\ typingSent' = TRUE
  /\ UNCHANGED <<arrived, starting, live, buffer, timer, current, restarts, toolStarted,
                 runVars, down>>

\* The new controller replaces whatever currentAbort held, and the run is
\* appended to flushChain.
OnPipelineTimer ==
  /\ Quiet
  /\ timer
  /\ timer' = FALSE
  /\ fired' = fired + 1
  /\ current' = fired + 1
  /\ UNCHANGED <<arrived, starting, live, buffer, typingTimer, typingSent, restarts,
                 toolStarted, done, aborted, phase, taken, toolRun, saved, answered, tries, down>>

-----------------------------------------------------------------------------
(* The end of a run.                                                       *)

\* Mutants: fragments that came during the run are forgotten, and a settled
\* burst keeps the typing timer it armed.
LeftoverForgotten == FALSE
LingeringTyping   == typingTimer

\* Fragments accumulated while the run was in flight.
Leftover == buffer # <<>>

\* The typing timer of a burst that ends is cleared.
SettledTyping == FALSE

\* finalizePipeline.  Arming finds no state once shutdown has cleared the map.
FinalizePipeline ==
  /\ current' = IF current = Active THEN 0 ELSE current
  /\ restarts' = 0
  /\ toolStarted' = FALSE
  /\ typingSent' = FALSE
  /\ IF Leftover
     THEN /\ timer' = live
          /\ typingTimer' = (live /\ (typingTimer \/ TypingDelay > 0))
          /\ UNCHANGED live
     ELSE /\ timer' = FALSE
          /\ typingTimer' = SettledTyping
          /\ live' = FALSE

EndRun ==
  /\ phase' = "idle"
  /\ done' = Active
  /\ taken' = <<>>
  /\ toolRun' = FALSE
  /\ UNCHANGED <<arrived, starting, fired, aborted, down>>

\* The run counts as an answer: it replied, had nothing to say, or failed in
\* a way the caller has already turned into an apology.
FinishRun ==
  /\ answered' = answered \o taken
  /\ tries' = 0
  /\ FinalizePipeline
  /\ EndRun
  /\ UNCHANGED <<buffer, saved>>

\* Mutants: the snapshot is put behind the newer fragments, or is dropped.
RestoredAtTail == buffer \o taken
RestoredNever  == buffer

\* The buffer once the fragments of a cancelled run are back.
RestoredBuffer == taken \o buffer

\* restoreOnAbort: the snapshot goes back to the head of the buffer.
RestoreOnAbort ==
  /\ buffer' = RestoredBuffer
  /\ current' = IF current = Active THEN 0 ELSE current
  /\ EndRun
  /\ UNCHANGED <<live, timer, typingTimer, typingSent, restarts, toolStarted, saved, answered, tries>>

-----------------------------------------------------------------------------
(* The chain callback of onPipelineTimer.                                  *)

\* Superseded before it started.
SkipRun ==
  /\ ChainReady
  /\ Active \in aborted
  /\ EndRun
  /\ UNCHANGED <<burst, saved, answered, tries>>

\* Nothing left to answer.
EmptyRun ==
  /\ ChainReady
  /\ Active \notin aborted
  /\ buffer = <<>>
  /\ FinishRun

StartRun ==
  /\ ChainReady
  /\ Active \notin aborted
  /\ buffer # <<>>
  /\ taken' = buffer
  /\ buffer' = <<>>
  /\ toolStarted' = FALSE
  /\ phase' = "handling"
  /\ tries' = tries + 1
  /\ UNCHANGED <<arrived, starting, live, timer, typingTimer, typingSent, current, restarts,
                 fired, done, aborted, toolRun, saved, answered, down>>

-----------------------------------------------------------------------------
(* The turn: the handler, and doFlush around it.                           *)

\* A tool is about to run and the gate is asked.  A cancelled run gets no.
ToolGate ==
  /\ phase = "handling"
  /\ Active \notin aborted
  /\ toolRun' = TRUE
  /\ toolStarted' = (toolStarted \/ current = Active)
  /\ UNCHANGED <<arrived, starting, live, buffer, timer, typingTimer, typingSent, current,
                 restarts, fired, done, aborted, phase, taken, saved, answered, tries, down>>

\* Mutant: the gate after the state flush is missing.
PersistUngated == TRUE

\* The last abort gate of runPipelinePost.
PersistGate == Active \notin aborted

\* runPipelinePost: past the last abort gate the messages are written.
Persist ==
  /\ phase = "handling"
  /\ PersistGate
  /\ saved' = saved \union {taken[i] : i \in DOMAIN taken}
  /\ phase' = "saved"
  /\ UNCHANGED <<arrived, starting, burst, fired, done, aborted, taken, toolRun, answered, tries, down>>

Returns == phase \in {"handling", "saved"}

\* The handler threw or returned, and the run had been cancelled meanwhile.  An
\* AbortError of a run that was not cancelled would be taken for this too, but
\* nothing a turn calls raises one on its own.
ReturnCancelled ==
  /\ Returns
  /\ Active \in aborted
  /\ RestoreOnAbort

\* It returned no text (reply sent by a tool, silenced contact), or threw.
ReturnSilent ==
  /\ Returns
  /\ Active \notin aborted
  /\ FinishRun

\* It returned a text (a reply, or loggedPipeline's apology): doFlush awaits the send.
ReturnText ==
  /\ Returns
  /\ Active \notin aborted
  /\ phase' = "sending"
  /\ UNCHANGED <<arrived, starting, burst, fired, done, aborted, taken, toolRun, saved,
                 answered, tries, down>>

\* Delivered, or the adapter failed and the error was logged.
SendDone ==
  /\ phase = "sending"
  /\ FinishRun

-----------------------------------------------------------------------------
Shutdown ==
  /\ Quiet
  /\ ~down
  /\ down' = TRUE
  /\ IF live
     THEN /\ live' = FALSE
          /\ timer' = FALSE
          /\ typingTimer' = FALSE
          /\ aborted' = aborted \union ({current} \ {0})
     ELSE UNCHANGED <<live, timer, typingTimer, aborted>>
  /\ UNCHANGED <<arrived, starting, buffer, typingSent, current, restarts, toolStarted,
                 fired, done, phase, taken, toolRun, saved, answered, tries>>

ChainStep     == SkipRun \/ EmptyRun \/ StartRun
HandlerReturn == ReturnCancelled \/ ReturnSilent \/ ReturnText

Next ==
  \/ OnMessage
  \/ InstallState
  \/ OnTypingTimer
  \/ OnPipelineTimer
  \/ ChainStep
  \/ ToolGate
  \/ Persist
  \/ HandlerReturn
  \/ SendDone
  \/ Shutdown

\* Timers fire and promises that are ready run.  That a handler and a send end is
\* assumed: a model call can be aborted, but a tool is awaited without a timeout.
\* Nothing makes a person write or a process stop.
Fairness ==
  /\ WF_vars(InstallState)
  /\ WF_vars(OnPipelineTimer)
  /\ WF_vars(ChainStep)
  /\ WF_vars(HandlerReturn)
  /\ WF_vars(SendDone)

Spec     == Init /\ [][Next]_vars
FairSpec == Spec /\ Fairness

-----------------------------------------------------------------------------
(* Properties.                                                             *)

Fragments == 1..arrived

\* Every fragment the coordinator has ever been given, by where it is now.
Line == answered \o taken \o buffer \o starting

Flags ==
  /\ live \in BOOLEAN
  /\ timer \in BOOLEAN
  /\ typingTimer \in BOOLEAN
  /\ typingSent \in BOOLEAN
  /\ toolStarted \in BOOLEAN
  /\ toolRun \in BOOLEAN
  /\ down \in BOOLEAN

Data ==
  /\ arrived \in Nat
  /\ starting \in Seq(Nat)
  /\ buffer \in Seq(Nat)
  /\ taken \in Seq(Nat)
  /\ answered \in Seq(Nat)
  /\ saved \in SUBSET Nat
  /\ fired \in Nat
  /\ done \in 0..fired
  /\ current \in 0..fired
  /\ aborted \in SUBSET Run
  /\ restarts \in 0..MaxRestarts
  /\ tries \in Nat
  /\ phase \in {"idle", "handling", "saved", "sending"}

\* The variables have their types: the controller and the aborted signals
\* belong to runs of this burst, and restarts never exceed their cap.
TypeOK == Flags /\ Data

\* Cancelling, restoring and restarting neither lose, repeat nor reorder a
\* fragment: the answered ones, those of the executing run, the buffer and a
\* burst being started are, in this order, everything that arrived.
FragmentsInOrder == Line = [i \in Fragments |-> i]

\* Shutdown waits for the bursts of the background-turn tracker, and a burst
\* leaves it when its state is deleted: by then every fragment was answered.
DrainedMeansAnswered ==
  (~live /\ starting = <<>> /\ ~down) => answered = [i \in Fragments |-> i]

\* A run that has run a tool is not cancelled afterwards, whichever run the
\* current controller belongs to, so what the tool did is not done again.
ToolRunNotCancelled == (toolRun /\ ~down) => Active \notin aborted

\* Fragments that are not answered have something left that will answer them:
\* an armed timer, or a run that was not superseded.
NothingStranded ==
  (live /\ (buffer # <<>> \/ taken # <<>>)) => timer \/ \E r \in Active..fired : r \notin aborted

\* New fragments cannot keep a conversation from its answer: between two
\* answers at most maxRestarts + 1 runs are started.
AttemptsBounded == ~down => tries <= MaxRestarts + 1

\* No timer outlives its burst: it would fire into the state of the next one.
SettledIsQuiet == ~live => ~timer /\ ~typingTimer

\* A burst that is over left nothing behind: neither a fragment without its answer nor
\* a timer.
BurstEndsClean == DrainedMeansAnswered /\ SettledIsQuiet

\* "A cancelled run is not saved": no fragment waiting for a run is already
\* stored in the conversation, where the run would read it as history and
\* store it again.
CancelledRunNotSaved == \A i \in DOMAIN buffer : buffer[i] \notin saved

\* Design point 5: a fragment that arrives after the pipeline has started
\* aborts the in-flight pipeline (restarts left, no tool started).
FragmentSupersedesRun ==
  [][ (/\ arrived' # arrived
       /\ phase = "handling"
       /\ Active \notin aborted
       /\ restarts < MaxRestarts
       /\ ~toolRun) => Active \in aborted' ]_vars

-----------------------------------------------------------------------------
(* The inductive invariant behind the safety properties.                   *)

\* A run is executing exactly while it holds fragments.
RunHoldsFragments ==
  /\ phase = "idle" <=> taken = <<>>
  /\ phase # "idle" => done < fired
  /\ toolRun => phase # "idle"

\* The controller, when there is one, is the latest run's, not yet aborted.
ControllerIsLatest ==
  (current # 0 /\ ~down) => current = fired /\ done < fired /\ current \notin aborted

\* toolStarted protects the run that has run a tool for as long as the
\* controller is that run's; afterwards an abort hits another run.
ToolIsProtected ==
  (toolRun /\ ~down) => Active \notin aborted /\ (current = Active => toolStarted)

\* Outside a burst nothing is buffered or running, and the count is reset.
NoBurstNoWork == (~live /\ ~down) => buffer = <<>> /\ taken = <<>> /\ tries = 0

\* A burst is being started only where none exists.
StartingAlone == starting # <<>> => ~live /\ buffer = <<>> /\ taken = <<>>

\* Each started run beyond the first was paid for with a restart.
AttemptsCounted ==
  ~down => tries <= restarts + (IF phase # "idle" /\ Active \notin aborted THEN 1 ELSE 0)

ControlInv ==
  /\ Data
  /\ RunHoldsFragments
  /\ ControllerIsLatest
  /\ ToolIsProtected
  /\ NoBurstNoWork
  /\ StartingAlone
  /\ SettledIsQuiet
  /\ NothingStranded
  /\ AttemptsCounted

\* What is stored belongs to answered fragments and to the run that stored it,
\* which nothing can cancel if it waits for nothing after that.
SavedInv ==
  /\ \A f \in saved : f <= Len(answered) + (IF phase \in {"saved", "sending"} THEN Len(taken) ELSE 0)
  /\ (phase = "saved" /\ ~SentHooksWait) => Active \notin aborted

-----------------------------------------------------------------------------
\* The coordinator implements the inbox: what a run has taken is still pending.
InboxOf == INSTANCE Inbox WITH pending <- taken \o buffer \o starting
ImplementsInbox == InboxOf!Spec

\* Every fragment is answered, unless the process is stopped, as long as handlers end.
EveryFragmentAnswered ==
  \A f \in 1..MaxFragments : (arrived >= f) ~> (Len(answered) >= f \/ down)
=============================================================================
