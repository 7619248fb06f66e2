-------------------------------- MODULE Turn --------------------------------
(***************************************************************************)
(* The buffered turns of one conversation (pipeline.ts, index.ts), their *)
(* lifecycle hooks (hooks/hook-runner.ts), the replay loop               *)
(* (hooks/response-replay.ts) and the buffer of conversation state they  *)
(* share (conversations/state.buffer.ts, state.store.ts).  Turns of a    *)
(* channel without coordinator run at the same time.                     *)
(***************************************************************************)
EXTENDS Naturals

CONSTANTS
  Turns,
  Keys,
  None,               \* no value
  HooksFor,           \* enabled hooks of each event
  MaxRegenerations,   \* MAX_REGENERATIONS
  MaxWrites,          \* bound: writes to the state
  MaxFaults           \* bound: aborts, timeouts, halts, and calls that throw

\* conversation_start, which only a first turn has, is left out: its hooks run like
\* those of message_received, just before them.
Events == {"message_received", "response_generated", "response_sent"}

ASSUME TurnAssumption ==
  /\ HooksFor \in [Events -> Nat]
  /\ MaxRegenerations \in Nat
  /\ MaxWrites \in Nat
  /\ MaxFaults \in Nat

VARIABLES
  stored,     \* conversation_state.data: each key's value
  turn,       \* where each turn is
  ran,        \* hooks run for the present event
  left,       \* a hook that timed out is still at work
  short,      \* a hook halted the turn before the model: no, kept, ephemeral
  regen,      \* replays of the turn so far
  cancelled,  \* the turn's abort signal
  data,       \* the buffer's view of the state
  dirty,      \* keys set and not flushed
  removed,    \* keys deleted and not flushed
  shot,       \* what the flush under way writes
  written,    \* its upsert is done and not yet answered
  writes,     \* writes so far
  faults,     \* faults so far
  unsaved,    \* history: keys changed whose present value no upsert has carried
  cut         \* history: the signal was aborted before the turn's first flush

viewVars  == <<data, dirty, removed, unsaved, writes>>
hookVars  == <<ran, left>>
flushVars == <<stored, shot, written>>
turnVars  == <<turn, faults, hookVars, short, regen, cancelled, cut, viewVars, flushVars>>

Early == {"message_received", "model", "response_generated"}
\* unflushed: over, with a last flush that failed and was logged.
TurnOver == {"done", "unflushed", "discarded"}

\* A value is what its writer makes it: which turn, and where in the turn.
StateValues == [turn : Turns, at : Events \union {"model", "late"}]

Blank == [k \in Keys |-> None]
NoShot == [set |-> Blank, dirty |-> {}, removed |-> {}]

TurnInit ==
  /\ stored = Blank
  /\ turn = [t \in Turns |-> "new"]
  /\ ran = [t \in Turns |-> 0]
  /\ left = [t \in Turns |-> FALSE]
  /\ short = [t \in Turns |-> "no"]
  /\ regen = [t \in Turns |-> 0]
  /\ cancelled = [t \in Turns |-> FALSE]
  /\ data = [t \in Turns |-> Blank]
  /\ dirty = [t \in Turns |-> {}]
  /\ removed = [t \in Turns |-> {}]
  /\ shot = [t \in Turns |-> NoShot]
  /\ written = [t \in Turns |-> FALSE]
  /\ writes = 0
  /\ faults = 0
  /\ unsaved = [t \in Turns |-> {}]
  /\ cut = [t \in Turns |-> FALSE]

\* The turn goes to p; if that is an event, its hooks run from the first.
Goto(t, p) ==
  /\ turn' = [turn EXCEPT ![t] = p]
  /\ ran' = [ran EXCEPT ![t] = 0]

Fault == faults < MaxFaults /\ faults' = faults + 1

-----------------------------------------------------------------------------
(* The buffer.                                                           *)

\* ConversationStateBuffer.set and delete.
SetKey(t, k, at) ==
  /\ data' = [data EXCEPT ![t][k] = [turn |-> t, at |-> at]]
  /\ dirty' = [dirty EXCEPT ![t] = @ \union {k}]
  /\ removed' = [removed EXCEPT ![t] = @ \ {k}]

DeleteKey(t, k) ==
  /\ data[t][k] # None
  /\ data' = [data EXCEPT ![t][k] = None]
  /\ dirty' = [dirty EXCEPT ![t] = @ \ {k}]
  /\ removed' = [removed EXCEPT ![t] = @ \union {k}]

Writes(t, at) ==
  /\ writes < MaxWrites
  /\ writes' = writes + 1
  /\ \E k \in Keys :
       /\ SetKey(t, k, at) \/ DeleteKey(t, k)
       /\ unsaved' = [unsaved EXCEPT ![t] = @ \union {k}]

\* Mutant: the flush carries the whole view instead of the dirty keys.
WholeView(t) == {k \in Keys : data[t][k] # None}

FlushedKeys(t) == dirty[t]

\* flush() up to its await: the dirty and removed keys as they are now.
Flush(t) ==
  /\ shot' = [shot EXCEPT ![t] =
                [set |-> data[t], dirty |-> FlushedKeys(t), removed |-> removed[t]]]
  /\ UNCHANGED written

\* flushConversationState: one upsert, (data || set) - removed.
Upsert(t) ==
  /\ turn[t] \in {"flush", "flushAgain"}
  /\ ~written[t]
  /\ stored' = [k \in Keys |-> IF k \in shot[t].removed THEN None
                               ELSE IF k \in shot[t].dirty THEN shot[t].set[k]
                               ELSE stored[k]]
  /\ written' = [written EXCEPT ![t] = TRUE]
  /\ unsaved' = [unsaved EXCEPT ![t] =
                   {k \in @ : k \notin shot[t].dirty \union shot[t].removed
                              \/ shot[t].set[k] # data[t][k]}]
  /\ UNCHANGED <<faults, turn, hookVars, short, regen, cancelled, cut, data, dirty, removed, writes, shot>>

\* Mutant: the sets are cleared before the upsert is awaited.
ForgetsAnyway(ok) == TRUE

\* The keys are forgotten only after the upsert was answered.
Forgets(ok) == ok

\* The awaited upsert is answered, or fails, done or not.  What it wrote is garbage.
Answered(t, ok) ==
  /\ shot' = [shot EXCEPT ![t] = NoShot]
  /\ written' = [written EXCEPT ![t] = FALSE]
  /\ UNCHANGED stored
  /\ IF ok THEN written[t] /\ UNCHANGED faults ELSE Fault
  /\ IF Forgets(ok)
       THEN /\ dirty' = [dirty EXCEPT ![t] = {}]
            /\ removed' = [removed EXCEPT ![t] = {}]
       ELSE UNCHANGED <<dirty, removed>>
  /\ UNCHANGED <<data, unsaved, writes>>

-----------------------------------------------------------------------------
(* The hooks of an event.                                                *)

Hooks(t) == HooksFor[turn[t]]

\* Mutant: a hook that timed out keeps a state it can write.
RefusesAborted(t, late) == cancelled[t]

\* fenceState: the hook's signal is the turn's or its own expiry's.
Refuses(t, late) == cancelled[t] \/ (late /\ left[t])

\* The hook writes through its fenced view, or does not.
HookWrites(t, late) ==
  IF Refuses(t, late) THEN UNCHANGED viewVars
  ELSE UNCHANGED viewVars \/ Writes(t, IF late THEN "late" ELSE turn[t])

\* runHooks: the next enabled hook is executed, unless the turn is aborted.  The
\* buffer it writes is its turn's own, so the hook is one step: it returns or
\* throws ...
RunHook(t) ==
  /\ turn[t] \in Events
  /\ ran[t] < Hooks(t)
  /\ ~cancelled[t]
  /\ HookWrites(t, FALSE)

HookReturns(t) ==
  /\ RunHook(t)
  /\ ran' = [ran EXCEPT ![t] = @ + 1]
  /\ UNCHANGED <<faults, turn, left, short, regen, cancelled, cut, flushVars>>

\* ... or asks to stop: it is the event's last, and before the model the first that
\* asks also says whether the turn is kept ...
HookHalts(t) ==
  /\ RunHook(t)
  /\ Fault
  /\ ran' = [ran EXCEPT ![t] = Hooks(t)]
  /\ IF short[t] = "no" /\ turn[t] = "message_received"
       THEN \E s \in {"kept", "ephemeral"} : short' = [short EXCEPT ![t] = s]
       ELSE UNCHANGED short
  /\ UNCHANGED <<turn, left, regen, cancelled, cut, flushVars>>

\* ... or times out: the runner goes on, and so does the hook, its signal aborted.
HookTimesOut(t) ==
  /\ RunHook(t)
  /\ Fault
  /\ ran' = [ran EXCEPT ![t] = @ + 1]
  /\ left' = [left EXCEPT ![t] = TRUE]
  /\ UNCHANGED <<turn, short, regen, cancelled, cut, flushVars>>

\* Later it writes, whatever the turn does meanwhile.
LateWrite(t) ==
  /\ left[t]
  /\ HookWrites(t, TRUE)
  /\ UNCHANGED <<faults, turn, hookVars, short, regen, cancelled, cut, flushVars>>

\* runHooks returns.
HooksRun(t) == ran[t] = Hooks(t) \/ cancelled[t]

-----------------------------------------------------------------------------
(* The turn.                                                             *)

\* The signal: a newer fragment, or a client that is gone.
Abort(t) ==
  /\ turn[t] \notin TurnOver \union {"new"}
  /\ ~cancelled[t]
  /\ Fault
  /\ cancelled' = [cancelled EXCEPT ![t] = TRUE]
  /\ cut' = [cut EXCEPT ![t] = turn[t] \in Early]
  /\ UNCHANGED <<turn, hookVars, short, regen, viewVars, flushVars>>

\* preparePipeline: a load of the state that fails leaves an empty view.
Prepare(t) ==
  /\ turn[t] = "new"
  /\ Goto(t, "message_received")
  /\ \/ data' = [data EXCEPT ![t] = stored] /\ UNCHANGED faults
     \/ data' = [data EXCEPT ![t] = Blank] /\ Fault
  /\ UNCHANGED <<left, short, regen, cancelled, cut, dirty, removed, unsaved, writes, flushVars>>

\* runBufferedTurn: a halted turn goes straight to runPipelinePost and its first
\* abort gate, any other one to the model.
ReceivedEventOver(t) ==
  /\ turn[t] = "message_received"
  /\ HooksRun(t)
  /\ Goto(t, IF short[t] = "no" THEN "model"
             ELSE IF cancelled[t] THEN "discarded" ELSE "response_generated")
  /\ UNCHANGED <<faults, left, short, regen, cancelled, cut, viewVars, flushVars>>

\* supervise: tools write the state without a fence ...
ToolWrites(t) ==
  /\ turn[t] = "model"
  /\ Writes(t, "model")
  /\ UNCHANGED <<faults, turn, hookVars, short, regen, cancelled, cut, flushVars>>

\* ... and the model answers, or the call throws.
ModelReturns(t) ==
  /\ turn[t] = "model"
  /\ \/ Goto(t, "response_generated") /\ UNCHANGED faults
     \/ Goto(t, "discarded") /\ (Fault \/ (cancelled[t] /\ UNCHANGED faults))
  /\ UNCHANGED <<left, short, regen, cancelled, cut, viewVars, flushVars>>

\* Mutant: one replay too many.
MayReplayOnceMore(t) == regen[t] <= MaxRegenerations

MayReplay(t) == regen[t] < MaxRegenerations

\* Mutant: a replay is not counted.
ReplayUncounted(t) == regen' = regen

CountReplay(t) == regen' = [regen EXCEPT ![t] = @ + 1]

\* generateWithReplay: a hook asks for another answer.
Regenerate(t) ==
  /\ turn[t] = "response_generated"
  /\ HooksRun(t)
  /\ short[t] = "no"
  /\ ran[t] > 0
  /\ MayReplay(t)
  /\ ~cancelled[t]
  /\ CountReplay(t)
  /\ Goto(t, "model")
  /\ UNCHANGED <<faults, left, short, cancelled, cut, viewVars, flushVars>>

\* Mutant: the gate after the hooks is missing.
UngatedCommit(t) == FALSE

Gated(t) == cancelled[t]

\* runPipelinePost after the response_generated hooks: the abort gate, then the
\* first flush.  An ephemeral turn writes nothing.
Commit(t) ==
  /\ turn[t] = "response_generated"
  /\ HooksRun(t)
  /\ \/ /\ Gated(t)
        /\ Goto(t, "discarded")
        /\ UNCHANGED <<shot, written>>
     \/ /\ ~Gated(t)
        /\ short[t] # "ephemeral"
        /\ Goto(t, "flush")
        /\ Flush(t)
     \/ /\ ~Gated(t)
        /\ short[t] = "ephemeral"
        /\ Goto(t, "response_sent")
        /\ UNCHANGED <<shot, written>>
  /\ regen' = [regen EXCEPT ![t] = 0]
  /\ UNCHANGED <<faults, left, short, cancelled, cut, viewVars, stored>>

\* The third gate; past it the messages are written and the reply is sent.
FlushOver(t) ==
  /\ turn[t] = "flush"
  /\ \E ok \in BOOLEAN : Answered(t, ok)
  /\ Goto(t, IF cancelled[t] THEN "discarded" ELSE "response_sent")
  /\ UNCHANGED <<left, short, regen, cancelled, cut>>

\* Mutant: no second flush.
NoFlushAgain(t) == Goto(t, "done") /\ UNCHANGED <<shot, written>>

FlushAgain(t) == Goto(t, "flushAgain") /\ Flush(t)

\* The response_sent hooks have run, on an aborted turn too: their writes are
\* flushed, and those of a first flush that failed.
SentEventOver(t) ==
  /\ turn[t] = "response_sent"
  /\ HooksRun(t)
  /\ \/ short[t] # "ephemeral" /\ FlushAgain(t)
     \/ short[t] = "ephemeral" /\ Goto(t, "done") /\ UNCHANGED <<shot, written>>
  /\ UNCHANGED <<faults, left, short, regen, cancelled, cut, viewVars, stored>>

TurnReturns(t) ==
  /\ turn[t] = "flushAgain"
  /\ \E ok \in BOOLEAN : Answered(t, ok) /\ Goto(t, IF ok THEN "done" ELSE "unflushed")
  /\ UNCHANGED <<left, short, regen, cancelled, cut>>

Advance(t) ==
  \/ ReceivedEventOver(t) \/ ModelReturns(t) \/ Commit(t)
  \/ Upsert(t) \/ FlushOver(t) \/ SentEventOver(t) \/ TurnReturns(t)

TurnNext ==
  \E t \in Turns :
    \/ Prepare(t) \/ Abort(t) \/ HookReturns(t) \/ HookHalts(t) \/ HookTimesOut(t)
    \/ LateWrite(t) \/ ToolWrites(t) \/ Regenerate(t) \/ Advance(t)

TurnSpec == TurnInit /\ [][TurnNext]_turnVars

\* The event loop runs what is ready, and a hook's timeout expires.  That the model
\* call with its tools and an upsert end is assumed: nothing limits a tool's time.
\* A hook need not return, and hooks may ask for replays for ever.
TurnFairness ==
  \A t \in Turns :
    /\ WF_turnVars(HookReturns(t) \/ HookTimesOut(t))
    /\ WF_turnVars(Advance(t))

-----------------------------------------------------------------------------
(* Properties.                                                           *)

TurnTypeOK ==
  /\ stored \in [Keys -> StateValues \union {None}]
  /\ turn \in [Turns -> Events \union TurnOver \union {"new", "model", "flush", "flushAgain"}]
  /\ ran \in [Turns -> Nat]
  /\ left \in [Turns -> BOOLEAN]
  /\ short \in [Turns -> {"no", "kept", "ephemeral"}]
  /\ regen \in [Turns -> 0..MaxRegenerations]
  /\ cancelled \in [Turns -> BOOLEAN]
  /\ data \in [Turns -> [Keys -> StateValues \union {None}]]
  /\ dirty \in [Turns -> SUBSET Keys]
  /\ removed \in [Turns -> SUBSET Keys]
  /\ shot \in [Turns -> [set : [Keys -> StateValues \union {None}],
                        dirty : SUBSET Keys, removed : SUBSET Keys]]
  /\ written \in [Turns -> BOOLEAN]
  /\ writes \in 0..MaxWrites
  /\ faults \in 0..MaxFaults
  /\ unsaved \in [Turns -> SUBSET Keys]
  /\ cut \in [Turns -> BOOLEAN]

\* What a hook writes after the runner gave up on it is never stored, although it
\* shares its turn's buffer and the turn goes on to flush it (fenceState).
AbandonedHookLeavesNoTrace ==
  \A k \in Keys : stored[k] # None => stored[k].at # "late"

\* A key of the shared state changes only by a turn that wrote that key: a turn
\* that loaded an older state gives none of its keys back.  And that turn was not
\* cancelled before its commit, nor declared ephemeral by a hook.
KeysChangeByTheirWriter ==
  [][\A k \in Keys : stored'[k] # stored[k] =>
       \E t \in Turns : /\ k \in dirty[t] \union removed[t]
                        /\ ~cut[t]
                        /\ short[t] # "ephemeral"]_turnVars

\* When a turn is over and its last flush was answered, every change its tools and
\* hooks made to the state has been stored, also if its first flush failed.
KeptTurnIsStored ==
  \A t \in Turns : turn[t] = "done" /\ short[t] # "ephemeral" => unsaved[t] = {}

\* Writes are committed "never on an aborted run" (state.buffer.ts:58).
AbortedTurnStoresNothing ==
  [][\A t \in Turns : ~written[t] /\ written'[t] => ~cancelled[t]]_turnVars

\* A turn that was begun ends, as long as its model calls do, whatever its hooks do:
\* hang, or ask for a replay of every answer.
TurnEnds == \A t \in Turns : turn[t] # "new" ~> turn[t] \in TurnOver

-----------------------------------------------------------------------------
(* The inductive invariant of TurnProofs.                                  *)

Flushing(t) == turn[t] \in {"flush", "flushAgain"}

\* No value of a hook that was given up is stored, in a view, or about to be stored.
NoLateValue ==
  \A k \in Keys :
    /\ stored[k] # None => stored[k].at # "late"
    /\ \A t \in Turns : /\ data[t][k] # None => data[t][k].at # "late"
                        /\ shot[t].set[k] # None => shot[t].set[k].at # "late"

\* Nothing changes a turn's view while its flush is awaited.
ShotIsView ==
  \A t \in Turns : Flushing(t) =>
    shot[t] = [set |-> data[t], dirty |-> dirty[t], removed |-> removed[t]]

UnsavedIsKnown == \A t \in Turns : unsaved[t] \subseteq dirty[t] \union removed[t]

WrittenIsSaved == \A t \in Turns : written[t] => Flushing(t) /\ unsaved[t] = {}

\* The gates: no flush begins on a turn that was cancelled before, or is ephemeral.
CutIsDiscarded ==
  \A t \in Turns : cut[t] => cancelled[t] /\ turn[t] \in Early \union {"discarded"}

EphemeralIsNotFlushed == \A t \in Turns : short[t] = "ephemeral" => ~Flushing(t)

TurnInv ==
  /\ TurnTypeOK
  /\ NoLateValue
  /\ ShotIsView
  /\ UnsavedIsKnown
  /\ WrittenIsSaved
  /\ CutIsDiscarded
  /\ EphemeralIsNotFlushed
  /\ KeptTurnIsStored
=============================================================================
