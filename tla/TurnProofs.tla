----------------------------- MODULE TurnProofs -----------------------------
(***************************************************************************)
(* Proofs about Turn, for every set of turns, keys and hooks and every     *)
(* bound: what an abandoned hook writes is never stored, and a turn stores *)
(* what it wrote, all of it and nothing else.  Then about Optout, for any  *)
(* number of processes and requests: how old a status may be that the gate *)
(* acts on.                                                                *)
(***************************************************************************)
EXTENDS Turn, Optout, TLAPS

Views == [Keys -> StateValues \union {None}]

\* The invariant holds initially: no turn has begun.
LEMMA TurnInvInit == TurnInit => TurnInv
<1> SUFFICES ASSUME TurnInit PROVE TurnInv
  OBVIOUS
<1>1. TurnTypeOK
  BY TurnAssumption DEF TurnInit, TurnTypeOK, Blank, NoShot
<1>2. NoLateValue
  BY DEF TurnInit, NoLateValue, Blank, NoShot
<1>3. /\ ShotIsView /\ UnsavedIsKnown /\ WrittenIsSaved /\ CutIsDiscarded
      /\ EphemeralIsNotFlushed /\ KeptTurnIsStored
  BY DEF TurnInit, ShotIsView, UnsavedIsKnown, WrittenIsSaved, CutIsDiscarded,
         EphemeralIsNotFlushed, KeptTurnIsStored, Flushing
<1> QED
  BY <1>1, <1>2, <1>3 DEF TurnInv

-----------------------------------------------------------------------------
(* Writes to the view of a turn.                                           *)

\* A write makes its key dirty or removed, and its value is not an abandoned hook's.
LEMMA WriteKnown ==
  ASSUME TurnInv, NEW t \in Turns, NEW at \in Events \union {"model"},
         Writes(t, at) \/ UNCHANGED viewVars
  PROVE  /\ data' \in [Turns -> Views]
         /\ dirty' \in [Turns -> SUBSET Keys]
         /\ removed' \in [Turns -> SUBSET Keys]
         /\ unsaved' \in [Turns -> SUBSET Keys]
         /\ writes' \in 0..MaxWrites
         /\ UnsavedIsKnown'
         /\ \A u \in Turns, k \in Keys : data'[u][k] # None => data'[u][k].at # "late"
         /\ \A u \in Turns \ {t} :
              /\ data'[u] = data[u] /\ dirty'[u] = dirty[u]
              /\ removed'[u] = removed[u] /\ unsaved'[u] = unsaved[u]
<1> USE DEF Views
<1>1. CASE UNCHANGED viewVars
  BY <1>1 DEF TurnInv, TurnTypeOK, NoLateValue, UnsavedIsKnown, viewVars
<1>2. CASE Writes(t, at)
  <2>1. PICK k \in Keys : /\ SetKey(t, k, at) \/ DeleteKey(t, k)
                          /\ unsaved' = [unsaved EXCEPT ![t] = @ \union {k}]
    BY <1>2 DEF Writes
  <2>2. /\ [turn |-> t, at |-> at] \in StateValues
        /\ at # "late"
    BY DEF StateValues, Events
  <2>3. PICK v \in StateValues \union {None} :
          /\ data' = [data EXCEPT ![t][k] = v]
          /\ v # None => v.at # "late"
    BY <2>1, <2>2 DEF SetKey, DeleteKey
  <2>4. /\ dirty' \in [Turns -> SUBSET Keys]
        /\ removed' \in [Turns -> SUBSET Keys]
        /\ k \in dirty'[t] \union removed'[t]
        /\ dirty[t] \union removed[t] \subseteq dirty'[t] \union removed'[t]
        /\ \A u \in Turns \ {t} : dirty'[u] = dirty[u] /\ removed'[u] = removed[u]
    <3>1. CASE SetKey(t, k, at)
      BY <3>1 DEF SetKey, TurnInv, TurnTypeOK
    <3>2. CASE DeleteKey(t, k)
      BY <3>2 DEF DeleteKey, TurnInv, TurnTypeOK
    <3> QED
      BY <2>1, <3>1, <3>2
  <2>5. /\ unsaved' \in [Turns -> SUBSET Keys]
        /\ unsaved'[t] = unsaved[t] \union {k}
        /\ \A u \in Turns \ {t} : unsaved'[u] = unsaved[u]
    BY <2>1 DEF TurnInv, TurnTypeOK
  <2>6. UnsavedIsKnown'
    BY <2>4, <2>5 DEF TurnInv, UnsavedIsKnown
  <2>7. /\ data' \in [Turns -> Views]
        /\ \A u \in Turns \ {t} : data'[u] = data[u]
    BY <2>3 DEF TurnInv, TurnTypeOK
  <2>8. ASSUME NEW u \in Turns, NEW j \in Keys, data'[u][j] # None
        PROVE  data'[u][j].at # "late"
    <3>1. CASE u = t /\ j = k
      BY <2>3, <2>8, <3>1 DEF TurnInv, TurnTypeOK
    <3>2. CASE ~(u = t /\ j = k)
      <4>1. data'[u][j] = data[u][j]
        BY <2>3, <3>2 DEF TurnInv, TurnTypeOK
      <4> QED
        BY <4>1, <2>8 DEF TurnInv, NoLateValue
    <3> QED
      BY <3>1, <3>2
  <2>9. writes' \in 0..MaxWrites
    BY <1>2, TurnAssumption DEF Writes, TurnInv, TurnTypeOK
  <2> QED
    BY <2>4, <2>5, <2>6, <2>7, <2>8, <2>9
<1> QED
  BY <1>1, <1>2

\* A turn that is at an event or at the model writes: nothing of it is being flushed.
LEMMA WritingTurnInv ==
  ASSUME TurnInv, NEW t \in Turns, NEW at \in Events \union {"model"},
         turn[t] \in Events \union {"model"},
         Writes(t, at) \/ UNCHANGED viewVars,
         UNCHANGED <<turn, regen, cancelled, cut, flushVars>>,
         ran' \in [Turns -> Nat], left' \in [Turns -> BOOLEAN], faults' \in 0..MaxFaults,
         short' \in [Turns -> {"no", "kept", "ephemeral"}],
         \A u \in Turns : short'[u] = short[u] \/ turn[u] = "message_received"
  PROVE  TurnInv'
<1>1. /\ data' \in [Turns -> Views]
      /\ dirty' \in [Turns -> SUBSET Keys]
      /\ removed' \in [Turns -> SUBSET Keys]
      /\ unsaved' \in [Turns -> SUBSET Keys]
      /\ writes' \in 0..MaxWrites
      /\ UnsavedIsKnown'
      /\ \A u \in Turns, k \in Keys : data'[u][k] # None => data'[u][k].at # "late"
      /\ \A u \in Turns \ {t} :
           /\ data'[u] = data[u] /\ dirty'[u] = dirty[u]
           /\ removed'[u] = removed[u] /\ unsaved'[u] = unsaved[u]
  BY WriteKnown
<1>2. TurnTypeOK'
  BY <1>1 DEF TurnInv, TurnTypeOK, flushVars, Views
<1>3. NoLateValue'
  BY <1>1 DEF TurnInv, NoLateValue, flushVars
<1>4. ~Flushing(t) /\ turn[t] \notin TurnOver
  BY DEF Flushing, Events, TurnOver
<1>5. ShotIsView' /\ WrittenIsSaved'
  <2>1. \A u \in Turns : Flushing(u)' <=> Flushing(u)
    BY DEF Flushing
  <2>2. \A u \in Turns : u = t \/ (UNCHANGED <<shot, written>> /\ u \in Turns \ {t})
    BY DEF flushVars
  <2>3. \A u \in Turns : Flushing(u) => u \in Turns \ {t}
    BY <1>4
  <2>4. ShotIsView'
    BY <1>1, <2>1, <2>2, <2>3 DEF TurnInv, ShotIsView
  <2>5. WrittenIsSaved'
    <3>1. UNCHANGED written
      BY DEF flushVars
    <3> QED
      BY <1>1, <2>1, <2>3, <3>1 DEF TurnInv, WrittenIsSaved
  <2> QED
    BY <2>4, <2>5
<1>6. CutIsDiscarded' /\ EphemeralIsNotFlushed'
  BY DEF TurnInv, CutIsDiscarded, EphemeralIsNotFlushed, Flushing
<1>7. KeptTurnIsStored'
  BY <1>1, <1>4 DEF TurnInv, KeptTurnIsStored, TurnOver
<1> QED
  BY <1>1, <1>2, <1>3, <1>5, <1>6, <1>7 DEF TurnInv

\* A hook that runs, and one that is at work after its timeout, which writes nothing.
LEMMA HookInv ==
  ASSUME TurnInv, NEW t \in Turns,
         HookReturns(t) \/ HookHalts(t) \/ HookTimesOut(t) \/ LateWrite(t) \/ ToolWrites(t)
  PROVE  TurnInv'
<1>1. CASE HookReturns(t) \/ HookHalts(t) \/ HookTimesOut(t)
  <2>1. /\ turn[t] \in Events
        /\ Writes(t, turn[t]) \/ UNCHANGED viewVars
        /\ UNCHANGED <<turn, regen, cancelled, cut, flushVars>>
    BY <1>1 DEF HookReturns, HookHalts, HookTimesOut, RunHook, HookWrites
  <2>2. /\ ran' \in [Turns -> Nat]
        /\ left' \in [Turns -> BOOLEAN]
        /\ faults' \in 0..MaxFaults
    <3>1. HooksFor[turn[t]] \in Nat
      BY <2>1, TurnAssumption
    <3>2. faults' \in 0..MaxFaults
      BY <1>1, TurnAssumption DEF HookReturns, HookHalts, HookTimesOut, Fault, TurnInv, TurnTypeOK
    <3>3. ran' \in [Turns -> Nat] /\ left' \in [Turns -> BOOLEAN]
      <4>1. CASE HookReturns(t)
        BY <4>1 DEF HookReturns, TurnInv, TurnTypeOK
      <4>2. CASE HookHalts(t)
        BY <3>1, <4>2 DEF HookHalts, Hooks, TurnInv, TurnTypeOK
      <4>3. CASE HookTimesOut(t)
        BY <4>3 DEF HookTimesOut, TurnInv, TurnTypeOK
      <4> QED
        BY <1>1, <4>1, <4>2, <4>3
    <3> QED
      BY <3>2, <3>3
  <2>3. /\ short' \in [Turns -> {"no", "kept", "ephemeral"}]
        /\ \A u \in Turns : short'[u] = short[u] \/ turn[u] = "message_received"
    BY <1>1 DEF HookReturns, HookHalts, HookTimesOut, TurnInv, TurnTypeOK
  <2> QED
    BY <2>1, <2>2, <2>3, WritingTurnInv
<1>2. CASE LateWrite(t)
  <2>1. UNCHANGED turnVars
    BY <1>2 DEF LateWrite, HookWrites, Refuses, turnVars, hookVars, viewVars, flushVars
  <2> QED
    BY <2>1 DEF turnVars, hookVars, viewVars, flushVars, TurnInv, TurnTypeOK, NoLateValue, ShotIsView,
         UnsavedIsKnown, WrittenIsSaved, CutIsDiscarded, EphemeralIsNotFlushed, KeptTurnIsStored,
         Flushing
<1>3. CASE ToolWrites(t)
  <2>1. /\ turn[t] = "model"
        /\ Writes(t, "model")
        /\ UNCHANGED <<faults, turn, hookVars, short, regen, cancelled, cut, flushVars>>
    BY <1>3 DEF ToolWrites
  <2> QED
    BY <2>1, WritingTurnInv DEF hookVars, TurnInv, TurnTypeOK
<1> QED
  BY <1>1, <1>2, <1>3

-----------------------------------------------------------------------------
(* The turn moves on.                                                      *)

Places == Events \union TurnOver \union {"new", "model", "flush", "flushAgain"}

\* The turn goes from one place to another, and no flush begins or ends.
LEMMA GotoInv ==
  ASSUME TurnInv, NEW t \in Turns, NEW p \in Places,
         Goto(t, p), ~Flushing(t),
         p \notin {"flush", "flushAgain"},
         p = "done" => short[t] = "ephemeral",
         cut[t] => p \in Early \union {"discarded"},
         regen' \in [Turns -> 0..MaxRegenerations], faults' \in 0..MaxFaults,
         UNCHANGED <<left, short, cancelled, cut, viewVars, flushVars>>
  PROVE  TurnInv'
<1> USE DEF viewVars, flushVars
<1>1. TurnTypeOK'
  BY DEF TurnInv, TurnTypeOK, Goto, Places
<1>2. NoLateValue' /\ UnsavedIsKnown'
  BY DEF TurnInv, NoLateValue, UnsavedIsKnown
<1>3. /\ turn'[t] = p
      /\ \A u \in Turns \ {t} : turn'[u] = turn[u]
  BY DEF TurnInv, TurnTypeOK, Goto
<1>4. \A u \in Turns : Flushing(u)' <=> Flushing(u)
  BY <1>3 DEF Flushing
<1>5. ShotIsView' /\ WrittenIsSaved' /\ EphemeralIsNotFlushed'
  BY <1>4 DEF TurnInv, ShotIsView, WrittenIsSaved, EphemeralIsNotFlushed
<1>6. CutIsDiscarded' /\ KeptTurnIsStored'
  BY <1>3 DEF TurnInv, CutIsDiscarded, KeptTurnIsStored
<1> QED
  BY <1>1, <1>2, <1>5, <1>6 DEF TurnInv

\* A flush begins: it takes the turn's view.
LEMMA FlushInv ==
  ASSUME TurnInv, NEW t \in Turns, NEW p \in {"flush", "flushAgain"},
         Goto(t, p), Flush(t), ~Flushing(t), ~cut[t], short[t] # "ephemeral",
         regen' \in [Turns -> 0..MaxRegenerations],
         UNCHANGED <<faults, left, short, cancelled, cut, viewVars, stored>>
  PROVE  TurnInv'
<1> USE DEF viewVars
<1>1. /\ turn'[t] = p
      /\ \A u \in Turns \ {t} : turn'[u] = turn[u]
      /\ shot'[t] = [set |-> data[t], dirty |-> dirty[t], removed |-> removed[t]]
      /\ \A u \in Turns \ {t} : shot'[u] = shot[u]
      /\ UNCHANGED written
  BY DEF TurnInv, TurnTypeOK, Goto, Flush, FlushedKeys
<1>2. TurnTypeOK'
  BY DEF TurnInv, TurnTypeOK, Goto, Flush, FlushedKeys
<1>3. NoLateValue'
  <2>1. \A u \in Turns, k \in Keys : shot'[u].set[k] # None => shot'[u].set[k].at # "late"
    BY <1>1 DEF TurnInv, NoLateValue
  <2> QED
    BY <2>1 DEF TurnInv, NoLateValue
<1>4. ShotIsView' /\ UnsavedIsKnown' /\ WrittenIsSaved'
  BY <1>1 DEF TurnInv, ShotIsView, UnsavedIsKnown, WrittenIsSaved, Flushing
<1>5. CutIsDiscarded' /\ EphemeralIsNotFlushed' /\ KeptTurnIsStored'
  BY <1>1 DEF TurnInv, CutIsDiscarded, EphemeralIsNotFlushed, KeptTurnIsStored, Flushing
<1> QED
  BY <1>2, <1>3, <1>4, <1>5 DEF TurnInv

\* The upsert of a flush writes what is dirty and not an abandoned hook's.
LEMMA UpsertInv ==
  ASSUME TurnInv, NEW t \in Turns, Upsert(t)
  PROVE  TurnInv'
<1> USE DEF viewVars
<1>1. /\ Flushing(t)
      /\ shot[t] = [set |-> data[t], dirty |-> dirty[t], removed |-> removed[t]]
  BY DEF Upsert, Flushing, TurnInv, ShotIsView
<1>2. /\ unsaved' \in [Turns -> SUBSET Keys]
      /\ unsaved'[t] = {}
      /\ \A u \in Turns \ {t} : unsaved'[u] = unsaved[u]
  BY <1>1 DEF Upsert, TurnInv, TurnTypeOK, UnsavedIsKnown
<1>3. /\ written' \in [Turns -> BOOLEAN]
      /\ \A u \in Turns \ {t} : written'[u] = written[u]
  BY DEF Upsert, TurnInv, TurnTypeOK
<1>4. /\ stored' \in Views
      /\ \A k \in Keys : stored'[k] # None => stored'[k].at # "late"
  <2>1. ASSUME NEW k \in Keys
        PROVE  stored'[k] \in {None, shot[t].set[k], stored[k]}
    BY DEF Upsert
  <2>2. \A k \in Keys : shot[t].set[k] \in StateValues \union {None}
    BY DEF TurnInv, TurnTypeOK
  <2>3. stored' \in Views
    BY <2>1, <2>2 DEF Upsert, TurnInv, TurnTypeOK, Views
  <2> QED
    BY <2>1, <2>3 DEF TurnInv, NoLateValue
<1>5. TurnTypeOK'
  BY <1>2, <1>3, <1>4 DEF Upsert, hookVars, TurnInv, TurnTypeOK, Views
<1>6. NoLateValue' /\ ShotIsView'
  BY <1>4 DEF Upsert, TurnInv, NoLateValue, ShotIsView, Flushing
<1>7. UnsavedIsKnown' /\ WrittenIsSaved' /\ KeptTurnIsStored'
  BY <1>1, <1>2, <1>3 DEF Upsert, TurnInv, UnsavedIsKnown, WrittenIsSaved, KeptTurnIsStored, Flushing
<1>8. CutIsDiscarded' /\ EphemeralIsNotFlushed'
  BY DEF Upsert, TurnInv, CutIsDiscarded, EphemeralIsNotFlushed, Flushing
<1> QED
  BY <1>5, <1>6, <1>7, <1>8 DEF TurnInv

\* A flush ends.  If it was answered, what its keys were set to is stored.
LEMMA AnsweredInv ==
  ASSUME TurnInv, NEW t \in Turns, NEW ok \in BOOLEAN,
         NEW p \in {"response_sent", "discarded", "done", "unflushed"},
         Answered(t, ok), Goto(t, p), Flushing(t), p = "done" => ok,
         UNCHANGED <<left, short, regen, cancelled, cut>>
  PROVE  TurnInv'
<1>1. /\ turn'[t] = p
      /\ \A u \in Turns \ {t} : turn'[u] = turn[u]
      /\ ran' \in [Turns -> Nat]
      /\ turn' \in [Turns -> Places]
  BY DEF TurnInv, TurnTypeOK, Goto, Places, TurnOver, Events
<1>2. /\ shot' = [shot EXCEPT ![t] = NoShot]
      /\ written' = [written EXCEPT ![t] = FALSE]
      /\ UNCHANGED <<stored, data, unsaved, writes>>
      /\ ok => written[t]
  BY DEF Answered
<1>3. NoShot \in [set : [Keys -> StateValues \union {None}], dirty : SUBSET Keys, removed : SUBSET Keys]
  BY DEF NoShot, Blank
<1>4. /\ dirty' \in [Turns -> SUBSET Keys] /\ removed' \in [Turns -> SUBSET Keys]
      /\ \A u \in Turns \ {t} : dirty'[u] = dirty[u] /\ removed'[u] = removed[u]
      /\ ~ok => dirty'[t] = dirty[t] /\ removed'[t] = removed[t]
  BY DEF Answered, Forgets, TurnInv, TurnTypeOK
<1>5. faults' \in 0..MaxFaults
  BY TurnAssumption DEF Answered, Fault, TurnInv, TurnTypeOK
<1>6. TurnTypeOK'
  BY <1>1, <1>2, <1>3, <1>4, <1>5 DEF TurnInv, TurnTypeOK, Places
<1>7. NoLateValue'
  <2>1. \A u \in Turns, k \in Keys : shot'[u].set[k] # None => shot'[u].set[k].at # "late"
    BY <1>2 DEF TurnInv, TurnTypeOK, NoLateValue, NoShot, Blank
  <2> QED
    BY <1>2, <2>1 DEF TurnInv, NoLateValue
<1>8. ok => unsaved[t] = {}
  BY <1>2 DEF TurnInv, WrittenIsSaved
<1>9. /\ ~Flushing(t)'
      /\ \A u \in Turns \ {t} : Flushing(u)' <=> Flushing(u)
  BY <1>1 DEF Flushing
<1>10. ShotIsView'
  <2>1. \A u \in Turns \ {t} : shot'[u] = shot[u]
    BY <1>2 DEF TurnInv, TurnTypeOK
  <2> QED
    BY <1>2, <1>4, <1>9, <2>1 DEF TurnInv, ShotIsView
<1>11. UnsavedIsKnown' /\ KeptTurnIsStored'
  BY <1>1, <1>2, <1>4, <1>8 DEF TurnInv, UnsavedIsKnown, KeptTurnIsStored
<1>12. WrittenIsSaved'
  BY <1>2, <1>9 DEF TurnInv, TurnTypeOK, WrittenIsSaved
<1>13. CutIsDiscarded' /\ EphemeralIsNotFlushed'
  <2>1. ~cut[t]
    BY DEF TurnInv, CutIsDiscarded, Flushing, Early
  <2> QED
    BY <1>1, <1>9, <2>1 DEF TurnInv, CutIsDiscarded, EphemeralIsNotFlushed
<1> QED
  BY <1>6, <1>7, <1>10, <1>11, <1>12, <1>13 DEF TurnInv

\* A turn begins, and loads the state or nothing.
LEMMA PrepareInv ==
  ASSUME TurnInv, NEW t \in Turns, Prepare(t)
  PROVE  TurnInv'
<1>1. PICK v \in {stored, Blank} : data' = [data EXCEPT ![t] = v]
  BY DEF Prepare
<1>2. /\ v \in Views
      /\ \A k \in Keys : v[k] # None => v[k].at # "late"
  BY DEF Views, Blank, TurnInv, TurnTypeOK, NoLateValue
<1>3. /\ turn'[t] = "message_received"
      /\ \A u \in Turns \ {t} : turn'[u] = turn[u] /\ data'[u] = data[u]
      /\ turn' \in [Turns -> Places] /\ ran' \in [Turns -> Nat]
  BY <1>1 DEF Prepare, Goto, TurnInv, TurnTypeOK, Places, Events
<1>4. faults' \in 0..MaxFaults
  BY TurnAssumption DEF Prepare, Fault, TurnInv, TurnTypeOK
<1>5. UNCHANGED <<left, short, regen, cancelled, cut, dirty, removed, unsaved, writes, flushVars>>
  BY DEF Prepare
<1> USE DEF flushVars
<1>6. TurnTypeOK'
  BY <1>1, <1>2, <1>3, <1>4, <1>5 DEF TurnInv, TurnTypeOK, Views, Places
<1>7. NoLateValue'
  BY <1>1, <1>2, <1>5 DEF TurnInv, TurnTypeOK, NoLateValue
<1>8. \A u \in Turns : (Flushing(u)' <=> Flushing(u)) /\ (Flushing(u) => u \in Turns \ {t})
  BY <1>3 DEF Prepare, Flushing
<1>9. ShotIsView' /\ UnsavedIsKnown' /\ WrittenIsSaved' /\ EphemeralIsNotFlushed'
  BY <1>3, <1>5, <1>8 DEF TurnInv, ShotIsView, UnsavedIsKnown, WrittenIsSaved, EphemeralIsNotFlushed
<1>10. CutIsDiscarded' /\ KeptTurnIsStored'
  BY <1>3, <1>5 DEF Prepare, TurnInv, CutIsDiscarded, KeptTurnIsStored, Early
<1> QED
  BY <1>6, <1>7, <1>9, <1>10 DEF TurnInv

LEMMA AbortInv ==
  ASSUME TurnInv, NEW t \in Turns, Abort(t)
  PROVE  TurnInv'
<1> USE DEF viewVars, flushVars, hookVars
<1>1. TurnTypeOK'
  BY TurnAssumption DEF Abort, Fault, TurnInv, TurnTypeOK
<1>2. NoLateValue' /\ ShotIsView' /\ UnsavedIsKnown' /\ WrittenIsSaved'
  BY DEF Abort, TurnInv, NoLateValue, ShotIsView, UnsavedIsKnown, WrittenIsSaved, Flushing
<1>3. EphemeralIsNotFlushed' /\ KeptTurnIsStored'
  BY DEF Abort, TurnInv, EphemeralIsNotFlushed, KeptTurnIsStored, Flushing
<1>4. CutIsDiscarded'
  BY DEF Abort, TurnInv, TurnTypeOK, CutIsDiscarded
<1> QED
  BY <1>1, <1>2, <1>3, <1>4 DEF TurnInv

\* The turn goes on to its next step.
LEMMA AdvanceInv ==
  ASSUME TurnInv, NEW t \in Turns, Advance(t) \/ Regenerate(t)
  PROVE  TurnInv'
<1>1. /\ regen' \in [Turns -> 0..MaxRegenerations] \/ Upsert(t) \/ FlushOver(t) \/ TurnReturns(t)
      /\ faults' \in 0..MaxFaults \/ Upsert(t) \/ FlushOver(t) \/ TurnReturns(t)
  <2>1. ASSUME Regenerate(t) PROVE regen' \in [Turns -> 0..MaxRegenerations]
    BY <2>1, TurnAssumption DEF Regenerate, MayReplay, CountReplay, TurnInv, TurnTypeOK
  <2>2. ASSUME Commit(t) PROVE regen' \in [Turns -> 0..MaxRegenerations]
    BY <2>2, TurnAssumption DEF Commit, TurnInv, TurnTypeOK
  <2>3. ASSUME ModelReturns(t) PROVE faults' \in 0..MaxFaults
    BY <2>3, TurnAssumption DEF ModelReturns, Fault, TurnInv, TurnTypeOK
  <2> QED
    BY <2>1, <2>2, <2>3
       DEF Advance, ReceivedEventOver, ModelReturns, Commit, SentEventOver, Regenerate, TurnInv, TurnTypeOK
<1>2. cut[t] => cancelled[t] /\ turn[t] \in Early \union {"discarded"}
  BY DEF TurnInv, CutIsDiscarded
<1>3. CASE ReceivedEventOver(t)
  <2>1. PICK p \in {"model", "discarded", "response_generated"} : Goto(t, p)
    BY <1>3 DEF ReceivedEventOver
  <2>2. p \in Places /\ p \in Early \union {"discarded"} /\ ~Flushing(t)
    BY <1>3 DEF ReceivedEventOver, Places, Events, TurnOver, Early, Flushing
  <2> QED
    BY <1>1, <1>3, <2>1, <2>2, GotoInv DEF ReceivedEventOver, Upsert, FlushOver, TurnReturns
<1>4. CASE ModelReturns(t)
  <2>1. PICK p \in {"discarded", "response_generated"} : Goto(t, p)
    BY <1>4 DEF ModelReturns
  <2>2. p \in Places /\ p \in Early \union {"discarded"} /\ ~Flushing(t)
    BY <1>4 DEF ModelReturns, Places, Events, TurnOver, Early, Flushing
  <2> QED
    BY <1>1, <1>4, <2>1, <2>2, GotoInv DEF ModelReturns, Upsert, FlushOver, TurnReturns
<1>5. CASE Regenerate(t)
  <2>1. "model" \in Places /\ "model" \in Early /\ ~Flushing(t)
    BY <1>5 DEF Regenerate, Places, Early, Flushing
  <2>2. /\ Goto(t, "model")
        /\ regen' \in [Turns -> 0..MaxRegenerations] /\ faults' \in 0..MaxFaults
        /\ UNCHANGED <<left, short, cancelled, cut, viewVars, flushVars>>
    BY <1>1, <1>5 DEF Regenerate, Upsert, FlushOver, TurnReturns, TurnInv, TurnTypeOK
  <2> QED
    BY <1>2, <1>5, <2>1, <2>2, GotoInv
<1>6. CASE Commit(t)
  <2>1. /\ ~Flushing(t)
        /\ regen' \in [Turns -> 0..MaxRegenerations]
        /\ UNCHANGED <<faults, left, short, cancelled, cut, viewVars, stored>>
    BY <1>1, <1>6 DEF Commit, Flushing, Upsert, FlushOver, TurnReturns
  <2>2. CASE Goto(t, "flush") /\ Flush(t) /\ ~Gated(t) /\ short[t] # "ephemeral"
    <3>1. ~cut[t]
      BY <1>2, <2>2 DEF Gated
    <3> QED
      BY <2>1, <2>2, <3>1, FlushInv
  <2>3. CASE /\ \/ Gated(t) /\ Goto(t, "discarded")
                \/ ~Gated(t) /\ Goto(t, "response_sent")
             /\ UNCHANGED <<shot, written>>
    <3>1. PICK p \in {"discarded", "response_sent"} :
            Goto(t, p) /\ (p = "response_sent" => ~cut[t])
      BY <1>2, <2>3 DEF Gated
    <3>2. p \in Places /\ faults' \in 0..MaxFaults
      BY <2>1 DEF Places, TurnOver, Events, TurnInv, TurnTypeOK
    <3> QED
      BY <2>1, <2>3, <3>1, <3>2, GotoInv DEF flushVars
  <2> QED
    BY <1>6, <2>2, <2>3 DEF Commit
<1>7. CASE Upsert(t)
  BY <1>7, UpsertInv
<1>8. CASE FlushOver(t)
  <2>1. PICK ok \in BOOLEAN : Answered(t, ok)
    BY <1>8 DEF FlushOver
  <2>2. PICK p \in {"discarded", "response_sent"} : Goto(t, p)
    BY <1>8 DEF FlushOver
  <2> QED
    BY <1>8, <2>1, <2>2, AnsweredInv DEF FlushOver, Flushing
<1>9. CASE SentEventOver(t)
  <2>1. ~Flushing(t) /\ ~cut[t]
    BY <1>2, <1>9 DEF SentEventOver, Flushing, Early
  <2>2. UNCHANGED <<faults, left, short, regen, cancelled, cut, viewVars, stored>>
    BY <1>9 DEF SentEventOver
  <2>3. regen' \in [Turns -> 0..MaxRegenerations] /\ faults' \in 0..MaxFaults
    BY <2>2 DEF TurnInv, TurnTypeOK
  <2>4. CASE short[t] # "ephemeral" /\ FlushAgain(t)
    BY <2>1, <2>2, <2>3, <2>4, FlushInv DEF FlushAgain
  <2>5. CASE short[t] = "ephemeral" /\ Goto(t, "done") /\ UNCHANGED <<shot, written>>
    <3>1. "done" \in Places
      BY DEF Places, TurnOver
    <3> QED
      BY <2>1, <2>2, <2>3, <2>5, <3>1, GotoInv DEF flushVars
  <2> QED
    BY <1>9, <2>4, <2>5 DEF SentEventOver
<1>10. CASE TurnReturns(t)
  <2>1. PICK ok \in BOOLEAN : Answered(t, ok) /\ Goto(t, IF ok THEN "done" ELSE "unflushed")
    BY <1>10 DEF TurnReturns
  <2>2. PICK p \in {"done", "unflushed"} : Goto(t, p) /\ (p = "done" => ok)
    BY <2>1
  <2> QED
    BY <1>10, <2>1, <2>2, AnsweredInv DEF TurnReturns, Flushing
<1> QED
  BY <1>3, <1>4, <1>5, <1>6, <1>7, <1>8, <1>9, <1>10 DEF Advance

-----------------------------------------------------------------------------
(* The theorems.                                                           *)

LEMMA TurnInvStep == TurnInv /\ [TurnNext]_turnVars => TurnInv'
<1> SUFFICES ASSUME TurnInv, [TurnNext]_turnVars PROVE TurnInv'
  OBVIOUS
<1>1. CASE UNCHANGED turnVars
  BY <1>1 DEF turnVars, hookVars, viewVars, flushVars, TurnInv, TurnTypeOK, NoLateValue, ShotIsView,
     UnsavedIsKnown, WrittenIsSaved, CutIsDiscarded, EphemeralIsNotFlushed, KeptTurnIsStored, Flushing
<1>2. CASE TurnNext
  BY <1>2, PrepareInv, AbortInv, HookInv, AdvanceInv DEF TurnNext
<1> QED
  BY <1>1, <1>2

\* The invariant of the buffered turns (pipeline.ts, state.buffer.ts, hook-runner.ts):
\* what a flush writes is the turn's view, and the gates let no cancelled turn begin one.
THEOREM TurnIsInvariant == TurnSpec => []TurnInv
BY TurnInvInit, TurnInvStep, PTL DEF TurnSpec

\* Type correctness of Turn, the bound on replays included (response-replay.ts).
THEOREM TurnTypeCorrect == TurnSpec => []TurnTypeOK
BY TurnIsInvariant, PTL DEF TurnInv

\* A hook that timed out leaves no trace in the stored state (fenceState), with any
\* number of turns and hooks, and however late it writes.
THEOREM AbandonedHooksAreFenced == TurnSpec => []AbandonedHookLeavesNoTrace
<1>1. TurnInv => AbandonedHookLeavesNoTrace
  BY DEF TurnInv, NoLateValue, AbandonedHookLeavesNoTrace
<1> QED
  BY <1>1, TurnIsInvariant, PTL

\* A turn whose last flush was answered has stored all it wrote (state.buffer.ts).
THEOREM KeptTurnsAreStored == TurnSpec => []KeptTurnIsStored
BY TurnIsInvariant, PTL DEF TurnInv

\* Turns that run at once do not give back one another's keys, and cancelled or
\* ephemeral ones change none (state.store.ts, the gates of pipeline.ts).
THEOREM TurnsWriteTheirKeys == TurnSpec => KeysChangeByTheirWriter
<1>1. TurnInv /\ [TurnNext]_turnVars =>
        [\A k \in Keys : stored'[k] # stored[k] =>
           \E t \in Turns : /\ k \in dirty[t] \union removed[t]
                            /\ ~cut[t]
                            /\ short[t] # "ephemeral"]_turnVars
  <2> SUFFICES ASSUME TurnInv, TurnNext, NEW k \in Keys, stored'[k] # stored[k]
               PROVE  \E t \in Turns : /\ k \in dirty[t] \union removed[t]
                                       /\ ~cut[t]
                                       /\ short[t] # "ephemeral"
    OBVIOUS
  <2>1. PICK t \in Turns : Upsert(t)
    BY DEF TurnNext, Advance, Prepare, Abort, HookReturns, HookHalts, HookTimesOut, LateWrite,
       ToolWrites, Regenerate, ReceivedEventOver, ModelReturns, Commit, FlushOver, SentEventOver,
       TurnReturns, Answered, flushVars
  <2>2. /\ Flushing(t)
        /\ shot[t] = [set |-> data[t], dirty |-> dirty[t], removed |-> removed[t]]
    BY <2>1 DEF Upsert, Flushing, TurnInv, ShotIsView
  <2>3. k \in dirty[t] \union removed[t]
    BY <2>1, <2>2 DEF Upsert
  <2>4. ~cut[t] /\ short[t] # "ephemeral"
    BY <2>2 DEF TurnInv, CutIsDiscarded, EphemeralIsNotFlushed, Flushing, Early
  <2> QED
    BY <2>3, <2>4
<1> QED
  BY <1>1, TurnIsInvariant, PTL DEF TurnSpec, KeysChangeByTheirWriter

-----------------------------------------------------------------------------
(* Optout.                                                                 *)

Entry == [live : BOOLEAN, value : Statuses, left : 0..Ttl, late : BOOLEAN]

Request == [pc : {"free", "reading", "answered", "writing", "written"},
            kind : Questions \union Changes, proc : OptProcs, seen : Statuses,
            waited : 0..Lag, late : BOOLEAN, met : BOOLEAN]

\* The records the module makes are of these types.
LEMMA RequestTypes ==
  ASSUME OptProcs # {}
  PROVE  /\ NoEntry \in Entry
         /\ Free \in Request /\ Free.pc = "free"
         /\ \A p \in OptProcs : NoRequest(p) \in Request
<1>1. \A p \in OptProcs : NoRequest(p) \in Request
  BY OptoutAssumption DEF NoRequest, Request, Statuses, Questions
<1>2. Free \in Request /\ Free.pc = "free"
  <2>1. (CHOOSE p \in OptProcs : TRUE) \in OptProcs
    OBVIOUS
  <2> QED
    BY <1>1, <2>1 DEF Free, NoRequest
<1>3. NoEntry \in Entry
  BY OptoutAssumption DEF NoEntry, Entry, Statuses
<1> QED
  BY <1>1, <1>2, <1>3

\* The invariant holds initially: nothing is cached and nothing under way.
LEMMA OptoutInvInit == OptoutInit => OptoutInv
<1> SUFFICES ASSUME OptoutInit PROVE OptoutInv
  OBVIOUS
<1>1. OptProcs # {}
  BY DEF OptoutInit
<1>2. OptoutTypeOK
  <2>1. entry \in [OptProcs -> Entry] /\ req \in [Requests -> Request]
    BY <1>1, RequestTypes DEF OptoutInit
  <2>2. begun \in 0..MaxRequests /\ errors \in 0..MaxErrors /\ age \in 0..Ttl + Lag
    BY OptoutAssumption DEF OptoutInit
  <2> QED
    BY <2>1, <2>2 DEF OptoutInit, OptoutTypeOK, Entry, Request, Statuses
<1>3. ReadIsRecent /\ OwnChangeIsRead
  BY <1>1, RequestTypes DEF OptoutInit, ReadIsRecent, OwnChangeIsRead, HasRead
<1>4. EntryIsRecent /\ OwnChangeIsSeen
  BY DEF OptoutInit, EntryIsRecent, OwnChangeIsSeen, Hits, NoEntry
<1> QED
  BY <1>2, <1>3, <1>4 DEF OptoutInv

\* One request changes, and neither the row nor an entry: a read that is under way has
\* seen the present status, and no change is invalidated.
LEMMA RequestInv ==
  ASSUME OptoutInv, NEW r \in Requests, NEW q \in Request,
         req' = [req EXCEPT ![r] = q],
         q.pc = "answered" => q.seen = status,
         req[r].pc # "written",
         begun' \in 0..MaxRequests, errors' \in 0..MaxErrors, ignored' \in BOOLEAN,
         UNCHANGED <<status, entry, age, last>>
  PROVE  OptoutInv'
<1>1. /\ req'[r] = q
      /\ \A s \in Requests \ {r} : req'[s] = req[s]
      /\ req' \in [Requests -> Request]
  BY DEF OptoutInv, OptoutTypeOK, Request
<1>2. OptoutTypeOK'
  BY <1>1 DEF OptoutInv, OptoutTypeOK, Request
<1>3. ReadIsRecent'
  BY <1>1 DEF OptoutInv, ReadIsRecent, HasRead
<1>4. EntryIsRecent'
  BY DEF OptoutInv, EntryIsRecent, Hits
<1>5. \A p \in OptProcs : Invalidating(p) => Invalidating(p)'
  BY <1>1 DEF Invalidating
<1>6. OwnChangeIsSeen'
  BY <1>5 DEF OptoutInv, OwnChangeIsSeen, Invalidating
<1>7. OwnChangeIsRead'
  BY <1>1, <1>5 DEF OptoutInv, OptoutTypeOK, OwnChangeIsRead, HasRead
<1> QED
  BY <1>2, <1>3, <1>4, <1>6, <1>7 DEF OptoutInv

\* What a request becomes when it acts on a status.
LEMMA ActRequest ==
  ASSUME OptoutTypeOK, NEW r \in Requests, NEW q \in Request, NEW seen \in Statuses,
         Act(r, q, seen)
  PROVE  /\ ignored' \in BOOLEAN
         /\ \E n \in Request : /\ req' = [req EXCEPT ![r] = n]
                               /\ n.pc \in {"writing", "free"}
<1>1. OptProcs # {}
  BY DEF OptoutTypeOK
<1>2. ignored' \in BOOLEAN
  BY DEF Act, OptoutTypeOK
<1>3. CASE Transition(q.kind, seen)
  <2>1. [NoRequest(q.proc) EXCEPT !.pc = "writing", !.kind = q.kind] \in Request
    BY <1>1, RequestTypes DEF Request, NoRequest
  <2>2. [NoRequest(q.proc) EXCEPT !.pc = "writing", !.kind = q.kind].pc = "writing"
    BY DEF NoRequest
  <2> QED
    BY <1>2, <1>3, <2>1, <2>2 DEF Act
<1>4. CASE ~Transition(q.kind, seen)
  BY <1>1, <1>2, <1>4, RequestTypes DEF Act
<1> QED
  BY <1>3, <1>4

\* Requests begin, are read for, or are over with an error.
LEMMA AskInv ==
  ASSUME OptoutInv, NEW r \in Requests,
         \/ \E p \in OptProcs, kind \in Questions \union Changes : Ask(r, p, kind) \/ Change(r, p, kind)
         \/ Select(r) \/ SelectFails(r) \/ WriteFails(r)
  PROVE  OptoutInv'
<1>1. OptProcs # {} /\ req[r] \in Request
  BY DEF OptoutInv, OptoutTypeOK, Request
<1>2. ASSUME NEW p \in OptProcs, NEW kind \in Questions \union Changes, Ask(r, p, kind)
      PROVE  OptoutInv'
  <2>1. DEFINE q == [NoRequest(p) EXCEPT !.kind = kind]
  <2>2. q \in Request /\ [q EXCEPT !.pc = "reading"] \in Request /\ [q EXCEPT !.pc = "reading"].pc = "reading"
    BY <1>1, RequestTypes DEF Request, NoRequest
  <2>3. entry[p].value \in Statuses
    BY DEF OptoutInv, OptoutTypeOK
  <2>4. /\ ignored' \in BOOLEAN
        /\ \E n \in Request : req' = [req EXCEPT ![r] = n] /\ n.pc # "answered"
    <3>1. CASE Hits(p)
      <4>1. Act(r, q, entry[p].value)
        BY <1>2, <3>1 DEF Ask
      <4> HIDE DEF q
      <4> QED
        BY <2>2, <2>3, <4>1, ActRequest DEF OptoutInv
    <3>2. CASE ~Hits(p)
      <4>1. req' = [req EXCEPT ![r] = [q EXCEPT !.pc = "reading"]] /\ UNCHANGED ignored
        BY <1>2, <3>2 DEF Ask
      <4> HIDE DEF q
      <4> QED
        BY <2>2, <4>1 DEF OptoutInv, OptoutTypeOK
    <3> QED
      BY <3>1, <3>2
  <2>5. /\ req[r].pc = "free"
        /\ begun' \in 0..MaxRequests
        /\ UNCHANGED <<status, entry, errors, age, last>>
    <3>1. req[r].pc = "free" /\ begun < MaxRequests /\ begun' = begun + 1
      BY <1>2 DEF Ask, Begins
    <3>2. begun \in 0..MaxRequests
      BY DEF OptoutInv, OptoutTypeOK
    <3>3. UNCHANGED <<status, entry, errors, age, last>>
      BY <1>2 DEF Ask
    <3> QED
      BY <3>1, <3>2, <3>3, OptoutAssumption
  <2>6. errors' \in 0..MaxErrors
    BY <2>5 DEF OptoutInv, OptoutTypeOK
  <2> QED
    BY <2>4, <2>5, <2>6, RequestInv
<1>3. ASSUME NEW p \in OptProcs, NEW kind \in Questions \union Changes, Change(r, p, kind)
      PROVE  OptoutInv'
  <2>1. PICK n \in Request : req' = [req EXCEPT ![r] = n] /\ n.pc = "writing"
    <3>1. /\ [NoRequest(p) EXCEPT !.pc = "writing", !.kind = kind] \in Request
          /\ [NoRequest(p) EXCEPT !.pc = "writing", !.kind = kind].pc = "writing"
      BY <1>1, RequestTypes DEF Request, NoRequest
    <3> QED
      BY <1>3, <3>1 DEF Change
  <2>2. /\ req[r].pc = "free"
        /\ begun' \in 0..MaxRequests
        /\ UNCHANGED <<status, entry, errors, age, last, ignored>>
    <3>1. req[r].pc = "free" /\ begun < MaxRequests /\ begun' = begun + 1
      BY <1>3 DEF Change, Begins
    <3>2. begun \in 0..MaxRequests
      BY DEF OptoutInv, OptoutTypeOK
    <3>3. UNCHANGED <<status, entry, errors, age, last, ignored>>
      BY <1>3 DEF Change
    <3> QED
      BY <3>1, <3>2, <3>3, OptoutAssumption
  <2>3. errors' \in 0..MaxErrors /\ ignored' \in BOOLEAN
    BY <2>2 DEF OptoutInv, OptoutTypeOK
  <2> QED
    BY <2>1, <2>2, <2>3, RequestInv
<1>4. CASE Select(r)
  <2>1. PICK n \in Request : req' = [req EXCEPT ![r] = n] /\ n.seen = status
    <3>1. DEFINE n == [req[r] EXCEPT !.pc = "answered", !.seen = status,
                                     !.met = status = Asks(req[r].kind)]
    <3>2. n \in Request /\ n.seen = status
      BY <1>1 DEF Request, OptoutInv, OptoutTypeOK
    <3>3. req' = [req EXCEPT ![r] = n]
      BY <1>4 DEF Select, OptoutInv, OptoutTypeOK
    <3> QED
      BY <3>2, <3>3
  <2> QED
    BY <1>4, <2>1, RequestInv DEF Select, OptoutInv, OptoutTypeOK
<1>5. CASE SelectFails(r) \/ WriteFails(r)
  <2>1. errors' \in 0..MaxErrors /\ ignored' \in BOOLEAN
    <3>1. errors < MaxErrors /\ errors' = errors + 1 /\ errors \in 0..MaxErrors
      BY <1>5 DEF SelectFails, WriteFails, Error, OptoutInv, OptoutTypeOK
    <3>2. ignored' \in BOOLEAN
      BY <1>5 DEF SelectFails, WriteFails, OptoutInv, OptoutTypeOK
    <3> QED
      BY <3>1, <3>2, OptoutAssumption
  <2>2. req' = [req EXCEPT ![r] = Free] /\ req[r].pc # "written"
    BY <1>5 DEF SelectFails, WriteFails
  <2>3. /\ begun' \in 0..MaxRequests
        /\ UNCHANGED <<status, entry, age, last>>
    BY <1>5 DEF SelectFails, WriteFails, OptoutInv, OptoutTypeOK
  <2>4. Free \in Request /\ Free.pc = "free"
    BY <1>1, RequestTypes
  <2> QED
    BY <2>1, <2>2, <2>3, <2>4, RequestInv
<1> QED
  BY <1>2, <1>3, <1>4, <1>5

-----------------------------------------------------------------------------
(* What changes the row, an entry, or time.                                *)

\* A status that was read is cached: it was the row's at the read, whose call began at
\* most Lag ticks ago.
LEMMA FillInv ==
  ASSUME OptoutInv, NEW r \in Requests, Fill(r)
  PROVE  OptoutInv'
<1>1. /\ req[r] \in Request /\ OptProcs # {}
      /\ req[r].pc = "answered"
      /\ entry' = [entry EXCEPT ![req[r].proc] =
                     [live |-> TRUE, value |-> req[r].seen, left |-> Ttl, late |-> req[r].late]]
      /\ UNCHANGED <<status, begun, errors, age, last>>
  BY DEF Fill, OptoutInv, OptoutTypeOK, Request
<1>2. PICK n \in Request : /\ req' = [req EXCEPT ![r] = n]
                           /\ n.pc \in {"writing", "free"}
  <2>1. Act(r, req[r], req[r].seen) /\ req[r].seen \in Statuses
    BY <1>1 DEF Fill, Request
  <2> QED
    BY <1>1, <2>1, ActRequest DEF OptoutInv
<1>3. /\ req'[r] = n
      /\ \A s \in Requests \ {r} : req'[s] = req[s]
      /\ req' \in [Requests -> Request]
  BY <1>2 DEF OptoutInv, OptoutTypeOK, Request
<1>4. /\ req[r].proc \in OptProcs
      /\ entry'[req[r].proc] =
           [live |-> TRUE, value |-> req[r].seen, left |-> Ttl, late |-> req[r].late]
      /\ \A p \in OptProcs \ {req[r].proc} : entry'[p] = entry[p]
      /\ entry' \in [OptProcs -> Entry]
  BY <1>1, OptoutAssumption DEF OptoutInv, OptoutTypeOK, Entry, Request
<1>5. OptoutTypeOK'
  <2>1. ignored' \in BOOLEAN
    BY DEF Fill, Act, OptoutInv, OptoutTypeOK
  <2> QED
    BY <1>1, <1>3, <1>4, <2>1 DEF OptoutInv, OptoutTypeOK, Request, Entry
<1>6. ReadIsRecent'
  BY <1>1, <1>2, <1>3 DEF OptoutInv, ReadIsRecent, HasRead
<1>7. EntryIsRecent'
  <2>1. ASSUME req[r].seen # status PROVE age + Ttl <= Ttl + Lag
    <3>1. age <= req[r].waited /\ req[r].waited \in 0..Lag /\ age \in 0..Ttl + Lag
      BY <1>1, <2>1 DEF OptoutInv, OptoutTypeOK, ReadIsRecent, HasRead, Request
    <3> QED
      BY <3>1, OptoutAssumption
  <2> QED
    BY <1>1, <1>4, <2>1 DEF OptoutInv, EntryIsRecent, Hits
<1>8. \A p \in OptProcs : Invalidating(p) => Invalidating(p)'
  BY <1>1, <1>3 DEF Invalidating
<1>9. OwnChangeIsRead'
  BY <1>1, <1>2, <1>3, <1>8 DEF OptoutInv, OptoutTypeOK, OwnChangeIsRead, HasRead
<1>10. OwnChangeIsSeen'
  <2>1. ASSUME NEW p \in OptProcs, entry'[p].live, last = p, entry'[p].value # status
        PROVE  entry'[p].late \/ Invalidating(p)
    BY <1>1, <1>4, <2>1 DEF OptoutInv, OwnChangeIsRead, OwnChangeIsSeen, HasRead, Invalidating
  <2> QED
    BY <1>1, <1>8, <2>1 DEF OwnChangeIsSeen, Invalidating
<1> QED
  BY <1>5, <1>6, <1>7, <1>9, <1>10 DEF OptoutInv

\* The row is written: its age is 0 if it changes, and the writer will invalidate.
LEMMA WriteInv ==
  ASSUME OptoutInv, NEW r \in Requests, Write(r)
  PROVE  OptoutInv'
<1>1. /\ req[r] \in Request
      /\ status' \in Statuses
      /\ status' # status => age' = 0
      /\ status' = status => age' = age
      /\ age' \in 0..Ttl + Lag
      /\ last' = req[r].proc
      /\ UNCHANGED <<entry, begun, errors, ignored>>
  BY OptoutAssumption DEF Write, Asks, Statuses, OptoutInv, OptoutTypeOK, Request
<1>2. /\ req'[r] = [req[r] EXCEPT !.pc = "written"]
      /\ \A s \in Requests \ {r} : req'[s] = req[s]
      /\ req' \in [Requests -> Request]
  BY <1>1 DEF Write, OptoutInv, OptoutTypeOK, Request
<1>3. req'[r].pc = "written" /\ req'[r].proc = last' /\ last' \in OptProcs
  BY <1>1, <1>2 DEF Request
<1>4. OptoutTypeOK'
  BY <1>1, <1>2, <1>3 DEF OptoutInv, OptoutTypeOK, Request
<1>5. \E q \in Requests : req'[q].pc = "written" /\ req'[q].proc = last'
  BY <1>3
<1>6. OwnChangeIsRead' /\ OwnChangeIsSeen'
  BY <1>5 DEF OwnChangeIsRead, OwnChangeIsSeen, Invalidating
<1>7. ReadIsRecent'
  <2>1. \A s \in Requests : HasRead(s)' => HasRead(s) /\ req'[s] = req[s]
    BY <1>2, <1>3 DEF HasRead
  <2>2. \A s \in Requests : req[s].waited \in 0..Lag
    BY DEF OptoutInv, OptoutTypeOK
  <2> QED
    BY <1>1, <2>1, <2>2, OptoutAssumption DEF OptoutInv, ReadIsRecent
<1>8. EntryIsRecent'
  <2>1. \A p \in OptProcs : entry[p].left \in 0..Ttl
    BY DEF OptoutInv, OptoutTypeOK
  <2> QED
    BY <1>1, <2>1, OptoutAssumption DEF OptoutInv, EntryIsRecent, Hits
<1> QED
  BY <1>4, <1>6, <1>7, <1>8 DEF OptoutInv

\* The writer's process drops its entry; the reads that are under way in it are late.
LEMMA InvalidateInv ==
  ASSUME OptoutInv, NEW r \in Requests, Invalidate(r)
  PROVE  OptoutInv'
<1>1. /\ req[r] \in Request /\ OptProcs # {}
      /\ req[r].pc = "written"
      /\ entry' = [entry EXCEPT ![req[r].proc] = NoEntry]
      /\ UNCHANGED <<status, begun, errors, age, last, ignored>>
  BY DEF Invalidate, DropEntry, OptoutInv, OptoutTypeOK, Request
<1>2. req' = [s \in Requests |->
                IF s = r THEN Free
                ELSE [req[s] EXCEPT !.late = @ \/ (req[s].pc = "answered" /\ req[s].proc = req[r].proc)]]
  BY DEF Invalidate
<1>3. Free \in Request /\ Free.pc = "free" /\ NoEntry \in Entry /\ ~NoEntry.live
  BY <1>1, RequestTypes DEF NoEntry
<1>4. ASSUME NEW s \in Requests \ {r}
      PROVE  /\ req'[s] \in Request
             /\ req'[s].pc = req[s].pc /\ req'[s].proc = req[s].proc
             /\ req'[s].seen = req[s].seen /\ req'[s].waited = req[s].waited
             /\ req[s].late => req'[s].late
             /\ req[s].pc = "answered" /\ req[s].proc = req[r].proc => req'[s].late
  <2>1. req[s] \in Request
    BY DEF OptoutInv, OptoutTypeOK, Request
  <2> QED
    BY <1>2, <2>1 DEF Request
<1>5. req' \in [Requests -> Request]
  BY <1>2, <1>3, <1>4
<1>6. /\ entry' \in [OptProcs -> Entry]
      /\ ~entry'[req[r].proc].live
      /\ \A p \in OptProcs \ {req[r].proc} : entry'[p] = entry[p]
  BY <1>1, <1>3 DEF OptoutInv, OptoutTypeOK, Entry, Request
<1>7. OptoutTypeOK'
  BY <1>1, <1>5, <1>6 DEF OptoutInv, OptoutTypeOK, Request, Entry
<1>8. req'[r].pc = "free"
  BY <1>2, <1>3
<1>9. ReadIsRecent'
  BY <1>1, <1>4, <1>8 DEF OptoutInv, ReadIsRecent, HasRead
<1>10. EntryIsRecent'
  BY <1>1, <1>6 DEF OptoutInv, EntryIsRecent, Hits
<1>11. \A p \in OptProcs \ {req[r].proc} : Invalidating(p) => Invalidating(p)'
  BY <1>4 DEF Invalidating
<1>12. OwnChangeIsRead'
  <2> SUFFICES ASSUME NEW s \in Requests, HasRead(s)', last = req'[s].proc, req'[s].seen # status
               PROVE  \/ req'[s].late
                      \/ \E q \in Requests : req'[q].pc = "written" /\ req'[q].proc = req'[s].proc
    BY <1>1 DEF OwnChangeIsRead, Invalidating
  <2>1. s \in Requests \ {r} /\ req[s].pc = "answered" /\ req[s].proc \in OptProcs
    BY <1>4, <1>8 DEF HasRead, OptoutInv, OptoutTypeOK
  <2>2. CASE req[s].proc = req[r].proc
    BY <1>4, <2>1, <2>2
  <2>3. CASE req[s].proc # req[r].proc
    <3>1. req[s].late \/ Invalidating(req[s].proc)
      BY <1>4, <2>1 DEF OptoutInv, OwnChangeIsRead, HasRead
    <3> QED
      BY <1>4, <1>11, <2>1, <2>3, <3>1 DEF Invalidating
  <2> QED
    BY <2>2, <2>3
<1>13. OwnChangeIsSeen'
  BY <1>1, <1>6, <1>11 DEF OptoutInv, OwnChangeIsSeen, Invalidating
<1> QED
  BY <1>7, <1>9, <1>10, <1>12, <1>13 DEF OptoutInv

\* An entry goes.
LEMMA EvictInv ==
  ASSUME OptoutInv, NEW p \in OptProcs, Evict(p)
  PROVE  OptoutInv'
<1>1. /\ entry' = [entry EXCEPT ![p] = NoEntry]
      /\ NoEntry \in Entry /\ ~NoEntry.live
      /\ UNCHANGED <<status, req, begun, errors, age, last, ignored>>
  BY RequestTypes DEF Evict, NoEntry
<1>2. /\ entry' \in [OptProcs -> Entry]
      /\ ~entry'[p].live
      /\ \A o \in OptProcs \ {p} : entry'[o] = entry[o]
  BY <1>1 DEF OptoutInv, OptoutTypeOK, Entry
<1>3. OptoutTypeOK'
  BY <1>1, <1>2 DEF OptoutInv, OptoutTypeOK, Entry
<1>4. ReadIsRecent' /\ OwnChangeIsRead'
  BY <1>1 DEF OptoutInv, ReadIsRecent, OwnChangeIsRead, HasRead, Invalidating
<1>5. EntryIsRecent' /\ OwnChangeIsSeen'
  BY <1>1, <1>2 DEF OptoutInv, EntryIsRecent, OwnChangeIsSeen, Hits
<1> QED
  BY <1>3, <1>4, <1>5 DEF OptoutInv

\* Time passes for the row, the entries and the calls alike.
LEMMA TickInv ==
  ASSUME OptoutInv, Tick
  PROVE  OptoutInv'
<1>1. UNCHANGED <<status, begun, errors, last, ignored>>
  BY DEF Tick
<1>2. /\ age' \in 0..Ttl + Lag
      /\ age' <= age + 1
  BY OptoutAssumption DEF Tick, OptoutInv, OptoutTypeOK
<1>3. ASSUME NEW r \in Requests
      PROVE  /\ req'[r] \in Request
             /\ req'[r].pc = req[r].pc /\ req'[r].proc = req[r].proc
             /\ req'[r].seen = req[r].seen /\ req'[r].late = req[r].late
             /\ req[r].pc # "free" => req'[r].waited = req[r].waited + 1
  <2>1. req[r] \in Request
    BY DEF OptoutInv, OptoutTypeOK, Request
  <2>2. req'[r] = IF req[r].pc = "free" THEN req[r] ELSE [req[r] EXCEPT !.waited = @ + 1]
    BY DEF Tick
  <2>3. req[r].pc # "free" => req[r].waited + 1 \in 0..Lag
    BY <2>1, OptoutAssumption DEF Tick, Request
  <2> QED
    BY <2>1, <2>2, <2>3 DEF Request
<1>4. ASSUME NEW p \in OptProcs
      PROVE  /\ entry'[p] \in Entry
             /\ entry'[p].live = entry[p].live /\ entry'[p].value = entry[p].value
             /\ entry'[p].late = entry[p].late
             /\ entry'[p].left > 0 => entry[p].left = entry'[p].left + 1
  <2>1. entry[p] \in Entry
    BY DEF OptoutInv, OptoutTypeOK, Entry
  <2>2. entry'[p] = [entry[p] EXCEPT !.left = IF @ > 0 THEN @ - 1 ELSE 0]
    BY DEF Tick
  <2>3. (IF entry[p].left > 0 THEN entry[p].left - 1 ELSE 0) \in 0..Ttl
    BY <2>1, OptoutAssumption DEF Entry
  <2> QED
    BY <2>1, <2>2, <2>3, OptoutAssumption DEF Entry
<1>5. req' \in [Requests -> Request] /\ entry' \in [OptProcs -> Entry]
  BY <1>3, <1>4 DEF Tick
<1>6. OptoutTypeOK'
  BY <1>1, <1>2, <1>5 DEF OptoutInv, OptoutTypeOK, Request, Entry
<1>7. ReadIsRecent'
  <2>1. age \in 0..Ttl + Lag /\ \A r \in Requests : req[r].waited \in 0..Lag
    BY DEF OptoutInv, OptoutTypeOK
  <2> QED
    BY <1>1, <1>2, <1>3, <2>1, OptoutAssumption DEF OptoutInv, ReadIsRecent, HasRead
<1>8. EntryIsRecent'
  <2>1. age \in 0..Ttl + Lag /\ \A p \in OptProcs : entry[p].left \in 0..Ttl /\ entry'[p].left \in 0..Ttl
    BY <1>4 DEF OptoutInv, OptoutTypeOK, Entry
  <2> QED
    BY <1>1, <1>2, <1>4, <2>1, OptoutAssumption DEF OptoutInv, EntryIsRecent, Hits
<1>9. \A p \in OptProcs : Invalidating(p) <=> Invalidating(p)'
  BY <1>3 DEF Invalidating
<1>10. OwnChangeIsRead'
  <2>1. \A r \in Requests : req[r].proc \in OptProcs
    BY DEF OptoutInv, OptoutTypeOK
  <2> QED
    BY <1>1, <1>3, <1>9, <2>1 DEF OptoutInv, OwnChangeIsRead, HasRead
<1>11. OwnChangeIsSeen'
  BY <1>1, <1>4, <1>9 DEF OptoutInv, OwnChangeIsSeen, Invalidating
<1> QED
  BY <1>6, <1>7, <1>8, <1>10, <1>11 DEF OptoutInv

-----------------------------------------------------------------------------
(* The theorems.                                                           *)

LEMMA OptoutInvStep == OptoutInv /\ [OptoutNext]_optVars => OptoutInv'
<1> SUFFICES ASSUME OptoutInv, [OptoutNext]_optVars PROVE OptoutInv'
  OBVIOUS
<1>1. CASE UNCHANGED optVars
  BY <1>1 DEF optVars, OptoutInv, OptoutTypeOK, ReadIsRecent, EntryIsRecent, OwnChangeIsRead,
     OwnChangeIsSeen, HasRead, Hits, Invalidating
<1>2. CASE OptoutNext
  BY <1>2, TickInv, EvictInv, AskInv, FillInv, WriteInv, InvalidateInv DEF OptoutNext
<1> QED
  BY <1>1, <1>2

\* The invariant of the opt-out cache (contact-optouts.store.ts, ttl-cache.ts): a status
\* that was read, or is cached, differs from the row only if the row changed since.
THEOREM OptoutIsInvariant == OptoutSpec => []OptoutInv
BY OptoutInvInit, OptoutInvStep, PTL DEF OptoutSpec

\* A status that is served is the row's, or the row changed less than the life of an
\* entry and a read ago, in whatever process.
THEOREM ServedIsRecent == OptoutSpec => []ServedStatusIsRecent
<1>1. OptoutInv => ServedStatusIsRecent
  <2> SUFFICES ASSUME OptoutInv, NEW p \in OptProcs, Hits(p), entry[p].value # status
               PROVE  age < Ttl + Lag
    BY DEF ServedStatusIsRecent
  <2>1. age + entry[p].left <= Ttl + Lag /\ entry[p].left > 0
    BY DEF OptoutInv, EntryIsRecent, Hits
  <2>2. age \in 0..Ttl + Lag /\ entry[p].left \in 0..Ttl
    BY DEF OptoutInv, OptoutTypeOK
  <2> QED
    BY <2>1, <2>2, OptoutAssumption
<1> QED
  BY <1>1, OptoutIsInvariant, PTL

\* A process sees its own change of a status, but for reads that were late.
THEOREM OwnChangesAreSeen == OptoutSpec => []OwnChangeIsSeen
BY OptoutIsInvariant, PTL DEF OptoutInv
=============================================================================
