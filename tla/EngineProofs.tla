----------------------------- MODULE EngineProofs -----------------------------
(***************************************************************************)
(* MCEngine composes its parts faithfully: what is proved of each part on  *)
(* its own holds of the composition that TLC checks, for every choice of   *)
(* parts and constants.                                                    *)
(***************************************************************************)
EXTENDS MCEngine, CoordinatorProofs, TurnProofs, StoreProofs, ShutdownProofs, ConnectionProofs

Together == Spec /\ TurnSpec /\ ConvSpec /\ OptoutSpec /\ KnowledgeSpec /\ QueueSpec
            /\ ShutdownSpec /\ ChannelSpec /\ PoolSpec

\* A step of the engine is a step of one part and leaves the others as they are, so a
\* behaviour of the engine is a behaviour of every part.
THEOREM EngineRefinesItsParts == EngineSpec => Together
<1>1. EngineInit => /\ Init /\ TurnInit /\ ConvInit /\ OptoutInit /\ KnowledgeInit
                    /\ QueueInit /\ ShutdownInit /\ ChannelInit /\ PoolInit
  BY DEF EngineInit
<1>2. [EngineNext]_engineVars =>
        /\ [Next]_vars /\ [TurnNext]_turnVars /\ [ConvNext]_convVars
        /\ [OptoutNext]_optVars /\ [KnowledgeNext]_docVars /\ [QueueNext]_queueVars
        /\ [ShutdownNext]_downVars /\ [ChannelNext]_chanVars /\ [PoolNext]_poolVars
  BY DEF EngineNext, engineVars
<1> QED
  BY <1>1, <1>2, PTL DEF EngineSpec, Together, Spec, TurnSpec, ConvSpec, OptoutSpec, KnowledgeSpec,
     QueueSpec, ShutdownSpec, ChannelSpec, PoolSpec

\* Every part keeps to its types, in every behaviour of the engine.
THEOREM EngineTypeCorrect == EngineSpec => []EngineTypeOK
<1>1. EngineSpec => [](part \in Parts)
  <2>1. EngineInit => part \in Parts
    BY DEF EngineInit
  <2>2. part \in Parts /\ [EngineNext]_engineVars => (part \in Parts)'
    BY DEF EngineNext, engineVars
  <2> QED
    BY <2>1, <2>2, PTL DEF EngineSpec
<1>2. /\ TurnInv => TurnTypeOK
      /\ ConvInv => ConvTypeOK
      /\ OptoutInv => OptoutTypeOK
      /\ KnowledgeInv => KnowledgeTypeOK
      /\ QueueInv => QueueTypeOK
      /\ ShutdownInv => ShutdownTypeOK
      /\ ChannelInv => ChannelTypeOK
      /\ PoolInv => PoolTypeOK
  BY DEF TurnInv, ConvInv, OptoutInv, KnowledgeInv, QueueInv, ShutdownInv, ChannelInv, PoolInv
<1> QED
  BY <1>1, <1>2, EngineRefinesItsParts, TypeCorrect, TurnIsInvariant, ConvIsInvariant,
     OptoutIsInvariant, KnowledgeIsInvariant, QueueIsInvariant, ShutdownIsInvariant,
     ChannelIsInvariant, PoolIsInvariant, PTL
     DEF Together, EngineTypeOK

\* The properties of the run MCEngine, of the composition that the run checks, for all
\* values of the constants.  What message-coordinator.ts:29-30 says of cancelled runs needs
\* that a turn waits for nothing after it was saved (pipeline.ts:859).
THEOREM EngineIsSafe ==
  EngineSpec =>
    /\ [](FragmentsInOrder /\ BurstEndsClean /\ ToolRunNotCancelled /\ NothingStranded /\ AttemptsBounded)
    /\ [](AbandonedHookLeavesNoTrace /\ KeptTurnIsStored)
    /\ [](OnlyLateWritesStray /\ CountersAgree)
    /\ [](ServedStatusIsRecent /\ OwnChangeIsSeen)
    /\ [](ReadyIsIndexed)
    /\ [](EveryRowAccountedFor /\ OldestFirst /\ ShutdownWritesWhatIsLeft)
    /\ [](AwaitedTurnIsServed)
    /\ [](ChannelIsAsConfigured)
    /\ [](ClosedInTime)
    /\ ImplementsInbox /\ ImplementsLog /\ KeysChangeByTheirWriter /\ HealthyIsShared
    /\ ~SentHooksWait => []CancelledRunNotSaved
<1>1. Spec => /\ [](FragmentsInOrder /\ BurstEndsClean /\ ToolRunNotCancelled /\ NothingStranded /\ AttemptsBounded)
              /\ ImplementsInbox
  BY FragmentsKeepTheirOrder, DrainedIsAnswered, ToolWorkIsNotRepeated, NoFragmentIsStranded,
     AttemptsAreBounded, CoordinatorImplementsInbox, PTL
<1>2. TurnSpec => [](AbandonedHookLeavesNoTrace /\ KeptTurnIsStored) /\ KeysChangeByTheirWriter
  BY AbandonedHooksAreFenced, KeptTurnsAreStored, TurnsWriteTheirKeys, PTL
<1>3. ConvSpec => [](OnlyLateWritesStray /\ CountersAgree)
  BY OnlyCrossedTurnsStray, CountersAreRight, PTL
<1>4. OptoutSpec => [](ServedStatusIsRecent /\ OwnChangeIsSeen)
  BY ServedIsRecent, OwnChangesAreSeen, PTL
<1>5. QueueSpec => [](EveryRowAccountedFor /\ OldestFirst /\ ShutdownWritesWhatIsLeft) /\ ImplementsLog
  BY RowsAreAccountedFor, RowsWaitOldestFirst, ShutdownFlushesTheQueue, QueueImplementsLog, PTL
<1>6. ~SentHooksWait => (Spec => []CancelledRunNotSaved)
  BY CancelledRunsLeaveNoTrace
<1> QED
  BY <1>1, <1>2, <1>3, <1>4, <1>5, <1>6, EngineRefinesItsParts, ReadyDocumentsAreIndexed,
     AwaitedTurnsAreServed, ChannelRunsAsConfigured, ClientsAreClosedInTime, TurnsShareWhatWorks, PTL
     DEF Together
=============================================================================
