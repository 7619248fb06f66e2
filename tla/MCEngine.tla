------------------------------ MODULE MCEngine ------------------------------
(* The coordinator, the buffered turns, the tables of a conversation, the  *)
(* opt-out gate, a knowledge document, a log queue, the graceful shutdown, *)
(* the channel manager and the MCP pool.  They share no state: a behaviour *)
(* is one part's, which the first state picks, and the others stay as they *)
(* begin.                                                                  *)
EXTENDS Coordinator, Turn, Conversation, Optout, Knowledge, InsertQueue, GracefulShutdown,
        ChannelManager, McpPool

CONSTANTS Parts, t1, t2, p1, p2, r1, r2, c1, c2, c3, u1, u2

VARIABLE part

MCTurns    == {t1, t2}
MCProcs    == {p1, p2}
MCRequests == {r1, r2}
MCCalls    == {c1, c2, c3}
MCUsers    == {u1, u2}
MCHooks    == [e \in Events |-> 1]

engineVars == <<part, vars, turnVars, convVars, optVars, docVars, queueVars, downVars,
                chanVars, poolVars>>

EngineInit ==
  /\ part \in Parts
  /\ Init /\ TurnInit /\ ConvInit /\ OptoutInit /\ KnowledgeInit /\ ShutdownInit
  /\ ChannelInit /\ (part # "channel" => config.on)
  /\ PoolInit
  /\ QueueInit /\ (part # "queue" => bad = {} /\ life = "on")
  /\ part # "optout" => last = p1

EngineNext ==
  /\ UNCHANGED part
  /\ \/ /\ part = "coordinator" /\ Next
        /\ UNCHANGED <<turnVars, convVars, optVars, docVars, queueVars, downVars, chanVars, poolVars>>
     \/ /\ part = "turn" /\ TurnNext
        /\ UNCHANGED <<vars, convVars, optVars, docVars, queueVars, downVars, chanVars, poolVars>>
     \/ /\ part = "conversation" /\ ConvNext
        /\ UNCHANGED <<vars, turnVars, optVars, docVars, queueVars, downVars, chanVars, poolVars>>
     \/ /\ part = "optout" /\ OptoutNext
        /\ UNCHANGED <<vars, turnVars, convVars, docVars, queueVars, downVars, chanVars, poolVars>>
     \/ /\ part = "knowledge" /\ KnowledgeNext
        /\ UNCHANGED <<vars, turnVars, convVars, optVars, queueVars, downVars, chanVars, poolVars>>
     \/ /\ part = "queue" /\ QueueNext
        /\ UNCHANGED <<vars, turnVars, convVars, optVars, docVars, downVars, chanVars, poolVars>>
     \/ /\ part = "shutdown" /\ ShutdownNext
        /\ UNCHANGED <<vars, turnVars, convVars, optVars, docVars, queueVars, chanVars, poolVars>>
     \/ /\ part = "channel" /\ ChannelNext
        /\ UNCHANGED <<vars, turnVars, convVars, optVars, docVars, queueVars, downVars, poolVars>>
     \/ /\ part = "pool" /\ PoolNext
        /\ UNCHANGED <<vars, turnVars, convVars, optVars, docVars, queueVars, downVars, chanVars>>

EngineSpec == EngineInit /\ [][EngineNext]_engineVars

\* Of a part that was not picked no fair action is ever enabled.
EngineFairSpec ==
  EngineSpec /\ Fairness /\ TurnFairness /\ KnowledgeFairness /\ QueueFairness /\ ShutdownFairness

EngineTypeOK ==
  /\ part \in Parts
  /\ TypeOK /\ TurnTypeOK /\ ConvTypeOK /\ OptoutTypeOK /\ KnowledgeTypeOK /\ QueueTypeOK /\ ShutdownTypeOK
  /\ ChannelTypeOK /\ PoolTypeOK
=============================================================================
