---------------------------- MODULE ChannelManager ----------------------------
(***************************************************************************)
(* ChannelManager (channels/channel-manager.ts) for one channel of one     *)
(* agent that has no other: the operations that start and stop its         *)
(* adapters, from the boot and from the API, and the adapter's webhook     *)
(* registration (channels/adapters/telegram/).  Operations are numbered as *)
(* they begin; an adapter and an inner map have the number of the          *)
(* operation that made them.  A deleted agent's slug may be used again.    *)
(***************************************************************************)
EXTENDS Naturals

CONSTANT MaxOps   \* bound: operations

ASSUME ChannelAssumption == MaxOps \in Nat \ {0}

Ops == 1..MaxOps

VARIABLES
  config,     \* instance_channels: whether it is enabled, and which operation wrote it
  op,         \* each operation: where it is, what it does, and what it captured
  ops,        \* operations so far
  adapter,    \* each adapter: none, starting, live, failed, stopped (its bot is gone)
  chain,      \* its registration: none, calling the provider, waiting to retry, over
  adapters,   \* the agent's inner map in this.adapters, 0 if there is none
  inner,      \* the adapter each inner map holds, 0 if none
  undeleted,  \* history: the DELETE that was the last operation and failed after the stop, or 0
  disturbed   \* history: two operations overlapped, or the automatic disabling failed

chanVars == <<config, op, ops, adapter, chain, adapters, inner, undeleted, disturbed>>

NoOp == [pc |-> "none", kind |-> "on", version |-> 0, map |-> 0, adapter |-> 0]

UnderWay(o) == op[o].pc \notin {"none", "over"}

\* The boot has read the enabled channels (startAllForInstance); the API is up by then.
ChannelInit ==
  /\ \E on \in BOOLEAN :
       /\ config = [on |-> on, version |-> 0]
       /\ op = [o \in Ops |-> IF o > 1 THEN NoOp ELSE [NoOp EXCEPT !.pc = IF on THEN "saved" ELSE "over"]]
  /\ ops = 1
  /\ adapter = [a \in Ops |-> "none"]
  /\ chain = [a \in Ops |-> "none"]
  /\ adapters = 0
  /\ inner = [m \in Ops |-> 0]
  /\ undeleted = 0
  /\ disturbed = FALSE

Registered == IF adapters = 0 THEN {} ELSE {inner[adapters]} \ {0}

-----------------------------------------------------------------------------
(* The API.                                                                *)

BeginOp(kind, version) ==
  /\ ops < MaxOps
  /\ ops' = ops + 1
  /\ op' = [op EXCEPT ![ops'] = [pc |-> "saved", kind |-> kind, version |-> version,
                                 map |-> 0, adapter |-> 0]]
  /\ undeleted' = 0
  /\ disturbed' = (disturbed \/ \E o \in Ops : UnderWay(o))
  /\ UNCHANGED <<adapter, chain, adapters, inner>>

\* PUT: the row is saved, then the channel started with what was saved, or stopped.
PutOn  == BeginOp("on", ops + 1) /\ config' = [on |-> TRUE, version |-> ops']
PutOff == BeginOp("off", ops + 1) /\ config' = [on |-> FALSE, version |-> ops']

\* DELETE of the channel, and of the agent with its channels: it is stopped first.
DeleteChannel == BeginOp("delete", 0) /\ UNCHANGED config
DeleteAgent   == BeginOp("agent", 0) /\ UNCHANGED config

\* What follows the stop may throw (deleteChannelConfig; prepareAttachmentCleanup,
\* deleteInstance): the row stays as it was, and the channel stopped.
DeleteChannelRow(o) ==
  /\ op[o].pc = "deleting"
  /\ op' = [op EXCEPT ![o].pc = "over"]
  /\ \/ config' = [on |-> FALSE, version |-> o] /\ UNCHANGED undeleted
     \/ undeleted' = o /\ UNCHANGED config
  /\ UNCHANGED <<ops, adapter, chain, adapters, inner, disturbed>>

-----------------------------------------------------------------------------
(* Starting and stopping.                                                  *)

\* The adapter's shutdown: no bot, no retry timer.
StopAdapters(stopping, starting) ==
  /\ adapter' = [a \in Ops |-> IF a \in stopping THEN "stopped"
                               ELSE IF a \in starting THEN "starting" ELSE adapter[a]]
  /\ chain' = [a \in Ops |-> IF a \in stopping /\ chain[a] = "waiting" THEN "over" ELSE chain[a]]

\* Mutant: the adapter that is stopped stays in the map.
KeepInMap(m) == UNCHANGED <<inner, adapters>>

\* instanceMap.delete(channelType), and the map with it when it is empty.
RemoveFromMap(m) ==
  /\ inner' = [inner EXCEPT ![m] = 0]
  /\ adapters' = 0

\* startChannel: the running adapter is stopped, and a new one initialized.
StartChannel(o) ==
  /\ op[o].pc = "saved" /\ op[o].kind = "on"
  /\ op' = [op EXCEPT ![o].pc = "initializing"]
  /\ StopAdapters(Registered, {o})
  /\ IF Registered = {} THEN UNCHANGED <<inner, adapters>> ELSE RemoveFromMap(adapters)
  /\ UNCHANGED <<config, ops, undeleted, disturbed>>

\* The provider took the credentials: the adapter registers its webhook, without being
\* waited for, and is the channel's.
Initialized(o) ==
  LET m == IF adapters = 0 THEN o ELSE adapters IN
  /\ op[o].pc = "initializing"
  /\ op' = [op EXCEPT ![o].pc = "over"]
  /\ adapter' = [adapter EXCEPT ![o] = "live"]
  /\ chain' = [chain EXCEPT ![o] = "calling"]
  /\ inner' = [inner EXCEPT ![m] = o]
  /\ adapters' = m
  /\ UNCHANGED <<config, ops, undeleted, disturbed>>

\* It refused them: autoDisableChannel, which is not waited for.
InitializeFails(o) ==
  /\ op[o].pc = "initializing"
  /\ op' = [op EXCEPT ![o].pc = "disabling"]
  /\ adapter' = [adapter EXCEPT ![o] = "failed"]
  /\ UNCHANGED <<config, ops, chain, adapters, inner, undeleted, disturbed>>

AutoDisable(o) ==
  /\ op[o].pc = "disabling"
  /\ op' = [op EXCEPT ![o].pc = "over"]
  /\ \/ config' = [config EXCEPT !.on = FALSE] /\ UNCHANGED disturbed
     \/ disturbed' = TRUE /\ UNCHANGED config
  /\ UNCHANGED <<ops, adapter, chain, adapters, inner, undeleted>>

AfterStop(o) == IF op[o].kind = "off" THEN "over" ELSE "deleting"

\* stopChannel, stopAllForInstance: the registration is undone first, if one is running.
StopChannel(o) ==
  /\ op[o].pc = "saved" /\ op[o].kind # "on"
  /\ op' = IF Registered = {} THEN [op EXCEPT ![o].pc = AfterStop(o)]
           ELSE [op EXCEPT ![o].pc = "deregistering", ![o].map = adapters, ![o].adapter = inner[adapters]]
  /\ UNCHANGED <<config, ops, adapter, chain, adapters, inner, undeleted, disturbed>>

\* Mutant: the adapter is not shut down when its registration could not be undone.
StopIfUndone(a, undone) == StopAdapters(IF undone THEN {a} ELSE {}, {})

StopInAnyCase(a, undone) == StopAdapters({a}, {})

\* stopAdapter goes on, whether the provider answered or failed.
Deregistered(o) ==
  /\ op[o].pc = "deregistering"
  /\ op' = [op EXCEPT ![o].pc = AfterStop(o)]
  /\ \E undone \in BOOLEAN : StopInAnyCase(op[o].adapter, undone)
  /\ IF op[o].kind = "agent" THEN adapters' = 0 /\ UNCHANGED inner
     ELSE RemoveFromMap(op[o].map)
  /\ UNCHANGED <<config, ops, undeleted, disturbed>>

-----------------------------------------------------------------------------
(* registerWebhook.                                                        *)

RegisterDone(a) ==
  /\ chain[a] = "calling"
  /\ chain' = [chain EXCEPT ![a] = "over"]
  /\ UNCHANGED <<config, op, ops, adapter, adapters, inner, undeleted, disturbed>>

\* Mutant: the retry does not look whether the adapter was stopped meanwhile.
RetryAnyway(a) == {"waiting", "over"}

\* A failure is retried, unless the provider refuses or the bot is gone.
AfterFailure(a) == IF adapter[a] = "stopped" THEN {"over"} ELSE {"waiting", "over"}

RegisterFails(a) ==
  /\ chain[a] = "calling"
  /\ \E s \in AfterFailure(a) : chain' = [chain EXCEPT ![a] = s]
  /\ UNCHANGED <<config, op, ops, adapter, adapters, inner, undeleted, disturbed>>

RetryFires(a) ==
  /\ chain[a] = "waiting"
  /\ chain' = [chain EXCEPT ![a] = IF adapter[a] = "stopped" THEN "over" ELSE "calling"]
  /\ UNCHANGED <<config, op, ops, adapter, adapters, inner, undeleted, disturbed>>

ChannelNext ==
  \/ PutOn \/ PutOff \/ DeleteChannel \/ DeleteAgent
  \/ \E o \in Ops : \/ DeleteChannelRow(o) \/ StartChannel(o) \/ Initialized(o)
                    \/ InitializeFails(o) \/ AutoDisable(o) \/ StopChannel(o) \/ Deregistered(o)
                    \/ RegisterDone(o) \/ RegisterFails(o) \/ RetryFires(o)

ChannelSpec == ChannelInit /\ [][ChannelNext]_chanVars

-----------------------------------------------------------------------------
(* Properties.                                                             *)

Steps == {"none", "saved", "initializing", "disabling", "deregistering", "deleting", "over"}

OpRecord == [pc : Steps, kind : {"on", "off", "delete", "agent"}, version : 0..MaxOps,
             map : 0..MaxOps, adapter : 0..MaxOps]

ChannelTypeOK ==
  /\ config \in [on : BOOLEAN, version : 0..MaxOps]
  /\ op \in [Ops -> OpRecord]
  /\ ops \in Ops
  /\ adapter \in [Ops -> {"none", "starting", "live", "failed", "stopped"}]
  /\ chain \in [Ops -> {"none", "calling", "waiting", "over"}]
  /\ adapters \in 0..MaxOps
  /\ inner \in [Ops -> 0..MaxOps]
  /\ undeleted \in 0..MaxOps
  /\ disturbed \in BOOLEAN

Idle == \A o \in Ops : ~UnderWay(o)

LiveAdapters == {a \in Ops : adapter[a] = "live"}

\* When no operation is under way and none overlapped another, what runs is what the row
\* says: nothing if it is off, and otherwise one adapter, with the configuration saved last.
\* But the row of a channel whose DELETE failed may be on, and nothing runs until the next
\* operation.
RunsAsConfigured ==
  (Idle /\ ~disturbed) =>
     /\ LiveAdapters = Registered
     /\ Registered # {} <=> config.on /\ undeleted = 0
     /\ \A a \in Registered : op[a].version = config.version

\* What was shut down does nothing more, however operations overlap: it is not sent
\* through, and its failed registration is not tried again.
StoppedIsStopped ==
  \A a \in Ops : adapter[a] = "stopped" => a \notin Registered /\ chain[a] # "waiting"

\* The two together: a channel runs as configured, and only then.
ChannelIsAsConfigured == RunsAsConfigured /\ StoppedIsStopped

\* No adapter registers "the webhook of a channel that had just been switched off"
\* (channel-manager.ts:214), or goes on for a deleted agent "until the engine restarts"
\* (instances.controller.ts:543).
OffStaysOff == (Idle /\ ~config.on) => LiveAdapters = {}

-----------------------------------------------------------------------------
(* The invariant.                                                          *)

\* Operations are numbered as they begin, and their kind says where they may be.
StepsFitKinds ==
  \A o \in Ops :
    /\ o > ops => op[o].pc = "none"
    /\ op[o].pc \in {"initializing", "disabling"} => op[o].kind = "on"
    /\ op[o].pc \in {"deregistering", "deleting"} => op[o].kind # "on"
    /\ op[o].pc = "deleting" => op[o].kind # "off"

\* An adapter exists from its operation's start on, and registers once it is live.
AdapterFollowsOp ==
  \A o \in Ops :
    /\ op[o].pc \in {"none", "saved"} => adapter[o] = "none" /\ chain[o] = "none"
    /\ op[o].pc \in {"initializing", "disabling"} =>
         adapter[o] \in {"starting", "failed"} /\ chain[o] = "none"
    /\ op[o].pc = "deregistering" =>
         op[o].adapter \in Ops /\ adapter[op[o].adapter] \in {"live", "stopped"}
    /\ chain[o] \in {"calling", "waiting"} => adapter[o] \in {"live", "stopped"}
    /\ chain[o] = "waiting" => adapter[o] = "live"

\* What the agent's map holds is live.
RegisteredIsLive == adapters # 0 => inner[adapters] \in LiveAdapters

\* As long as no operation overlapped another, what is live is what the map holds, and
\* the one operation under way leads from the row to it.
UndisturbedRuns ==
  ~disturbed =>
    /\ \A o, p \in Ops : UnderWay(o) /\ UnderWay(p) => o = p
    /\ \A o \in Ops : UnderWay(o) => undeleted = 0
    /\ LiveAdapters = Registered
    /\ \A o \in Ops :
         /\ (op[o].pc = "saved" /\ op[o].kind = "on") \/ op[o].pc = "initializing" =>
              config.on /\ config.version = op[o].version
         /\ op[o].pc \in {"initializing", "disabling", "deleting"} => Registered = {}
         /\ op[o].pc = "deregistering" => Registered = {op[o].adapter}
         /\ UnderWay(o) /\ op[o].kind = "off" => ~config.on

ChannelInv ==
  /\ ChannelTypeOK
  /\ StepsFitKinds
  /\ AdapterFollowsOp
  /\ RegisteredIsLive
  /\ UndisturbedRuns
  /\ RunsAsConfigured
=============================================================================
