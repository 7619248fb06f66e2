--------------------------- MODULE ConnectionProofs ---------------------------
(***************************************************************************)
(* Proofs about ChannelManager, for every number of operations: what was   *)
(* stopped stays quiet however operations overlap, and a channel whose     *)
(* operations do not overlap runs as its row says.  And about McpPool, for *)
(* every number of turns and connections and every maximal age and grace   *)
(* period: no client is closed under a turn that took it less than the     *)
(* grace period ago, none leaks, and turns share what is young and works.  *)
(***************************************************************************)
EXTENDS ChannelManager, McpPool, TLAPS

-----------------------------------------------------------------------------
(* ChannelManager.                                                         *)

\* Operations are numbered from 1: 0 is none.
LEMMA OpNumbers ==
  /\ MaxOps \in Nat /\ 1 \in Ops
  /\ \A o \in Ops : o \in Nat /\ o # 0 /\ o \in 0..MaxOps
  BY ChannelAssumption DEF Ops

\* The invariant holds initially: the boot is the only operation.
LEMMA ChannelInvInit == ChannelInit => ChannelInv
<1> SUFFICES ASSUME ChannelInit PROVE ChannelInv
  OBVIOUS
<1>1. PICK on \in BOOLEAN :
        /\ config = [on |-> on, version |-> 0]
        /\ op = [o \in Ops |-> IF o > 1 THEN NoOp
                               ELSE [NoOp EXCEPT !.pc = IF on THEN "saved" ELSE "over"]]
  BY DEF ChannelInit
<1>2. /\ ops = 1 /\ adapters = 0 /\ undeleted = 0 /\ disturbed = FALSE
      /\ adapter = [a \in Ops |-> "none"] /\ chain = [a \in Ops |-> "none"]
      /\ inner = [m \in Ops |-> 0]
  BY DEF ChannelInit
<1>3. \A o \in Ops : /\ op[o] \in OpRecord /\ op[o].kind = "on" /\ op[o].version = 0
                     /\ op[o].pc = IF o > 1 THEN "none" ELSE IF on THEN "saved" ELSE "over"
  BY <1>1, OpNumbers DEF NoOp, OpRecord, Steps
<1>4. op \in [Ops -> OpRecord]
  BY <1>1, <1>3
<1>5. config \in [on : BOOLEAN, version : 0..MaxOps] /\ config.on = on /\ config.version = 0
  BY <1>1, OpNumbers
<1>6. ChannelTypeOK
  BY <1>2, <1>4, <1>5, OpNumbers DEF ChannelTypeOK
<1>7. StepsFitKinds /\ AdapterFollowsOp /\ RegisteredIsLive
  BY <1>2, <1>3 DEF StepsFitKinds, AdapterFollowsOp, RegisteredIsLive
<1>8. LiveAdapters = {} /\ Registered = {}
  BY <1>2 DEF LiveAdapters, Registered
<1>9. \A o \in Ops : UnderWay(o) => o = 1 /\ on
  BY <1>3, OpNumbers DEF UnderWay, Ops
<1>10. UndisturbedRuns
  BY <1>2, <1>3, <1>5, <1>8, <1>9 DEF UndisturbedRuns, UnderWay
<1>11. RunsAsConfigured
  <2>1. UnderWay(1) \/ ~on
    BY <1>3, OpNumbers DEF UnderWay
  <2> QED
    BY <1>5, <1>8, <2>1, OpNumbers DEF RunsAsConfigured, Idle
<1> QED
  BY <1>6, <1>7, <1>10, <1>11 DEF ChannelInv

-----------------------------------------------------------------------------
(* Facts about the state.                                                  *)

\* The map holds nothing if the agent has none, and a live adapter otherwise.
LEMMA RegisteredIs ==
  ASSUME ChannelInv
  PROVE  /\ Registered \subseteq LiveAdapters /\ LiveAdapters \subseteq Ops
         /\ adapters = 0 => Registered = {}
         /\ adapters # 0 => /\ adapters \in Ops /\ inner[adapters] \in Ops
                            /\ Registered = {inner[adapters]}
<1>1. LiveAdapters \subseteq Ops
  BY DEF LiveAdapters
<1>2. CASE adapters = 0
  BY <1>1, <1>2 DEF Registered
<1>3. CASE adapters # 0
  <2>1. adapters \in Ops
    BY <1>3, OpNumbers DEF ChannelInv, ChannelTypeOK, Ops
  <2>2. inner[adapters] \in LiveAdapters
    BY <1>3 DEF ChannelInv, RegisteredIsLive
  <2>3. inner[adapters] # 0
    BY <1>1, <2>2, OpNumbers
  <2> QED
    BY <1>1, <1>3, <2>1, <2>2, <2>3 DEF Registered
<1> QED
  BY <1>1, <1>2, <1>3

\* One operation goes on; the others stay where they are.
LEMMA OneOpMoves ==
  ASSUME ChannelTypeOK, NEW o \in Ops, NEW s \in Steps, op' = [op EXCEPT ![o].pc = s]
  PROVE  /\ op' \in [Ops -> OpRecord]
         /\ op'[o].pc = s /\ op'[o].kind = op[o].kind
         /\ op'[o].version = op[o].version /\ op'[o].adapter = op[o].adapter
         /\ \A p \in Ops : p # o => op'[p] = op[p]
<1>1. op \in [Ops -> OpRecord]
  BY DEF ChannelTypeOK
<1> QED
  BY <1>1 DEF OpRecord

\* In an undisturbed state where one operation is under way, no other is.
LEMMA NoOtherUnderWay ==
  ASSUME ChannelInv, ~disturbed, NEW o \in Ops, UnderWay(o)
  PROVE  undeleted = 0 /\ \A p \in Ops : p # o => ~UnderWay(p)
  BY DEF ChannelInv, UndisturbedRuns

\* An operation that does not end keeps the system from being idle.
LEMMA StillUnderWay ==
  ASSUME NEW o \in Ops, UnderWay(o)'
  PROVE  RunsAsConfigured'
  BY DEF RunsAsConfigured, Idle

-----------------------------------------------------------------------------
(* The API begins an operation.                                            *)

\* What begins is not started yet, and changes nothing but the row.
LEMMA OpBeginKeeps ==
  ASSUME ChannelInv, NEW kind \in {"on", "off", "delete", "agent"}, NEW version \in 0..ops + 1,
         BeginOp(kind, version),
         config' \in [on : BOOLEAN, version : 0..MaxOps],
         kind = "on" => config'.on /\ config'.version = version,
         kind = "off" => ~config'.on
  PROVE  ChannelInv'
<1> DEFINE n == ops + 1
<1>1. /\ ops < MaxOps /\ ops' = n
      /\ op' = [op EXCEPT ![n] = [pc |-> "saved", kind |-> kind, version |-> version,
                                  map |-> 0, adapter |-> 0]]
      /\ disturbed' = (disturbed \/ \E o \in Ops : UnderWay(o)) /\ undeleted' = 0
      /\ UNCHANGED <<adapter, chain, adapters, inner>>
  BY DEF BeginOp
<1>2. ops \in Nat /\ n \in Ops /\ n > ops /\ version \in 0..MaxOps
  BY <1>1, OpNumbers DEF ChannelInv, ChannelTypeOK, Ops
<1>3. op[n].pc = "none" /\ adapter[n] = "none" /\ chain[n] = "none"
  BY <1>2 DEF ChannelInv, StepsFitKinds, AdapterFollowsOp
<1>4. /\ op'[n].pc = "saved" /\ op'[n].kind = kind /\ op'[n].version = version
      /\ op'[n] \in OpRecord
      /\ \A p \in Ops : p # n => op'[p] = op[p]
  <2> DEFINE w == [pc |-> "saved", kind |-> kind, version |-> version, map |-> 0, adapter |-> 0]
  <2>2. 0 \in 0..MaxOps
    BY OpNumbers
  <2>3. w \in OpRecord
    BY <1>2, <2>2 DEF OpRecord, Steps
  <2>4. w.pc = "saved" /\ w.kind = kind /\ w.version = version
    OBVIOUS
  <2>5. op' = [op EXCEPT ![n] = w]
    BY <1>1
  <2>6. op \in [Ops -> OpRecord]
    BY DEF ChannelInv, ChannelTypeOK
  <2> HIDE DEF w
  <2>7. op'[n] = w /\ \A p \in Ops : p # n => op'[p] = op[p]
    BY <1>2, <2>5, <2>6
  <2> QED
    BY <2>3, <2>4, <2>7
<1>5. op' \in [Ops -> OpRecord]
  BY <1>1, <1>2, <1>4 DEF ChannelInv, ChannelTypeOK
<1>6. ChannelTypeOK'
  BY <1>1, <1>2, <1>5, OpNumbers DEF ChannelInv, ChannelTypeOK
<1> HIDE DEF n
<1>7. StepsFitKinds'
  <2> SUFFICES ASSUME NEW o \in Ops, o # n, o > n PROVE op[o].pc = "none"
    BY <1>1, <1>2, <1>4 DEF ChannelInv, StepsFitKinds, n
  <2>1. o > ops
    BY <1>2, OpNumbers DEF n
  <2> QED
    BY <2>1 DEF ChannelInv, StepsFitKinds
<1>8. AdapterFollowsOp' /\ RegisteredIsLive'
  BY <1>1, <1>3, <1>4 DEF ChannelInv, AdapterFollowsOp, RegisteredIsLive, LiveAdapters
<1>9. UndisturbedRuns'
  <2> SUFFICES ASSUME ~disturbed' PROVE UndisturbedRuns'
    BY DEF UndisturbedRuns
  <2>1. ~disturbed /\ \A o \in Ops : ~UnderWay(o)
    BY <1>1
  <2>2. \A o \in Ops : o # n => ~UnderWay(o)'
    BY <1>4, <2>1 DEF UnderWay
  <2>3. LiveAdapters' = Registered'
    BY <1>1, <2>1 DEF ChannelInv, UndisturbedRuns, LiveAdapters, Registered
  <2>4. \A o \in Ops : op'[o].pc \in {"initializing", "disabling", "deleting", "deregistering", "saved"} => o = n
    BY <2>2 DEF UnderWay
  <2> QED
    BY <1>1, <1>4, <2>2, <2>3, <2>4 DEF UndisturbedRuns, UnderWay
<1>10. RunsAsConfigured'
  BY <1>2, <1>4, StillUnderWay DEF UnderWay
<1> QED
  BY <1>6, <1>7, <1>8, <1>9, <1>10 DEF ChannelInv

\* The API's operations.
LEMMA ApiKeeps ==
  ASSUME ChannelInv, PutOn \/ PutOff \/ DeleteChannel \/ DeleteAgent
  PROVE  ChannelInv'
<1>1. ops \in Nat /\ (ops < MaxOps => ops + 1 \in 0..MaxOps) /\ 0 \in 0..ops + 1 /\ ops + 1 \in 0..ops + 1
  BY OpNumbers DEF ChannelInv, ChannelTypeOK, Ops
<1>2. config \in [on : BOOLEAN, version : 0..MaxOps]
  BY DEF ChannelInv, ChannelTypeOK
<1>3. CASE PutOn
  <2>1. BeginOp("on", ops + 1) /\ config' = [on |-> TRUE, version |-> ops + 1] /\ ops < MaxOps
    BY <1>3 DEF PutOn, BeginOp
  <2>2. config' \in [on : BOOLEAN, version : 0..MaxOps] /\ config'.on /\ config'.version = ops + 1
    BY <1>1, <2>1
  <2> QED
    BY <1>1, <2>1, <2>2, OpBeginKeeps
<1>4. CASE PutOff
  <2>1. BeginOp("off", ops + 1) /\ config' = [on |-> FALSE, version |-> ops + 1] /\ ops < MaxOps
    BY <1>4 DEF PutOff, BeginOp
  <2>2. config' \in [on : BOOLEAN, version : 0..MaxOps] /\ ~config'.on
    BY <1>1, <2>1
  <2> QED
    BY <1>1, <2>1, <2>2, OpBeginKeeps
<1>5. CASE DeleteChannel
  BY <1>1, <1>2, <1>5, OpBeginKeeps DEF DeleteChannel
<1>6. CASE DeleteAgent
  BY <1>1, <1>2, <1>6, OpBeginKeeps DEF DeleteAgent
<1> QED
  BY <1>3, <1>4, <1>5, <1>6

-----------------------------------------------------------------------------
(* Starting and stopping.                                                  *)

\* When no operation is under way, undisturbed means: what is live is what the map holds.
LEMMA NothingUnderWay ==
  ASSUME \A p \in Ops : ~UnderWay(p)', LiveAdapters' = Registered'
  PROVE  UndisturbedRuns'
  BY DEF UndisturbedRuns, UnderWay

\* The row of a deleted channel goes last, or stays: nothing is registered any more.
LEMMA DeleteChannelRowKeeps ==
  ASSUME ChannelInv, NEW o \in Ops, DeleteChannelRow(o)
  PROVE  ChannelInv'
<1>1. /\ op[o].pc = "deleting" /\ op' = [op EXCEPT ![o].pc = "over"]
      /\ \/ config' = [on |-> FALSE, version |-> o] /\ UNCHANGED undeleted
         \/ undeleted' = o /\ UNCHANGED config
      /\ UNCHANGED <<ops, adapter, chain, adapters, inner, disturbed>>
  BY DEF DeleteChannelRow
<1>2. /\ op' \in [Ops -> OpRecord] /\ op'[o].pc = "over" /\ op'[o].kind = op[o].kind
      /\ \A p \in Ops : p # o => op'[p] = op[p]
  <2>1. "over" \in Steps
    BY DEF Steps
  <2> QED
    BY <1>1, <2>1, OneOpMoves DEF ChannelInv
<1>3. /\ config' \in [on : BOOLEAN, version : 0..MaxOps] /\ undeleted' \in 0..MaxOps
      /\ config'.on => undeleted' # 0
  <2>1. config \in [on : BOOLEAN, version : 0..MaxOps] /\ undeleted \in 0..MaxOps
    BY DEF ChannelInv, ChannelTypeOK
  <2>2. CASE config' = [on |-> FALSE, version |-> o] /\ UNCHANGED undeleted
    BY <2>1, <2>2, OpNumbers
  <2>3. CASE undeleted' = o /\ UNCHANGED config
    BY <2>1, <2>3, OpNumbers
  <2> QED
    BY <1>1, <2>2, <2>3
<1>4. ChannelTypeOK'
  BY <1>1, <1>2, <1>3 DEF ChannelInv, ChannelTypeOK
<1>5. StepsFitKinds'
  BY <1>1, <1>2 DEF ChannelInv, StepsFitKinds
<1>6. AdapterFollowsOp' /\ RegisteredIsLive'
  BY <1>1, <1>2 DEF ChannelInv, AdapterFollowsOp, RegisteredIsLive, LiveAdapters
<1>7. UndisturbedRuns' /\ RunsAsConfigured'
  <2> SUFFICES ASSUME ~disturbed' PROVE UndisturbedRuns' /\ RunsAsConfigured'
    BY DEF UndisturbedRuns, RunsAsConfigured
  <2>1. UnderWay(o) /\ ~disturbed
    BY <1>1 DEF UnderWay
  <2>2. undeleted = 0 /\ \A p \in Ops : ~UnderWay(p)'
    BY <1>2, <2>1, NoOtherUnderWay DEF UnderWay
  <2>3. LiveAdapters = {} /\ Registered = {}
    BY <1>1, <2>1 DEF ChannelInv, UndisturbedRuns
  <2>4. LiveAdapters' = {} /\ Registered' = {}
    BY <1>1, <2>3 DEF LiveAdapters, Registered
  <2> QED
    BY <1>3, <2>2, <2>4, NothingUnderWay DEF RunsAsConfigured
<1> QED
  BY <1>4, <1>5, <1>6, <1>7 DEF ChannelInv

\* A start stops what runs: nothing is registered, and nothing was live but that.
LEMMA StartChannelKeeps ==
  ASSUME ChannelInv, NEW o \in Ops, StartChannel(o)
  PROVE  ChannelInv'
<1>1. /\ op[o].pc = "saved" /\ op[o].kind = "on" /\ op' = [op EXCEPT ![o].pc = "initializing"]
      /\ adapter' = [a \in Ops |-> IF a \in Registered THEN "stopped"
                                   ELSE IF a \in {o} THEN "starting" ELSE adapter[a]]
      /\ chain' = [a \in Ops |-> IF a \in Registered /\ chain[a] = "waiting" THEN "over" ELSE chain[a]]
      /\ IF Registered = {} THEN UNCHANGED <<inner, adapters>> ELSE RemoveFromMap(adapters)
      /\ UNCHANGED <<config, ops, undeleted, disturbed>>
  BY DEF StartChannel, StopAdapters
<1>2. /\ op' \in [Ops -> OpRecord] /\ op'[o].pc = "initializing" /\ op'[o].kind = "on"
      /\ op'[o].version = op[o].version
      /\ \A p \in Ops : p # o => op'[p] = op[p]
  <2>1. "initializing" \in Steps
    BY DEF Steps
  <2> QED
    BY <1>1, <2>1, OneOpMoves DEF ChannelInv
<1>3. adapters' = 0 /\ inner' \in [Ops -> 0..MaxOps]
  <2>1. inner \in [Ops -> 0..MaxOps]
    BY DEF ChannelInv, ChannelTypeOK
  <2>2. CASE Registered = {}
    BY <1>1, <2>1, <2>2, RegisteredIs
  <2>3. CASE Registered # {}
    BY <1>1, <2>1, <2>3, OpNumbers DEF RemoveFromMap
  <2> QED
    BY <2>2, <2>3
<1>4. Registered' = {}
  BY <1>3 DEF Registered
<1>5. adapter[o] = "none" /\ chain[o] = "none" /\ o \notin Registered
  BY <1>1, RegisteredIs DEF ChannelInv, AdapterFollowsOp, LiveAdapters
<1>6. /\ adapter'[o] = "starting" /\ chain'[o] = "none"
      /\ \A a \in Ops : a \in Registered => adapter'[a] = "stopped" /\ adapter[a] = "live"
      /\ \A a \in Ops : a \in Registered => chain'[a] # "waiting" /\ chain'[a] \in {chain[a], "over"}
      /\ \A a \in Ops : a \notin Registered /\ a # o => adapter'[a] = adapter[a] /\ chain'[a] = chain[a]
  BY <1>1, <1>5, RegisteredIs DEF LiveAdapters
<1>7. ChannelTypeOK'
  <2>1. /\ adapter' \in [Ops -> {"none", "starting", "live", "failed", "stopped"}]
        /\ chain' \in [Ops -> {"none", "calling", "waiting", "over"}]
    BY <1>1 DEF ChannelInv, ChannelTypeOK
  <2> QED
    BY <1>1, <1>2, <1>3, <2>1, OpNumbers DEF ChannelInv, ChannelTypeOK
<1>8. StepsFitKinds'
  BY <1>1, <1>2 DEF ChannelInv, StepsFitKinds
<1>9. AdapterFollowsOp'
  <2> SUFFICES ASSUME NEW p \in Ops PROVE AdapterFollowsOp!(p)'
    BY DEF AdapterFollowsOp
  <2>1. CASE p = o
    BY <1>2, <1>6, <2>1
  <2>2. CASE p # o /\ p \in Registered
    <3>1. op[p].pc \notin {"none", "saved", "initializing", "disabling"}
      BY <1>6, <2>2 DEF ChannelInv, AdapterFollowsOp
    <3>2. op[p].pc = "deregistering" =>
            /\ op[p].adapter \in Ops /\ adapter[op[p].adapter] \in {"live", "stopped"}
      BY DEF ChannelInv, AdapterFollowsOp
    <3>3. op[p].pc = "deregistering" => adapter'[op[p].adapter] \in {"live", "stopped"}
      BY <1>5, <1>6, <3>2
    <3> QED
      BY <1>2, <1>6, <2>2, <3>1, <3>2, <3>3
  <2>3. CASE p # o /\ p \notin Registered
    <3>1. AdapterFollowsOp!(p)
      BY DEF ChannelInv, AdapterFollowsOp
    <3>2. op[p].pc = "deregistering" => adapter'[op[p].adapter] \in {"live", "stopped"}
      BY <1>5, <1>6, <3>1
    <3> QED
      BY <1>2, <1>6, <2>3, <3>1, <3>2
  <2> QED
    BY <2>1, <2>2, <2>3
<1>10. RegisteredIsLive'
  BY <1>3 DEF RegisteredIsLive
<1>11. UndisturbedRuns'
  <2> SUFFICES ASSUME ~disturbed' PROVE UndisturbedRuns'
    BY DEF UndisturbedRuns
  <2>1. UnderWay(o) /\ ~disturbed
    BY <1>1 DEF UnderWay
  <2>2. undeleted = 0 /\ \A p \in Ops : p # o => ~UnderWay(p)'
    BY <1>2, <2>1, NoOtherUnderWay DEF UnderWay
  <2>3. LiveAdapters = Registered
    BY <2>1 DEF ChannelInv, UndisturbedRuns
  <2>4. LiveAdapters' = {}
    BY <1>6, <2>3, RegisteredIs DEF LiveAdapters
  <2>5. config.on /\ config.version = op[o].version
    BY <1>1, <2>1 DEF ChannelInv, UndisturbedRuns
  <2> QED
    BY <1>1, <1>2, <1>4, <2>2, <2>4, <2>5 DEF UndisturbedRuns, UnderWay
<1>12. RunsAsConfigured'
  BY <1>2, StillUnderWay DEF UnderWay
<1> QED
  BY <1>7, <1>8, <1>9, <1>10, <1>11, <1>12 DEF ChannelInv

\* The new adapter is the channel's, with the configuration its row had when it began.
LEMMA InitializedKeeps ==
  ASSUME ChannelInv, NEW o \in Ops, Initialized(o)
  PROVE  ChannelInv'
<1> DEFINE m == IF adapters = 0 THEN o ELSE adapters
<1>1. /\ op[o].pc = "initializing" /\ op' = [op EXCEPT ![o].pc = "over"]
      /\ adapter' = [adapter EXCEPT ![o] = "live"] /\ chain' = [chain EXCEPT ![o] = "calling"]
      /\ inner' = [inner EXCEPT ![m] = o] /\ adapters' = m
      /\ UNCHANGED <<config, ops, undeleted, disturbed>>
  BY DEF Initialized
<1>2. /\ op' \in [Ops -> OpRecord] /\ op'[o].pc = "over" /\ op'[o].kind = op[o].kind
      /\ op'[o].version = op[o].version
      /\ \A p \in Ops : op'[p].adapter = op[p].adapter
      /\ \A p \in Ops : p # o => op'[p] = op[p]
  <2>1. "over" \in Steps
    BY DEF Steps
  <2> QED
    BY <1>1, <2>1, OneOpMoves DEF ChannelInv
<1>3. /\ adapter \in [Ops -> {"none", "starting", "live", "failed", "stopped"}]
      /\ chain \in [Ops -> {"none", "calling", "waiting", "over"}]
      /\ inner \in [Ops -> 0..MaxOps] /\ m \in Ops
  BY RegisteredIs DEF ChannelInv, ChannelTypeOK
<1> HIDE DEF m
<1>4. /\ adapter'[o] = "live" /\ chain'[o] = "calling" /\ inner'[m] = o
      /\ \A a \in Ops : a # o => adapter'[a] = adapter[a] /\ chain'[a] = chain[a]
  BY <1>1, <1>3
<1>5. Registered' = {o}
  BY <1>1, <1>3, <1>4, OpNumbers DEF Registered
<1>6. ChannelTypeOK'
  <2>1. /\ adapter' \in [Ops -> {"none", "starting", "live", "failed", "stopped"}]
        /\ chain' \in [Ops -> {"none", "calling", "waiting", "over"}]
        /\ inner' \in [Ops -> 0..MaxOps]
    BY <1>1, <1>3, OpNumbers
  <2> QED
    BY <1>1, <1>2, <1>3, <2>1, OpNumbers DEF ChannelInv, ChannelTypeOK
<1>7. StepsFitKinds'
  BY <1>1, <1>2 DEF ChannelInv, StepsFitKinds
<1>8. AdapterFollowsOp'
  <2> SUFFICES ASSUME NEW p \in Ops PROVE AdapterFollowsOp!(p)'
    BY DEF AdapterFollowsOp
  <2>1. CASE p = o
    BY <1>2, <1>4, <2>1
  <2>2. CASE p # o
    <3>1. AdapterFollowsOp!(p)
      BY DEF ChannelInv, AdapterFollowsOp
    <3>2. op[p].pc = "deregistering" => adapter'[op[p].adapter] \in {"live", "stopped"}
      BY <1>4, <3>1
    <3> QED
      BY <1>2, <1>4, <2>2, <3>1, <3>2
  <2> QED
    BY <2>1, <2>2
<1>9. RegisteredIsLive'
  BY <1>1, <1>4 DEF RegisteredIsLive, LiveAdapters
<1>10. UndisturbedRuns' /\ RunsAsConfigured'
  <2> SUFFICES ASSUME ~disturbed' PROVE UndisturbedRuns' /\ RunsAsConfigured'
    BY DEF UndisturbedRuns, RunsAsConfigured
  <2>1. UnderWay(o) /\ ~disturbed
    BY <1>1 DEF UnderWay
  <2>2. undeleted = 0 /\ \A p \in Ops : ~UnderWay(p)'
    BY <1>2, <2>1, NoOtherUnderWay DEF UnderWay
  <2>3. LiveAdapters = {} /\ config.on /\ config.version = op[o].version
    BY <1>1, <2>1 DEF ChannelInv, UndisturbedRuns
  <2>4. LiveAdapters' = {o}
    BY <1>4, <2>3 DEF LiveAdapters
  <2> QED
    BY <1>1, <1>2, <1>5, <2>2, <2>3, <2>4, NothingUnderWay DEF RunsAsConfigured
<1> QED
  BY <1>6, <1>7, <1>8, <1>9, <1>10 DEF ChannelInv

\* A refused adapter is nobody's: only its operation goes on.
LEMMA InitializeFailsKeeps ==
  ASSUME ChannelInv, NEW o \in Ops, InitializeFails(o)
  PROVE  ChannelInv'
<1>1. /\ op[o].pc = "initializing" /\ op' = [op EXCEPT ![o].pc = "disabling"]
      /\ adapter' = [adapter EXCEPT ![o] = "failed"]
      /\ UNCHANGED <<config, ops, chain, adapters, inner, undeleted, disturbed>>
  BY DEF InitializeFails
<1>2. /\ op' \in [Ops -> OpRecord] /\ op'[o].pc = "disabling" /\ op'[o].kind = op[o].kind
      /\ \A p \in Ops : p # o => op'[p] = op[p]
  <2>1. "disabling" \in Steps
    BY DEF Steps
  <2> QED
    BY <1>1, <2>1, OneOpMoves DEF ChannelInv
<1>3. adapter \in [Ops -> {"none", "starting", "live", "failed", "stopped"}]
  BY DEF ChannelInv, ChannelTypeOK
<1>4. adapter[o] \in {"starting", "failed"} /\ chain[o] = "none" /\ op[o].kind = "on"
  BY <1>1 DEF ChannelInv, AdapterFollowsOp, StepsFitKinds
<1>5. adapter'[o] = "failed" /\ \A a \in Ops : a # o => adapter'[a] = adapter[a]
  BY <1>1, <1>3
<1>6. LiveAdapters' = LiveAdapters /\ Registered' = Registered
  BY <1>1, <1>4, <1>5 DEF LiveAdapters, Registered
<1>7. ChannelTypeOK'
  <2>1. adapter' \in [Ops -> {"none", "starting", "live", "failed", "stopped"}]
    BY <1>1, <1>3
  <2> QED
    BY <1>1, <1>2, <2>1 DEF ChannelInv, ChannelTypeOK
<1>8. StepsFitKinds'
  BY <1>1, <1>2, <1>4 DEF ChannelInv, StepsFitKinds
<1>9. AdapterFollowsOp'
  <2> SUFFICES ASSUME NEW p \in Ops PROVE AdapterFollowsOp!(p)'
    BY DEF AdapterFollowsOp
  <2>1. CASE p = o
    BY <1>1, <1>2, <1>4, <1>5, <2>1
  <2>2. CASE p # o
    <3>1. AdapterFollowsOp!(p)
      BY DEF ChannelInv, AdapterFollowsOp
    <3>2. op[p].pc = "deregistering" => adapter'[op[p].adapter] \in {"live", "stopped"}
      BY <1>4, <1>5, <3>1
    <3> QED
      BY <1>1, <1>2, <1>5, <2>2, <3>1, <3>2
  <2> QED
    BY <2>1, <2>2
<1>10. RegisteredIsLive'
  BY <1>1, <1>6 DEF ChannelInv, RegisteredIsLive
<1>11. UndisturbedRuns'
  <2> SUFFICES ASSUME ~disturbed' PROVE UndisturbedRuns'
    BY DEF UndisturbedRuns
  <2>1. UnderWay(o) /\ ~disturbed
    BY <1>1 DEF UnderWay
  <2>2. undeleted = 0 /\ \A p \in Ops : p # o => ~UnderWay(p)'
    BY <1>2, <2>1, NoOtherUnderWay DEF UnderWay
  <2>3. LiveAdapters = Registered /\ Registered = {}
    BY <1>1, <2>1 DEF ChannelInv, UndisturbedRuns
  <2> QED
    BY <1>1, <1>2, <1>4, <1>6, <2>2, <2>3 DEF UndisturbedRuns, UnderWay
<1>12. RunsAsConfigured'
  BY <1>2, StillUnderWay DEF UnderWay
<1> QED
  BY <1>7, <1>8, <1>9, <1>10, <1>11, <1>12 DEF ChannelInv

\* The refused channel is off, or the history says why it is not.
LEMMA AutoDisableKeeps ==
  ASSUME ChannelInv, NEW o \in Ops, AutoDisable(o)
  PROVE  ChannelInv'
<1>1. /\ op[o].pc = "disabling" /\ op' = [op EXCEPT ![o].pc = "over"]
      /\ \/ config' = [config EXCEPT !.on = FALSE] /\ UNCHANGED disturbed
         \/ disturbed' = TRUE /\ UNCHANGED config
      /\ UNCHANGED <<ops, adapter, chain, adapters, inner, undeleted>>
  BY DEF AutoDisable
<1>2. /\ op' \in [Ops -> OpRecord] /\ op'[o].pc = "over" /\ op'[o].kind = op[o].kind
      /\ \A p \in Ops : p # o => op'[p] = op[p]
  <2>1. "over" \in Steps
    BY DEF Steps
  <2> QED
    BY <1>1, <2>1, OneOpMoves DEF ChannelInv
<1>3. /\ config' \in [on : BOOLEAN, version : 0..MaxOps] /\ disturbed' \in BOOLEAN
      /\ ~disturbed' => ~disturbed /\ ~config'.on
  <2>1. config \in [on : BOOLEAN, version : 0..MaxOps] /\ disturbed \in BOOLEAN
    BY DEF ChannelInv, ChannelTypeOK
  <2> QED
    BY <1>1, <2>1
<1>4. ChannelTypeOK'
  BY <1>1, <1>2, <1>3 DEF ChannelInv, ChannelTypeOK
<1>5. StepsFitKinds'
  BY <1>1, <1>2 DEF ChannelInv, StepsFitKinds
<1>6. AdapterFollowsOp' /\ RegisteredIsLive'
  BY <1>1, <1>2 DEF ChannelInv, AdapterFollowsOp, RegisteredIsLive, LiveAdapters
<1>7. UndisturbedRuns' /\ RunsAsConfigured'
  <2> SUFFICES ASSUME ~disturbed' PROVE UndisturbedRuns' /\ RunsAsConfigured'
    BY DEF UndisturbedRuns, RunsAsConfigured
  <2>1. UnderWay(o) /\ ~disturbed
    BY <1>1, <1>3 DEF UnderWay
  <2>2. undeleted = 0 /\ \A p \in Ops : ~UnderWay(p)'
    BY <1>2, <2>1, NoOtherUnderWay DEF UnderWay
  <2>3. LiveAdapters = {} /\ Registered = {}
    BY <1>1, <2>1 DEF ChannelInv, UndisturbedRuns
  <2>4. LiveAdapters' = {} /\ Registered' = {}
    BY <1>1, <2>3 DEF LiveAdapters, Registered
  <2> QED
    BY <1>3, <2>2, <2>4, NothingUnderWay DEF RunsAsConfigured
<1> QED
  BY <1>4, <1>5, <1>6, <1>7 DEF ChannelInv

\* A stop begins with what the map holds, or has nothing to do.
LEMMA StopChannelKeeps ==
  ASSUME ChannelInv, NEW o \in Ops, StopChannel(o)
  PROVE  ChannelInv'
<1>1. /\ op[o].pc = "saved" /\ op[o].kind # "on"
      /\ UNCHANGED <<config, ops, adapter, chain, adapters, inner, undeleted, disturbed>>
  BY DEF StopChannel
<1>2. op[o] \in OpRecord /\ op \in [Ops -> OpRecord]
  BY DEF ChannelInv, ChannelTypeOK
<1>3. /\ op' \in [Ops -> OpRecord] /\ op'[o].kind = op[o].kind
      /\ \/ op'[o].pc = "over" /\ op[o].kind = "off" /\ Registered = {}
         \/ op'[o].pc = "deleting" /\ op[o].kind # "off" /\ Registered = {}
         \/ /\ op'[o].pc = "deregistering" /\ op'[o].adapter \in LiveAdapters
            /\ Registered = {op'[o].adapter}
      /\ \A p \in Ops : p # o => op'[p] = op[p]
  <2>1. CASE Registered = {}
    <3>1. AfterStop(o) \in Steps /\ op' = [op EXCEPT ![o].pc = AfterStop(o)]
      BY <1>1, <2>1 DEF StopChannel, AfterStop, Steps
    <3>2. /\ op' \in [Ops -> OpRecord] /\ op'[o].kind = op[o].kind
          /\ op'[o].pc = AfterStop(o) /\ \A p \in Ops : p # o => op'[p] = op[p]
      BY <3>1, OneOpMoves DEF ChannelInv
    <3> QED
      BY <2>1, <3>2 DEF AfterStop
  <2>2. CASE Registered # {}
    <3>1. adapters \in Ops /\ inner[adapters] \in LiveAdapters /\ Registered = {inner[adapters]}
      BY <2>2, RegisteredIs
    <3>2. op' = [op EXCEPT ![o].pc = "deregistering", ![o].map = adapters, ![o].adapter = inner[adapters]]
      BY <2>2 DEF StopChannel
    <3>3. adapters \in 0..MaxOps /\ inner[adapters] \in 0..MaxOps /\ "deregistering" \in Steps
      BY <3>1, RegisteredIs, OpNumbers DEF Steps
    <3> DEFINE w == [op[o] EXCEPT !.pc = "deregistering", !.map = adapters, !.adapter = inner[adapters]]
    <3>4. w \in OpRecord /\ w.pc = "deregistering" /\ w.adapter = inner[adapters] /\ w.kind = op[o].kind
      BY <1>2, <3>3 DEF OpRecord
    <3>5. op' = [op EXCEPT ![o] = w]
      BY <1>2, <3>2
    <3> HIDE DEF w
    <3>6. op' \in [Ops -> OpRecord] /\ op'[o] = w /\ \A p \in Ops : p # o => op'[p] = op[p]
      BY <1>2, <3>4, <3>5
    <3> QED
      BY <3>1, <3>4, <3>6
  <2> QED
    BY <2>1, <2>2
<1>4. ChannelTypeOK'
  BY <1>1, <1>3 DEF ChannelInv, ChannelTypeOK
<1>5. StepsFitKinds'
  BY <1>1, <1>3 DEF ChannelInv, StepsFitKinds
<1>6. AdapterFollowsOp'
  <2>1. op'[o].pc = "deregistering" =>
          op'[o].adapter \in Ops /\ adapter[op'[o].adapter] = "live"
    BY <1>3 DEF LiveAdapters
  <2>2. op'[o].pc \in {"over", "deleting", "deregistering"}
    BY <1>3
  <2> QED
    BY <1>1, <1>3, <2>1, <2>2 DEF ChannelInv, AdapterFollowsOp
<1>7. RegisteredIsLive' /\ LiveAdapters' = LiveAdapters /\ Registered' = Registered
  BY <1>1 DEF ChannelInv, RegisteredIsLive, LiveAdapters, Registered
<1>8. UndisturbedRuns' /\ RunsAsConfigured'
  <2> SUFFICES ASSUME ~disturbed' PROVE UndisturbedRuns' /\ RunsAsConfigured'
    BY DEF UndisturbedRuns, RunsAsConfigured
  <2>1. UnderWay(o) /\ ~disturbed
    BY <1>1 DEF UnderWay
  <2>2. undeleted = 0 /\ \A p \in Ops : p # o => ~UnderWay(p)'
    BY <1>3, <2>1, NoOtherUnderWay DEF UnderWay
  <2>3. LiveAdapters = Registered /\ (op[o].kind = "off" => ~config.on)
    BY <2>1 DEF ChannelInv, UndisturbedRuns
  <2>4. UndisturbedRuns'
    BY <1>1, <1>3, <1>7, <2>2, <2>3 DEF UndisturbedRuns, UnderWay
  <2>5. CASE UnderWay(o)'
    BY <2>4, <2>5, StillUnderWay
  <2>6. CASE ~UnderWay(o)'
    <3>1. Registered = {} /\ op[o].kind = "off"
      BY <1>3, <2>6 DEF UnderWay
    <3> QED
      BY <1>1, <1>7, <2>3, <2>4, <3>1 DEF RunsAsConfigured
  <2> QED
    BY <2>5, <2>6
<1> QED
  BY <1>4, <1>5, <1>6, <1>7, <1>8 DEF ChannelInv

\* What the stop began with ends, and the agent has no map.
LEMMA DeregisteredKeeps ==
  ASSUME ChannelInv, NEW o \in Ops, Deregistered(o)
  PROVE  ChannelInv'
<1> DEFINE a == op[o].adapter
<1>1. /\ op[o].pc = "deregistering" /\ op' = [op EXCEPT ![o].pc = AfterStop(o)]
      /\ adapter' = [b \in Ops |-> IF b \in {a} THEN "stopped"
                                   ELSE IF b \in {} THEN "starting" ELSE adapter[b]]
      /\ chain' = [b \in Ops |-> IF b \in {a} /\ chain[b] = "waiting" THEN "over" ELSE chain[b]]
      /\ adapters' = 0 /\ (inner' = inner \/ inner' = [inner EXCEPT ![op[o].map] = 0])
      /\ UNCHANGED <<config, ops, undeleted, disturbed>>
  BY DEF Deregistered, StopInAnyCase, StopAdapters, RemoveFromMap
<1>2. /\ op' \in [Ops -> OpRecord] /\ op'[o].kind = op[o].kind /\ op'[o].pc = AfterStop(o)
      /\ AfterStop(o) \in {"over", "deleting"} /\ (AfterStop(o) = "over" <=> op[o].kind = "off")
      /\ \A p \in Ops : p # o => op'[p] = op[p]
  <2>1. AfterStop(o) \in Steps
    BY DEF AfterStop, Steps
  <2>2. AfterStop(o) \in {"over", "deleting"} /\ (AfterStop(o) = "over" <=> op[o].kind = "off")
    BY DEF AfterStop
  <2> QED
    BY <1>1, <2>1, <2>2, OneOpMoves DEF ChannelInv
<1>3. op[o].kind # "on" /\ a \in Ops /\ adapter[a] \in {"live", "stopped"}
  BY <1>1 DEF ChannelInv, StepsFitKinds, AdapterFollowsOp
<1> HIDE DEF a
<1>4. /\ adapter'[a] = "stopped" /\ chain'[a] # "waiting" /\ chain'[a] \in {chain[a], "over"}
      /\ \A b \in Ops : b # a => adapter'[b] = adapter[b] /\ chain'[b] = chain[b]
  BY <1>1, <1>3
<1>5. ChannelTypeOK'
  <2>1. /\ adapter' \in [Ops -> {"none", "starting", "live", "failed", "stopped"}]
        /\ chain' \in [Ops -> {"none", "calling", "waiting", "over"}]
    BY <1>1 DEF ChannelInv, ChannelTypeOK
  <2>2. inner' \in [Ops -> 0..MaxOps]
    BY <1>1, OpNumbers DEF ChannelInv, ChannelTypeOK
  <2> QED
    BY <1>1, <1>2, <2>1, <2>2, OpNumbers DEF ChannelInv, ChannelTypeOK
<1>6. StepsFitKinds'
  BY <1>1, <1>2, <1>3 DEF ChannelInv, StepsFitKinds
<1>7. AdapterFollowsOp'
  <2> SUFFICES ASSUME NEW p \in Ops PROVE AdapterFollowsOp!(p)'
    BY DEF AdapterFollowsOp
  <2>1. AdapterFollowsOp!(p)
    BY DEF ChannelInv, AdapterFollowsOp
  <2>2. op[p].pc = "deregistering" => adapter'[op[p].adapter] \in {"live", "stopped"}
    BY <1>4, <2>1
  <2>3. (op'[p].pc = op[p].pc /\ op'[p].adapter = op[p].adapter) \/ op'[p].pc \in {"over", "deleting"}
    BY <1>2
  <2>4. p = a => op[p].pc \notin {"none", "saved", "initializing", "disabling"}
    BY <1>3, <2>1
  <2>5. p = a => op'[p].pc \notin {"none", "saved", "initializing", "disabling"}
    BY <2>3, <2>4
  <2>6. CASE p = a
    BY <1>4, <2>1, <2>2, <2>3, <2>5, <2>6
  <2>7. CASE p # a
    BY <1>4, <2>1, <2>2, <2>3, <2>7
  <2> QED
    BY <2>6, <2>7
<1>8. RegisteredIsLive' /\ Registered' = {}
  BY <1>1 DEF RegisteredIsLive, Registered
<1>9. UndisturbedRuns' /\ RunsAsConfigured'
  <2> SUFFICES ASSUME ~disturbed' PROVE UndisturbedRuns' /\ RunsAsConfigured'
    BY DEF UndisturbedRuns, RunsAsConfigured
  <2>1. UnderWay(o) /\ ~disturbed
    BY <1>1 DEF UnderWay
  <2>2. undeleted = 0 /\ \A p \in Ops : p # o => ~UnderWay(p)'
    BY <1>2, <2>1, NoOtherUnderWay DEF UnderWay
  <2>3. LiveAdapters = {a} /\ (op[o].kind = "off" => ~config.on)
    BY <1>1, <2>1 DEF ChannelInv, UndisturbedRuns, a
  <2>4. LiveAdapters' = {}
    BY <1>4, <2>3 DEF LiveAdapters
  <2>5. UndisturbedRuns'
    BY <1>1, <1>2, <1>8, <2>2, <2>3, <2>4 DEF UndisturbedRuns, UnderWay
  <2>6. CASE UnderWay(o)'
    BY <2>5, <2>6, StillUnderWay
  <2>7. CASE ~UnderWay(o)'
    <3>1. op[o].kind = "off"
      BY <1>2, <2>7 DEF UnderWay
    <3> QED
      BY <1>1, <1>8, <2>3, <2>4, <2>5, <3>1 DEF RunsAsConfigured
  <2> QED
    BY <2>6, <2>7
<1> QED
  BY <1>5, <1>6, <1>7, <1>8, <1>9 DEF ChannelInv

\* A registration is one adapter's own: a failed one is tried again while it is live.
LEMMA RegistrationKeeps ==
  ASSUME ChannelInv, NEW a \in Ops, RegisterDone(a) \/ RegisterFails(a) \/ RetryFires(a)
  PROVE  ChannelInv'
<1>1. UNCHANGED <<config, op, ops, adapter, adapters, inner, undeleted, disturbed>>
  BY DEF RegisterDone, RegisterFails, RetryFires
<1>2. chain[a] \in {"calling", "waiting"} /\ adapter[a] \in {"live", "stopped"}
  BY DEF ChannelInv, AdapterFollowsOp, RegisterDone, RegisterFails, RetryFires
<1>3. PICK s \in {"calling", "waiting", "over"} :
        chain' = [chain EXCEPT ![a] = s] /\ (s = "waiting" => adapter[a] = "live")
  <2>1. CASE RegisterDone(a)
    BY <2>1 DEF RegisterDone
  <2>2. CASE RegisterFails(a)
    <3>1. PICK s \in AfterFailure(a) : chain' = [chain EXCEPT ![a] = s]
      BY <2>2 DEF RegisterFails
    <3>2. s \in {"waiting", "over"} /\ (s = "waiting" => adapter[a] = "live")
      BY <1>2, <3>1 DEF AfterFailure
    <3> QED
      BY <3>1, <3>2
  <2>3. CASE RetryFires(a)
    BY <2>3 DEF RetryFires
  <2> QED
    BY <2>1, <2>2, <2>3
<1>4. /\ chain' \in [Ops -> {"none", "calling", "waiting", "over"}] /\ chain'[a] = s
      /\ \A b \in Ops : b # a => chain'[b] = chain[b]
  BY <1>3 DEF ChannelInv, ChannelTypeOK
<1>5. ChannelTypeOK' /\ StepsFitKinds'
  BY <1>1, <1>4 DEF ChannelInv, ChannelTypeOK, StepsFitKinds
<1>6. AdapterFollowsOp'
  BY <1>1, <1>2, <1>3, <1>4 DEF ChannelInv, AdapterFollowsOp
<1>7. RegisteredIsLive' /\ UndisturbedRuns' /\ RunsAsConfigured'
  BY <1>1 DEF ChannelInv, RegisteredIsLive, UndisturbedRuns, RunsAsConfigured, Idle, LiveAdapters,
              Registered, UnderWay
<1> QED
  BY <1>5, <1>6, <1>7 DEF ChannelInv

-----------------------------------------------------------------------------
(* The theorems.                                                           *)

LEMMA ChannelInvStep ==
  ASSUME ChannelInv, [ChannelNext]_chanVars
  PROVE  ChannelInv'
<1>1. CASE PutOn \/ PutOff \/ DeleteChannel \/ DeleteAgent
  BY <1>1, ApiKeeps
<1>2. ASSUME NEW o \in Ops,
             \/ DeleteChannelRow(o) \/ StartChannel(o) \/ Initialized(o)
             \/ InitializeFails(o) \/ AutoDisable(o) \/ StopChannel(o) \/ Deregistered(o)
      PROVE  ChannelInv'
  BY <1>2, DeleteChannelRowKeeps, StartChannelKeeps, InitializedKeeps, InitializeFailsKeeps,
     AutoDisableKeeps, StopChannelKeeps, DeregisteredKeeps
<1>3. ASSUME NEW a \in Ops, RegisterDone(a) \/ RegisterFails(a) \/ RetryFires(a)
      PROVE  ChannelInv'
  BY <1>3, RegistrationKeeps
<1>4. CASE UNCHANGED chanVars
  <2>1. UNCHANGED <<config, op, ops, adapter, chain, adapters, inner, undeleted, disturbed>>
    BY <1>4 DEF chanVars
  <2>2. ChannelTypeOK' /\ StepsFitKinds' /\ AdapterFollowsOp'
    BY <2>1 DEF ChannelInv, ChannelTypeOK, StepsFitKinds, AdapterFollowsOp
  <2>3. RegisteredIsLive' /\ UndisturbedRuns' /\ RunsAsConfigured'
    BY <2>1 DEF ChannelInv, RegisteredIsLive, UndisturbedRuns, RunsAsConfigured, Idle, LiveAdapters,
                Registered, UnderWay
  <2> QED
    BY <2>2, <2>3 DEF ChannelInv
<1> QED
  BY <1>1, <1>2, <1>3, <1>4 DEF ChannelNext

\* The inductive invariant of the channel manager (startChannel, stopChannel, stopAdapter).
THEOREM ChannelIsInvariant == ChannelSpec => []ChannelInv
<1>1. ChannelInv /\ [ChannelNext]_chanVars => ChannelInv'
  BY ChannelInvStep
<1> QED
  BY <1>1, ChannelInvInit, PTL DEF ChannelSpec

\* A channel runs as its row says once its operations, which did not overlap, are over, and
\* an adapter that was shut down is neither sent through nor registered again.
THEOREM ChannelRunsAsConfigured == ChannelSpec => []ChannelIsAsConfigured
<1>1. ChannelInv => StoppedIsStopped
  BY RegisteredIs DEF ChannelInv, AdapterFollowsOp, StoppedIsStopped, LiveAdapters
<1>2. ChannelInv => ChannelIsAsConfigured
  BY <1>1 DEF ChannelInv, ChannelIsAsConfigured
<1> QED
  BY <1>2, ChannelIsInvariant, PTL

-----------------------------------------------------------------------------
(* McpPool.                                                                *)

\* Connections are numbered from 1; none is a number, and so is no timer.
LEMMA Numbers ==
  /\ MaxConns \in Nat /\ MaxEdits \in Nat /\ MaxAge \in Nat /\ Grace \in Nat
  /\ \A c \in Conns : c \in Nat /\ c # 0 /\ c \in 0..MaxConns
  /\ \A c \in 0..MaxConns : c # 0 => c \in Conns
  /\ NoTimer \in Nat /\ NoTimer # 0 /\ Grace # NoTimer
  /\ \A t \in 0..NoTimer : t # NoTimer => t \in 0..Grace
  BY PoolAssumption DEF Conns, NoTimer

\* The invariant holds initially: nothing is open.
LEMMA PoolInvInit == PoolInit => PoolInv
<1> SUFFICES ASSUME PoolInit PROVE PoolInv
  OBVIOUS
<1> USE PoolAssumption DEF PoolInit
<1>1. opened \in 0..MaxConns /\ record \in 0..MaxEdits
  OBVIOUS
<1>10. shut \in BOOLEAN /\ broken \subseteq Conns
  OBVIOUS
<1>2. client \in [Conns -> {"none", "connecting", "open", "failed", "late", "closed"}]
  OBVIOUS
<1>3. pooled \in Entries
  BY DEF Unpooled, Entries
<1>4. closing \in [Conns -> 0..NoTimer]
  BY DEF NoTimer
<1>5. user \in [Users -> TurnRecord]
  BY DEF NoTurn, TurnRecord
<1>6. UnopenedIsUntouched
  BY DEF UnopenedIsUntouched, Holds, NoTurn
<1>7. PooledIsUsable /\ UnpooledWillClose
  BY DEF PooledIsUsable, UnpooledWillClose, Unpooled
<1>8. HeldIsConnected
  BY DEF HeldIsConnected, Holds, NoTurn
<1>9. GraceCoversUse
  BY DEF GraceCoversUse, Holds, NoTurn
<1> QED
  BY <1>1, <1>2, <1>3, <1>4, <1>5, <1>6, <1>7, <1>8, <1>9, <1>10
     DEF PoolInv, PoolTypeOK

-----------------------------------------------------------------------------
(* A turn and its connection.                                              *)

\* One turn goes on; the others stay where they are.
LEMMA OneTurnMoves ==
  ASSUME PoolTypeOK, NEW v \in Users, NEW w \in TurnRecord, user' = [user EXCEPT ![v] = w]
  PROVE  /\ user' \in [Users -> TurnRecord]
         /\ user'[v] = w
         /\ \A u \in Users : u # v => user'[u] = user[u]
  BY DEF PoolTypeOK

\* What the pool hands out was opened.
LEMMA PooledWasOpened ==
  ASSUME PoolInv, pooled.conn # 0
  PROVE  /\ pooled.conn \in Conns
         /\ pooled.conn <= opened
         /\ client[pooled.conn] \in {"connecting", "open"}
         /\ closing[pooled.conn] = NoTimer
<1>1. pooled.conn \in Conns
  BY Numbers DEF PoolInv, PoolTypeOK, Entries
<1>2. client[pooled.conn] \in {"connecting", "open"} /\ closing[pooled.conn] = NoTimer
  BY DEF PoolInv, PooledIsUsable
<1>3. ~(pooled.conn > opened)
  BY <1>1, <1>2 DEF PoolInv, UnopenedIsUntouched
<1>4. pooled.conn \in Nat /\ opened \in Nat
  BY <1>1, Numbers DEF PoolInv, PoolTypeOK
<1> QED
  BY <1>1, <1>2, <1>3, <1>4

\* A turn that takes the pooled connection holds one that nothing closes.
LEMMA TakePooledKeeps ==
  ASSUME PoolInv, NEW v \in Users, TakePooled(v)
  PROVE  PoolInv'
<1> DEFINE d == pooled.conn
           w == [user[v] EXCEPT !.pc = IF client[d] = "open" THEN "using" ELSE "waiting", !.conn = d]
<1>1. UNCHANGED <<opened, client, pooled, closing, record, shut, broken>>
  BY DEF TakePooled
<1>2. /\ d # 0 /\ d \in Conns /\ d <= opened
      /\ client[d] \in {"connecting", "open"} /\ closing[d] = NoTimer
  BY PooledWasOpened DEF TakePooled
<1>3. user' = [user EXCEPT ![v] = w]
  BY DEF TakePooled, HoldConn
<1>4. /\ w \in TurnRecord
      /\ w.conn = d
      /\ w.pc = IF client[d] = "open" THEN "using" ELSE "waiting"
  BY <1>2, Numbers DEF PoolInv, PoolTypeOK, TurnRecord
<1> HIDE DEF w
<1>5. /\ user' \in [Users -> TurnRecord]
      /\ user'[v] = w
      /\ \A u \in Users : u # v => user'[u] = user[u]
  BY <1>3, <1>4, OneTurnMoves DEF PoolInv
<1>6. \A u \in Users, c \in Conns :
        Holds(u, c)' => \/ u = v /\ c = d
                        \/ u # v /\ Holds(u, c) /\ user'[u] = user[u]
  BY <1>4, <1>5 DEF Holds
<1>7. PoolTypeOK' /\ PooledIsUsable' /\ UnpooledWillClose'
  BY <1>1, <1>5 DEF PoolInv, PoolTypeOK, PooledIsUsable, UnpooledWillClose
<1>8. UnopenedIsUntouched'
  <2>1. opened \in Nat /\ \A c \in Conns : c \in Nat
    BY Numbers DEF PoolInv, PoolTypeOK
  <2> QED
    BY <1>1, <1>2, <1>6, <2>1 DEF PoolInv, UnopenedIsUntouched
<1>9. HeldIsConnected'
  BY <1>1, <1>2, <1>4, <1>5 DEF PoolInv, HeldIsConnected, Holds
<1>10. GraceCoversUse'
  BY <1>1, <1>2, <1>6 DEF PoolInv, GraceCoversUse
<1> QED
  BY <1>7, <1>8, <1>9, <1>10 DEF PoolInv

\* A new connection replaces the pooled one, whose grace period begins.
LEMMA TakeNewKeeps ==
  ASSUME PoolInv, NEW v \in Users, TakeNew(v)
  PROVE  PoolInv'
<1> DEFINE n == opened + 1
           w == [user[v] EXCEPT !.pc = "waiting", !.conn = n]
<1>1. /\ opened' = n /\ n \in Conns /\ n > opened /\ n \in 0..MaxConns /\ opened \in Nat
      /\ UNCHANGED <<record, shut, broken>>
  BY Numbers DEF TakeNew, PoolInv, PoolTypeOK, Conns
<1>2. client[n] = "none" /\ closing[n] = NoTimer /\ \A u \in Users : ~Holds(u, n)
  BY <1>1 DEF PoolInv, UnopenedIsUntouched
<1>3. /\ client' = [client EXCEPT ![n] = "connecting"]
      /\ pooled' = [conn |-> n, print |-> user[v].print, age |-> 0]
      /\ user' = [user EXCEPT ![v] = w]
  BY <1>1, <1>2 DEF TakeNew, HoldConn
<1>4. w \in TurnRecord /\ w.conn = n /\ w.pc = "waiting"
  BY <1>1 DEF PoolInv, PoolTypeOK, TurnRecord
<1> HIDE DEF w
<1>5. /\ user' \in [Users -> TurnRecord]
      /\ user'[v] = w
      /\ \A u \in Users : u # v => user'[u] = user[u]
  BY <1>3, <1>4, OneTurnMoves DEF PoolInv
<1>6. /\ client' \in [Conns -> {"none", "connecting", "open", "failed", "late", "closed"}]
      /\ client'[n] = "connecting"
      /\ \A c \in Conns : c # n => client'[c] = client[c]
  BY <1>1, <1>3 DEF PoolInv, PoolTypeOK
<1>7. pooled' \in Entries /\ pooled'.conn = n
  <2>1. user[v].print \in 0..MaxEdits
    BY DEF PoolInv, PoolTypeOK, TurnRecord
  <2> QED
    BY <1>1, <1>3, <2>1, Numbers DEF Entries
<1>8. pooled.conn # 0 => pooled.conn \in Conns /\ pooled.conn # n /\ client[pooled.conn] # "closed"
  BY <1>2, PooledWasOpened
<1>9. /\ closing' \in [Conns -> 0..NoTimer]
      /\ \A c \in Conns : closing'[c] = IF c = pooled.conn THEN Grace ELSE closing[c]
  <2>1. closing \in [Conns -> 0..NoTimer] /\ Grace \in 0..NoTimer
    BY Numbers DEF PoolInv, PoolTypeOK, NoTimer
  <2>2. CASE pooled.conn = 0
    BY <2>1, <2>2, Numbers DEF TakeNew, DropReplaced
  <2>3. CASE pooled.conn # 0
    BY <1>8, <2>1, <2>3 DEF TakeNew, DropReplaced, CloseLater
  <2> QED
    BY <2>2, <2>3
<1> HIDE DEF n
<1>10. \A u \in Users, c \in Conns :
        Holds(u, c)' => \/ u = v /\ c = n
                        \/ u # v /\ c # n /\ Holds(u, c) /\ user'[u] = user[u]
  BY <1>2, <1>4, <1>5 DEF Holds
<1>11. PoolTypeOK'
  BY <1>1, <1>5, <1>6, <1>7, <1>9 DEF PoolInv, PoolTypeOK
<1>12. PooledIsUsable'
  BY <1>2, <1>6, <1>7, <1>8, <1>9, <1>1 DEF PooledIsUsable
<1>13. UnpooledWillClose'
  BY <1>6, <1>7, <1>9, Numbers DEF PoolInv, UnpooledWillClose
<1>14. UnopenedIsUntouched'
  <2> SUFFICES ASSUME NEW c \in Conns, c > n
               PROVE  client'[c] = "none" /\ closing'[c] = NoTimer /\ \A u \in Users : ~Holds(u, c)'
    BY <1>1 DEF UnopenedIsUntouched
  <2>1. c > opened /\ c # n
    BY <1>1, Numbers DEF n
  <2>2. client[c] = "none" /\ closing[c] = NoTimer /\ \A u \in Users : ~Holds(u, c)
    BY <2>1 DEF PoolInv, UnopenedIsUntouched
  <2>3. c # pooled.conn
    BY <2>2, PooledWasOpened, Numbers
  <2> QED
    BY <1>6, <1>9, <1>10, <2>1, <2>2, <2>3
<1>15. HeldIsConnected'
  <2> SUFFICES ASSUME NEW u \in Users PROVE HeldIsConnected!(u)'
    BY DEF HeldIsConnected
  <2>1. CASE u = v
    BY <1>1, <1>4, <1>5, <1>6, <2>1, Numbers DEF Holds
  <2>2. CASE u # v
    BY <1>5, <1>6, <1>10, <2>2 DEF PoolInv, HeldIsConnected, Holds
  <2> QED
    BY <2>1, <2>2
<1>16. GraceCoversUse'
  <2> SUFFICES ASSUME ~shut, NEW u \in Users, NEW c \in Conns, Holds(u, c)'
               PROVE  /\ closing'[c] # NoTimer => user'[u].held + closing'[c] >= Grace
                      /\ client'[c] = "closed" => closing'[c] = 0
    BY <1>1 DEF GraceCoversUse
  <2>1. user'[u].held \in 0..Grace
    BY <1>5 DEF TurnRecord
  <2>2. CASE c = n
    BY <1>2, <1>6, <1>8, <1>9, <1>1, Numbers, <2>2
  <2>3. CASE c # n /\ c = pooled.conn
    BY <1>6, <1>8, <1>9, <2>1, <2>3, Numbers
  <2>4. CASE c # n /\ c # pooled.conn
    BY <1>6, <1>9, <1>10, <2>4 DEF PoolInv, GraceCoversUse
  <2> QED
    BY <2>2, <2>3, <2>4
<1> QED
  BY <1>11, <1>12, <1>13, <1>14, <1>15, <1>16 DEF PoolInv

-----------------------------------------------------------------------------
(* Connections that leave the pool.                                        *)

\* Only the pool's own connection is retired, and its grace period begins.
LEMMA RetireStartsGrace ==
  ASSUME PoolInv, NEW d \in Conns, Retire(d)
  PROVE  /\ pooled' \in Entries
         /\ closing' \in [Conns -> 0..NoTimer]
         /\ pooled' = pooled \/ (pooled.conn = d /\ pooled'.conn = 0)
         /\ pooled'.conn # d
         /\ \A c \in Conns : closing'[c] = IF c = d /\ pooled.conn = d THEN Grace ELSE closing[c]
<1>1. closing \in [Conns -> 0..NoTimer] /\ Grace \in 0..NoTimer /\ pooled \in Entries /\ d # 0
  BY Numbers DEF PoolInv, PoolTypeOK, NoTimer
<1>2. Unpooled \in Entries /\ Unpooled.conn = 0
  BY Numbers DEF Unpooled, Entries
<1>3. CASE pooled.conn # d
  BY <1>1, <1>3 DEF Retire
<1>4. CASE pooled.conn = d
  <2>1. pooled' = Unpooled /\ closing' = [closing EXCEPT ![d] = Grace]
    BY <1>4 DEF Retire, CloseLater
  <2>2. closing' \in [Conns -> 0..NoTimer] /\ \A c \in Conns : closing'[c] = IF c = d THEN Grace ELSE closing[c]
    BY <1>1, <2>1
  <2> QED
    BY <1>1, <1>2, <1>4, <2>1, <2>2
<1> QED
  BY <1>3, <1>4

\* A call fails on a connection: it is retired, and the turns that use it go on.
LEMMA CallFailsKeeps ==
  ASSUME PoolInv, NEW v \in Users, CallFails(v)
  PROVE  PoolInv'
<1> DEFINE d == user[v].conn
<1>1. d \in Conns
  BY Numbers DEF CallFails, PoolInv, PoolTypeOK, TurnRecord, HeldIsConnected
<1>2. /\ UNCHANGED <<opened, client, user, record, shut>>
      /\ broken' = broken \union {d}
      /\ Retire(d)
  BY DEF CallFails
<1> HIDE DEF d
<1>3. /\ pooled' \in Entries
      /\ closing' \in [Conns -> 0..NoTimer]
      /\ pooled' = pooled \/ (pooled.conn = d /\ pooled'.conn = 0)
      /\ pooled'.conn # d
      /\ \A c \in Conns : closing'[c] = IF c = d /\ pooled.conn = d THEN Grace ELSE closing[c]
  BY <1>1, <1>2, RetireStartsGrace
<1>4. \A u \in Users, c \in Conns : Holds(u, c)' <=> Holds(u, c)
  BY <1>2 DEF Holds
<1>5. pooled.conn = d => client[d] \in {"connecting", "open"} /\ d <= opened
  BY <1>1, PooledWasOpened, Numbers
<1>6. PoolTypeOK'
  BY <1>1, <1>2, <1>3 DEF PoolInv, PoolTypeOK
<1>7. UnopenedIsUntouched'
  <2> SUFFICES ASSUME NEW c \in Conns, c > opened PROVE closing'[c] = NoTimer
    BY <1>2, <1>4 DEF PoolInv, UnopenedIsUntouched
  <2>1. pooled.conn = d => c # d
    BY <1>1, <1>5, Numbers DEF PoolInv, PoolTypeOK
  <2> QED
    BY <1>3, <2>1 DEF PoolInv, UnopenedIsUntouched
<1>8. PooledIsUsable'
  <2>1. CASE pooled' = pooled
    BY <1>2, <1>3, <2>1, PooledWasOpened DEF PooledIsUsable
  <2>2. CASE pooled'.conn = 0
    BY <2>2 DEF PooledIsUsable
  <2> QED
    BY <1>3, <2>1, <2>2
<1>11. UnpooledWillClose'
  BY <1>2, <1>3, Numbers DEF PoolInv, UnpooledWillClose
<1>9. HeldIsConnected'
  BY <1>2 DEF PoolInv, HeldIsConnected, Holds
<1>10. GraceCoversUse'
  <2>1. \A u \in Users : user[u].held \in 0..Grace
    BY DEF PoolInv, PoolTypeOK, TurnRecord
  <2> QED
    BY <1>2, <1>3, <1>4, <1>5, <2>1, Numbers DEF PoolInv, GraceCoversUse
<1> QED
  BY <1>6, <1>7, <1>8, <1>9, <1>10, <1>11 DEF PoolInv

\* A connect succeeds: the turns that waited for it use it.
LEMMA ConnectDoneKeeps ==
  ASSUME PoolInv, NEW d \in Conns, ConnectDone(d)
  PROVE  PoolInv'
<1>1. UNCHANGED <<opened, pooled, closing, record, shut, broken>>
  BY DEF ConnectDone
<1>2. /\ client[d] = "connecting"
      /\ client' \in [Conns -> {"none", "connecting", "open", "failed", "late", "closed"}]
      /\ \A c \in Conns : client'[c] = IF c = d THEN "open" ELSE client[c]
  BY DEF ConnectDone, PoolInv, PoolTypeOK
<1>3. \A u \in Users : user'[u] = IF Waits(u, d) THEN [user[u] EXCEPT !.pc = "using"] ELSE user[u]
  BY DEF ConnectDone
<1>4. \A u \in Users : user[u] \in TurnRecord
  BY DEF PoolInv, PoolTypeOK
<1>5. \A u \in Users :
        /\ user'[u] \in TurnRecord
        /\ user'[u].conn = user[u].conn /\ user'[u].held = user[u].held
        /\ user'[u].pc = IF Waits(u, d) THEN "using" ELSE user[u].pc
  BY <1>3, <1>4 DEF TurnRecord
<1>6. user' \in [Users -> TurnRecord]
  BY <1>5 DEF ConnectDone
<1>7. \A u \in Users, c \in Conns : Holds(u, c)' <=> Holds(u, c)
  BY <1>5 DEF Holds, Waits
<1>8. PoolTypeOK'
  BY <1>1, <1>2, <1>6 DEF PoolInv, PoolTypeOK
<1>9. UnopenedIsUntouched' /\ UnpooledWillClose'
  BY <1>1, <1>2, <1>7 DEF PoolInv, UnopenedIsUntouched, UnpooledWillClose
<1>12. PooledIsUsable'
  BY <1>1, <1>2, PooledWasOpened DEF PooledIsUsable
<1>10. HeldIsConnected'
  BY <1>2, <1>5 DEF PoolInv, HeldIsConnected, Holds, Waits
<1>11. GraceCoversUse'
  BY <1>1, <1>2, <1>5, <1>7 DEF PoolInv, GraceCoversUse
<1> QED
  BY <1>8, <1>9, <1>10, <1>11, <1>12 DEF PoolInv

\* A connect fails: it is retired, and no turn holds it any more.
LEMMA ConnectFailsKeeps ==
  ASSUME PoolInv, NEW d \in Conns, ConnectFails(d)
  PROVE  PoolInv'
<1>1. /\ UNCHANGED <<opened, record, shut>>
      /\ broken' = broken \union {d}
      /\ Retire(d)
  BY DEF ConnectFails
<1>2. /\ client[d] = "connecting" /\ client'[d] \in {"failed", "late"}
      /\ client' \in [Conns -> {"none", "connecting", "open", "failed", "late", "closed"}]
      /\ \A c \in Conns : c # d => client'[c] = client[c]
  BY DEF ConnectFails, PoolInv, PoolTypeOK
<1>3. /\ pooled' \in Entries
      /\ closing' \in [Conns -> 0..NoTimer]
      /\ pooled' = pooled \/ (pooled.conn = d /\ pooled'.conn = 0)
      /\ pooled'.conn # d
      /\ \A c \in Conns : closing'[c] = IF c = d /\ pooled.conn = d THEN Grace ELSE closing[c]
  BY <1>1, RetireStartsGrace
<1>4. \A u \in Users : user'[u] = IF Waits(u, d) THEN NoTurn ELSE user[u]
  BY DEF ConnectFails
<1>5. NoTurn \in TurnRecord /\ NoTurn.pc = "idle"
  BY Numbers DEF NoTurn, TurnRecord
<1>6. user' \in [Users -> TurnRecord]
  BY <1>5 DEF ConnectFails, PoolInv, PoolTypeOK
<1>7. \A u \in Users, c \in Conns : Holds(u, c)' => Holds(u, c) /\ c # d /\ user'[u] = user[u]
  <2> SUFFICES ASSUME NEW u \in Users, NEW c \in Conns, Holds(u, c)'
               PROVE  Holds(u, c) /\ c # d /\ user'[u] = user[u]
    OBVIOUS
  <2>1. ~Waits(u, d) /\ user'[u] = user[u]
    BY <1>4, <1>5 DEF Holds
  <2>2. Holds(u, c) /\ ~(user[u].pc = "using" /\ c = d)
    BY <1>2, <2>1 DEF Holds, PoolInv, HeldIsConnected
  <2> QED
    BY <2>1, <2>2 DEF Holds, Waits
<1>8. PoolTypeOK'
  BY <1>1, <1>2, <1>3, <1>6 DEF PoolInv, PoolTypeOK
<1>9. UnopenedIsUntouched'
  <2> SUFFICES ASSUME NEW c \in Conns, c > opened
               PROVE  client'[c] = "none" /\ closing'[c] = NoTimer /\ \A u \in Users : ~Holds(u, c)'
    BY <1>1 DEF UnopenedIsUntouched
  <2>1. client[c] = "none" /\ closing[c] = NoTimer /\ \A u \in Users : ~Holds(u, c)
    BY DEF PoolInv, UnopenedIsUntouched
  <2> QED
    BY <1>2, <1>3, <1>7, <2>1
<1>10. PooledIsUsable'
  BY <1>2, <1>3, PooledWasOpened DEF PooledIsUsable
<1>11. UnpooledWillClose'
  BY <1>2, <1>3, Numbers DEF PoolInv, UnpooledWillClose
<1>12. HeldIsConnected'
  BY <1>2, <1>4, <1>5, <1>7 DEF PoolInv, HeldIsConnected, Holds
<1>13. GraceCoversUse'
  BY <1>1, <1>2, <1>3, <1>7 DEF PoolInv, GraceCoversUse
<1> QED
  BY <1>8, <1>9, <1>10, <1>11, <1>12, <1>13 DEF PoolInv

-----------------------------------------------------------------------------
(* Time.                                                                   *)

\* A tick takes from a grace period what it adds to the time a turn has held on.
LEMMA TickKeeps == ASSUME PoolInv, PoolTick PROVE PoolInv'
<1>1. UNCHANGED <<opened, client, record, shut, broken>>
  BY DEF PoolTick
<1>2. pooled' \in Entries /\ pooled'.conn = pooled.conn
  <2>1. pooled \in Entries
    BY DEF PoolInv, PoolTypeOK
  <2>2. \A n \in 0..MaxAge : Older(n, MaxAge) \in 0..MaxAge
    BY Numbers DEF Older
  <2> QED
    BY <2>1, <2>2 DEF PoolTick, Entries
<1>3. /\ closing' \in [Conns -> 0..NoTimer]
      /\ \A c \in Conns : closing'[c] = IF closing[c] \in 1..Grace THEN closing[c] - 1 ELSE closing[c]
  <2>1. closing \in [Conns -> 0..NoTimer]
    BY DEF PoolInv, PoolTypeOK
  <2>2. \A t \in 0..NoTimer : (IF t \in 1..Grace THEN t - 1 ELSE t) \in 0..NoTimer
    BY Numbers DEF NoTimer
  <2> QED
    BY <2>1, <2>2 DEF PoolTick
<1>4. \A u \in Users :
        /\ user'[u] \in TurnRecord
        /\ user'[u].pc = user[u].pc /\ user'[u].conn = user[u].conn
        /\ user[u].pc \in {"waiting", "using"} => user'[u].held = Older(user[u].held, Grace)
  <2>1. \A n \in 0..Grace : Older(n, Grace) \in 0..Grace
    BY Numbers DEF Older
  <2>2. \A u \in Users : user[u] \in TurnRecord
    BY DEF PoolInv, PoolTypeOK
  <2> QED
    BY <2>1, <2>2 DEF PoolTick, TurnRecord
<1>5. user' \in [Users -> TurnRecord]
  BY <1>4 DEF PoolTick
<1>6. \A u \in Users, c \in Conns : Holds(u, c)' <=> Holds(u, c)
  BY <1>4 DEF Holds
<1>7. \A c \in Conns : /\ closing'[c] = NoTimer <=> closing[c] = NoTimer
                       /\ closing[c] = 0 => closing'[c] = 0
  <2>1. \A c \in Conns : closing[c] \in 0..NoTimer
    BY DEF PoolInv, PoolTypeOK
  <2> QED
    BY <1>3, <2>1, Numbers DEF NoTimer
<1>8. PoolTypeOK'
  BY <1>1, <1>2, <1>3, <1>5 DEF PoolInv, PoolTypeOK
<1>9. UnopenedIsUntouched' /\ UnpooledWillClose'
  BY <1>1, <1>2, <1>6, <1>7 DEF PoolInv, UnopenedIsUntouched, UnpooledWillClose
<1>10. PooledIsUsable'
  BY <1>1, <1>2, <1>7, PooledWasOpened DEF PooledIsUsable
<1>11. HeldIsConnected'
  BY <1>1, <1>4, <1>6 DEF PoolInv, HeldIsConnected
<1>12. GraceCoversUse'
  <2> SUFFICES ASSUME ~shut, NEW u \in Users, NEW c \in Conns, Holds(u, c)
               PROVE  /\ closing'[c] # NoTimer => user'[u].held + closing'[c] >= Grace
                      /\ client[c] = "closed" => closing'[c] = 0
    BY <1>1, <1>6 DEF GraceCoversUse
  <2>1. user[u].held \in 0..Grace /\ closing[c] \in 0..NoTimer
    BY DEF PoolInv, PoolTypeOK, TurnRecord
  <2>2. /\ closing[c] # NoTimer => user[u].held + closing[c] >= Grace
        /\ client[c] = "closed" => closing[c] = 0
    BY DEF PoolInv, GraceCoversUse
  <2>3. user'[u].held = IF user[u].held < Grace THEN user[u].held + 1 ELSE user[u].held
    BY <1>4 DEF Holds, Older
  <2> QED
    BY <1>3, <1>7, <2>1, <2>2, <2>3, Numbers
<1> QED
  BY <1>8, <1>9, <1>10, <1>11, <1>12 DEF PoolInv

-----------------------------------------------------------------------------
(* The other steps.                                                        *)

\* A turn that has read the servers, or is done, holds nothing.
LEMMA LeavesKeep ==
  ASSUME PoolInv, NEW v \in Users, ListServers(v) \/ StopWaiting(v) \/ EndUse(v)
  PROVE  PoolInv'
<1>1. UNCHANGED <<opened, client, pooled, closing, record, shut, broken>>
  BY DEF ListServers, StopWaiting, EndUse
<1>2. PICK w \in TurnRecord : w.pc \in {"idle", "listed"} /\ user' = [user EXCEPT ![v] = w]
  <2>1. CASE ListServers(v)
    <3>1. [user[v] EXCEPT !.pc = "listed", !.print = record] \in TurnRecord
      BY DEF PoolInv, PoolTypeOK, TurnRecord
    <3>2. [user[v] EXCEPT !.pc = "listed", !.print = record].pc = "listed"
      BY DEF PoolInv, PoolTypeOK, TurnRecord
    <3> QED
      BY <2>1, <3>1, <3>2 DEF ListServers
  <2>2. CASE StopWaiting(v) \/ EndUse(v)
    <3>1. NoTurn \in TurnRecord /\ NoTurn.pc = "idle"
      BY Numbers DEF NoTurn, TurnRecord
    <3> QED
      BY <2>2, <3>1 DEF StopWaiting, EndUse
  <2> QED
    BY <2>1, <2>2
<1>3. /\ user' \in [Users -> TurnRecord]
      /\ user'[v] = w
      /\ \A u \in Users : u # v => user'[u] = user[u]
  BY <1>2, OneTurnMoves DEF PoolInv
<1>4. \A u \in Users, c \in Conns : Holds(u, c)' => Holds(u, c) /\ user'[u] = user[u]
  BY <1>2, <1>3 DEF Holds
<1>5. PoolTypeOK' /\ PooledIsUsable' /\ UnpooledWillClose'
  BY <1>1, <1>3 DEF PoolInv, PoolTypeOK, PooledIsUsable, UnpooledWillClose
<1>6. UnopenedIsUntouched'
  BY <1>1, <1>4 DEF PoolInv, UnopenedIsUntouched
<1>7. HeldIsConnected'
  BY <1>1, <1>2, <1>3, <1>4 DEF PoolInv, HeldIsConnected, Holds
<1>8. GraceCoversUse'
  BY <1>1, <1>4 DEF PoolInv, GraceCoversUse
<1> QED
  BY <1>5, <1>6, <1>7, <1>8 DEF PoolInv

\* A client that is closed when it comes too late, or when its grace period is over.
LEMMA ClosesKeep ==
  ASSUME PoolInv, NEW d \in Conns, LateConnect(d) \/ CloseClient(d)
  PROVE  PoolInv'
<1>1. UNCHANGED <<opened, pooled, closing, user, record, shut, broken>>
  BY DEF LateConnect, CloseClient
<1>2. /\ client'[d] \in {"failed", "closed"}
      /\ \/ client[d] = "late"
         \/ client[d] = "open" /\ closing[d] = 0
      /\ client' \in [Conns -> {"none", "connecting", "open", "failed", "late", "closed"}]
      /\ \A c \in Conns : c # d => client'[c] = client[c]
      /\ client[d] = "open" => client'[d] = "closed"
  BY DEF LateConnect, CloseClient, PoolInv, PoolTypeOK
<1>3. pooled.conn # d
  BY <1>2, PooledWasOpened, Numbers
<1>4. PoolTypeOK' /\ UnpooledWillClose'
  BY <1>1, <1>2 DEF PoolInv, PoolTypeOK, UnpooledWillClose
<1>8. PooledIsUsable'
  BY <1>1, <1>2, <1>3, PooledWasOpened DEF PooledIsUsable
<1>5. UnopenedIsUntouched'
  BY <1>1, <1>2 DEF PoolInv, UnopenedIsUntouched, Holds
<1>6. HeldIsConnected'
  BY <1>1, <1>2 DEF PoolInv, HeldIsConnected, Holds
<1>7. GraceCoversUse'
  BY <1>1, <1>2 DEF PoolInv, GraceCoversUse, HeldIsConnected, Holds
<1> QED
  BY <1>4, <1>5, <1>6, <1>7, <1>8 DEF PoolInv

\* The server's record changes, or the pool is closed.
LEMMA OutsideKeeps == ASSUME PoolInv, EditServer \/ ClosePool PROVE PoolInv'
<1>1. CASE EditServer
  BY <1>1, Numbers DEF EditServer, PoolInv, PoolTypeOK, UnopenedIsUntouched, PooledIsUsable,
     UnpooledWillClose, HeldIsConnected, GraceCoversUse, Holds
<1>2. CASE ClosePool
  <2>1. UNCHANGED <<opened, client, user, record, broken>> /\ shut' /\ shut' \in BOOLEAN
    BY <1>2 DEF ClosePool
  <2>2. pooled' \in Entries /\ pooled'.conn = 0
    BY <1>2, Numbers DEF ClosePool, Unpooled, Entries
  <2>3. /\ closing' \in [Conns -> 0..NoTimer]
        /\ \A c \in Conns : closing'[c] = IF c = pooled.conn THEN 0 ELSE closing[c]
    <3>1. closing \in [Conns -> 0..NoTimer] /\ 0 \in 0..NoTimer
      BY Numbers DEF PoolInv, PoolTypeOK
    <3>2. CASE pooled.conn = 0
      BY <1>2, <3>1, <3>2, Numbers DEF ClosePool
    <3>3. CASE pooled.conn # 0
      BY <1>2, <3>1, <3>3, PooledWasOpened DEF ClosePool
    <3> QED
      BY <3>2, <3>3
  <2>4. PoolTypeOK'
    BY <2>1, <2>2, <2>3 DEF PoolInv, PoolTypeOK
  <2>5. UnopenedIsUntouched'
    <3> SUFFICES ASSUME NEW c \in Conns, c > opened PROVE closing'[c] = NoTimer
      BY <2>1 DEF PoolInv, UnopenedIsUntouched, Holds
    <3>1. client[c] = "none" /\ closing[c] = NoTimer
      BY DEF PoolInv, UnopenedIsUntouched
    <3> QED
      BY <2>3, <3>1, PooledWasOpened, Numbers
  <2>6. PooledIsUsable' /\ GraceCoversUse'
    BY <2>1, <2>2 DEF PooledIsUsable, GraceCoversUse
  <2>7. UnpooledWillClose'
    BY <2>1, <2>2, <2>3, Numbers DEF PoolInv, UnpooledWillClose
  <2>8. HeldIsConnected'
    BY <2>1 DEF PoolInv, HeldIsConnected, Holds
  <2> QED
    BY <2>4, <2>5, <2>6, <2>7, <2>8 DEF PoolInv
<1> QED
  BY <1>1, <1>2

-----------------------------------------------------------------------------
(* The theorems.                                                           *)

\* The invariant of the pool: a connection leaves it only to be closed, and what is left
\* of its grace period covers every turn that still holds it.
THEOREM PoolIsInvariant == PoolSpec => []PoolInv
<1>1. PoolInv /\ [PoolNext]_poolVars => PoolInv'
  <2>1. ASSUME PoolInv, PoolNext PROVE PoolInv'
    BY <2>1, TakePooledKeeps, TakeNewKeeps, CallFailsKeeps, ConnectDoneKeeps, ConnectFailsKeeps,
       TickKeeps, LeavesKeep, ClosesKeep, OutsideKeeps DEF PoolNext
  <2>2. ASSUME PoolInv, UNCHANGED poolVars PROVE PoolInv'
    BY <2>2 DEF PoolInv, PoolTypeOK, UnopenedIsUntouched, PooledIsUsable, UnpooledWillClose,
       HeldIsConnected, GraceCoversUse, Holds, poolVars
  <2> QED
    BY <2>1, <2>2
<1> QED
  BY <1>1, PoolInvInit, PTL DEF PoolSpec

\* A dropped client is closed, and not under a turn that took it less than the grace
\* period ago.
THEOREM ClientsAreClosedInTime == PoolSpec => []ClosedInTime
<1>1. ASSUME PoolInv PROVE TakenStaysOpen
  <2> SUFFICES ASSUME NEW u \in Users, user[u].pc = "using", client[user[u].conn] = "closed", ~shut
               PROVE  user[u].held = Grace
    BY DEF TakenStaysOpen
  <2> DEFINE c == user[u].conn
  <2>1. c \in Conns /\ Holds(u, c)
    BY <1>1, Numbers DEF PoolInv, PoolTypeOK, TurnRecord, HeldIsConnected, Holds
  <2>2. closing[c] = 0 /\ (closing[c] # NoTimer => user[u].held + closing[c] >= Grace)
    BY <1>1, <2>1 DEF PoolInv, GraceCoversUse
  <2>3. user[u].held \in 0..Grace
    BY <1>1 DEF PoolInv, PoolTypeOK, TurnRecord
  <2> QED
    BY <2>2, <2>3, Numbers
<1>2. ASSUME PoolInv PROVE NoClientLeaks
  BY <1>2 DEF PoolInv, UnpooledWillClose, NoClientLeaks
<1> QED
  BY <1>1, <1>2, PoolIsInvariant, PTL DEF ClosedInTime

\* A connection leaves the pool when it has failed, has aged, or a turn comes with
\* another record, and not for another connection's failure.
THEOREM TurnsShareWhatWorks == PoolSpec => HealthyIsShared
<1> DEFINE Leaves == \/ pooled.conn \in broken'
                     \/ pooled.age = MaxAge
                     \/ pooled'.conn # 0 /\ pooled'.print # pooled.print
                     \/ shut'
<1>1. ASSUME PoolInv, PoolNext, pooled.conn # 0, pooled'.conn # pooled.conn PROVE Leaves
  <2>1. ASSUME NEW u \in Users, TakeNew(u) PROVE Leaves
    <3>1. pooled.age \in 0..MaxAge /\ opened \in Nat
      BY <1>1, Numbers DEF PoolInv, PoolTypeOK, Entries
    <3>2. pooled'.conn = opened + 1 /\ pooled'.print = user[u].print
      BY <2>1 DEF TakeNew
    <3>3. pooled.print # user[u].print \/ ~(pooled.age < MaxAge)
      BY <1>1, <2>1 DEF TakeNew
    <3> QED
      BY <3>1, <3>2, <3>3, Numbers
  <2>2. ASSUME NEW c \in Conns, ConnectFails(c) PROVE Leaves
    BY <1>1, <2>2 DEF ConnectFails, Retire
  <2>3. ASSUME NEW u \in Users, CallFails(u) PROVE Leaves
    BY <1>1, <2>3 DEF CallFails, Retire
  <2>4. CASE ClosePool
    BY <2>4 DEF ClosePool
  <2>5. CASE PoolTick
    BY <1>1, <2>5 DEF PoolTick, PoolInv, PoolTypeOK, Entries
  <2>6. CASE UNCHANGED pooled
    BY <1>1, <2>6
  <2> QED
    BY <1>1, <2>1, <2>2, <2>3, <2>4, <2>5, <2>6
       DEF PoolNext, ListServers, TakePooled, StopWaiting, EndUse, ConnectDone, LateConnect,
           CloseClient, EditServer
<1>2. PoolInv /\ [PoolNext]_poolVars =>
        [pooled.conn # 0 /\ pooled'.conn # pooled.conn => Leaves]_poolVars
  BY <1>1
<1> QED
  BY <1>2, PoolIsInvariant, PTL DEF PoolSpec, HealthyIsShared
=============================================================================
