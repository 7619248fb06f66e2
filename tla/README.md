# Polyant engine: TLA+ models, checks and proofs

Specifications of the concurrent parts of the Polyant engine
(`src/packages/engine`), the TLC configurations that check them on small
instances, and TLAPS proofs for every value of their constants. Paths below are
relative to `src/packages/engine/src` unless they start with `src/`.

Contents: [the system](#the-system) · [modules](#modules) ·
[Coordinator](#coordinator-and-inbox) · [Scheduler](#scheduler) ·
[RoomBacklog](#roombacklog) · [Turn](#turn) · [Conversation](#conversation) ·
[Optout](#optout) · [Knowledge](#knowledge) · [InsertQueue](#insertqueue) ·
[GracefulShutdown](#gracefulshutdown) ·
[ChannelManager](#channelmanager) · [McpPool](#mcppool) · [runs](#runs) · [findings](#where-the-code-and-its-documentation-differ) ·
[proofs](#proofs) · [only model-checked](#only-model-checked) ·
[not modelled](#not-modelled) · [plan](#plan)

    tlc -workers 2 -config MCEngine.cfg MCEngine               # model-check
    tlapm CoordinatorProofs.tla                                # check the proofs

## The system

Polyant hosts configurable AI agents. An engine process receives messages from
channels (WhatsApp, Telegram, Slack, a web panel, an OpenAI-compatible API,
A2A), runs a *turn* (opt-out gate, context, hooks, the model with its tools,
hooks, persistence) and sends the reply. Beside the messages it runs scheduled
tasks, reacts to webhooks, and lets an agent work through a *Room*, a backlog of
events. State lives in PostgreSQL and in the memory of a process; the engine is
built for one replica (`src/docs/UPGRADING.md:171-201`), but a deploy overlaps
two, and the scheduler is written for several.

| Component | State | Operations | What is hard | What makes it correct |
|---|---|---|---|---|
| Message coordinator, `channels/message-coordinator.ts` | per conversation: buffer, two timers, current abort controller, restart count, tool flag, chain of runs | a fragment arrives, timers fire, a run starts, ends, is cancelled; shutdown | a run unwinds from its cancellation while the next one is queued; a tool races a cancellation; bursts start concurrently | every fragment answered exactly once, in order; a run that used a tool is not repeated; a cancelled run leaves nothing |
| Pipeline, `pipeline.ts` | the turn; state buffer | pre, model, post | three abort gates between awaits | nothing persisted after a cancellation |
| Scheduled tasks, `scheduled-tasks/` | task rows, run log, per-process set of running tasks | tick, claim, run, complete, fail, reap, recover, missed tasks, API edits | several replicas, crashes, hung runs, late completions, edits during a run | a live run keeps its claim; an occurrence runs once; no row stays running |
| Room, `room/`, `webhooks/webhook-backlog.store.ts` | backlog rows, per-process set of running rooms | webhook insert, tick, human message, claim, model, tool marks, complete, boot reset, retention | overlapping ticks, two processes, failures between claim and completion | an event is worked on once, and eventually completed |
| Channel manager and adapters, `channels/` | adapters by agent and channel | start, stop, deliver | operations on one channel overlap, each with awaits inside; a failed registration retries by itself | a channel runs as its row says; what was stopped stays quiet |
| Background turns, dedupe, shutdown, `channels/background-turns.ts`, `server/graceful-close.ts`, `index.ts` | promises under way; delivery ids | track, drain, shutdown steps | work registered while draining; two deadlines; a step that throws | acknowledged work is waited for and its log rows are written; the process exits |
| Hooks, `hooks/` | hooks by event | run in order with a timeout, halt, ask for a replay | a hook outlives its timeout and writes late; one that always asks for a replay | an abandoned hook changes nothing; a turn ends |
| Conversation state, `conversations/state.buffer.ts` | dirty and removed keys | set, delete, flush | turns that flush into one row at once; a flush that fails, or is answered too late | a turn changes only what it wrote, and all of it |
| Conversation store, `conversations/store.ts`, `memory/`, `principal-secrets.store.ts` | conversation rows, messages, counters, summary and its cache, state, memories, tokens | append, summarise, extract, rename, delete | the steps after the reply are not awaited; RESET and the operator move the key under them; six tables name the conversation by a text key | what is found under a key is that conversation's; the counter counts |
| Opt-out, `optout/` | rows; a 30 s cache in each process | gate, proactive send, operator's change | a read that started before a change; two processes | a served status is recent; a process sees its own change |
| Knowledge, `knowledge/` | documents, chunks | write, ingest, switch, delete, sweep | no claim on a document | a ready document has its text's chunks; none stays busy |
| Buffered writers, `utils/buffered-insert-queue.ts` | rows in memory | push, flush, fallback row by row, requeue, shutdown | a batch or a row fails, the answer is lost, the buffer is full | every row accounted for, in order, once |
| OAuth, `server/oauth/` | states, tokens | authorize, consume, refresh | a callback after a rename; concurrent refresh | tokens belong to the conversation that asked for them |
| A2A, OpenAI API, streaming, `server/` | bounded task store, open streams | requests | eviction, disconnects | bounds hold |
| Tools and MCP, `agents/tools/` | pool of clients, timers that close them | take, share, retire, close | a connection is retired or replaced while other turns use it; a connect that ends late | no client is closed under a turn in time, none leaks, turns share what works |
| Memory, gateways, attachments, analytics, audit, authorization, configuration, skills, plugins, web panel | rows | requests | little of their own | see [not modelled](#not-modelled) |

How they interact: adapters hand messages to the channel manager; WhatsApp and
Telegram go through the coordinator, which calls `handleMessage` (`index.ts`)
with an abort signal and a tool gate. `handleMessage` asks the opt-out gate, then
sends the message to the Room (if it comes from the Room's channel) or into the
pipeline. The pipeline calls the supervisor, which asks the tool gate before
each tool, and persists through the state buffer and the conversation store.
The scheduler calls `handleMessage` with a task's prompt and sends the reply
through the channel manager. Webhooks insert into the backlog; the Room
scheduler claims from it. The database is the only state replicas share.

## Modules

| Module | Role |
|---|---|
| `Inbox` | abstract specification of one conversation: fragments are accepted and answered in order |
| `Coordinator` | the message coordinator with the abort gates of a turn; implements `Inbox` |
| `CoordinatorProofs` | its invariants, the refinement of `Inbox`, what a cancelled run leaves |
| `TaskLease` | abstract specification of a task: one run works on it at a time, within its deadline |
| `Scheduler` | one scheduled task, its run log, the replicas; implements `TaskLease` |
| `MCScheduler`, `SchedulerProofs` | TLC instance (replicas symmetric); proofs |
| `EventBacklog` | abstract specification of a backlog: who has an event, and when it comes back |
| `RoomBacklog` | one Room: backlog, ticks, cycles, boot; implements `EventBacklog` |
| `MCRoomBacklog`, `RoomBacklogProofs` | TLC instance; proofs |
| `Turn` | buffered turns of one conversation: hooks, replays, abort gates, the state buffer |
| `Conversation` | one contact's conversation in the tables, against renames and deletes |
| `Knowledge` | one document of a knowledge base |
| `StoreProofs` | proofs about `Knowledge` and `Conversation` |
| `Optout` | one contact's opt-out status and the caches of it |
| `TurnProofs` | proofs about `Turn` and `Optout` |
| `RowLog` | abstract specification of a log: rows leave it oldest first, and are lost only to the cap |
| `InsertQueue` | one buffered log queue; implements `RowLog` |
| `GracefulShutdown` | the shutdown of a process against requests and acknowledged turns |
| `ShutdownProofs` | proofs about `GracefulShutdown` and `InsertQueue` |
| `ChannelManager` | the adapters of one channel, its operations and registrations |
| `McpPool` | the pooled connections to one MCP server |
| `ConnectionProofs` | proofs about `ChannelManager` and `McpPool` |
| `MCEngine`, `EngineProofs` | TLC instance of `Coordinator` and the eight component modules after `RoomBacklog`; proofs that it has the properties of its parts |
| `MCCoordinator` | TLC instance for the two runs about `Coordinator` alone that find a violation |

`MCEngine` puts nine parts side by side. They share no variable: `part`, picked
in the first state, says whose behaviour it is, and the others stay as they
begin, so its state space is the sum of the parts' and not their product, and
one run checks them all under one set of bounds. Where parts meet in the code,
one of them has the other's side of the seam: `Coordinator` has the gates of the
turn, `GracefulShutdown` the turns and log rows the shutdown waits for,
`Conversation` the state flush and the RESET hook.

`PROJECT.json` maps every definition to the lines it models. An action is one
atomic step of the code: for the coordinator a synchronous stretch between two
awaits, for the others a database statement or transaction, or a resumption after
an await.
Definitions marked "Mutant" in a module are plausible mistakes: each property is
violated when the definition it is about is replaced by its mutant
(`PROJECT.json`, "mutants").

## Coordinator and Inbox

One conversation; all the coordinator's state is keyed by it. Fragments are
numbered by arrival and carry their attachments. `lastSid` and the delivery of
the typing indicator are left out.

| Code | Model |
|---|---|
| `starting`, `states` | `starting`, `live` |
| `buffer` + `attachments`, `pipelineTimer`, `typingTimer`, `typingSent` | `buffer`, `timer`, `typingTimer`, `typingSent` |
| `currentAbort`, `restartCount`, `toolStarted` | `current` (the number of its run), `restarts`, `toolStarted` |
| `flushChain` | `fired` runs were appended, `done` have ended; run `done + 1` is next |
| an aborted signal | membership in `aborted` |
| `fragments` of the executing callback, and where it is | `taken`, `phase` |
| `onMessage` | `OnMessage`: `StartBurst`, `Supersede`, `Accumulate`, `Debounce` |
| `installState` after its await | `InstallState` |
| timer callbacks | `OnTypingTimer`, `OnPipelineTimer` |
| chain callback | `SkipRun`, `EmptyRun`, `StartRun` |
| tool gate; last abort gate and write of `runPipelinePost` | `ToolGate`; `Persist` |
| `doFlush` | `ReturnCancelled`, `ReturnSilent`, `ReturnText`, `SendDone` |
| `shutdown` | `Shutdown` |

JavaScript drains every microtask before the next timer or I/O callback, so a
chain step that is ready runs first (`Quiet`). After `afterResponse` the turn
looks up and runs the `response_sent` hooks; `SentHooksWait` says whether that
takes more than microtasks. `toolRun`, `saved`, `answered` and `tries` are
history. "Answered" means that the run was finalized: with a reply, nothing to
say, a failure turned into an apology, or a send that failed and was logged, as
`finalizePipeline` does not tell these apart. No message arrives after
`shutdown()`, which runs after the HTTP server is closed. `resolveTimings` does
not reject, as `channel-manager.ts:86-94` wires it.

`Inbox` knows only `pending` and `answered`; the mapping is `pending <- taken \o
buffer \o starting`: what a run has taken is pending until it ends, and a
cancellation is a stutter.

## Scheduler

One row of `scheduled_tasks` with its run log. Tasks share only the three
concurrency slots of a replica; a tick without a free slot picks nothing, which
the model has anyway, as a tick may always be late.

| Code | Model |
|---|---|
| `enabled`, `last_run_status`, `last_run_at`, `consecutive_errors`, `schedule` | `enabled`, `status`, `stamp`, `errors`, `sched` |
| `next_run_at` against now | `next`: scheduled, retry, due or never |
| running longer than `max_run_ms` since `updated_at` | `late` |
| one `executeTask` call | `run[e]`: its `pc`, claim, what it read before the run |
| `scheduled_task_runs` | `log[e]`; calls not awaited in `unlanded` while they have an open row to close |
| `running.has(task.id)`, recovery and reaper of a replica | `busy[p]`, `sweep[p]` |
| `tick`, `runNow`, `executeTask` | `Pick`, `RunNow`, then `MarkRunning`/`ClaimRefused`, `CreateRun`, `ReadCompleted`, `WriteCompleted`/`CompletedLate`, `Deliver`, or `MarkFailed`/`FailureThrows`; `CallThrows`; `LandLog` |
| `reapOverrunningRuns`, `recoverOrphanedRuns` | `Judge`, `ReapRow` or `ClearMarker`, `CloseRuns` |
| `start`, `handleMissedTasks` | `Crash` (then the replica recovers), `MissedTasks`, `AdvanceMissed` |
| `PATCH`, `DELETE`, switching the agent | `Enable`, `Disable`, `EditSchedule`, `Remove`, `SwitchInstance` |

Stamps are serial numbers: a claim and the write that ends it are a database
round trip apart, so two writes of a row do not share a millisecond. A read and
the write that follows are one step where only another edit could come between
(said at the definition); `markCompleted`'s read and write are two. A skipped
execution (instance inactive, still running here) changes nothing and is no
execution. The outcome of a run-log row is abstracted to "closed". A replica
that stops is `recovering` until it takes its first step, so "down" is a
replica that does not step. Left out: a one-shot that is missed between two
retries by more than five tasks.

`TaskLease` knows of each run whether it is waiting, working, overdue or over, and
of the task whether it is taken, by whom, and removed. A run works from its claim
to its end, is overdue once its deadline has passed (`overran`), and owns the task
while the row carries its claim. Reaping and recovery are `Revoke`, which an owner
that is in time rules out; a completion or failure that finds another claim, or
none, is the mere end of a run.

`EnableWhileRuns` says whether the API re-enables a task that is running. The
code allows it and then the claim is lost (finding 3), by nothing else
(`KeepsItsClaim`). The lease and the run log are checked and proved for tasks that
are not re-enabled while they run, the rest is proved for all.

## RoomBacklog

One Room. `status` and `notes` are its `event_backlog` rows; `running[p]`,
`cycle` and `seen[p]` (a tick that has read and not yet looked) are the Room
scheduler of each process; cycles are slots, freed at their end.

| Code | Model |
|---|---|
| `insertEvent` | `Insert` (its count), `CommitInsert`, `InsertFails` |
| `tick`, `triggerImmediate` | `TickReads`, `TickStarts`, `HumanWrites` (a message that finds the Room running is dropped: no step) |
| `Promise.all` of `executeRoomCycle` | `Claim`; `OpenFails`, which may leave a `StrayClaim` behind |
| prompt and model call | `GiveToModel`, `ToolMarks` |
| end of the cycle, after an answer or an error of the model | `Finish` |
| a call that throws elsewhere | `CycleFails` |
| process stop; `resetStuckProcessingEvents` at boot | `Stop`; `Boot`, `BootFails` |
| `deleteOldCompletedBacklog` | `Purge` |

The INSERT's count and its commit are separate steps, so the cap is as soft as
in the code. `NoCycleAtBoot` is the boot's own assumption ("a fresh engine has
no running cycle by definition"); without it see finding 6.

`EventBacklog` knows where an event is (outside, waiting, taken, settled) and what
each cycle holds. `Claim` is `Take`, a `StrayClaim` is `TakeForNobody`, the boot is
`PutBack`, which no cycle may witness; an insert under way is no event yet, and a
purged one is settled.

## Turn

The buffered turns of one conversation that run at once (channels without a
coordinator), with one row of conversation state.

| Code | Model |
|---|---|
| `conversation_state.data` | `stored`: for each key, which turn wrote it and where in the turn |
| `ConversationStateBuffer` of a turn: `data`, `dirty`, `removed` | `data[t]`, `dirty[t]`, `removed[t]` |
| `set`, `delete`; `flush` and its upsert | `SetKey`, `DeleteKey`; `Flush`, `Upsert`, then `FlushOver` or `TurnReturns` when it is answered |
| `runHooks`, `withTimeout`, `fenceState` | `HookReturns`, `HookHalts`, `HookTimesOut`; `LateWrite`, which `Refuses` stops |
| `preparePipeline`, `runBufferedTurn` | `Prepare`, `ReceivedEventOver` |
| `supervise` | `ToolWrites`, `ModelReturns` |
| `generateWithReplay` | `Regenerate` |
| `runPipelinePost` | `Commit` (gate, first flush), `FlushOver` (gate), `SentEventOver` (second flush), `TurnReturns` |
| the abort signal | `Abort` |

A hook writes only its turn's own buffer, so it is one step; what it does after
its timeout is `LateWrite`, at any time. An upsert has three outcomes: answered,
failed, and done with its answer lost. `cut` and `unsaved` are history. Left out:
`conversation_start` (its hooks run like those of `message_received`), the
streaming turn, hooks' replacement texts.

## Conversation

One contact: its key (`main`) and the one it is archived under. Turns are
numbered; the one that creates a row gives the conversation its identity, which
the code does not have: its rows name a conversation by key only, and whether
they still mean the same conversation is the question.

| Code | Model |
|---|---|
| `conversations`, `message_count`, `summary` | `conv[key]`, `count`, `summary` |
| `conversation_messages`, `conversation_state`, `principal_secrets` | `place`, `state`, `secret` |
| `memories`: the rows turns inserted, by `source_conversation_id`; whose fact each tells | `memory`, `fact` |
| `upsertMemory`: a new row, or an update of the closest one | `InsertMemory`, `MergeMemory` in `Remember`; `MergeOther` |
| `summaryCache` | `cached`; `EvictSummary` |
| `ensureConversation`, `getSummary` | `Begin`, `BeginFails`, `Load`, `FillCache` |
| OAuth link and callback | `GiveLink`, `Callback` |
| flush; `afterResponse` | `FlushState`; `AppendUser`, `AppendAssistant`, `AppendFails`, `UpdateSummary`, `CacheSummary`, `Remember` |
| `renameConversation` (RESET and operator), `deleteConversation` | `StartMove` (row lock, caches dropped), then `RenameCommits`, `RenameAborts`, `DeleteCommits` |

The transaction holds the conversation's row from its first statement on it to
the commit, so turns that write that row wait; statements on other tables do
not, and count as run at the commit. `crossed` are the turns that were under way
while a move took or gave their key: what they write late may land in another
conversation, and that is all that may (`OnlyLateWritesStray`).

Memories belong to the agent. A fact that is close to one it knows is written into
that row, which keeps its source: so a row of this contact's conversation may come to
tell a fact of the contact's other one, of another contact, of a tool or of the panel
(`fact`), with no move under way. `OnlyLateWritesStray` is therefore about rows, by the
turn that inserted them, and not about what a memory's row tells; that deleting a
conversation leaves no fact of it behind is not so (`NoFactIsLeft` below). What is
close to what is left open: any row may be the closest, or none.

## Optout

One contact, several processes, requests under way. `status` is the row,
`entry[p]` the `TtlCache` entry of a process, `req` the requests: a message or a
proactive send (`Ask`, `Select`, `Fill`, `Act`), a change (`Write`,
`Invalidate`), the operator's (`Change`), each with its failure. A request under
way is at an await: `reading` before its SELECT ran, `answered` after, `writing`
and `written` around the upsert. `Tick` is time: an entry lives `Ttl` ticks and a
database call takes at most `Lag`. `evaluateOptout`'s texts are three: stop,
resume, other.

## Knowledge

One document and the ingestions its writes started. `doc`, `text`, `chunks` are
the rows; `ingest[v]` is where `processDocument` is for text `v`: `Mark`,
`ClearChunks`, `EmptyIsReady` or `EmbedBatch`..., `StoreChunks`, and `MarkError`
after a throw; `IngestionLost` is a process that stops. `WriteText` is every way
to give it a text, `DeleteChunks`/`DeleteRow` are `deleteDocument`, `SweepStuck`
the sweep, `quiet` the age of `updated_at`. Nothing claims a document: `overlap`
remembers that a text was written while an ingestion was at work, until one of
the last text has begun over alone.

## InsertQueue

One `BufferedInsertQueue`, rows numbered as they are pushed. `queued` is the
buffer, `batch` and `index` the rows of the flush under way and how many are
settled. `Push`, `Interval` and `CloseQueue` flush (`Take`); `BatchDone`,
`BatchRefused`, `BatchFails`, `RowSettled` and `RowFails` are the outcomes of its
INSERTs, the last three with what `flush` does then; `bad` rows are those the
database refuses, an outage is any other failure, of which the statement may
have been executed all the same. `Initialize` is the boot: rows pushed before it
wait.

`RowLog` has the newest row's number, the rows waiting, those settled and those
lost. The rows of a flush under way from `index` on wait in front of the buffer
(`Waiting`); a batch that succeeds settles them all at once, a row of the fallback
one, and a failure, which puts rows back, is a stutter or, over the cap, an
`Overflow` of as many of the oldest as are too many. A row that was written but
whose answer was lost is not settled: it waits and will be written again.

## GracefulShutdown

One process. `call` are the HTTP requests, some of which are answered before
their work is done (`Acknowledge` is `trackBackgroundTurn`); `awaited` is what
the drain's `Promise.all` was made of. `Signal` to `Exit` are the shutdown's
steps; `Waited` is the one that closes the server and drains at the same time,
each with the grace period as its deadline (`GracePasses`); later steps may
throw, and the next one runs all the same. `row` is the log row a turn leaves in
the queues the shutdown flushes.

## ChannelManager

One channel of an agent that has no other. Operations are numbered as they
begin, and overlap at their awaits; an adapter has the number of the operation
that made it.

| Code | Model |
|---|---|
| `instance_channels` | `config` |
| `this.adapters`, the map of the agent's channels in it | `adapters` (which map, 0 if none), `inner[map]` |
| the boot's `startAllForInstance`; `PUT`, `DELETE` of a channel, deletion of the agent | operation 1; `PutOn`, `PutOff`, `DeleteChannel`, `DeleteAgent`, `DeleteChannelRow` |
| `startChannel`, `autoDisableChannel` | `StartChannel`, `Initialized` or `InitializeFails`, `AutoDisable` |
| `stopChannel`, `stopAllForInstance`, `stopAdapter` | `StopChannel`, `Deregistered` |
| Telegram's webhook registration and its retries | `chain[a]` |

The map that a stop removes from is the one it looked up before its await
(`map`), which need not be the agent's any more. `disturbed` remembers that two
operations overlapped, or that the automatic disabling failed: from then on only
`StoppedIsStopped` is promised, and the row may be off with an adapter live (see
`OffStaysOff` below).

A delete stops the channel first, and what follows may throw
(`deleteChannelConfig`; `prepareAttachmentCleanup`, `deleteInstance`): then the row
stays as it was, enabled perhaps, and nothing runs. `undeleted` remembers the delete
that failed so until the next operation begins; `RunsAsConfigured` says that this is
the only way for an enabled channel not to run when nothing overlapped.

What the provider has is left out: `StoppedIsStopped` is about the retry of a
registration, not about a `setWebhook` in flight that reaches it after the stop's
`deleteWebhook`.

## McpPool

The pool's entry of one server (`pooled`), every connection that was opened
(`client`), `closeLater`'s timers (`closing`) and the turns (`user`). A turn lists
the servers, takes the pooled connection or a new one (`TakePooled`, `TakeNew`),
waits for its connect, uses it, and gives up or ends (`StopWaiting`, `EndUse`).
Connections fail, or connect after their deadline (`ConnectFails`, `LateConnect`);
calls fail (`CallFails`, which retires the connection unless the pool holds
another by now). Time passes in ticks: entries age, timers run. `held` is how
long a turn has had its connection; the grace period is meant to outlive a turn.

## Runs

Every run ends with the whole state space explored, or with the violation it
announces. `CHECK_DEADLOCK FALSE` everywhere: a conversation may end, a task may
be deleted, a backlog may be empty, and all bounded inputs may be used up.

| Run | Shows | Bounds and why they suffice |
|---|---|---|
| `MCEngine` | type invariants and the safety properties of nine modules, `ImplementsInbox`, `ImplementsLog` | see below. About 763,000 states, two minutes |
| `EngineLive` | `EveryFragmentAnswered` with `SentHooksWait`, `TurnEnds` (both as long as handlers and model calls end), `NoDocumentStaysBusy`, `EveryRowIsSettled`, `ShutdownEnds` | smaller bounds: one burst with a cancellation and a leftover; two turns, one fault; a text written over another; three rows, one outage; three requests. About 45,000 states |
| `MCScheduler` | type invariant, `KeepsItsClaim`, `LiveRunStaysOpen`, `DisabledAtLimit`, `ServedOnce`, `ImplementsLease` | 2 replicas, 2 executions, 1 fault, 1 retry, limit 2: a reaped run against its successor, two sweeps of one row, a crash before or after the claim, the limit reached by a run and a reaper. No API edits: the proofs cover them. About 1,550,000 states, two minutes |
| `SchedulerLive` | `RowIsFreed` for a one-shot, with two edits and a fault | one execution suffices: a row is freed or not within one claim |
| `MCRoomBacklog` | type invariant, `ImplementsBacklog`, `OneCyclePerProcess`, `GivenOnce`, `ResolutionKept`, `PendingIsCompleted` | 2 processes, 2 cycles, 2 events, cap 1, one stop, one throw: two cycles for one event, a stop or a failure between claim and completion, an insert that sees the cap. About 370,000 states, two minutes |
| `CoordinatorSaved`, `CoordinatorSupersede`, `SchedulerEdit`, `SchedulerDeploy`, `SchedulerMissed`, `RoomReboot`, `ConversationRename` | a statement of the documentation that the code does not keep (below) | the smallest bounds that show it |

The parts of `MCEngine`:

| Part | Shows | Bounds and why they suffice |
|---|---|---|
| `Coordinator` | five safety invariants, `ImplementsInbox` | 4 fragments, 1 restart: one run executing, one queued behind it, a third after a cancellation, a fragment on top; both sides of the cap |
| `Turn` | `AbandonedHookLeavesNoTrace`, `KeptTurnIsStored`, `KeysChangeByTheirWriter` | 2 turns of one conversation, one key, one hook for each event, 2 writes, 1 fault, 1 replay: one turn gives back or loses the other's value, one late write against one flush; a key is independent of the others |
| `Conversation` | `OnlyLateWritesStray`, `CountersAgree` | 2 turns, 2 moves, 2 extras: a conversation renamed or deleted, a second one begun at its key, and the first one's turn still writing; a rename there and back; a fact written into the other conversation's memory |
| `Optout` | `ServedStatusIsRecent`, `OwnChangeIsSeen` | 2 processes, 2 requests at a time, 3 in all, 1 error: a read, a change in either process, and a later question; entries and calls of one tick |
| `Knowledge` | `ReadyIsIndexed` | 3 texts of which the last is empty, 1 batch, 1 mishap: two ingestions that overlap and a third that heals, a sweep that is too early, a delete |
| `InsertQueue` | `EveryRowAccountedFor`, `ShutdownWritesWhatIsLeft`, `ImplementsLog` | 4 rows of which any may be refused, batches from 2, cap 2, 2 outages: rows go back in front of newer ones and over the cap, the fallback stops in its middle, shutdown meets a flush under way |
| `GracefulShutdown` | `AwaitedTurnIsServed` | 3 requests, 1 step that throws: a turn that is awaited, one registered meanwhile, a request that is cut |
| `ChannelManager` | `ChannelIsAsConfigured` | 3 operations, the boot's start among them: two that overlap and one after; a delete that fails and an operation after it; a registration that fails and retries |
| `McpPool` | `ClosedInTime`, `HealthyIsShared` | 2 turns, 2 connections, 1 edit, age 1, grace 2: a connection retired, replaced or aged out while a turn uses it or waits for it, and the pool shut |

Fairness, and why the code justifies it:

- Coordinator: timers fire and ready promises run. That a handler returns and a
  send ends is an assumption, which the code does not give: a model call can be
  aborted, but a tool is awaited without a timeout (`supervisor/index.ts:261`) and the
  main database pool has no `statement_timeout`. `EveryFragmentAnswered` is to be read
  under it: a conversation whose handler hangs is not answered any more. No fairness
  for people or for `Shutdown`; the typing timer needs none.
- Scheduler: deadlines pass; ticks come every 30 s, so a sweep goes on; a
  replica that stopped is started again. None for runs: a run may hang for ever,
  which is what the reaper is for.
- RoomBacklog: ticks come, whatever became of the ones before, and a process that
  stopped is started again. None for cycles: `supervise` gets no abort signal from
  the Room (`direct-turn.ts:99-123`), tools and statements have no timeout, and a hung
  run in a live process is what the scheduler has its reaper for
  (`scheduler.service.ts:351-353`). The Room has none: a cycle that hangs keeps its
  room running and its events processing until the process is restarted, so
  `PendingIsCompleted` is conditional on `CyclesEnd`. Beyond that it gives up
  where the code does: the Room is disabled, a cycle or a boot reset failed and no
  boot followed, or a process is down.
- Turn: the event loop runs what is ready, and a hook returns or its timeout
  expires. That an upsert and a model call with its tools end is assumed as for the
  coordinator. None for hooks that ask for a replay: `TurnEnds` rests on their count.
- Knowledge: time passes and the sweep recurs; none for ingestions.
- InsertQueue: the boot initializes the queue, the interval ticks, a statement is
  answered, the shutdown goes on. Outages are bounded: the property is about the
  time after them.
- GracefulShutdown: timers fire and an awaited step settles; none for requests and turns.

## Where the code and its documentation differ

1. `CoordinatorSaved`: a turn is stored before its `response_sent` hooks are
   awaited; a fragment in that window cancels a turn that is already saved, and
   it is run and saved again (`pipeline.ts:818-867`, `message-coordinator.ts:29-30`, `355`).
2. `CoordinatorSupersede`: a second timer replaces the controller of the run in
   flight; later fragments abort the queued run, not the one in flight
   (`message-coordinator.ts:25-26`, `94`, `289`).
3. `SchedulerEdit`: re-enabling a running task clears its claim
   (`store.ts:149-152` against `store.integration.test.ts:112`, `store.ts:209-210`).
4. `SchedulerDeploy`: a run interrupted by a quick restart is too young for the
   recovery and is counted as a failure by the reaper
   (`scheduler.service.ts:309-310`, `387`).
5. `SchedulerMissed`: a schedule edited while missed tasks run is overwritten
   (`scheduler.service.ts:444-448`).
6. `RoomReboot`: the boot reset puts back events of a cycle that is alive in
   another process (`webhook-backlog.store.ts:114-128`).
7. `ConversationRename`: a rename mirrors the tables of a delete "so nothing is
   orphaned" (`conversations/store.ts:1208-1209`), but leaves `principal_secrets`
   alone, which a delete empties (`1321-1331`): after a RESET the tokens of the
   archived conversation are the fresh one's.

Statements of the documentation that the models contradict too, kept in the
modules as definitions without a run of their own (TLC finds each violated when
it is added as an invariant or property to `MCEngine.cfg`, the last one to
`MCRoomBacklog.cfg`):

- `Turn.AbortedTurnStoresNothing`: "never on an aborted run" (`state.buffer.ts:57-58`);
  the signal may come while the upsert is under way, or in the `response_sent`
  hooks, whose flush has no gate.
- `Optout.StopIsHonoured`: "STOP/START are always honored first"
  (`optout-gate.ts:24-26`); the gate acts on a cached status, and confirms a
  change whose write failed.
- `Conversation.NoFactIsLeft`: "deleting a conversation leaves no derived facts
  behind" (`conversations/store.ts:1306`); a fact that was written into the closest
  memory is under that row's conversation (`memory/memory-store.ts:117-129`), and stays
  when its own is deleted.
- `Knowledge.ReadyMeansIndexed`: "Reindex-safe", "never 'ready' with incomplete
  data" (`ingestion.ts:38`, `23`); ingestions of one document overlap.
- `InsertQueue.BufferIsBounded`: "Buffered rows beyond this are dropped"
  (`buffered-insert-queue.ts:23`); the cap is applied only when rows go back, not
  when they are pushed during a long write or before the boot.
- `GracefulShutdown.AcknowledgedTurnIsWaitedFor`: work registered while waiting
  "is waited for too" (`background-turns.ts:35-36`); the drain is over when it
  finds nothing registered, and a request still open may acknowledge after it.
- `ChannelManager.OffStaysOff`: no adapter registers "the webhook of a channel
  that had just been switched off" (`channel-manager.ts:214`), or goes on for a
  deleted agent (`server/instances/instances.controller.ts:543`); a channel
  switched off while the start before it awaits the provider goes live
  afterwards, as a stop finds nothing in the map yet.
- `RoomBacklog.FollowUpStays`: the model is told to leave events that need a
  follow-up in the backlog (`room-mark-completed.tool.ts:13`); the cycle
  completes all it claimed (`room-engine.ts:227-230`).

## Proofs

All theorems hold for every value of the constants under each module's `ASSUME`
(naturals and Booleans; buffer, batch, age and `MAX_CONSECUTIVE_ERRORS` positive). Each invariant is
proved by `Init => Inv`, one lemma per action or group of actions for the step,
and PTL.

Coordinator. No safety property is inductive. `ControlInv` adds what protects
the run in flight although the controller may be another run's: the controller is
the latest run's and not aborted (`ControllerIsLatest`); a run that used a tool
is not aborted, and `toolStarted` holds while the controller is its own
(`ToolIsProtected`); outside a burst nothing is buffered (`NoBurstNoWork`); each
started run beyond the first was paid for with a restart (`AttemptsCounted`).
From it follow `ToolRunNotCancelled`, `NothingStranded`, `AttemptsBounded`,
`TypeOK`. `FragmentsInOrder` is proved on top: each action either leaves `Line`
or appends the fragment that arrived. With both, every step is an `Inbox` step
or a stutter (`CoordinatorImplementsInbox`). `CancelledRunsLeaveNoTrace` states
`CancelledRunNotSaved` for `~SentHooksWait`, with `SavedInv` (stored fragments
are answered or in the run that stored them): finding 1 is the only way to break it.

Scheduler. `RowInv` holds however the API edits the task: claims differ (a new claim
is `clock + 1`); whoever holds a row that is late, or that a sweep has judged, has
overrun its deadline; an occurrence that was served is not due; an enabled task is
below its limit. `TypeCorrect`, `FailingTaskIsDisabled` and `OccurrenceServedOnce`
follow, and `OnlyEnableTakesTheClaim`: whoever ends a run or frees the row names a
claim, so a live run in time loses its own to a re-enabling and to nothing else.
`HeldInv` adds, for `~EnableWhileRuns`, that such a run holds the row until its
deadline and that rows about to be closed belong to no run that is alive and in
time; with `RowInv` it contains `ClaimHeldUntilDeadline` and `LiveRunStaysOpen`. Most
actions claim nothing, which the relation `Follows` captures once for all of them.
`SchedulerImplementsLease` maps every step to a step of `TaskLease` or a stutter. It
needs two facts more: the row carries the last stamp given out (`RowIsStamped`), so
that the null claim of a row that was never claimed is nobody's; and a run that has
not claimed has neither claim nor deadline (`ClaimComesFirst`). From the lease
alone, whose worker is its owner, `OneRunInTime`: two runs never work on the task
within their deadlines, however many replicas sweep it.

Room. `RoomInv` for `NoCycleAtBoot`: an event a cycle holds is no longer pending,
so a claim never takes it (`HeldIsTaken`); a pending event was not given since
the last boot (`PendingIsNotGiven`); a live cycle has its process marked
(`RunningIsMarked`). `HeldByOne`, `OneCyclePerProcess`, `GivenOnce` and
`ResolutionKept` follow for any number of processes, cycles and events.
`RoomImplementsBacklog` is the refinement of `EventBacklog`: with `RoomInv` and the
fact that a cycle that is still opening holds nothing (`OpeningHoldsNothing`), a claim
takes what waits and is no one's, the model's marks stay within what its cycle
holds, and the boot puts back under nobody.

Turn. `TurnInv`: nothing changes a turn's view while its flush is awaited
(`ShotIsView`), which is what makes it safe to clear what was dirty when the
upsert is answered; no value of an abandoned hook is stored, in a view or in a
flush (`NoLateValue`, the fence); what is not stored yet is known to be dirty or
removed (`UnsavedIsKnown`), through failed and unanswered flushes. From it follow
`AbandonedHookLeavesNoTrace`, `KeptTurnIsStored`, `KeysChangeByTheirWriter`.

Optout. `OptoutInv` bounds a status by the age of the read it came from: a read
under way by how long its call has lasted (`ReadIsRecent`), an entry by what is
left of its life (`EntryIsRecent`); and a read that a process's own change did not
invalidate was late (`OwnChangeIsRead`).

McpPool. `PoolInv`: for a turn that holds a connection which left the pool, the
time it has held it and what is left of the grace period make up the whole
(`GraceCoversUse`), as the timer starts when no further turn can take it
(`PooledIsUsable`). `ClosedInTime` and `HealthyIsShared` follow.

ChannelManager. `ChannelInv`: what the agent's map holds is live
(`RegisteredIsLive`), so that a stop or a replacement never loses a running
adapter it found; as long as nothing overlapped, what is live is what the map
holds, and the one operation under way leads from the row to it
(`UndisturbedRuns`). That a delete failed (`undeleted`) is part of it: no operation
under way has one behind it, and an enabled row without an adapter has.

GracefulShutdown. `ShutdownInv`: within the grace period the drain ends with no
turn running that it owes a wait (`DrainedIsOver`), and the row of such a turn is
in its queue before the flush (`OwedRowsAreKept`).

InsertQueue. `QueueInv`: what waits only loses a prefix or gains the row pushed,
also when a failed flush goes back in front of the buffer and the cap cuts it.
`EveryRowAccountedFor` and `OldestFirst` are inductive with the type and with
`WaitingIsPushed`; `KeptIsTaken` follows a shutdown's two flushes. The lemmas on
sequences (`Suffix`, `First`) say what a suffix of an increasing sequence has.
`QueueImplementsLog` adds `DroppedIsGone` to `QueueInv`: a row that the cap dropped
does not wait, so that what it loses was not settled and is lost for good. Each
outcome of an INSERT is then mapped (`BatchStep`, `RowStep`): the `n` oldest are
settled by an answer (`SettleStep`), nothing changes by an outage within the cap, or
`Overflow` takes the excess (`OverflowStep`); a row pushed or a shutdown's flush only
moves rows between the buffer and the batch.

Knowledge. `LastIsAlone`: unless texts overlapped, only the ingestion of the last
text is at work, between its `ClearChunks` and its `StoreChunks` nothing is
stored, and a ready document is over and indexed.

Conversation. `ConvInv`: a turn that no move crossed is in the conversation it
began in and its key is not held (`TurnsWriteHome`), so the rows it writes are found
there, whatever a memory among them comes to tell (`FoundIsHome`); two keys never name one conversation (`KeysAreApart`); a
turn appends each message once, and none is counted at a key without a
conversation (`MessagesAreCounted`). With these `CountersAgree` is inductive, by
the library's facts about the cardinality of finite sets.

MCEngine. A behaviour of the composition is one of each part's specification
(`EngineRefinesItsParts`): a step of one part leaves the variables of the others.
With it `EngineTypeCorrect` and `EngineIsSafe` carry the theorems of the parts over
to the specification that the run checks.

## Only model-checked

- Liveness (`EveryFragmentAnswered`, `TurnEnds`, `NoDocumentStaysBusy`,
  `EveryRowIsSettled`, `ShutdownEnds`, `RowIsFreed`, `PendingIsCompleted`):
  fairness and ENABLED are out of the prover's reach.
- The seven violations are counterexamples of TLC. Every invariant, action
  property and refinement of the passing runs is also proved: `LiveRunStaysOpen`
  and `ImplementsLease` with the proviso on `EnableWhileRuns`, the Room's with
  `NoCycleAtBoot`, and `CancelledRunNotSaved` with `~SentHooksWait`.
- That the abstract specifications say what is meant: they are read, not checked,
  except for `OneWorks`, which is proved of `TaskLease` itself.

## Not modelled

- Model providers, channels, object storage, PostgreSQL itself (statements are
  atomic, transactions with row locks are one step).
- Text: opt-out keywords on a joined burst, prompts, formatting. A spurious
  error whose text contains "aborted" would be taken for a cancellation
  (`message-coordinator.ts:119-122`); what errors a handler raises, and which it
  answers itself, is outside the model.
- What a run reads of the history while the previous turn is still being
  written, the streaming turn and the relay of a turn whose client disconnected,
  `conversation_start` hooks, compaction of a conversation.
- The three slots of a scheduler, the outcome text of the run log, the Room's
  path out of the coordinator (a turn that becomes a Room cycle ignores the
  abort signal).
- The refresh of an expired OAuth token, MCP clients bound to a conversation's
  tokens (they live for one turn), the dedupe of inbound deliveries (a TTL cache
  like `Optout`'s), the A2A task store.
- Chunking and search, which memories are close, the operator's deletion of single
  memories, an agent with several channels, what adapters do with messages, what a
  provider has registered.
- Configuration, export/import, skills, plugins, authorization, analytics, audit,
  gateways, web panel: requests over rows, or I/O, with little
  interleaving of their own. `PROJECT.json` lists each with its reason, and
  every hazard with the property that covers it or why none does.

## Plan

Done: the message path of a process (coordinator, turn, conversation, opt-out),
scheduled tasks, the Room, knowledge documents, log queues, shutdown, channels
and MCP connections, each with its proofs. What would add most next:

1. `Scheduler`: several tasks and the three slots of a replica; re-enabling
   restricted to runs that are over instead of excluded.
2. OAuth tokens: concurrent refresh of one expired token; the states' lifetime.
3. The A2A server's bounded task store, and the relay of a streamed turn.
4. An abstract specification of `Optout` (a register of bounded staleness).
5. `Conversation`: a second process with its own summary cache; compaction.
