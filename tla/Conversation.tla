---------------------------- MODULE Conversation ----------------------------
(***************************************************************************)
(* What the tables hold of one contact's conversation (conversations/      *)
(* store.ts, state.store.ts, principal-secrets.store.ts, memory/): turns   *)
(* that write them step by step, the last steps after the reply was sent   *)
(* (pipeline.ts afterResponse), against the RESET hook and the operator,   *)
(* who rename and delete conversations.  Rows name their conversation by   *)
(* its text key.  A transaction that renames or deletes holds the          *)
(* conversation's row, and its other statements count as run at its        *)
(* commit.  One engine process.                                            *)
(***************************************************************************)
EXTENDS Naturals, FiniteSets

CONSTANTS
  MaxTalks,     \* bound: turns
  MaxMoves,     \* bound: renames and deletes that are tried
  MaxExtras     \* bound: links, state, summaries and memories written, writes that fail

ASSUME ConversationAssumption == MaxTalks \in Nat /\ MaxMoves \in Nat /\ MaxExtras \in Nat

\* Turns, in the order they begin; the one that creates a conversation's row names it.
Talks == 1..MaxTalks
NoTalk == 0
MaybeTalk == 0..MaxTalks

VARIABLES
  conv,         \* conversations: the one at each key
  count,        \* conversations.message_count
  summary,      \* conversations.summary: the turn that made it
  place,        \* conversation_messages: the key of each turn's two messages
  state,        \* conversation_state: turns that wrote the row of each key
  memory,       \* memories: source_conversation_id of the row each turn inserted
  fact,         \* memories: the turn whose fact each of these rows tells, if it is one of these
  secret,       \* principal_secrets: the turn whose link the token is for
  cached,       \* summaryCache: of which conversation, and the turn that cached it
  talk,         \* where each turn is
  seen,         \* the summary it read and has not cached yet
  link,         \* oauth_states: the authorization link a turn gave out
  move,         \* the rename or delete that holds a row
  moves,        \* renames and deletes so far
  extras,       \* what MaxExtras bounds, so far
  of,           \* history: the conversation a turn began in
  crossed,      \* history: turns under way while a move took or gave their key
  uncounted     \* history: messages appended while their key named no conversation

convVars == <<conv, count, summary, place, state, memory, fact, secret, cached, talk, seen,
              link, move, moves, extras, of, crossed, uncounted>>

\* The contact's key, and the one RESET or the operator renames it to.
ConvKeys == {"main", "archive"}
Messages == Talks \X {"user", "assistant"}

Uncached == [of |-> NoTalk, by |-> NoTalk, sum |-> NoTalk]
NoMove == [kind |-> "none", from |-> "main", to |-> "main"]

ConvInit ==
  /\ conv = [k \in ConvKeys |-> NoTalk]
  /\ count = [c \in Talks |-> 0]
  /\ summary = [c \in Talks |-> NoTalk]
  /\ place = [m \in Messages |-> "none"]
  /\ state = [k \in ConvKeys |-> {}]
  /\ memory = [t \in Talks |-> "none"]
  /\ fact = [t \in Talks |-> NoTalk]
  /\ secret = [k \in ConvKeys |-> NoTalk]
  /\ cached = [k \in ConvKeys |-> Uncached]
  /\ talk = [t \in Talks |-> "new"]
  /\ seen = [t \in Talks |-> Uncached]
  /\ link = [t \in Talks |-> "none"]
  /\ move = NoMove
  /\ moves = 0
  /\ extras = 0
  /\ of = [t \in Talks |-> NoTalk]
  /\ crossed = {}
  /\ uncounted = {}

tables == <<conv, count, summary, place, state, memory, fact, secret, cached>>
history == <<of, crossed, uncounted>>

Underway(t) == talk[t] \notin {"new", "over"} \/ link[t] = "given"

\* A move holds the row of this key, or is about to give it one: writers of it wait.
Held(k) == move # NoMove /\ k \in {move.from, move.to}

Extra == extras < MaxExtras /\ extras' = extras + 1

Goes(t, p) == talk' = [talk EXCEPT ![t] = p]

-----------------------------------------------------------------------------
(* A turn.                                                                 *)

IsNext(t) == talk[t] = "new" /\ \A u \in 1..t - 1 : talk[u] # "new"

\* ensureConversation: created unless it is there.
Begin(t) ==
  /\ IsNext(t)
  /\ ~Held("main")
  /\ Goes(t, "load")
  /\ LET c == IF conv["main"] = NoTalk THEN t ELSE conv["main"] IN
       /\ conv' = [conv EXCEPT !["main"] = c]
       /\ of' = [of EXCEPT ![t] = c]
  /\ UNCHANGED <<count, summary, place, state, memory, fact, secret, cached, seen, link, move, moves, extras, crossed, uncounted>>

\* ... or fails, which is logged.
BeginFails(t) ==
  /\ IsNext(t)
  /\ Extra
  /\ Goes(t, "load")
  /\ of' = [of EXCEPT ![t] = conv["main"]]
  /\ crossed' = IF conv["main"] = NoTalk \/ Held("main") THEN crossed \union {t} ELSE crossed
  /\ UNCHANGED <<tables, seen, link, move, moves, uncounted>>

\* preparePipeline: only a long history asks for the summary; getSummary reads the row
\* when none is cached ...
Load(t) ==
  /\ talk[t] = "load"
  /\ LET c == conv["main"] IN
       IF c # NoTalk /\ summary[c] # NoTalk /\ cached["main"] = Uncached
         THEN \/ /\ Goes(t, "fill")
                 /\ seen' = [seen EXCEPT ![t] = [of |-> c, by |-> t, sum |-> summary[c]]]
              \/ Goes(t, "model") /\ UNCHANGED seen
         ELSE Goes(t, "model") /\ UNCHANGED seen
  /\ UNCHANGED <<tables, link, move, moves, extras, history>>

\* ... and caches it.
FillCache(t) ==
  /\ talk[t] = "fill"
  /\ cached' = [cached EXCEPT !["main"] = seen[t]]
  /\ seen' = [seen EXCEPT ![t] = Uncached]
  /\ Goes(t, "model")
  /\ UNCHANGED <<conv, count, summary, place, state, memory, fact, secret, link, move, moves, extras, history>>

\* BoundedMap.set of other conversations takes the entry out.
EvictSummary(k) ==
  /\ cached[k] # Uncached
  /\ cached' = [cached EXCEPT ![k] = Uncached]
  /\ UNCHANGED <<conv, count, summary, place, state, memory, fact, secret, talk, seen, link, move, moves, extras, history>>

\* A tool gives out an authorization link (oauthConnectResult).
GiveLink(t) ==
  /\ talk[t] = "model"
  /\ link[t] = "none"
  /\ Extra
  /\ link' = [link EXCEPT ![t] = "given"]
  /\ UNCHANGED <<tables, talk, seen, move, moves, history>>

\* The callback uses it up, and stores the tokens when the code can be exchanged.
Callback(t) ==
  /\ link[t] = "given"
  /\ link' = [link EXCEPT ![t] = "used"]
  /\ \/ secret' = [secret EXCEPT !["main"] = t]
     \/ UNCHANGED secret
  /\ UNCHANGED <<conv, count, summary, place, state, memory, fact, cached, talk, seen, move, moves, extras, history>>

\* The turn ends without a trace: aborted, failed, or halted by RESET.
Discard(t) ==
  /\ talk[t] = "model"
  /\ Goes(t, "over")
  /\ UNCHANGED <<tables, seen, link, move, moves, extras, history>>

\* The model answered: flushConversationState, if tools wrote any state.
FlushState(t) ==
  /\ talk[t] = "model"
  /\ Goes(t, "user")
  /\ \/ state' = [state EXCEPT !["main"] = @ \union {t}] /\ Extra
     \/ UNCHANGED <<state, extras>>
  /\ UNCHANGED <<conv, count, summary, place, memory, fact, secret, cached, seen, link, move, moves, history>>

\* Mutant: the counter is moved by a statement of its own, before the insert.
CountsApart(t, role) ==
  LET c == conv["main"] IN
  /\ count' = IF c = NoTalk THEN count ELSE [count EXCEPT ![c] = @ + 1]
  /\ UNCHANGED uncounted
  /\ UNCHANGED place \/ place' = [place EXCEPT ![<<t, role>>] = "main"]

\* appendMessages: the message and its conversation's counter, in one transaction.
AppendMessage(t, role) ==
  LET c == conv["main"] IN
  /\ place' = [place EXCEPT ![<<t, role>>] = "main"]
  /\ IF c = NoTalk
       THEN uncounted' = uncounted \union {<<t, role>>} /\ UNCHANGED count
       ELSE count' = [count EXCEPT ![c] = @ + 1] /\ UNCHANGED uncounted

\* afterResponse, which nothing waits for: the user's message, the answer ...
AppendStep(t, role, next) ==
  /\ talk[t] = role
  /\ ~Held("main")
  /\ AppendMessage(t, role)
  /\ Goes(t, next)
  /\ UNCHANGED <<conv, summary, state, memory, fact, secret, cached, seen, link, move, moves, of, crossed>>

AppendUser(t) == AppendStep(t, "user", "assistant") /\ UNCHANGED extras

AppendAssistant(t) ==
  \/ AppendStep(t, "assistant", "remember") /\ UNCHANGED extras
  \/ AppendStep(t, "assistant", "summarise") /\ Extra

\* ... a write that throws ends it ...
AppendFails(t) ==
  /\ talk[t] \in {"user", "assistant"}
  /\ Extra
  /\ Goes(t, "over")
  /\ UNCHANGED <<tables, seen, link, move, moves, history>>

\* ... updateSummary when the history overflowed: the row ...
UpdateSummary(t) ==
  LET c == conv["main"] IN
  /\ talk[t] = "summarise"
  /\ ~Held("main")
  /\ summary' = IF c = NoTalk THEN summary ELSE [summary EXCEPT ![c] = t]
  /\ seen' = [seen EXCEPT ![t] = [of |-> of[t], by |-> t, sum |-> t]]
  /\ Goes(t, "cache")
  /\ UNCHANGED <<conv, count, place, state, memory, fact, secret, cached, link, move, moves, extras, history>>

\* ... then the cache, whether or not there was a row ...
CacheSummary(t) ==
  /\ talk[t] = "cache"
  /\ cached' = [cached EXCEPT !["main"] = seen[t]]
  /\ seen' = [seen EXCEPT ![t] = Uncached]
  /\ Goes(t, "remember")
  /\ UNCHANGED <<conv, count, summary, place, state, memory, fact, secret, link, move, moves, extras, history>>

\* ... and extractMemories, on the messages at the key: upsertMemory inserts a fact under
\* the turn's key (one of a turn is enough here), ...
InsertMemory(t) ==
  /\ memory[t] = "none"
  /\ memory' = [memory EXCEPT ![t] = "main"]
  /\ fact' = [fact EXCEPT ![t] = t]

\* ... or writes it into the agent's closest memory, which keeps its source: of whatever
\* conversation, of another contact (nothing is seen of it here) or of none.
MergeMemory(t) ==
  /\ fact' \in {fact} \union {[fact EXCEPT ![r] = t] : r \in {u \in Talks : memory[u] \in ConvKeys}}
  /\ UNCHANGED memory

\* The facts are upserted one by one, until there are no more or one throws.
Remember(t) ==
  /\ talk[t] = "remember"
  /\ \/ InsertMemory(t) /\ Extra /\ UNCHANGED talk
     \/ MergeMemory(t) /\ Extra /\ UNCHANGED talk
     \/ Goes(t, "over") /\ UNCHANGED <<memory, fact, extras>>
  /\ UNCHANGED <<conv, count, summary, place, state, secret, cached, seen, link, move, moves, history>>

\* The closest memory to another contact's fact, or to one a tool or the panel saves.
MergeOther(r) ==
  /\ memory[r] \in ConvKeys
  /\ fact' = [fact EXCEPT ![r] = NoTalk]
  /\ UNCHANGED <<conv, count, summary, place, state, memory, secret, cached, talk, seen, link, move, moves, extras, history>>

-----------------------------------------------------------------------------
(* Renames and deletes.                                                    *)

\* Mutant: the caches keep what they hold.
KeepCaches(ks) == UNCHANGED cached

DropCaches(ks) == cached' = [k \in ConvKeys |-> IF k \in ks THEN Uncached ELSE cached[k]]

\* renameConversation (the operator's, or RESET's from main to archive) and
\* deleteConversation: the row is locked, if there is one, and before the commit the
\* caches are dropped.  A row that is already at the new key makes a rename fail.
StartMove(kind, from, to) ==
  /\ move = NoMove
  /\ moves < MaxMoves
  /\ conv[from] # NoTalk
  /\ kind = "rename" => /\ from # to
                        /\ conv[to] = NoTalk
                        /\ state[from] = {} \/ state[to] = {}
  /\ kind = "delete" => from = to
  /\ move' = [kind |-> kind, from |-> from, to |-> to]
  /\ moves' = moves + 1
  /\ DropCaches({from, to})
  /\ crossed' = IF "main" \in {from, to} THEN crossed \union {t \in Talks : Underway(t)} ELSE crossed
  /\ UNCHANGED <<conv, count, summary, place, state, memory, fact, secret, talk, seen, link, extras, of, uncounted>>

\* Rows of one table keyed by conversation, empty when there are none.
Moved(rows, empty) ==
  [k \in ConvKeys |-> IF k = move.to /\ rows[move.from] # empty THEN rows[move.from]
                      ELSE IF k = move.from THEN empty ELSE rows[k]]

\* Mutant: the state is not among the tables.
KeepState == UNCHANGED state

MoveState == state' = Moved(state, {})

RenameCommits ==
  /\ move.kind = "rename"
  /\ state[move.from] = {} \/ state[move.to] = {}
  /\ move' = NoMove
  /\ conv' = Moved(conv, NoTalk)
  /\ place' = [m \in Messages |-> IF place[m] = move.from THEN move.to ELSE place[m]]
  /\ MoveState
  /\ memory' = [t \in Talks |-> IF memory[t] = move.from THEN move.to ELSE memory[t]]
  /\ UNCHANGED <<count, summary, fact, secret, cached, talk, seen, link, moves, extras, history>>

\* A state row was written at the new key meanwhile: nothing is renamed.
RenameAborts ==
  /\ move.kind = "rename"
  /\ state[move.from] # {} /\ state[move.to] # {}
  /\ move' = NoMove
  /\ UNCHANGED <<tables, talk, seen, link, moves, extras, history>>

DeleteCommits ==
  LET Without(rows, empty) == [rows EXCEPT ![move.from] = empty] IN
  /\ move.kind = "delete"
  /\ move' = NoMove
  /\ conv' = Without(conv, NoTalk)
  /\ place' = [m \in Messages |-> IF place[m] = move.from THEN "gone" ELSE place[m]]
  /\ state' = Without(state, {})
  /\ memory' = [t \in Talks |-> IF memory[t] = move.from THEN "gone" ELSE memory[t]]
  /\ secret' = Without(secret, NoTalk)
  /\ LET c == conv[move.from] IN
       /\ count' = [count EXCEPT ![c] = 0]
       /\ summary' = [summary EXCEPT ![c] = NoTalk]
  /\ UNCHANGED <<fact, cached, talk, seen, link, moves, extras, history>>

ConvNext ==
  \/ \E t \in Talks :
       \/ Begin(t) \/ BeginFails(t) \/ Load(t) \/ FillCache(t) \/ GiveLink(t) \/ Callback(t)
       \/ Discard(t) \/ FlushState(t) \/ AppendUser(t) \/ AppendAssistant(t) \/ AppendFails(t)
       \/ UpdateSummary(t) \/ CacheSummary(t) \/ Remember(t) \/ MergeOther(t)
  \/ \E kind \in {"rename", "delete"}, from, to \in ConvKeys : StartMove(kind, from, to)
  \/ RenameCommits \/ RenameAborts \/ DeleteCommits
  \/ \E k \in ConvKeys : EvictSummary(k)

ConvSpec == ConvInit /\ [][ConvNext]_convVars

-----------------------------------------------------------------------------
(* Properties.                                                             *)

ConvTypeOK ==
  /\ conv \in [ConvKeys -> MaybeTalk]
  /\ count \in [Talks -> Nat]
  /\ summary \in [Talks -> MaybeTalk]
  /\ place \in [Messages -> ConvKeys \union {"none", "gone"}]
  /\ state \in [ConvKeys -> SUBSET Talks]
  /\ memory \in [Talks -> ConvKeys \union {"none", "gone"}]
  /\ fact \in [Talks -> MaybeTalk]
  /\ secret \in [ConvKeys -> MaybeTalk]
  /\ cached \in [ConvKeys -> [of : MaybeTalk, by : MaybeTalk, sum : MaybeTalk]]
  /\ talk \in [Talks -> {"new", "load", "fill", "model", "user", "assistant", "summarise",
                         "cache", "remember", "over"}]
  /\ seen \in [Talks -> [of : MaybeTalk, by : MaybeTalk, sum : MaybeTalk]]
  /\ link \in [Talks -> {"none", "given", "used"}]
  /\ move \in [kind : {"none", "rename", "delete"}, from : ConvKeys, to : ConvKeys]
  /\ moves \in 0..MaxMoves
  /\ extras \in 0..MaxExtras
  /\ of \in [Talks -> MaybeTalk]
  /\ crossed \subseteq Talks
  /\ uncounted \subseteq Messages

\* What turn t left at key k: messages, state, and the memory row it inserted, whosever fact
\* that row tells by now.
Left(t, k) ==
  \/ \E role \in {"user", "assistant"} : place[<<t, role>>] = k
  \/ t \in state[k]
  \/ memory[t] = k

\* What is found under a key, messages, state, the rows of memories and a cached summary, is
\* of the conversation that has that key, however often it is renamed, deleted and begun
\* anew: unless it was written by a turn that was under way while its key was moved.  (The
\* content of a memory is not: see NoFactIsLeft.)
OnlyLateWritesStray ==
  \A k \in ConvKeys :
    /\ \A t \in Talks : Left(t, k) => conv[k] = of[t] \/ t \in crossed
    /\ cached[k] # Uncached => conv[k] = cached[k].of \/ cached[k].by \in crossed

\* The messages at a key that some counter counts.
Counted(k) == {m \in Messages \ uncounted : place[m] = k}

\* message_count is the number of messages of the conversation: unless one was appended
\* when its key named no conversation.
CountersAgree ==
  \A k \in ConvKeys : conv[k] # NoTalk => count[conv[k]] = Cardinality(Counted(k))

\* "deleting a conversation leaves no derived facts behind" (store.ts:1306): what is told by
\* a memory is of a conversation that is still there, but for what a late turn wrote.
NoFactIsLeft ==
  \A r \in Talks : memory[r] \in ConvKeys /\ fact[r] # NoTalk =>
    fact[r] \in crossed \/ \E k \in ConvKeys : conv[k] = of[fact[r]]

\* A rename mirrors the tables of a delete "so nothing is orphaned" (store.ts:1209): no
\* tokens stay at a key that is not their conversation's, but those of a late callback.
RenameOrphansNothing ==
  \A k \in ConvKeys : secret[k] # NoTalk =>
    conv[k] = of[secret[k]] \/ secret[k] \in crossed

-----------------------------------------------------------------------------
(* The invariant.                                                          *)

\* The keys name different conversations, of turns that began, and a move goes on as it
\* was begun.
KeysAreApart ==
  /\ \A k \in ConvKeys : conv[k] # NoTalk => talk[conv[k]] # "new"
  /\ conv["main"] # NoTalk => conv["main"] # conv["archive"]
  /\ move.kind = "none" => move = NoMove
  /\ move.kind # "none" => conv[move.from] # NoTalk
  /\ move.kind = "rename" => move.from # move.to /\ conv[move.to] = NoTalk
  /\ move.kind = "delete" => move.from = move.to

\* A turn appends each message once, and none is counted at a key without a conversation.
MessagesAreCounted ==
  /\ \A t \in Talks :
       /\ talk[t] \in {"new", "load", "fill", "model", "user"} => place[<<t, "user">>] = "none"
       /\ talk[t] \in {"new", "load", "fill", "model", "user", "assistant"} => place[<<t, "assistant">>] = "none"
       /\ talk[t] = "new" => count[t] = 0
  /\ \A m \in uncounted : place[m] # "none"
  /\ \A k \in ConvKeys : conv[k] = NoTalk => Counted(k) = {}

\* A turn that no move crossed is in the conversation it began in, and brings to the cache
\* what it saw there.
TurnsWriteHome ==
  \A t \in Talks :
    /\ talk[t] = "new" => \A k \in ConvKeys : t \notin state[k] /\ memory[t] # k
    /\ talk[t] \notin {"new", "over"} /\ t \notin crossed =>
         of[t] = conv["main"] /\ of[t] # NoTalk /\ ~Held("main")
    /\ talk[t] \in {"fill", "cache"} => seen[t].by = t /\ (t \in crossed \/ seen[t].of = of[t])

\* What is found at a key is its conversation's, or a crossed turn's.
FoundIsHome ==
  /\ \A k \in ConvKeys, t \in Talks : Left(t, k) /\ t \notin crossed => conv[k] = of[t] /\ of[t] # NoTalk
  /\ \A k \in ConvKeys : cached[k] # Uncached /\ cached[k].by \notin crossed =>
       conv[k] = cached[k].of /\ conv[k] # NoTalk /\ ~Held(k)

ConvInv ==
  /\ ConvTypeOK
  /\ KeysAreApart
  /\ MessagesAreCounted
  /\ TurnsWriteHome
  /\ FoundIsHome
  /\ CountersAgree
=============================================================================
