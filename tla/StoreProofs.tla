----------------------------- MODULE StoreProofs -----------------------------
(***************************************************************************)
(* Proofs about Knowledge, for any number of texts and batches: a document *)
(* that is ready has the chunks of its text.  And about Conversation, for  *)
(* any number of turns, renames and deletes: the counter of a conversation *)
(* is the number of its messages, and only a turn that was under way while *)
(* its key was moved leaves rows with another conversation.                *)
(***************************************************************************)
EXTENDS Knowledge, Conversation, FiniteSetTheorems, TLAPS

-----------------------------------------------------------------------------
(* Knowledge.                                                              *)

LEMMA KnowledgeInvInit == KnowledgeInit => KnowledgeInv
<1> SUFFICES ASSUME KnowledgeInit PROVE KnowledgeInv
  OBVIOUS
<1>1. /\ doc = "absent" /\ text = 0 /\ quiet = 0 /\ mishaps = 0 /\ toggles = 0
      /\ chunks = [v \in Texts |-> 0] /\ ingest = [v \in Texts |-> "none"]
      /\ embedded = [v \in Texts |-> 0] /\ deleting = FALSE /\ overlap = FALSE
  BY DEF KnowledgeInit
<1>2. KnowledgeTypeOK
  <2>1. /\ 0 \in 0..MaxTexts /\ 0 \in 0..Patience + 1 /\ 0 \in 0..MaxMishaps /\ 0 \in 0..MaxToggles
        /\ 0 \in 0..Batches
    BY KnowledgeAssumption
  <2>2. /\ chunks \in [Texts -> Nat] /\ embedded \in [Texts -> 0..Batches]
        /\ ingest \in [Texts -> {"none", "mark", "clear", "embed", "fail", "over"}]
    BY <1>1, <2>1
  <2> QED
    BY <1>1, <2>1, <2>2 DEF KnowledgeTypeOK
<1>3. Nothing /\ LastIsAlone
  BY <1>1 DEF Nothing, LastIsAlone, AtWork
<1> QED
  BY <1>2, <1>3 DEF KnowledgeInv

\* One ingestion goes on; the others stay where they are.
LEMMA OneIngestionMoves ==
  ASSUME KnowledgeTypeOK, NEW v \in Texts,
         NEW to \in {"none", "mark", "clear", "embed", "fail", "over"},
         ingest' = [ingest EXCEPT ![v] = to]
  PROVE  /\ ingest' \in [Texts -> {"none", "mark", "clear", "embed", "fail", "over"}]
         /\ ingest'[v] = to /\ \A u \in Texts : u # v => ingest'[u] = ingest[u]
  BY DEF KnowledgeTypeOK

\* The chunks stay, and so does what is ready, or it is not ready any more.
LEMMA StatusKeeps ==
  ASSUME KnowledgeInv, KnowledgeTypeOK', UNCHANGED <<text, chunks, overlap>>, deleting' = deleting,
         Exists' <=> Exists,
         ~overlap => \A u \in Texts : AtWork(u)' => AtWork(u),
         \A u \in Texts : ingest'[u] = "embed" => ingest[u] = "embed",
         doc' = "ready" => doc = "ready"
  PROVE  KnowledgeInv'
<1>1. Nothing' <=> Nothing
  BY DEF Nothing
<1>2. Indexed' <=> Indexed
  BY DEF Indexed
<1>3. LastIsAlone'
  <2> SUFFICES ASSUME ~overlap PROVE LastIsAlone!2'
    BY DEF LastIsAlone
  <2>1. LastIsAlone!2
    BY DEF KnowledgeInv, LastIsAlone
  <2> QED
    BY <1>1, <1>2, <2>1
<1> QED
  BY <1>1, <1>3 DEF KnowledgeInv

\* A new text: the ingestions before it are over, or the history says so.
LEMMA WriteTextKeeps ==
  ASSUME KnowledgeInv, WriteText
  PROVE  KnowledgeInv'
<1>1. /\ doc # "gone" /\ text < MaxTexts /\ text' = text + 1 /\ doc' = "processing" /\ quiet' = 0
      /\ ingest' = [ingest EXCEPT ![text'] = "mark"]
      /\ overlap' = (overlap \/ \E v \in Texts : AtWork(v))
      /\ UNCHANGED <<chunks, embedded, deleting, mishaps, toggles>>
  BY DEF WriteText
<1>2. text' \in Texts /\ text' \in 0..MaxTexts /\ 0 \in 0..Patience + 1
  BY <1>1, KnowledgeAssumption DEF KnowledgeInv, KnowledgeTypeOK, Texts
<1>3. /\ ingest' \in [Texts -> {"none", "mark", "clear", "embed", "fail", "over"}]
      /\ ingest'[text'] = "mark" /\ \A u \in Texts : u # text' => ingest'[u] = ingest[u]
  BY <1>1, <1>2 DEF KnowledgeInv, KnowledgeTypeOK
<1>4. KnowledgeTypeOK'
  BY <1>1, <1>2, <1>3 DEF KnowledgeInv, KnowledgeTypeOK
<1>5. LastIsAlone'
  <2> SUFFICES ASSUME ~overlap' PROVE LastIsAlone'
    BY DEF LastIsAlone
  <2>1. ~overlap /\ \A v \in Texts : ~AtWork(v)
    BY <1>1
  <2>2. \A v \in Texts : v # text' => ~AtWork(v)'
    BY <1>3, <2>1 DEF AtWork
  <2>3. \A v \in Texts : ingest'[v] # "embed"
    BY <1>3, <2>1 DEF AtWork
  <2> QED
    BY <1>1, <2>1, <2>2, <2>3 DEF KnowledgeInv, LastIsAlone
<1> QED
  BY <1>1, <1>4, <1>5 DEF KnowledgeInv, Exists

\* The ingestion that clears the chunks is the last text's alone, or those overlapped.
LEMMA ClearChunksKeeps ==
  ASSUME KnowledgeInv, NEW v \in Texts, ClearChunks(v)
  PROVE  KnowledgeInv'
<1>1. /\ ingest[v] = "clear" /\ ingest' = [ingest EXCEPT ![v] = "embed"]
      /\ chunks' = [u \in Texts |-> 0]
      /\ overlap' = (overlap /\ (v # text \/ doc = "ready" \/ \E u \in Texts \ {v} : AtWork(u)))
      /\ UNCHANGED <<doc, text, quiet, embedded, deleting, mishaps, toggles>>
  BY DEF ClearChunks, Clear, Ingestion
<1>2. /\ ingest' \in [Texts -> {"none", "mark", "clear", "embed", "fail", "over"}]
      /\ ingest'[v] = "embed" /\ \A u \in Texts : u # v => ingest'[u] = ingest[u]
  BY <1>1, OneIngestionMoves DEF KnowledgeInv
<1>3. chunks' \in [Texts -> Nat] /\ Nothing'
  BY <1>1 DEF Nothing
<1>4. overlap' \in BOOLEAN
  BY <1>1 DEF KnowledgeInv, KnowledgeTypeOK
<1>5. KnowledgeTypeOK'
  BY <1>1, <1>2, <1>3, <1>4 DEF KnowledgeInv, KnowledgeTypeOK
<1>6. LastIsAlone'
  <2> SUFFICES ASSUME ~overlap' PROVE LastIsAlone'
    BY DEF LastIsAlone
  <2>1. v = text /\ doc # "ready" /\ \A u \in Texts : u # v => ~AtWork(u)
    <3>1. CASE overlap
      BY <1>1, <3>1
    <3>2. CASE ~overlap
      <4>1. AtWork(v)
        BY <1>1 DEF AtWork
      <4> QED
        BY <3>2, <4>1 DEF KnowledgeInv, LastIsAlone
    <3> QED
      BY <3>1, <3>2
  <2>2. \A u \in Texts : AtWork(u)' => u = text'
    BY <1>1, <1>2, <2>1 DEF AtWork
  <2>3. \A u \in Texts : ~(chunks'[u] > 0)
    BY <1>1
  <2> QED
    BY <1>1, <1>3, <2>1, <2>2, <2>3 DEF LastIsAlone
<1> QED
  BY <1>3, <1>5, <1>6 DEF KnowledgeInv

\* The last text's chunks are stored with its status; of an empty text there are none.
LEMMA ReadyKeeps ==
  ASSUME KnowledgeInv, NEW v \in Texts, EmptyIsReady(v) \/ StoreChunks(v)
  PROVE  KnowledgeInv'
<1>1. /\ ingest[v] = "embed"
      /\ UNCHANGED <<text, embedded, deleting, mishaps, toggles, overlap>>
  BY DEF EmptyIsReady, StoreChunks, Ingestion
<1>2. PICK to \in {"over", "fail"} :
        /\ ingest' = [ingest EXCEPT ![v] = to]
        /\ ~Exists => doc' = doc
        /\ Exists => doc' = "ready" /\ to = "over"
  BY DEF EmptyIsReady, StoreChunks, Ingestion, SetStatus
<1>3. /\ quiet' \in {quiet, 0}
      /\ chunks' = IF Exists /\ v \notin EmptyTexts THEN [chunks EXCEPT ![v] = @ + 1] ELSE chunks
  BY DEF EmptyIsReady, StoreChunks, SetStatus
<1>4. /\ ingest' \in [Texts -> {"none", "mark", "clear", "embed", "fail", "over"}]
      /\ ingest'[v] = to /\ \A u \in Texts : u # v => ingest'[u] = ingest[u]
  BY <1>2, OneIngestionMoves DEF KnowledgeInv
<1>5. chunks \in [Texts -> Nat] /\ chunks' \in [Texts -> Nat]
  BY <1>3 DEF KnowledgeInv, KnowledgeTypeOK
<1>6. /\ \A u \in Texts : u # v => chunks'[u] = chunks[u]
      /\ chunks'[v] = IF Exists /\ v \notin EmptyTexts THEN chunks[v] + 1 ELSE chunks[v]
  BY <1>3, <1>5
<1>7. KnowledgeTypeOK'
  <2>1. quiet' \in 0..Patience + 1
    BY <1>3, KnowledgeAssumption DEF KnowledgeInv, KnowledgeTypeOK
  <2>2. doc' \in {"absent", "processing", "ready", "error", "gone"}
    BY <1>2 DEF KnowledgeInv, KnowledgeTypeOK
  <2> QED
    BY <1>1, <1>4, <1>5, <2>1, <2>2 DEF KnowledgeInv, KnowledgeTypeOK
<1>8. ~Exists' => Nothing'
  <2>1. ~Exists' => ~Exists
    BY <1>2 DEF Exists
  <2> QED
    BY <1>3, <2>1 DEF KnowledgeInv, Nothing
<1>9. LastIsAlone'
  <2> SUFFICES ASSUME ~overlap PROVE LastIsAlone'
    BY <1>1 DEF LastIsAlone
  <2>1. AtWork(v) /\ v = text /\ \A u \in Texts : u # v => ~AtWork(u)
    BY <1>1 DEF KnowledgeInv, LastIsAlone, AtWork
  <2>2. \A u \in Texts : chunks[u] = 0
    BY <1>1 DEF KnowledgeInv, LastIsAlone, Nothing
  <2>3. \A u \in Texts : ingest'[u] # "embed" /\ (AtWork(u)' => u = text')
    BY <1>1, <1>4, <2>1 DEF AtWork
  <2>4. \A u \in Texts : chunks'[u] = IF u = v /\ Exists /\ v \notin EmptyTexts THEN 1 ELSE 0
    BY <1>6, <2>2
  <2>5. \A u, w \in Texts : chunks'[u] > 0 /\ chunks'[w] > 0 => u = w /\ chunks'[u] = 1
    BY <2>4
  <2>6. doc' = "ready" => Exists
    BY <1>2 DEF Exists
  <2>7. doc' = "ready" => (\A u \in Texts : ~AtWork(u)') /\ Indexed'
    BY <1>1, <1>2, <1>4, <2>1, <2>4, <2>6 DEF AtWork, Indexed
  <2> QED
    BY <2>3, <2>5, <2>7 DEF LastIsAlone
<1> QED
  BY <1>7, <1>8, <1>9 DEF KnowledgeInv

\* An ingestion that goes on, fails or is lost stores nothing.
LEMMA IngestionKeeps ==
  ASSUME KnowledgeInv, NEW v \in Texts,
         Mark(v) \/ EmbedBatch(v) \/ IngestionThrows(v) \/ MarkError(v) \/ IngestionLost(v)
  PROVE  KnowledgeInv'
<1>1. PICK to \in {"clear", "embed", "fail", "over"} :
        /\ AtWork(v) /\ ingest' = [ingest EXCEPT ![v] = to]
        /\ to = "embed" => ingest[v] = "embed"
  BY DEF Mark, EmbedBatch, IngestionThrows, MarkError, IngestionLost, Ingestion, AtWork
<1>2. UNCHANGED <<text, chunks, overlap, deleting, toggles>>
  BY DEF Mark, EmbedBatch, IngestionThrows, MarkError, IngestionLost
<1>3. /\ doc' \in {doc, "processing", "error"} /\ (Exists' <=> Exists) /\ (doc' = "ready" => doc = "ready")
      /\ quiet' \in {quiet, 0}
  BY DEF Mark, EmbedBatch, IngestionThrows, MarkError, IngestionLost, SetStatus, Exists
<1>4. mishaps' = mishaps \/ (mishaps < MaxMishaps /\ mishaps' = mishaps + 1)
  BY DEF Mark, EmbedBatch, IngestionThrows, MarkError, IngestionLost, Mishap
<1>5. embedded' = embedded \/ (embedded[v] < Batches /\ embedded' = [embedded EXCEPT ![v] = @ + 1])
  BY DEF Mark, EmbedBatch, IngestionThrows, MarkError, IngestionLost
<1>6. /\ ingest' \in [Texts -> {"none", "mark", "clear", "embed", "fail", "over"}]
      /\ ingest'[v] = to /\ \A u \in Texts : u # v => ingest'[u] = ingest[u]
  BY <1>1, OneIngestionMoves DEF KnowledgeInv
<1>7. KnowledgeTypeOK'
  <2>1. mishaps' \in 0..MaxMishaps
    BY <1>4, KnowledgeAssumption DEF KnowledgeInv, KnowledgeTypeOK
  <2>2. embedded' \in [Texts -> 0..Batches]
    BY <1>5, KnowledgeAssumption DEF KnowledgeInv, KnowledgeTypeOK
  <2>3. quiet' \in 0..Patience + 1
    BY <1>3, KnowledgeAssumption DEF KnowledgeInv, KnowledgeTypeOK
  <2>4. doc' \in {"absent", "processing", "ready", "error", "gone"}
    BY <1>3 DEF KnowledgeInv, KnowledgeTypeOK
  <2> QED
    BY <1>2, <1>6, <2>1, <2>2, <2>3, <2>4 DEF KnowledgeInv, KnowledgeTypeOK
<1>8. /\ \A u \in Texts : AtWork(u)' => AtWork(u)
      /\ \A u \in Texts : ingest'[u] = "embed" => ingest[u] = "embed"
  BY <1>1, <1>6 DEF AtWork
<1> QED
  BY <1>2, <1>3, <1>7, <1>8, StatusKeeps

\* The operator's switch, the sweep and time.
LEMMA QuietKeeps ==
  ASSUME KnowledgeInv, Toggle \/ SweepStuck \/ DocTick
  PROVE  KnowledgeInv'
<1>1. UNCHANGED <<text, chunks, ingest, embedded, deleting, mishaps, overlap>>
  BY DEF Toggle, SweepStuck, DocTick
<1>2. /\ doc' \in {doc, "error"} /\ (Exists' <=> Exists) /\ (doc' = "ready" => doc = "ready")
  BY DEF Toggle, SweepStuck, DocTick, SetStatus, Exists, Busy
<1>3. /\ quiet' = 0 \/ (quiet <= Patience /\ quiet' = quiet + 1)
      /\ toggles' = toggles \/ (toggles < MaxToggles /\ toggles' = toggles + 1)
  BY DEF Toggle, SweepStuck, DocTick, SetStatus
<1>4. KnowledgeTypeOK'
  <2>1. quiet' \in 0..Patience + 1
    BY <1>3, KnowledgeAssumption DEF KnowledgeInv, KnowledgeTypeOK
  <2>2. toggles' \in 0..MaxToggles
    BY <1>3, KnowledgeAssumption DEF KnowledgeInv, KnowledgeTypeOK
  <2>3. doc' \in {"absent", "processing", "ready", "error", "gone"}
    BY <1>2 DEF KnowledgeInv, KnowledgeTypeOK
  <2> QED
    BY <1>1, <2>1, <2>2, <2>3 DEF KnowledgeInv, KnowledgeTypeOK
<1>5. /\ \A u \in Texts : AtWork(u)' => AtWork(u)
      /\ \A u \in Texts : ingest'[u] = "embed" => ingest[u] = "embed"
  BY <1>1 DEF AtWork
<1> QED
  BY <1>1, <1>2, <1>4, <1>5, StatusKeeps

\* A delete takes all chunks, and with the row those that were stored meanwhile.
LEMMA DeleteKeeps ==
  ASSUME KnowledgeInv, DeleteChunks \/ DeleteRow
  PROVE  KnowledgeInv'
<1>1. /\ chunks' = [v \in Texts |-> 0] /\ (deleting' \/ doc' = "gone") /\ deleting' \in BOOLEAN
      /\ UNCHANGED <<text, ingest, embedded, mishaps, toggles, overlap>>
      /\ doc' \in {doc, "gone"} /\ quiet' \in {quiet, 0}
  BY DEF DeleteChunks, DeleteRow
<1>2. chunks' \in [Texts -> Nat] /\ Nothing'
  BY <1>1 DEF Nothing
<1>3. KnowledgeTypeOK'
  <2>1. quiet' \in 0..Patience + 1
    BY <1>1, KnowledgeAssumption DEF KnowledgeInv, KnowledgeTypeOK
  <2> QED
    BY <1>1, <1>2, <2>1 DEF KnowledgeInv, KnowledgeTypeOK
<1>4. LastIsAlone'
  <2> SUFFICES ASSUME ~overlap PROVE LastIsAlone'
    BY <1>1 DEF LastIsAlone
  <2>1. \A u \in Texts : AtWork(u)' => AtWork(u)
    BY <1>1 DEF AtWork
  <2>2. \A u \in Texts : ~(chunks'[u] > 0)
    BY <1>1
  <2>3. doc' = "ready" => deleting' /\ doc = "ready"
    BY <1>1
  <2> QED
    BY <1>1, <1>2, <2>1, <2>2, <2>3 DEF KnowledgeInv, LastIsAlone
<1> QED
  BY <1>2, <1>3, <1>4 DEF KnowledgeInv

\* The inductive invariant of a document (processDocument, writeAgentDocument).
THEOREM KnowledgeIsInvariant == KnowledgeSpec => []KnowledgeInv
<1>1. KnowledgeInv /\ [KnowledgeNext]_docVars => KnowledgeInv'
  <2> SUFFICES ASSUME KnowledgeInv, [KnowledgeNext]_docVars PROVE KnowledgeInv'
    OBVIOUS
  <2>1. CASE UNCHANGED docVars
    <3>1. UNCHANGED <<doc, text, chunks, quiet, ingest, embedded, deleting, mishaps, toggles, overlap>>
      BY <2>1 DEF docVars
    <3>2. KnowledgeTypeOK' /\ (Exists' <=> Exists) /\ (\A u \in Texts : AtWork(u)' => AtWork(u))
      BY <3>1 DEF KnowledgeInv, KnowledgeTypeOK, Exists, AtWork
    <3> QED
      BY <3>1, <3>2, StatusKeeps
  <2>2. CASE WriteText
    BY <2>2, WriteTextKeeps
  <2>3. CASE Toggle \/ SweepStuck \/ DocTick
    BY <2>3, QuietKeeps
  <2>4. CASE DeleteChunks \/ DeleteRow
    BY <2>4, DeleteKeeps
  <2>5. ASSUME NEW v \in Texts,
               \/ Mark(v) \/ ClearChunks(v) \/ EmptyIsReady(v) \/ EmbedBatch(v) \/ StoreChunks(v)
               \/ IngestionThrows(v) \/ MarkError(v) \/ IngestionLost(v)
        PROVE  KnowledgeInv'
    BY <2>5, ClearChunksKeeps, ReadyKeeps, IngestionKeeps
  <2> QED
    BY <2>1, <2>2, <2>3, <2>4, <2>5 DEF KnowledgeNext
<1> QED
  BY <1>1, KnowledgeInvInit, PTL DEF KnowledgeSpec

\* A document that is ready, and whose ingestions did not overlap, has exactly its text's
\* chunks, and one that is gone has none.
THEOREM ReadyDocumentsAreIndexed == KnowledgeSpec => []ReadyIsIndexed
<1>1. KnowledgeInv => ReadyIsIndexed
  BY DEF KnowledgeInv, LastIsAlone, Exists, Nothing, ReadyIsIndexed
<1> QED
  BY <1>1, KnowledgeIsInvariant, PTL

-----------------------------------------------------------------------------
(* Conversation.                                                           *)

TalkPlaces == {"new", "load", "fill", "model", "user", "assistant", "summarise", "cache", "remember", "over"}

MemoryPlaces == ConvKeys \union {"none", "gone"}

CacheEntry == [of : MaybeTalk, by : MaybeTalk, sum : MaybeTalk]

LEMMA TalkNumbers ==
  /\ MaxTalks \in Nat /\ NoTalk \in MaybeTalk /\ NoTalk \notin Talks
  /\ \A t \in Talks : t \in MaybeTalk /\ t # NoTalk
  /\ \A c \in MaybeTalk : c # NoTalk => c \in Talks
  BY ConversationAssumption DEF Talks, MaybeTalk, NoTalk

LEMMA MessagesAreFinite == IsFiniteSet(Messages) /\ \A t \in Talks : <<t, "user">> \in Messages /\ <<t, "assistant">> \in Messages
<1>1. IsFiniteSet(Talks)
  BY TalkNumbers, FS_Interval DEF Talks
<1>2. IsFiniteSet({"user", "assistant"})
  <2>1. IsFiniteSet({} \union {"user"})
    BY FS_EmptySet, FS_AddElement
  <2>2. IsFiniteSet(({} \union {"user"}) \union {"assistant"})
    BY <2>1, FS_AddElement
  <2>3. ({} \union {"user"}) \union {"assistant"} = {"user", "assistant"}
    OBVIOUS
  <2> QED
    BY <2>2, <2>3
<1>3. IsFiniteSet(Talks \X {"user", "assistant"})
  BY <1>1, <1>2, FS_Product
<1> QED
  BY <1>3 DEF Messages

LEMMA CountedIsFinite ==
  ASSUME NEW k \in ConvKeys
  PROVE  IsFiniteSet(Counted(k)) /\ Counted(k) \subseteq Messages
<1>1. Counted(k) \subseteq Messages
  BY DEF Counted
<1> QED
  BY <1>1, MessagesAreFinite, FS_Subset

LEMMA ConvInvInit == ConvInit => ConvInv
<1> SUFFICES ASSUME ConvInit PROVE ConvInv
  OBVIOUS
<1>1. /\ conv = [k \in ConvKeys |-> NoTalk] /\ count = [c \in Talks |-> 0]
      /\ summary = [c \in Talks |-> NoTalk] /\ place = [m \in Messages |-> "none"]
      /\ state = [k \in ConvKeys |-> {}] /\ memory = [t \in Talks |-> "none"] /\ fact = [t \in Talks |-> NoTalk]
      /\ secret = [k \in ConvKeys |-> NoTalk] /\ cached = [k \in ConvKeys |-> Uncached]
      /\ talk = [t \in Talks |-> "new"] /\ seen = [t \in Talks |-> Uncached]
      /\ link = [t \in Talks |-> "none"] /\ move = NoMove /\ moves = 0 /\ extras = 0
      /\ of = [t \in Talks |-> NoTalk] /\ crossed = {} /\ uncounted = {}
  BY DEF ConvInit
<1>2. ConvTypeOK
  <2>1. Uncached \in CacheEntry /\ 0 \in Nat /\ 0 \in 0..MaxMoves /\ 0 \in 0..MaxExtras
    BY TalkNumbers, ConversationAssumption DEF Uncached, CacheEntry
  <2>2. NoMove \in [kind : {"none", "rename", "delete"}, from : ConvKeys, to : ConvKeys]
    BY DEF NoMove, ConvKeys
  <2>3. /\ conv \in [ConvKeys -> MaybeTalk] /\ count \in [Talks -> Nat]
        /\ summary \in [Talks -> MaybeTalk] /\ place \in [Messages -> ConvKeys \union {"none", "gone"}]
        /\ secret \in [ConvKeys -> MaybeTalk] /\ of \in [Talks -> MaybeTalk]
        /\ talk \in [Talks -> TalkPlaces] /\ link \in [Talks -> {"none", "given", "used"}]
    BY <1>1, TalkNumbers DEF TalkPlaces
  <2>4. state \in [ConvKeys -> SUBSET Talks] /\ memory \in [Talks -> MemoryPlaces] /\ fact \in [Talks -> MaybeTalk]
    BY <1>1, TalkNumbers DEF MemoryPlaces
  <2>5. cached \in [ConvKeys -> CacheEntry] /\ seen \in [Talks -> CacheEntry]
    BY <1>1, <2>1
  <2> QED
    BY <1>1, <2>1, <2>2, <2>3, <2>4, <2>5 DEF ConvTypeOK, CacheEntry, TalkPlaces, MemoryPlaces
<1>3. KeysAreApart
  BY <1>1 DEF KeysAreApart, NoMove, ConvKeys
<1>4. \A k \in ConvKeys : Counted(k) = {}
  BY <1>1 DEF Counted, ConvKeys
<1>5. MessagesAreCounted
  <2>1. \A t \in Talks : place[<<t, "user">>] = "none" /\ place[<<t, "assistant">>] = "none"
    BY <1>1, MessagesAreFinite
  <2> QED
    BY <1>1, <1>4, <2>1 DEF MessagesAreCounted
<1>6. TurnsWriteHome
  BY <1>1 DEF TurnsWriteHome, ConvKeys
<1>7. FoundIsHome
  <2>1. (\A m \in Messages : place[m] \notin ConvKeys) /\ \A t \in Talks : memory[t] \notin ConvKeys
    BY <1>1 DEF ConvKeys
  <2>2. \A t \in Talks, k \in ConvKeys : ~Left(t, k)
    BY <1>1, <2>1, MessagesAreFinite DEF Left
  <2> QED
    BY <1>1, <2>2 DEF FoundIsHome
<1>8. CountersAgree
  BY <1>1 DEF CountersAgree
<1> QED
  BY <1>2, <1>3, <1>5, <1>6, <1>7, <1>8 DEF ConvInv

-----------------------------------------------------------------------------
(* A turn's steps.                                                         *)

\* The parts of the type, for one step.
LEMMA ConvTypes ==
  ASSUME ConvTypeOK
  PROVE  /\ conv \in [ConvKeys -> MaybeTalk] /\ count \in [Talks -> Nat]
         /\ summary \in [Talks -> MaybeTalk] /\ place \in [Messages -> ConvKeys \union {"none", "gone"}]
         /\ state \in [ConvKeys -> SUBSET Talks] /\ memory \in [Talks -> MemoryPlaces]
         /\ fact \in [Talks -> MaybeTalk]
         /\ secret \in [ConvKeys -> MaybeTalk] /\ cached \in [ConvKeys -> CacheEntry]
         /\ talk \in [Talks -> TalkPlaces] /\ seen \in [Talks -> CacheEntry]
         /\ move \in [kind : {"none", "rename", "delete"}, from : ConvKeys, to : ConvKeys]
         /\ of \in [Talks -> MaybeTalk] /\ crossed \subseteq Talks /\ uncounted \subseteq Messages
  BY DEF ConvTypeOK, CacheEntry, TalkPlaces, MemoryPlaces

\* A step after the turn began that appends nothing: what it writes is found at "main", as
\* what is of the conversation it began in.
LEMMA TurnKeeps ==
  ASSUME ConvInv, ConvTypeOK', NEW t \in MaybeTalk,
         UNCHANGED <<conv, count, place, move, of, crossed, uncounted>>,
         \A u \in Talks : u # t => talk'[u] = talk[u] /\ seen'[u] = seen[u],
         t \in Talks =>
           /\ talk[t] # "new" /\ talk'[t] # "new"
           /\ talk'[t] \in {"load", "fill", "model", "user"} => talk[t] \in {"load", "fill", "model", "user"}
           /\ talk'[t] # "assistant" /\ (talk'[t] # "over" => talk[t] # "over")
           /\ talk'[t] \in {"fill", "cache"} => seen'[t].by = t /\ (t \in crossed \/ seen'[t].of = of[t]),
         \A k \in ConvKeys, u \in Talks :
           u \in state'[k] \/ memory'[u] = k =>
             u \in state[k] \/ memory[u] = k \/ (u = t /\ k = "main" /\ talk[t] # "over"),
         \A k \in ConvKeys :
           \/ cached'[k] \in {cached[k], Uncached}
           \/ /\ k = "main" /\ t \in Talks /\ talk[t] # "over"
              /\ cached'[k].by = t /\ (t \in crossed \/ cached'[k].of = of[t])
  PROVE  ConvInv'
<1>1. \A k : Counted(k)' = Counted(k) /\ (Held(k)' <=> Held(k))
  BY DEF Counted, Held
<1>2. KeysAreApart'
  <2>1. \A k \in ConvKeys : conv[k] \in MaybeTalk
    BY ConvTypes DEF ConvInv
  <2>2. \A u \in Talks : talk[u] # "new" => talk'[u] # "new"
    OBVIOUS
  <2> QED
    BY <2>1, <2>2, TalkNumbers DEF ConvInv, KeysAreApart
<1>3. MessagesAreCounted' /\ CountersAgree'
  BY <1>1 DEF ConvInv, MessagesAreCounted, CountersAgree
<1>4. TurnsWriteHome'
  <2> SUFFICES ASSUME NEW u \in Talks PROVE TurnsWriteHome!(u)'
    BY DEF TurnsWriteHome
  <2>1. TurnsWriteHome!(u)
    BY DEF ConvInv, TurnsWriteHome
  <2>2. CASE u = t
    BY <1>1, <2>1, <2>2
  <2>3. CASE u # t
    BY <1>1, <2>1, <2>3
  <2> QED
    BY <2>2, <2>3
<1>5. t \in Talks /\ talk[t] # "over" /\ t \notin crossed =>
        of[t] = conv["main"] /\ of[t] # NoTalk /\ ~Held("main")
  BY DEF ConvInv, TurnsWriteHome
<1>6. \A k \in ConvKeys, u \in Talks : Left(u, k)' => Left(u, k) \/ (u = t /\ k = "main" /\ talk[t] # "over")
  BY DEF Left
<1>7. FoundIsHome'
  <2>1. ASSUME NEW k \in ConvKeys, NEW u \in Talks, Left(u, k)', u \notin crossed
        PROVE  conv[k] = of[u] /\ of[u] # NoTalk
    <3>1. CASE Left(u, k)
      BY <2>1, <3>1 DEF ConvInv, FoundIsHome
    <3>2. CASE ~Left(u, k)
      BY <1>5, <1>6, <2>1, <3>2
    <3> QED
      BY <3>1, <3>2
  <2>2. ASSUME NEW k \in ConvKeys, cached'[k] # Uncached, cached'[k].by \notin crossed
        PROVE  conv[k] = cached'[k].of /\ conv[k] # NoTalk /\ ~Held(k)
    <3>1. CASE cached'[k] = cached[k]
      BY <2>2, <3>1 DEF ConvInv, FoundIsHome
    <3>2. CASE cached'[k] # cached[k]
      BY <1>5, <2>2, <3>2
    <3> QED
      BY <3>1, <3>2
  <2> QED
    BY <1>1, <2>1, <2>2 DEF FoundIsHome
<1> QED
  BY <1>2, <1>3, <1>4, <1>7 DEF ConvInv

\* Where a turn goes next.
LEMMA GoesOn ==
  ASSUME ConvTypeOK, NEW t \in Talks, NEW p \in TalkPlaces, Goes(t, p)
  PROVE  talk' \in [Talks -> TalkPlaces] /\ talk'[t] = p /\ \A u \in Talks : u # t => talk'[u] = talk[u]
  BY ConvTypes DEF Goes

\* The steps up to the model's answer.
LEMMA LoadKeeps ==
  ASSUME ConvInv, NEW t \in Talks, Load(t)
  PROVE  ConvInv'
<1>1. ConvTypeOK
  BY DEF ConvInv
<1>2. talk[t] = "load" /\ UNCHANGED <<tables, link, move, moves, extras, history>>
  BY DEF Load
<1>3. /\ talk' \in [Talks -> TalkPlaces] /\ talk'[t] \in {"fill", "model"}
      /\ \A u \in Talks : u # t => talk'[u] = talk[u] /\ seen'[u] = seen[u]
      /\ seen' \in [Talks -> CacheEntry]
      /\ talk'[t] = "fill" => seen'[t].by = t /\ (t \in crossed \/ seen'[t].of = of[t])
  <2>1. CASE Goes(t, "model") /\ UNCHANGED seen
    <3>1. "model" \in TalkPlaces
      BY DEF TalkPlaces
    <3> QED
      BY <1>1, <2>1, <3>1, GoesOn, ConvTypes
  <2>2. CASE /\ conv["main"] # NoTalk /\ Goes(t, "fill")
             /\ seen' = [seen EXCEPT ![t] = [of |-> conv["main"], by |-> t, sum |-> summary[conv["main"]]]]
    <3> DEFINE e == [of |-> conv["main"], by |-> t, sum |-> summary[conv["main"]]]
    <3>1. "fill" \in TalkPlaces /\ "main" \in ConvKeys
      BY DEF TalkPlaces, ConvKeys
    <3>2. conv["main"] \in Talks
      BY <1>1, <2>2, <3>1, ConvTypes, TalkNumbers
    <3>3. conv["main"] \in MaybeTalk /\ summary[conv["main"]] \in MaybeTalk /\ t \in MaybeTalk
      BY <1>1, <3>2, ConvTypes, TalkNumbers
    <3>4. e \in CacheEntry /\ e.by = t /\ e.of = conv["main"]
      BY <3>3 DEF CacheEntry
    <3>5. t \in crossed \/ conv["main"] = of[t]
      BY <1>2 DEF ConvInv, TurnsWriteHome
    <3>6. seen' = [seen EXCEPT ![t] = e] /\ seen \in [Talks -> CacheEntry]
      BY <1>1, <2>2, ConvTypes
    <3> HIDE DEF e
    <3>7. seen' \in [Talks -> CacheEntry] /\ seen'[t] = e /\ \A u \in Talks : u # t => seen'[u] = seen[u]
      BY <3>4, <3>6
    <3> QED
      BY <1>1, <2>2, <3>1, <3>4, <3>5, <3>7, GoesOn
  <2> QED
    BY <2>1, <2>2 DEF Load
<1>4. ConvTypeOK'
  BY <1>1, <1>2, <1>3 DEF ConvTypeOK, CacheEntry, TalkPlaces, MemoryPlaces, tables, history
<1>5. /\ UNCHANGED <<conv, count, place, move, of, crossed, uncounted, state, memory, cached>>
      /\ t \in MaybeTalk
  BY <1>2, TalkNumbers DEF tables, history
<1> QED
  BY <1>2, <1>3, <1>4, <1>5, TurnKeeps

\* A cache is filled with what the turn saw, on the way in or after the reply.
LEMMA FillKeeps ==
  ASSUME ConvInv, NEW t \in Talks, FillCache(t) \/ CacheSummary(t)
  PROVE  ConvInv'
<1>1. ConvTypeOK
  BY DEF ConvInv
<1>2. PICK p \in {"model", "remember"} :
        /\ Goes(t, p) /\ talk[t] \in {"fill", "cache"} /\ (p = "model" => talk[t] = "fill")
  BY DEF FillCache, CacheSummary
<1>3. /\ cached' = [cached EXCEPT !["main"] = seen[t]] /\ seen' = [seen EXCEPT ![t] = Uncached]
      /\ UNCHANGED <<conv, count, summary, place, state, memory, fact, secret, link, move, moves, extras, history>>
  BY DEF FillCache, CacheSummary
<1>4. /\ talk' \in [Talks -> TalkPlaces] /\ talk'[t] = p
      /\ \A u \in Talks : u # t => talk'[u] = talk[u]
  <2>1. p \in TalkPlaces
    BY DEF TalkPlaces
  <2> QED
    BY <1>1, <1>2, <2>1, GoesOn
<1>5. /\ seen \in [Talks -> CacheEntry] /\ cached \in [ConvKeys -> CacheEntry] /\ Uncached \in CacheEntry
      /\ "main" \in ConvKeys
  BY <1>1, ConvTypes, TalkNumbers DEF Uncached, CacheEntry, ConvKeys
<1>6. /\ seen' \in [Talks -> CacheEntry] /\ cached' \in [ConvKeys -> CacheEntry]
      /\ \A u \in Talks : u # t => seen'[u] = seen[u]
      /\ cached'["main"] = seen[t] /\ \A k \in ConvKeys : k # "main" => cached'[k] = cached[k]
  BY <1>3, <1>5
<1>7. seen[t].by = t /\ (t \in crossed \/ seen[t].of = of[t])
  BY <1>2 DEF ConvInv, TurnsWriteHome
<1>8. ConvTypeOK'
  BY <1>1, <1>3, <1>4, <1>6 DEF ConvTypeOK, CacheEntry, TalkPlaces, MemoryPlaces, history
<1>9. /\ UNCHANGED <<conv, count, place, move, of, crossed, uncounted, state, memory>> /\ t \in MaybeTalk
  BY <1>3, TalkNumbers DEF history
<1> QED
  BY <1>2, <1>4, <1>6, <1>7, <1>8, <1>9, TurnKeeps

\* The state is flushed when the model answered, memories are extracted after the reply.
LEMMA WriteKeeps ==
  ASSUME ConvInv, NEW t \in Talks, FlushState(t) \/ Remember(t)
  PROVE  ConvInv'
<1>1. ConvTypeOK /\ "main" \in ConvKeys
  BY DEF ConvInv, ConvKeys
<1>2. /\ talk[t] \in {"model", "remember"}
      /\ \/ UNCHANGED talk /\ talk[t] = "remember"
         \/ Goes(t, "user") /\ talk[t] = "model"
         \/ Goes(t, "over")
  BY DEF FlushState, Remember
<1>3. UNCHANGED <<conv, count, summary, place, secret, cached, seen, link, move, moves, history>>
  BY DEF FlushState, Remember
<1>4. /\ state' \in {state, [state EXCEPT !["main"] = @ \union {t}]}
      /\ memory' \in {memory, [memory EXCEPT ![t] = "main"]}
      /\ fact' = fact \/ \E r \in Talks : fact' = [fact EXCEPT ![r] = t]
      /\ extras' = extras \/ (extras < MaxExtras /\ extras' = extras + 1)
  BY DEF FlushState, Remember, InsertMemory, MergeMemory, Extra
<1>5. /\ talk' \in [Talks -> TalkPlaces]
      /\ talk'[t] \in {"user", "over"} \/ (talk'[t] = talk[t] /\ talk[t] = "remember")
      /\ talk'[t] = "user" => talk[t] = "model"
      /\ \A u \in Talks : u # t => talk'[u] = talk[u]
  <2>1. "user" \in TalkPlaces /\ "over" \in TalkPlaces /\ talk \in [Talks -> TalkPlaces]
    BY <1>1, ConvTypes DEF TalkPlaces
  <2>2. CASE UNCHANGED talk /\ talk[t] = "remember"
    BY <2>1, <2>2
  <2>3. CASE Goes(t, "user") /\ talk[t] = "model"
    BY <1>1, <2>1, <2>3, GoesOn
  <2>4. CASE Goes(t, "over")
    BY <1>1, <2>1, <2>4, GoesOn
  <2> QED
    BY <1>2, <2>2, <2>3, <2>4
<1>6. state \in [ConvKeys -> SUBSET Talks] /\ memory \in [Talks -> MemoryPlaces]
  BY <1>1, ConvTypes
<1>7. /\ state' \in [ConvKeys -> SUBSET Talks]
      /\ \A k \in ConvKeys : state'[k] \subseteq state[k] \union (IF k = "main" THEN {t} ELSE {})
  BY <1>1, <1>4, <1>6
<1>8. /\ memory' \in [Talks -> MemoryPlaces]
      /\ \A u \in Talks : memory'[u] = memory[u] \/ (u = t /\ memory'[u] = "main")
  BY <1>1, <1>4, <1>6 DEF MemoryPlaces
<1>9. extras' \in 0..MaxExtras
  BY <1>1, <1>4, ConversationAssumption DEF ConvTypeOK
<1>10. ConvTypeOK'
  <2>1. fact' \in [Talks -> MaybeTalk]
    <3>1. fact \in [Talks -> MaybeTalk] /\ t \in MaybeTalk
      BY <1>1, ConvTypes, TalkNumbers
    <3> QED
      BY <1>4, <3>1
  <2> QED
    BY <1>1, <1>3, <1>5, <1>7, <1>8, <1>9, <2>1 DEF ConvTypeOK, CacheEntry, TalkPlaces, MemoryPlaces, history
<1>11. /\ UNCHANGED <<conv, count, place, move, of, crossed, uncounted, cached, seen>> /\ t \in MaybeTalk
  BY <1>3, TalkNumbers DEF history
<1>12. \A k \in ConvKeys, u \in Talks :
           u \in state'[k] \/ memory'[u] = k =>
             u \in state[k] \/ memory[u] = k \/ (u = t /\ k = "main" /\ talk[t] # "over")
  BY <1>2, <1>7, <1>8
<1> QED
  BY <1>2, <1>5, <1>10, <1>11, <1>12, TurnKeeps

\* The summary's row is written, or the turn is over.
LEMMA SummaryKeeps ==
  ASSUME ConvInv, NEW t \in Talks, UpdateSummary(t) \/ Discard(t) \/ AppendFails(t)
  PROVE  ConvInv'
<1>1. ConvTypeOK /\ "main" \in ConvKeys
  BY DEF ConvInv, ConvKeys
<1>2. PICK p \in {"cache", "over"} :
        /\ Goes(t, p) /\ talk[t] \in {"summarise", "model", "user", "assistant"}
        /\ IF p = "cache" THEN seen' = [seen EXCEPT ![t] = [of |-> of[t], by |-> t, sum |-> t]]
           ELSE UNCHANGED seen
  BY DEF UpdateSummary, Discard, AppendFails
<1>3. /\ UNCHANGED <<conv, count, place, state, memory, fact, secret, cached, link, move, moves, history>>
      /\ \/ UNCHANGED summary
         \/ conv["main"] # NoTalk /\ summary' = [summary EXCEPT ![conv["main"]] = t]
      /\ extras' = extras \/ (extras < MaxExtras /\ extras' = extras + 1)
  BY DEF UpdateSummary, Discard, AppendFails, tables, Extra
<1>4. /\ talk' \in [Talks -> TalkPlaces] /\ talk'[t] = p
      /\ \A u \in Talks : u # t => talk'[u] = talk[u]
  <2>1. p \in TalkPlaces
    BY DEF TalkPlaces
  <2> QED
    BY <1>1, <1>2, <2>1, GoesOn
<1>5. /\ seen' \in [Talks -> CacheEntry] /\ \A u \in Talks : u # t => seen'[u] = seen[u]
      /\ p = "cache" => seen'[t].by = t /\ seen'[t].of = of[t]
  <2> DEFINE e == [of |-> of[t], by |-> t, sum |-> t]
  <2>1. of[t] \in MaybeTalk /\ t \in MaybeTalk
    BY <1>1, ConvTypes, TalkNumbers
  <2>2. e \in CacheEntry /\ e.by = t /\ e.of = of[t]
    BY <2>1 DEF CacheEntry
  <2>3. seen \in [Talks -> CacheEntry] /\ seen' = IF p = "cache" THEN [seen EXCEPT ![t] = e] ELSE seen
    BY <1>1, <1>2, ConvTypes
  <2> HIDE DEF e
  <2> QED
    BY <2>2, <2>3
<1>6. summary' \in [Talks -> MaybeTalk]
  BY <1>1, <1>3, ConvTypes, TalkNumbers
<1>7. extras' \in 0..MaxExtras
  BY <1>1, <1>3, ConversationAssumption DEF ConvTypeOK
<1>8. ConvTypeOK'
  BY <1>1, <1>3, <1>4, <1>5, <1>6, <1>7 DEF ConvTypeOK, CacheEntry, TalkPlaces, MemoryPlaces, history
<1>9. /\ UNCHANGED <<conv, count, place, move, of, crossed, uncounted, cached, state, memory>> /\ t \in MaybeTalk
  BY <1>3, TalkNumbers DEF history
<1> QED
  BY <1>2, <1>4, <1>5, <1>8, <1>9, TurnKeeps

\* An authorization link, its callback, an entry that makes room, a fact of somebody else.
LEMMA LinkKeeps ==
  ASSUME ConvInv, (\E t \in Talks : GiveLink(t) \/ Callback(t) \/ MergeOther(t)) \/ (\E k \in ConvKeys : EvictSummary(k))
  PROVE  ConvInv'
<1>1. ConvTypeOK /\ "main" \in ConvKeys
  BY DEF ConvInv, ConvKeys
<1>2. /\ UNCHANGED <<conv, count, summary, place, state, memory, talk, seen, move, moves, history>>
      /\ fact' = fact \/ \E r \in Talks : fact' = [fact EXCEPT ![r] = NoTalk]
      /\ extras' = extras \/ (extras < MaxExtras /\ extras' = extras + 1)
      /\ \/ UNCHANGED cached
         \/ \E k \in ConvKeys : cached' = [cached EXCEPT ![k] = Uncached]
      /\ \/ UNCHANGED secret
         \/ \E t \in Talks : secret' = [secret EXCEPT !["main"] = t]
      /\ \/ UNCHANGED link
         \/ \E t \in Talks, s \in {"given", "used"} : link' = [link EXCEPT ![t] = s]
  BY DEF GiveLink, Callback, EvictSummary, MergeOther, tables, Extra
<1>3. cached' \in [ConvKeys -> CacheEntry] /\ \A k \in ConvKeys : cached'[k] \in {cached[k], Uncached}
  <2>1. Uncached \in CacheEntry /\ cached \in [ConvKeys -> CacheEntry]
    BY <1>1, ConvTypes, TalkNumbers DEF Uncached, CacheEntry
  <2> QED
    BY <1>2, <2>1
<1>4. secret' \in [ConvKeys -> MaybeTalk]
  BY <1>1, <1>2, ConvTypes, TalkNumbers
<1>5. link' \in [Talks -> {"none", "given", "used"}]
  BY <1>1, <1>2 DEF ConvTypeOK
<1>6. extras' \in 0..MaxExtras
  BY <1>1, <1>2, ConversationAssumption DEF ConvTypeOK
<1>7. ConvTypeOK'
  <2>1. fact' \in [Talks -> MaybeTalk]
    <3>1. fact \in [Talks -> MaybeTalk] /\ NoTalk \in MaybeTalk
      BY <1>1, ConvTypes, TalkNumbers
    <3> QED
      BY <1>2, <3>1
  <2> QED
    BY <1>1, <1>2, <1>3, <1>4, <1>5, <1>6, <2>1 DEF ConvTypeOK, CacheEntry, TalkPlaces, MemoryPlaces, history
<1>8. /\ UNCHANGED <<conv, count, place, move, of, crossed, uncounted, talk, seen, state, memory>>
      /\ NoTalk \in MaybeTalk /\ NoTalk \notin Talks
  BY <1>2, TalkNumbers DEF history
<1> QED
  BY <1>3, <1>7, <1>8, TurnKeeps

\* A turn begins, with its conversation's row or without it.
LEMMA BeginKeeps ==
  ASSUME ConvInv, NEW t \in Talks, Begin(t) \/ BeginFails(t)
  PROVE  ConvInv'
<1>1. ConvTypeOK /\ "main" \in ConvKeys /\ KeysAreApart /\ MessagesAreCounted /\ TurnsWriteHome /\ FoundIsHome /\ CountersAgree
  BY DEF ConvInv, ConvKeys
<1>2. /\ talk[t] = "new" /\ Goes(t, "load") /\ of' = [of EXCEPT ![t] = conv'["main"]]
      /\ \/ conv' = conv
         \/ conv["main"] = NoTalk /\ ~Held("main") /\ conv' = [conv EXCEPT !["main"] = t]
      /\ crossed' \in {crossed, crossed \union {t}}
      /\ t \notin crossed' => conv'["main"] # NoTalk /\ ~Held("main")
      /\ UNCHANGED <<count, summary, place, state, memory, fact, secret, cached, seen, link, move, moves, uncounted>>
      /\ extras' = extras \/ (extras < MaxExtras /\ extras' = extras + 1)
  <2>1. CASE Begin(t)
    <3>1. CASE conv["main"] = NoTalk
      <4>1. conv' = [conv EXCEPT !["main"] = t] /\ of' = [of EXCEPT ![t] = t]
        BY <2>1, <3>1 DEF Begin
      <4>2. conv'["main"] = t /\ t # NoTalk
        BY <1>1, <4>1, ConvTypes, TalkNumbers
      <4> QED
        BY <2>1, <3>1, <4>1, <4>2 DEF Begin, IsNext
    <3>2. CASE conv["main"] # NoTalk
      <4>1. conv' = [conv EXCEPT !["main"] = conv["main"]] /\ of' = [of EXCEPT ![t] = conv["main"]]
        BY <2>1, <3>2 DEF Begin
      <4>2. conv' = conv
        BY <1>1, <4>1, ConvTypes
      <4> QED
        BY <2>1, <3>2, <4>1, <4>2 DEF Begin, IsNext
    <3> QED
      BY <3>1, <3>2
  <2>2. CASE BeginFails(t)
    BY <2>2 DEF BeginFails, IsNext, tables, Extra
  <2> QED
    BY <2>1, <2>2
<1>3. /\ talk' \in [Talks -> TalkPlaces] /\ talk'[t] = "load" /\ talk[t] = "new"
      /\ \A u \in Talks : u # t => talk'[u] = talk[u]
  <2>1. "load" \in TalkPlaces
    BY DEF TalkPlaces
  <2> QED
    BY <1>1, <1>2, <2>1, GoesOn
<1>4. /\ conv' \in [ConvKeys -> MaybeTalk] /\ (conv'["main"] = conv["main"] \/ (conv["main"] = NoTalk /\ ~Held("main") /\ conv'["main"] = t))
      /\ \A k \in ConvKeys : k # "main" => conv'[k] = conv[k]
  BY <1>1, <1>2, ConvTypes, TalkNumbers
<1>5. of' \in [Talks -> MaybeTalk] /\ of'[t] = conv'["main"] /\ \A u \in Talks : u # t => of'[u] = of[u]
  <2>1. conv'["main"] \in MaybeTalk /\ of \in [Talks -> MaybeTalk]
    BY <1>1, <1>4, ConvTypes
  <2> QED
    BY <1>2, <2>1
<1>6. crossed' \subseteq Talks /\ crossed \subseteq crossed' /\ \A u \in Talks : u # t /\ u \notin crossed' => u \notin crossed
  BY <1>1, <1>2, ConvTypes
<1>7. ConvTypeOK'
  <2>1. extras' \in 0..MaxExtras
    BY <1>1, <1>2, ConversationAssumption DEF ConvTypeOK
  <2> QED
    BY <1>1, <1>2, <1>3, <1>4, <1>5, <1>6, <2>1 DEF ConvTypeOK, CacheEntry, TalkPlaces, MemoryPlaces
<1>8. \A k : Counted(k)' = Counted(k) /\ (Held(k)' <=> Held(k))
  BY <1>2 DEF Counted, Held
<1>9. /\ place[<<t, "user">>] = "none" /\ place[<<t, "assistant">>] = "none" /\ count[t] = 0
      /\ \A k \in ConvKeys : t \notin state[k] /\ memory[t] # k
  BY <1>1, <1>3 DEF MessagesAreCounted, TurnsWriteHome
<1>10. \A k \in ConvKeys : ~Left(t, k)
  BY <1>9 DEF Left, ConvKeys
<1>11. KeysAreApart'
  <2>1. \A k \in ConvKeys : conv'[k] # NoTalk => talk'[conv'[k]] # "new"
    <3> SUFFICES ASSUME NEW k \in ConvKeys, conv'[k] # NoTalk PROVE talk'[conv'[k]] # "new"
      OBVIOUS
    <3>1. conv'[k] \in Talks
      BY <1>4, TalkNumbers
    <3> QED
      BY <1>1, <1>3, <1>4, <3>1 DEF KeysAreApart
  <2>2. conv'["main"] # NoTalk => conv'["main"] # conv'["archive"]
    <3>1. "archive" \in ConvKeys /\ t # NoTalk
      BY TalkNumbers DEF ConvKeys
    <3>2. conv["archive"] # t
      BY <1>1, <1>3, <3>1 DEF KeysAreApart
    <3> QED
      BY <1>1, <1>4, <3>1, <3>2 DEF KeysAreApart
  <2>3. /\ move.kind = "none" => move = NoMove
        /\ move.kind = "delete" => move.from = move.to
        /\ move.kind = "rename" => move.from # move.to
    BY <1>1 DEF KeysAreApart
  <2>4. move.from \in ConvKeys /\ move.to \in ConvKeys
    BY <1>1, ConvTypes
  <2>5. move.kind # "none" => conv'[move.from] # NoTalk
    BY <1>1, <1>4, <2>4, TalkNumbers DEF KeysAreApart
  <2>6. move.kind = "rename" => conv'[move.to] = NoTalk
    <3>1. move.kind = "rename" => move # NoMove
      BY DEF NoMove
    <3> QED
      BY <1>1, <1>4, <2>4, <3>1 DEF KeysAreApart, Held
  <2> QED
    BY <1>2, <2>1, <2>2, <2>3, <2>5, <2>6 DEF KeysAreApart
<1>12. MessagesAreCounted'
  <2>1. \A k \in ConvKeys : conv'[k] = NoTalk => Counted(k) = {}
    BY <1>1, <1>4, TalkNumbers DEF MessagesAreCounted
  <2>2. \A u \in Talks :
          /\ talk'[u] \in {"new", "load", "fill", "model", "user"} => place[<<u, "user">>] = "none"
          /\ talk'[u] \in {"new", "load", "fill", "model", "user", "assistant"} => place[<<u, "assistant">>] = "none"
          /\ talk'[u] = "new" => count[u] = 0
    BY <1>1, <1>3, <1>9 DEF MessagesAreCounted
  <2>3. \A m \in uncounted : place[m] # "none"
    BY <1>1 DEF MessagesAreCounted
  <2> QED
    BY <1>2, <1>8, <2>1, <2>2, <2>3 DEF MessagesAreCounted
<1>13. TurnsWriteHome'
  <2> SUFFICES ASSUME NEW u \in Talks PROVE TurnsWriteHome!(u)'
    BY DEF TurnsWriteHome
  <2>1. TurnsWriteHome!(u)
    BY <1>1 DEF TurnsWriteHome
  <2>2. CASE u = t
    BY <1>2, <1>3, <1>5, <1>8, <2>1, <2>2
  <2>3. CASE u # t
    BY <1>2, <1>3, <1>4, <1>5, <1>6, <1>8, <2>1, <2>3
  <2> QED
    BY <2>2, <2>3
<1>14. FoundIsHome'
  <2>1. \A k \in ConvKeys, u \in Talks : Left(u, k)' <=> Left(u, k)
    BY <1>2 DEF Left
  <2>2. \A k \in ConvKeys, u \in Talks : Left(u, k) /\ u \notin crossed' => conv'[k] = of'[u] /\ of'[u] # NoTalk
    BY <1>1, <1>4, <1>5, <1>6, <1>10 DEF FoundIsHome
  <2>3. \A k \in ConvKeys : cached[k] # Uncached /\ cached[k].by \notin crossed' =>
          conv'[k] = cached[k].of /\ conv'[k] # NoTalk /\ ~Held(k)
    BY <1>1, <1>4, <1>6 DEF FoundIsHome
  <2> QED
    BY <1>2, <1>8, <2>1, <2>2, <2>3 DEF FoundIsHome
<1>15. CountersAgree'
  <2>1. ASSUME NEW k \in ConvKeys, conv'[k] # NoTalk
        PROVE  count[conv'[k]] = Cardinality(Counted(k))
    <3>1. CASE conv'[k] = conv[k]
      BY <1>1, <2>1, <3>1 DEF CountersAgree
    <3>2. CASE conv'[k] # conv[k]
      <4>1. k = "main" /\ conv["main"] = NoTalk /\ conv'["main"] = t
        BY <1>4, <3>2
      <4>2. Counted(k) = {}
        BY <1>1, <4>1 DEF MessagesAreCounted
      <4> QED
        BY <1>9, <4>1, <4>2, FS_EmptySet
    <3> QED
      BY <3>1, <3>2
  <2> QED
    BY <1>2, <1>8, <2>1 DEF CountersAgree
<1> QED
  BY <1>7, <1>11, <1>12, <1>13, <1>14, <1>15 DEF ConvInv

\* A message is appended at the key, and counted if a conversation has it.
LEMMA AppendKeeps ==
  ASSUME ConvInv, NEW t \in Talks, AppendUser(t) \/ AppendAssistant(t)
  PROVE  ConvInv'
<1>1. ConvTypeOK /\ "main" \in ConvKeys /\ KeysAreApart /\ MessagesAreCounted /\ TurnsWriteHome /\ FoundIsHome /\ CountersAgree
  BY DEF ConvInv, ConvKeys
<1>2. PICK role \in {"user", "assistant"}, next \in {"assistant", "remember", "summarise"} :
        /\ AppendStep(t, role, next)
        /\ IF role = "user" THEN next = "assistant" ELSE next \in {"remember", "summarise"}
        /\ extras' = extras \/ (extras < MaxExtras /\ extras' = extras + 1)
  BY DEF AppendUser, AppendAssistant, Extra
<1> DEFINE m == <<t, role>>
<1> DEFINE c == conv["main"]
<1>3. /\ talk[t] = role /\ ~Held("main") /\ Goes(t, next) /\ place' = [place EXCEPT ![m] = "main"]
      /\ IF c = NoTalk THEN uncounted' = uncounted \union {m} /\ count' = count
         ELSE count' = [count EXCEPT ![c] = @ + 1] /\ uncounted' = uncounted
      /\ UNCHANGED <<conv, summary, state, memory, fact, secret, cached, seen, link, move, moves, of, crossed>>
  BY <1>2 DEF AppendStep, AppendMessage
<1>4. /\ talk' \in [Talks -> TalkPlaces] /\ talk'[t] = next
      /\ \A u \in Talks : u # t => talk'[u] = talk[u]
  <2>1. next \in TalkPlaces
    BY DEF TalkPlaces
  <2> QED
    BY <1>1, <1>3, <2>1, GoesOn
<1>5. m \in Messages /\ place[m] = "none" /\ (role = "user" => place[<<t, "assistant">>] = "none")
  <2>1. CASE role = "user"
    BY <1>1, <1>3, <2>1, MessagesAreFinite DEF MessagesAreCounted
  <2>2. CASE role = "assistant"
    BY <1>1, <1>3, <2>2, MessagesAreFinite DEF MessagesAreCounted
  <2> QED
    BY <2>1, <2>2
<1>6. m \notin uncounted
  BY <1>1, <1>5 DEF MessagesAreCounted
<1>7. /\ place' \in [Messages -> ConvKeys \union {"none", "gone"}] /\ place'[m] = "main"
      /\ \A n \in Messages : n # m => place'[n] = place[n]
  BY <1>1, <1>3, <1>5, ConvTypes
<1>8. c \in MaybeTalk /\ (c # NoTalk => c \in Talks)
  BY <1>1, ConvTypes, TalkNumbers
<1>9. /\ count' \in [Talks -> Nat] /\ \A d \in Talks : d # c => count'[d] = count[d]
      /\ c # NoTalk => count'[c] = count[c] + 1 /\ uncounted' = uncounted
      /\ c = NoTalk => uncounted' = uncounted \union {m}
  BY <1>1, <1>3, <1>8, ConvTypes
<1> HIDE DEF c
<1>10. \A n \in Messages, u \in Talks, r \in {"user", "assistant"} : <<u, r>> # m => place'[<<u, r>>] = place[<<u, r>>]
  BY <1>7 DEF Messages
<1>11. uncounted' \subseteq Messages
  BY <1>1, <1>5, <1>9, ConvTypes
<1>12. ConvTypeOK'
  <2>1. extras' \in 0..MaxExtras
    BY <1>1, <1>2, ConversationAssumption DEF ConvTypeOK
  <2> QED
    BY <1>1, <1>3, <1>4, <1>7, <1>9, <1>11, <2>1 DEF ConvTypeOK, CacheEntry, TalkPlaces, MemoryPlaces
<1>13. \A k : Held(k)' <=> Held(k)
  BY <1>3 DEF Held
<1>14. KeysAreApart'
  <2>1. \A u \in Talks : talk[u] # "new" => talk'[u] # "new"
    BY <1>2, <1>4
  <2>2. \A k \in ConvKeys : conv[k] \in MaybeTalk
    BY <1>1, ConvTypes
  <2> QED
    BY <1>1, <1>3, <2>1, <2>2, TalkNumbers DEF KeysAreApart
<1>15. \A k \in ConvKeys : Counted(k)' = IF k = "main" /\ c # NoTalk THEN Counted(k) \union {m} ELSE Counted(k)
  <2> SUFFICES ASSUME NEW k \in ConvKeys
               PROVE  Counted(k)' = IF k = "main" /\ c # NoTalk THEN Counted(k) \union {m} ELSE Counted(k)
    OBVIOUS
  <2>1. \A n \in Messages : n # m => (n \in Counted(k)' <=> n \in Counted(k))
    BY <1>7, <1>9, <1>8 DEF Counted
  <2>2. m \in Counted(k)' <=> k = "main" /\ c # NoTalk
    BY <1>5, <1>6, <1>7, <1>9 DEF Counted
  <2>3. m \notin Counted(k)
    BY <1>5 DEF Counted, ConvKeys
  <2>4. Counted(k) \subseteq Messages /\ Counted(k)' \subseteq Messages
    BY DEF Counted
  <2> QED
    BY <2>1, <2>2, <2>3, <2>4, <1>5
<1>16. MessagesAreCounted'
  <2>1. \A u \in Talks :
          /\ talk'[u] \in {"new", "load", "fill", "model", "user"} => place'[<<u, "user">>] = "none"
          /\ talk'[u] \in {"new", "load", "fill", "model", "user", "assistant"} => place'[<<u, "assistant">>] = "none"
          /\ talk'[u] = "new" => count'[u] = 0
    <3> SUFFICES ASSUME NEW u \in Talks
                 PROVE  /\ talk'[u] \in {"new", "load", "fill", "model", "user"} => place'[<<u, "user">>] = "none"
                        /\ talk'[u] \in {"new", "load", "fill", "model", "user", "assistant"} => place'[<<u, "assistant">>] = "none"
                        /\ talk'[u] = "new" => count'[u] = 0
      OBVIOUS
    <3>1. CASE u = t
      <4>1. role = "user" => place'[<<t, "assistant">>] = "none"
        BY <1>5, <1>7, MessagesAreFinite
      <4> QED
        BY <1>2, <1>4, <3>1, <4>1
    <3>2. CASE u # t
      <4>1. place'[<<u, "user">>] = place[<<u, "user">>] /\ place'[<<u, "assistant">>] = place[<<u, "assistant">>]
        BY <1>7, <3>2, MessagesAreFinite
      <4>2. talk[u] = "new" => u # c
        BY <1>1, <1>8, TalkNumbers DEF KeysAreApart, c
      <4> QED
        BY <1>1, <1>4, <1>9, <3>2, <4>1, <4>2 DEF MessagesAreCounted
    <3> QED
      BY <3>1, <3>2
  <2>2. \A n \in uncounted' : place'[n] # "none"
    <3>1. \A n \in uncounted' : n \in Messages /\ (n \in uncounted \/ n = m)
      BY <1>8, <1>9, <1>11
    <3> QED
      BY <1>1, <1>7, <3>1 DEF MessagesAreCounted
  <2>3. \A k \in ConvKeys : conv'[k] = NoTalk => Counted(k)' = {}
    BY <1>1, <1>3, <1>15 DEF MessagesAreCounted, c
  <2> QED
    BY <2>1, <2>2, <2>3 DEF MessagesAreCounted
<1>17. TurnsWriteHome'
  <2> SUFFICES ASSUME NEW u \in Talks PROVE TurnsWriteHome!(u)'
    BY DEF TurnsWriteHome
  <2>1. TurnsWriteHome!(u)
    BY <1>1 DEF TurnsWriteHome
  <2>2. CASE u = t
    BY <1>2, <1>3, <1>4, <1>13, <2>1, <2>2
  <2>3. CASE u # t
    BY <1>3, <1>4, <1>13, <2>1, <2>3
  <2> QED
    BY <2>2, <2>3
<1>18. FoundIsHome'
  <2>1. \A k \in ConvKeys, u \in Talks : Left(u, k)' => Left(u, k) \/ (u = t /\ k = "main")
    <3> SUFFICES ASSUME NEW k \in ConvKeys, NEW u \in Talks, Left(u, k)', ~(u = t /\ k = "main") PROVE Left(u, k)
      OBVIOUS
    <3>1. CASE u \in state[k] \/ memory[u] = k
      BY <3>1 DEF Left
    <3>2. ASSUME NEW r \in {"user", "assistant"}, place'[<<u, r>>] = k
          PROVE  Left(u, k)
      <4>1. <<u, r>> \in Messages
        BY DEF Messages
      <4>2. <<u, r>> # m
        BY <1>7, <3>2
      <4> QED
        BY <1>7, <3>2, <4>1, <4>2 DEF Left
    <3> QED
      BY <1>3, <3>1, <3>2 DEF Left
  <2>2. t \notin crossed => conv["main"] = of[t] /\ of[t] # NoTalk
    BY <1>1, <1>3 DEF TurnsWriteHome
  <2> QED
    BY <1>1, <1>3, <1>13, <2>1, <2>2 DEF FoundIsHome
<1>19. CountersAgree'
  <2> SUFFICES ASSUME NEW k \in ConvKeys, conv[k] # NoTalk
               PROVE  count'[conv[k]] = Cardinality(Counted(k)')
    BY <1>3 DEF CountersAgree
  <2>1. conv[k] \in Talks
    BY <1>1, ConvTypes, TalkNumbers
  <2>2. count[conv[k]] = Cardinality(Counted(k))
    BY <1>1 DEF CountersAgree
  <2>3. CASE k = "main"
    <3>1. Counted(k)' = Counted(k) \union {m} /\ m \notin Counted(k)
      BY <1>5, <1>15, <2>3 DEF c, Counted, ConvKeys
    <3>2. Cardinality(Counted(k) \union {m}) = Cardinality(Counted(k)) + 1
      BY <3>1, CountedIsFinite, FS_AddElement
    <3> QED
      BY <1>9, <2>2, <2>3, <3>1, <3>2 DEF c
  <2>4. CASE k # "main"
    <3>1. conv[k] # c
      <4>1. k = "archive"
        BY <2>4 DEF ConvKeys
      <4> QED
        BY <1>1, <4>1 DEF KeysAreApart, c
    <3> QED
      BY <1>9, <1>15, <2>1, <2>2, <2>4, <3>1
  <2> QED
    BY <2>3, <2>4
<1> QED
  BY <1>12, <1>14, <1>16, <1>17, <1>18, <1>19 DEF ConvInv

-----------------------------------------------------------------------------
(* Renames and deletes.                                                    *)

\* A move takes the row: the turns under way count as crossed, the caches are dropped.
LEMMA StartMoveKeeps ==
  ASSUME ConvInv, NEW kind \in {"rename", "delete"}, NEW from \in ConvKeys, NEW to \in ConvKeys,
         StartMove(kind, from, to)
  PROVE  ConvInv'
<1>1. ConvTypeOK /\ KeysAreApart /\ MessagesAreCounted /\ TurnsWriteHome /\ FoundIsHome /\ CountersAgree
  BY DEF ConvInv
<1>2. /\ UNCHANGED <<conv, count, summary, place, state, memory, fact, secret, talk, seen, link, extras, of, uncounted>>
      /\ move' = [kind |-> kind, from |-> from, to |-> to] /\ moves < MaxMoves /\ moves' = moves + 1
      /\ conv[from] # NoTalk /\ (kind = "rename" => from # to /\ conv[to] = NoTalk) /\ (kind = "delete" => from = to)
      /\ cached' = [k \in ConvKeys |-> IF k \in {from, to} THEN Uncached ELSE cached[k]]
      /\ crossed' = IF "main" \in {from, to} THEN crossed \union {t \in Talks : Underway(t)} ELSE crossed
  BY DEF StartMove, DropCaches
<1>3. crossed \subseteq crossed' /\ crossed' \subseteq Talks
  BY <1>1, <1>2, ConvTypes
<1>4. move'.kind = kind /\ move'.from = from /\ move'.to = to /\ move' # NoMove
  BY <1>2 DEF NoMove
<1>5. \A k \in ConvKeys : (cached'[k] # Uncached => cached'[k] = cached[k] /\ k \notin {from, to})
  BY <1>2
<1>6. ConvTypeOK'
  <2>1. moves' \in 0..MaxMoves
    BY <1>1, <1>2, ConversationAssumption DEF ConvTypeOK
  <2>2. move' \in [kind : {"none", "rename", "delete"}, from : ConvKeys, to : ConvKeys]
    BY <1>2
  <2>3. cached' \in [ConvKeys -> CacheEntry]
    <3>1. Uncached \in CacheEntry /\ cached \in [ConvKeys -> CacheEntry]
      BY <1>1, ConvTypes, TalkNumbers DEF Uncached, CacheEntry
    <3> QED
      BY <1>2, <3>1
  <2> QED
    BY <1>1, <1>2, <1>3, <2>1, <2>2, <2>3 DEF ConvTypeOK, CacheEntry, TalkPlaces, MemoryPlaces
<1>7. \A k : Counted(k)' = Counted(k)
  BY <1>2 DEF Counted
<1>8. KeysAreApart'
  BY <1>1, <1>2, <1>4 DEF KeysAreApart
<1>9. MessagesAreCounted' /\ CountersAgree'
  BY <1>1, <1>2, <1>7 DEF MessagesAreCounted, CountersAgree
<1>10. TurnsWriteHome'
  <2>1. \A t \in Talks : talk[t] \notin {"new", "over"} /\ t \notin crossed' => "main" \notin {from, to}
    BY <1>2 DEF Underway
  <2>2. Held("main")' <=> "main" \in {from, to}
    BY <1>4 DEF Held
  <2> QED
    BY <1>1, <1>2, <1>3, <2>1, <2>2 DEF TurnsWriteHome
<1>11. FoundIsHome'
  <2>1. \A k \in ConvKeys, t \in Talks : Left(t, k)' <=> Left(t, k)
    BY <1>2 DEF Left
  <2>2. \A k \in ConvKeys : Held(k)' <=> k \in {from, to}
    BY <1>4 DEF Held
  <2> QED
    BY <1>1, <1>2, <1>3, <1>5, <2>1, <2>2 DEF FoundIsHome
<1> QED
  BY <1>6, <1>8, <1>9, <1>10, <1>11 DEF ConvInv

\* A rename that finds state at the new key changes nothing.
LEMMA AbortKeeps ==
  ASSUME ConvInv, RenameAborts
  PROVE  ConvInv'
<1>1. ConvTypeOK /\ KeysAreApart /\ MessagesAreCounted /\ TurnsWriteHome /\ FoundIsHome /\ CountersAgree
  BY DEF ConvInv
<1>2. /\ UNCHANGED <<conv, count, summary, place, state, memory, fact, secret, cached, talk, seen, link, moves, extras, of, crossed, uncounted>>
      /\ move' = NoMove
  BY DEF RenameAborts, tables, history
<1>3. /\ \A k : Counted(k)' = Counted(k) /\ ~Held(k)'
      /\ \A k \in ConvKeys, t \in Talks : Left(t, k)' <=> Left(t, k)
  BY <1>2 DEF Counted, Held, Left
<1>4. ConvTypeOK'
  <2>1. NoMove \in [kind : {"none", "rename", "delete"}, from : ConvKeys, to : ConvKeys]
    BY DEF NoMove, ConvKeys
  <2> QED
    BY <1>1, <1>2, <2>1 DEF ConvTypeOK, CacheEntry, TalkPlaces, MemoryPlaces
<1>5. KeysAreApart'
  BY <1>1, <1>2 DEF KeysAreApart, NoMove
<1>6. MessagesAreCounted' /\ CountersAgree'
  BY <1>1, <1>2, <1>3 DEF MessagesAreCounted, CountersAgree
<1>7. TurnsWriteHome' /\ FoundIsHome'
  BY <1>1, <1>2, <1>3 DEF TurnsWriteHome, FoundIsHome
<1> QED
  BY <1>4, <1>5, <1>6, <1>7 DEF ConvInv

\* While a move holds a key no turn that is not crossed is under way there, and no cache of
\* it is filled by one.
LEMMA HeldIsQuiet ==
  ASSUME ConvInv, NEW k \in ConvKeys, Held(k)
  PROVE  /\ k = "main" => \A t \in Talks : talk[t] \notin {"new", "over"} => t \in crossed
         /\ cached[k] # Uncached => cached[k].by \in crossed
  BY DEF ConvInv, TurnsWriteHome, FoundIsHome

\* A rename takes everything from its key to the other one, where nothing was.
LEMMA RenameKeeps ==
  ASSUME ConvInv, RenameCommits
  PROVE  ConvInv'
<1>1. ConvTypeOK /\ KeysAreApart /\ MessagesAreCounted /\ TurnsWriteHome /\ FoundIsHome /\ CountersAgree
  BY DEF ConvInv
<1>0. PICK from \in ConvKeys, to \in ConvKeys : from = move.from /\ to = move.to
  BY <1>1, ConvTypes
<1>2. /\ from \in ConvKeys /\ to \in ConvKeys /\ from # to /\ conv[from] # NoTalk /\ conv[to] = NoTalk
      /\ Held(from) /\ Held(to)
  BY <1>0, <1>1 DEF KeysAreApart, RenameCommits, Held, NoMove
<1>3. \A k \in ConvKeys : k = from \/ k = to
  BY <1>2 DEF ConvKeys
<1>4. /\ UNCHANGED <<count, summary, fact, secret, cached, talk, seen, link, moves, extras, of, crossed, uncounted>>
      /\ move' = NoMove
      /\ conv' = [k \in ConvKeys |-> IF k = to /\ conv[from] # NoTalk THEN conv[from]
                                     ELSE IF k = from THEN NoTalk ELSE conv[k]]
      /\ place' = [m \in Messages |-> IF place[m] = from THEN to ELSE place[m]]
      /\ state' = [k \in ConvKeys |-> IF k = to /\ state[from] # {} THEN state[from]
                                     ELSE IF k = from THEN {} ELSE state[k]]
      /\ memory' = [t \in Talks |-> IF memory[t] = from THEN to ELSE memory[t]]
  BY <1>0 DEF RenameCommits, Moved, MoveState, history
<1>5. conv' \in [ConvKeys -> MaybeTalk] /\ conv'[to] = conv[from] /\ conv'[from] = NoTalk
  BY <1>1, <1>2, <1>4, ConvTypes, TalkNumbers
<1>6. place' \in [Messages -> ConvKeys \union {"none", "gone"}] /\ \A m \in Messages : place'[m] = IF place[m] = from THEN to ELSE place[m]
  BY <1>1, <1>2, <1>4, ConvTypes
<1>7. /\ state' \in [ConvKeys -> SUBSET Talks] /\ memory' \in [Talks -> MemoryPlaces]
      /\ state'[from] = {} /\ state'[to] \subseteq state[from] \union state[to]
      /\ \A t \in Talks : memory'[t] = IF memory[t] = from THEN to ELSE memory[t]
  <2>1. state \in [ConvKeys -> SUBSET Talks] /\ memory \in [Talks -> MemoryPlaces]
    BY <1>1, ConvTypes
  <2>2. state' \in [ConvKeys -> SUBSET Talks] /\ state'[from] = {} /\ state'[to] \subseteq state[from] \union state[to]
    BY <1>2, <1>4, <2>1
  <2>3. memory' \in [Talks -> MemoryPlaces]
    BY <1>2, <1>4, <2>1 DEF MemoryPlaces
  <2> QED
    BY <1>4, <2>2, <2>3
<1>8. ConvTypeOK'
  <2>1. NoMove \in [kind : {"none", "rename", "delete"}, from : ConvKeys, to : ConvKeys]
    BY DEF NoMove, ConvKeys
  <2> QED
    BY <1>1, <1>4, <1>5, <1>6, <1>7, <2>1 DEF ConvTypeOK, CacheEntry, TalkPlaces, MemoryPlaces
<1>9. \A k : ~Held(k)'
  BY <1>4 DEF Held
<1>10. KeysAreApart'
  <2>1. NoMove.kind = "none"
    BY DEF NoMove
  <2>2. \A k \in ConvKeys : conv'[k] # NoTalk => talk'[conv'[k]] # "new"
    BY <1>1, <1>2, <1>3, <1>4, <1>5 DEF KeysAreApart
  <2>3. conv'["main"] = NoTalk \/ conv'["archive"] = NoTalk
    BY <1>2, <1>5 DEF ConvKeys
  <2> QED
    BY <1>4, <2>1, <2>2, <2>3 DEF KeysAreApart
<1>11. Counted(to)' = Counted(from) /\ Counted(from)' = {}
  <2>1. Counted(to) = {}
    BY <1>1, <1>2 DEF MessagesAreCounted
  <2>2. \A m \in Messages \ uncounted : place[m] # to
    BY <2>1 DEF Counted
  <2> QED
    BY <1>2, <1>4, <1>6, <2>2 DEF Counted
<1>12. MessagesAreCounted'
  <2>1. \A m \in Messages : (place[m] = "none") <=> (place'[m] = "none")
    BY <1>2, <1>6 DEF ConvKeys
  <2>2. \A t \in Talks : /\ (place[<<t, "user">>] = "none") <=> (place'[<<t, "user">>] = "none")
                         /\ (place[<<t, "assistant">>] = "none") <=> (place'[<<t, "assistant">>] = "none")
    BY <2>1, MessagesAreFinite
  <2>3. \A m \in uncounted' : place'[m] # "none"
    BY <1>1, <1>4, <2>1, ConvTypes DEF MessagesAreCounted
  <2>4. \A k \in ConvKeys : conv'[k] = NoTalk => Counted(k)' = {}
    BY <1>2, <1>3, <1>5, <1>11
  <2>5. \A t \in Talks :
          /\ talk'[t] \in {"new", "load", "fill", "model", "user"} => place'[<<t, "user">>] = "none"
          /\ talk'[t] \in {"new", "load", "fill", "model", "user", "assistant"} => place'[<<t, "assistant">>] = "none"
          /\ talk'[t] = "new" => count'[t] = 0
    BY <1>1, <1>4, <2>2 DEF MessagesAreCounted
  <2> QED
    BY <2>3, <2>4, <2>5 DEF MessagesAreCounted
<1>13. CountersAgree'
  BY <1>1, <1>2, <1>3, <1>4, <1>5, <1>11 DEF CountersAgree
<1>14. \A t \in Talks : talk[t] \notin {"new", "over"} => t \in crossed
  BY <1>2, <1>3, HeldIsQuiet DEF ConvKeys
<1>15. TurnsWriteHome'
  <2>1. \A t \in Talks : talk'[t] = "new" => \A k \in ConvKeys : t \notin state'[k] /\ memory'[t] # k
    BY <1>1, <1>2, <1>3, <1>4, <1>7 DEF TurnsWriteHome
  <2> QED
    BY <1>1, <1>4, <1>14, <2>1 DEF TurnsWriteHome
<1>16. FoundIsHome'
  <2>1. ASSUME NEW t \in Talks, Left(t, from)' PROVE FALSE
    <3>1. \A role \in {"user", "assistant"} : <<t, role>> \in Messages
      BY DEF Messages
    <3> QED
      BY <1>2, <1>6, <1>7, <2>1, <3>1 DEF Left
  <2>2. ASSUME NEW t \in Talks, Left(t, to)' PROVE Left(t, from) \/ Left(t, to)
    <3>1. \A role \in {"user", "assistant"} : <<t, role>> \in Messages
      BY DEF Messages
    <3> QED
      BY <1>6, <1>7, <2>2, <3>1 DEF Left
  <2>3. \A k \in ConvKeys, t \in Talks : Left(t, k)' /\ t \notin crossed' => conv'[k] = of'[t] /\ of'[t] # NoTalk
    <3> SUFFICES ASSUME NEW k \in ConvKeys, NEW t \in Talks, Left(t, k)', t \notin crossed
                 PROVE  conv'[k] = of[t] /\ of[t] # NoTalk
      BY <1>4
    <3>1. k = to
      BY <1>3, <2>1
    <3>2. CASE Left(t, from)
      BY <1>1, <1>2, <1>5, <3>1, <3>2 DEF FoundIsHome
    <3>3. CASE Left(t, to)
      BY <1>1, <1>2, <3>3 DEF FoundIsHome
    <3> QED
      BY <2>2, <3>1, <3>2, <3>3
  <2>4. \A k \in ConvKeys : cached'[k] # Uncached => cached'[k].by \in crossed'
    BY <1>2, <1>3, <1>4, HeldIsQuiet
  <2> QED
    BY <2>3, <2>4 DEF FoundIsHome
<1> QED
  BY <1>8, <1>10, <1>12, <1>13, <1>15, <1>16 DEF ConvInv

\* A delete takes everything from its key.
LEMMA CommittedDeleteKeeps ==
  ASSUME ConvInv, DeleteCommits
  PROVE  ConvInv'
<1>1. ConvTypeOK /\ KeysAreApart /\ MessagesAreCounted /\ TurnsWriteHome /\ FoundIsHome /\ CountersAgree
  BY DEF ConvInv
<1> DEFINE from == move.from
<1> DEFINE c == conv[from]
<1>2. /\ from \in ConvKeys /\ c # NoTalk /\ Held(from) /\ c \in Talks
      /\ \A k \in ConvKeys : k # from => conv[k] # c
  <2>1. from \in ConvKeys /\ c # NoTalk /\ Held(from)
    BY <1>1, ConvTypes DEF KeysAreApart, DeleteCommits, Held, NoMove
  <2>2. c \in Talks
    BY <1>1, <2>1, ConvTypes, TalkNumbers
  <2>3. conv["main"] # NoTalk => conv["main"] # conv["archive"]
    BY <1>1 DEF KeysAreApart
  <2> QED
    BY <2>1, <2>2, <2>3 DEF ConvKeys
<1>3. /\ UNCHANGED <<fact, cached, talk, seen, link, moves, extras, of, crossed, uncounted>>
      /\ move' = NoMove
      /\ conv' = [conv EXCEPT ![from] = NoTalk]
      /\ place' = [m \in Messages |-> IF place[m] = from THEN "gone" ELSE place[m]]
      /\ state' = [state EXCEPT ![from] = {}]
      /\ memory' = [t \in Talks |-> IF memory[t] = from THEN "gone" ELSE memory[t]]
      /\ secret' = [secret EXCEPT ![from] = NoTalk]
      /\ count' = [count EXCEPT ![c] = 0]
      /\ summary' = [summary EXCEPT ![c] = NoTalk]
  BY DEF DeleteCommits, history
<1> HIDE DEF from, c
<1>4. conv' \in [ConvKeys -> MaybeTalk] /\ conv'[from] = NoTalk /\ \A k \in ConvKeys : k # from => conv'[k] = conv[k]
  BY <1>1, <1>2, <1>3, ConvTypes, TalkNumbers
<1>5. place' \in [Messages -> ConvKeys \union {"none", "gone"}] /\ \A m \in Messages : place'[m] = IF place[m] = from THEN "gone" ELSE place[m]
  BY <1>1, <1>2, <1>3, ConvTypes
<1>6. /\ state' \in [ConvKeys -> SUBSET Talks] /\ state'[from] = {} /\ \A k \in ConvKeys : state'[k] \subseteq state[k]
  BY <1>1, <1>2, <1>3, ConvTypes
<1>7. memory' \in [Talks -> MemoryPlaces] /\ \A t \in Talks : memory'[t] = IF memory[t] = from THEN "gone" ELSE memory[t]
  <2>1. memory \in [Talks -> MemoryPlaces]
    BY <1>1, ConvTypes
  <2> QED
    BY <1>3, <2>1 DEF MemoryPlaces
<1>8. /\ count' \in [Talks -> Nat] /\ \A d \in Talks : d # c => count'[d] = count[d]
      /\ \A d \in Talks : count[d] = 0 => count'[d] = 0
  BY <1>1, <1>2, <1>3, ConvTypes
<1>9. ConvTypeOK'
  <2>1. NoMove \in [kind : {"none", "rename", "delete"}, from : ConvKeys, to : ConvKeys]
    BY DEF NoMove, ConvKeys
  <2>2. summary' \in [Talks -> MaybeTalk] /\ secret' \in [ConvKeys -> MaybeTalk]
    BY <1>1, <1>2, <1>3, ConvTypes, TalkNumbers
  <2> QED
    BY <1>1, <1>3, <1>4, <1>5, <1>6, <1>7, <1>8, <2>1, <2>2 DEF ConvTypeOK, CacheEntry, TalkPlaces, MemoryPlaces
<1>10. \A k : ~Held(k)'
  BY <1>3 DEF Held
<1>11. KeysAreApart'
  <2>1. NoMove.kind = "none"
    BY DEF NoMove
  <2>2. \A k \in ConvKeys : conv'[k] # NoTalk => talk'[conv'[k]] # "new"
    BY <1>1, <1>3, <1>4 DEF KeysAreApart
  <2>3. conv'["main"] # NoTalk => conv'["main"] # conv'["archive"]
    BY <1>1, <1>4 DEF KeysAreApart, ConvKeys
  <2> QED
    BY <1>3, <2>1, <2>2, <2>3 DEF KeysAreApart
<1>12. \A k \in ConvKeys : Counted(k)' = IF k = from THEN {} ELSE Counted(k)
  BY <1>2, <1>3, <1>5 DEF Counted, ConvKeys
<1>13. MessagesAreCounted'
  <2>1. \A m \in Messages : (place[m] = "none") <=> (place'[m] = "none")
    BY <1>2, <1>5 DEF ConvKeys
  <2>2. \A t \in Talks : /\ (place[<<t, "user">>] = "none") <=> (place'[<<t, "user">>] = "none")
                         /\ (place[<<t, "assistant">>] = "none") <=> (place'[<<t, "assistant">>] = "none")
    BY <2>1, MessagesAreFinite
  <2>3. \A m \in uncounted' : place'[m] # "none"
    BY <1>1, <1>3, <2>1, ConvTypes DEF MessagesAreCounted
  <2>4. \A k \in ConvKeys : conv'[k] = NoTalk => Counted(k)' = {}
    BY <1>1, <1>4, <1>12 DEF MessagesAreCounted
  <2>5. \A t \in Talks :
          /\ talk'[t] \in {"new", "load", "fill", "model", "user"} => place'[<<t, "user">>] = "none"
          /\ talk'[t] \in {"new", "load", "fill", "model", "user", "assistant"} => place'[<<t, "assistant">>] = "none"
          /\ talk'[t] = "new" => count'[t] = 0
    BY <1>1, <1>3, <1>8, <2>2 DEF MessagesAreCounted
  <2> QED
    BY <2>3, <2>4, <2>5 DEF MessagesAreCounted
<1>14. CountersAgree'
  <2> SUFFICES ASSUME NEW k \in ConvKeys, conv'[k] # NoTalk
               PROVE  count'[conv'[k]] = Cardinality(Counted(k)')
    BY DEF CountersAgree
  <2>1. k # from /\ conv'[k] = conv[k] /\ conv[k] # c
    BY <1>2, <1>4
  <2>2. conv[k] \in Talks
    BY <1>4, <2>1, TalkNumbers
  <2>3. count[conv[k]] = Cardinality(Counted(k))
    BY <1>1, <2>1 DEF CountersAgree
  <2> QED
    BY <1>8, <1>12, <2>1, <2>2, <2>3
<1>15. TurnsWriteHome'
  <2>1. \A t \in Talks : talk'[t] = "new" => \A k \in ConvKeys : t \notin state'[k] /\ memory'[t] # k
    BY <1>1, <1>3, <1>6, <1>7 DEF TurnsWriteHome
  <2>2. \A t \in Talks : talk[t] \notin {"new", "over"} /\ t \notin crossed => conv'["main"] = conv["main"]
    BY <1>2, <1>4, HeldIsQuiet DEF ConvKeys
  <2> QED
    BY <1>1, <1>3, <1>10, <2>1, <2>2 DEF TurnsWriteHome
<1>16. FoundIsHome'
  <2>1. ASSUME NEW k \in ConvKeys, NEW t \in Talks, Left(t, k)' PROVE k # from /\ Left(t, k)
    <3>1. \A role \in {"user", "assistant"} : <<t, role>> \in Messages
      BY DEF Messages
    <3>2. from # "gone" /\ k # "gone"
      BY <1>2 DEF ConvKeys
    <3> QED
      BY <1>2, <1>5, <1>6, <1>7, <2>1, <3>1, <3>2 DEF Left
  <2>2. \A k \in ConvKeys, t \in Talks : Left(t, k)' /\ t \notin crossed' => conv'[k] = of'[t] /\ of'[t] # NoTalk
    BY <1>1, <1>3, <1>4, <2>1 DEF FoundIsHome
  <2>3. \A k \in ConvKeys : cached'[k] # Uncached /\ cached'[k].by \notin crossed' =>
          conv'[k] = cached'[k].of /\ conv'[k] # NoTalk
    BY <1>1, <1>2, <1>3, <1>4, HeldIsQuiet DEF FoundIsHome
  <2> QED
    BY <1>10, <2>2, <2>3 DEF FoundIsHome
<1> QED
  BY <1>9, <1>11, <1>13, <1>14, <1>15, <1>16 DEF ConvInv

-----------------------------------------------------------------------------
(* Theorems.                                                               *)

\* The invariant holds of every conversation, for any number of turns and moves.
THEOREM ConvIsInvariant == ConvSpec => []ConvInv
<1>1. ConvInv /\ [ConvNext]_convVars => ConvInv'
  <2> SUFFICES ASSUME ConvInv, [ConvNext]_convVars PROVE ConvInv'
    OBVIOUS
  <2>1. CASE \E t \in Talks : Begin(t) \/ BeginFails(t)
    BY <2>1, BeginKeeps
  <2>2. CASE \E t \in Talks : Load(t)
    BY <2>2, LoadKeeps
  <2>3. CASE \E t \in Talks : FillCache(t) \/ CacheSummary(t)
    BY <2>3, FillKeeps
  <2>4. CASE \E t \in Talks : FlushState(t) \/ Remember(t)
    BY <2>4, WriteKeeps
  <2>5. CASE \E t \in Talks : UpdateSummary(t) \/ Discard(t) \/ AppendFails(t)
    BY <2>5, SummaryKeeps
  <2>6. CASE \E t \in Talks : AppendUser(t) \/ AppendAssistant(t)
    BY <2>6, AppendKeeps
  <2>7. CASE (\E t \in Talks : GiveLink(t) \/ Callback(t) \/ MergeOther(t)) \/ (\E k \in ConvKeys : EvictSummary(k))
    BY <2>7, LinkKeeps
  <2>8. CASE \E kind \in {"rename", "delete"}, from, to \in ConvKeys : StartMove(kind, from, to)
    BY <2>8, StartMoveKeeps
  <2>9. CASE RenameCommits
    BY <2>9, RenameKeeps
  <2>10. CASE RenameAborts
    BY <2>10, AbortKeeps
  <2>11. CASE DeleteCommits
    BY <2>11, CommittedDeleteKeeps
  <2>12. CASE UNCHANGED convVars
    BY <2>12 DEF convVars, ConvInv, ConvTypeOK, KeysAreApart, MessagesAreCounted, TurnsWriteHome,
                 FoundIsHome, CountersAgree, Counted, Left, Held
  <2> QED
    BY <2>1, <2>2, <2>3, <2>4, <2>5, <2>6, <2>7, <2>8, <2>9, <2>10, <2>11, <2>12 DEF ConvNext
<1> QED
  BY <1>1, ConvInvInit, PTL DEF ConvSpec

\* message_count is the number of the conversation's messages (appendMessages, store.ts),
\* for any number of turns, renames and deletes.
THEOREM CountersAreRight == ConvSpec => []CountersAgree
<1>1. ConvInv => CountersAgree
  BY DEF ConvInv
<1> QED
  BY <1>1, ConvIsInvariant, PTL

\* Only a turn that was under way while its key was moved leaves rows, or a cached summary,
\* with another conversation than its own (renameConversation and deleteConversation,
\* store.ts): memories are rows of the turn that inserted them, whatever is merged into them.
THEOREM OnlyCrossedTurnsStray == ConvSpec => []OnlyLateWritesStray
<1>1. ConvInv => OnlyLateWritesStray
  <2>1. ConvInv => FoundIsHome
    BY DEF ConvInv
  <2>2. FoundIsHome => OnlyLateWritesStray
    BY DEF FoundIsHome, OnlyLateWritesStray
  <2> QED
    BY <2>1, <2>2
<1> QED
  BY <1>1, ConvIsInvariant, PTL
=============================================================================
