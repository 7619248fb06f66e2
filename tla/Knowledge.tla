----------------------------- MODULE Knowledge -----------------------------
(***************************************************************************)
(* One document of an agent's knowledge base (knowledge/): the writes of   *)
(* its text, each of which starts an ingestion that nothing waits for, the *)
(* chunks the ingestions store for search, the operator's changes and the  *)
(* sweep of documents that look busy for too long.  A step is a database   *)
(* statement or transaction.                                               *)
(***************************************************************************)
EXTENDS Naturals

CONSTANTS
  MaxTexts,     \* bound: texts written
  EmptyTexts,   \* those without a chunk
  Batches,      \* batches of embeddings of a text
  Patience,     \* ticks without progress before a document is abandoned
  MaxMishaps,   \* bound: calls that fail, processes that stop
  MaxToggles    \* bound: the operator's switches of "enabled"

\* The document's texts, one after the other.
Texts == 1..MaxTexts

ASSUME KnowledgeAssumption ==
  /\ MaxTexts \in Nat /\ EmptyTexts \subseteq Texts
  /\ Batches \in Nat /\ Patience \in Nat /\ MaxMishaps \in Nat /\ MaxToggles \in Nat

VARIABLES
  doc,        \* the row: absent, processing, ready, error, gone
  text,       \* raw_content: the last text written, 0 before the first
  chunks,     \* knowledge_chunks: how often the chunks of each text are stored
  quiet,      \* ticks since updated_at
  ingest,     \* the ingestion of each text
  embedded,   \* batches it has embedded
  deleting,   \* deleteDocument has deleted the chunks, and not yet the row
  mishaps,    \* mishaps so far
  toggles,    \* switches so far
  overlap     \* history: a text was written while an ingestion was at work, and no
              \* ingestion of the last text has begun it over alone since

docVars == <<doc, text, chunks, quiet, ingest, embedded, deleting, mishaps, toggles, overlap>>

KnowledgeInit ==
  /\ doc = "absent"
  /\ text = 0
  /\ chunks = [v \in Texts |-> 0]
  /\ quiet = 0
  /\ ingest = [v \in Texts |-> "none"]
  /\ embedded = [v \in Texts |-> 0]
  /\ deleting = FALSE
  /\ mishaps = 0
  /\ toggles = 0
  /\ overlap = FALSE

Exists == doc \notin {"absent", "gone"}
AtWork(v) == ingest[v] \notin {"none", "over"}
Mishap == mishaps < MaxMishaps /\ mishaps' = mishaps + 1

\* updateDocumentStatus: no effect on a row that is gone.
SetStatus(s) ==
  /\ doc' = IF Exists THEN s ELSE doc
  /\ quiet' = 0

Ingestion(v, from, to) ==
  /\ ingest[v] = from
  /\ ingest' = [ingest EXCEPT ![v] = to]

-----------------------------------------------------------------------------
\* An upload or import (createDocument), or the tool's write or append, which also
\* replaces the text of a document that exists (writeAgentDocument).
WriteText ==
  /\ doc # "gone"
  /\ text < MaxTexts
  /\ text' = text + 1
  /\ doc' = "processing"
  /\ quiet' = 0
  /\ ingest' = [ingest EXCEPT ![text'] = "mark"]
  /\ overlap' = (overlap \/ \E v \in Texts : AtWork(v))
  /\ UNCHANGED <<chunks, embedded, deleting, mishaps, toggles>>

\* processDocument ...
Mark(v) ==
  /\ Ingestion(v, "mark", "clear")
  /\ SetStatus("processing")
  /\ UNCHANGED <<text, chunks, embedded, deleting, mishaps, toggles, overlap>>

\* Mutant: the chunks of an earlier text stay.
KeepChunks(v) == Ingestion(v, "clear", "embed") /\ UNCHANGED chunks

\* ... deletes the chunks of any earlier ingestion, "Reindex-safe" ...
Clear(v) ==
  /\ Ingestion(v, "clear", "embed")
  /\ chunks' = [u \in Texts |-> 0]

ClearChunks(v) ==
  /\ Clear(v)
  /\ overlap' = (overlap /\ (v # text \/ doc = "ready" \/ \E u \in Texts \ {v} : AtWork(u)))
  /\ UNCHANGED <<doc, text, quiet, embedded, deleting, mishaps, toggles>>

\* ... is over when there is nothing to embed ...
EmptyIsReady(v) ==
  /\ v \in EmptyTexts
  /\ Ingestion(v, "embed", "over")
  /\ SetStatus("ready")
  /\ UNCHANGED <<text, chunks, embedded, deleting, mishaps, toggles, overlap>>

\* ... or embeds the chunks batch by batch and touches the row after each, if it is
\* still busy ...
EmbedBatch(v) ==
  /\ v \notin EmptyTexts
  /\ embedded[v] < Batches
  /\ Ingestion(v, "embed", "embed")
  /\ embedded' = [embedded EXCEPT ![v] = @ + 1]
  /\ quiet' = IF doc = "processing" THEN 0 ELSE quiet
  /\ UNCHANGED <<doc, text, chunks, deleting, mishaps, toggles, overlap>>

\* ... and stores them and the status in one transaction; for a row that is gone it
\* fails.
StoreChunks(v) ==
  /\ v \notin EmptyTexts
  /\ embedded[v] = Batches
  /\ Ingestion(v, "embed", IF Exists THEN "over" ELSE "fail")
  /\ chunks' = IF Exists THEN [chunks EXCEPT ![v] = @ + 1] ELSE chunks
  /\ IF Exists THEN SetStatus("ready") ELSE UNCHANGED <<doc, quiet>>
  /\ UNCHANGED <<text, embedded, deleting, mishaps, toggles, overlap>>

\* Any of these calls may throw ...
IngestionThrows(v) ==
  /\ Mishap
  /\ AtWork(v) /\ ingest[v] # "fail"
  /\ ingest' = [ingest EXCEPT ![v] = "fail"]
  /\ UNCHANGED <<doc, text, chunks, quiet, embedded, deleting, toggles, overlap>>

\* ... and then the status is set to error ...
MarkError(v) ==
  /\ Ingestion(v, "fail", "over")
  /\ SetStatus("error")
  /\ UNCHANGED <<text, chunks, embedded, deleting, mishaps, toggles, overlap>>

\* ... unless that throws too, or the process stopped.
IngestionLost(v) ==
  /\ Mishap
  /\ AtWork(v)
  /\ ingest' = [ingest EXCEPT ![v] = "over"]
  /\ UNCHANGED <<doc, text, chunks, quiet, embedded, deleting, toggles, overlap>>

\* setDocumentEnabled counts as progress too.
Toggle ==
  /\ Exists
  /\ toggles < MaxToggles
  /\ toggles' = toggles + 1
  /\ quiet' = 0
  /\ UNCHANGED <<doc, text, chunks, ingest, embedded, deleting, mishaps, overlap>>

\* deleteDocument: the chunks, then the row and by the foreign key what came meanwhile.
DeleteChunks ==
  /\ Exists /\ ~deleting
  /\ deleting' = TRUE
  /\ chunks' = [v \in Texts |-> 0]
  /\ UNCHANGED <<doc, text, quiet, ingest, embedded, mishaps, toggles, overlap>>

DeleteRow ==
  /\ deleting
  /\ deleting' = FALSE
  /\ doc' = "gone"
  /\ chunks' = [v \in Texts |-> 0]
  /\ quiet' = 0
  /\ UNCHANGED <<text, ingest, embedded, mishaps, toggles, overlap>>

\* Mutant: only uploads under way are looked at.
BusyUploading == doc = "uploading"

Busy == doc = "processing"

\* resetStuckProcessingAll, at every boot and then periodically.
SweepStuck ==
  /\ Busy
  /\ quiet > Patience
  /\ SetStatus("error")
  /\ UNCHANGED <<text, chunks, ingest, embedded, deleting, mishaps, toggles, overlap>>

DocTick ==
  /\ Exists
  /\ quiet <= Patience
  /\ quiet' = quiet + 1
  /\ UNCHANGED <<doc, text, chunks, ingest, embedded, deleting, mishaps, toggles, overlap>>

KnowledgeNext ==
  \/ WriteText \/ Toggle \/ DeleteChunks \/ DeleteRow \/ SweepStuck \/ DocTick
  \/ \E v \in Texts :
       \/ Mark(v) \/ ClearChunks(v) \/ EmptyIsReady(v) \/ EmbedBatch(v) \/ StoreChunks(v)
       \/ IngestionThrows(v) \/ MarkError(v) \/ IngestionLost(v)

KnowledgeSpec == KnowledgeInit /\ [][KnowledgeNext]_docVars

\* Time passes and the sweep recurs.  An ingestion need not go on.
KnowledgeFairness == WF_docVars(DocTick) /\ WF_docVars(SweepStuck)

-----------------------------------------------------------------------------
(* Properties.                                                             *)

KnowledgeTypeOK ==
  /\ doc \in {"absent", "processing", "ready", "error", "gone"}
  /\ text \in 0..MaxTexts
  /\ chunks \in [Texts -> Nat]
  /\ quiet \in 0..Patience + 1
  /\ ingest \in [Texts -> {"none", "mark", "clear", "embed", "fail", "over"}]
  /\ embedded \in [Texts -> 0..Batches]
  /\ deleting \in BOOLEAN
  /\ mishaps \in 0..MaxMishaps
  /\ toggles \in 0..MaxToggles
  /\ overlap \in BOOLEAN

\* Exactly the chunks of the present text are stored, once.
Indexed ==
  \A v \in Texts : chunks[v] = IF v = text /\ v \notin EmptyTexts THEN 1 ELSE 0

\* Unless ingestions overlapped, a document is never ready with other chunks than its
\* text's, whatever failed, was swept or was swept too early, and search never sees the
\* chunks of two texts; and never those of a document that is gone.
ReadyIsIndexed ==
  /\ doc = "gone" => \A v \in Texts : chunks[v] = 0
  /\ ~overlap =>
       /\ doc = "ready" /\ ~deleting /\ (\A v \in Texts : ~AtWork(v)) => Indexed
       /\ \A u, v \in Texts : chunks[u] > 0 /\ chunks[v] > 0 => u = v /\ chunks[u] = 1

\* A document never looks busy for ever, whatever became of its ingestion.
NoDocumentStaysBusy == doc = "processing" ~> doc # "processing"

\* An ingestion is "Reindex-safe" and leaves a document "never 'ready' with incomplete
\* data" (ingestion.ts:38, 23): when all are over, a ready document has its text's chunks.
ReadyMeansIndexed ==
  doc = "ready" /\ ~deleting /\ (\A v \in Texts : ~AtWork(v)) => Indexed

-----------------------------------------------------------------------------
(* The invariant.                                                          *)

Nothing == \A v \in Texts : chunks[v] = 0

\* Of texts that did not overlap only the last is at work; between its Clear and its
\* StoreChunks nothing is stored, and what is ready is over and indexed.
LastIsAlone ==
  ~overlap =>
    /\ \A v \in Texts : AtWork(v) => v = text
    /\ (\E v \in Texts : ingest[v] = "embed") => Nothing
    /\ \A u, v \in Texts : chunks[u] > 0 /\ chunks[v] > 0 => u = v /\ chunks[u] = 1
    /\ doc = "ready" => (\A v \in Texts : ~AtWork(v)) /\ (deleting \/ Indexed)

KnowledgeInv ==
  /\ KnowledgeTypeOK
  /\ ~Exists => Nothing
  /\ LastIsAlone
=============================================================================
