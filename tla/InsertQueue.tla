---------------------------- MODULE InsertQueue ----------------------------
(***************************************************************************)
(* BufferedInsertQueue (utils/buffered-insert-queue.ts): the rows of a log *)
(* table are buffered and written in batches, one by one when a batch      *)
(* fails.  Rows are numbered in the order they are pushed.                 *)
(***************************************************************************)
EXTENDS Naturals, Sequences, Functions

CONSTANTS
  MaxRows,      \* bound: rows pushed
  MaxBuffer,    \* maxBuffer
  BatchAt,      \* batchAt
  MaxOutages    \* bound: statements that fail though their rows are good

Rows == 1..MaxRows

ASSUME QueueAssumption ==
  MaxRows \in Nat /\ MaxBuffer \in Nat \ {0} /\ BatchAt \in Nat \ {0} /\ MaxOutages \in Nat

VARIABLES
  queued,     \* buffer
  batch,      \* the rows the write under way took
  index,      \* those of them that are settled
  flight,     \* the write: none, batch (one INSERT of all) or rows (one by one)
  life,       \* off (not yet initialized), on, then shutdown: first, second flush, over
  pushed,     \* rows pushed so far
  outages,    \* outages so far
  bad,        \* rows the database refuses
  table,      \* how many times each row is in the table
  refused,    \* rows reported as refused
  dropped,    \* rows dropped by the cap
  unsure,     \* history: rows of a statement whose effect was not known
  kept        \* history: rows that a shutdown without an outage must write

queueVars == <<queued, batch, index, flight, life, pushed, outages, bad, table,
               refused, dropped, unsure, kept>>

QueueInit ==
  /\ queued = <<>>
  /\ batch = <<>>
  /\ index = 0
  /\ flight = "none"
  /\ life \in {"off", "on"}
  /\ pushed = 0
  /\ outages = 0
  /\ bad \in SUBSET Rows
  /\ table = [r \in Rows |-> 0]
  /\ refused = {}
  /\ dropped = {}
  /\ unsure = {}
  /\ kept = {}

-----------------------------------------------------------------------------
\* flush(): takes the whole buffer, unless a write is under way, there is nothing to
\* write, or no database yet.
Take(rows) ==
  IF life # "off" /\ flight = "none" /\ rows # <<>>
    THEN /\ batch' = rows
         /\ queued' = <<>>
         /\ flight' = "batch"
    ELSE /\ queued' = rows
         /\ UNCHANGED <<batch, flight>>

\* push: a full batch is flushed at once.
Push ==
  /\ pushed < MaxRows
  /\ pushed' = pushed + 1
  /\ LET rows == Append(queued, pushed') IN
       IF Len(rows) >= BatchAt THEN Take(rows)
       ELSE queued' = rows /\ UNCHANGED <<batch, flight>>
  /\ UNCHANGED <<index, life, outages, bad, table, refused, dropped, unsure, kept>>

\* Boot: the queue gets its database, and the interval starts.
Initialize ==
  /\ life = "off"
  /\ life' = "on"
  /\ UNCHANGED <<queued, batch, index, flight, pushed, outages, bad, table, refused, dropped, unsure, kept>>

\* The interval's flush, until shutdown.
Interval ==
  /\ life = "on"
  /\ flight = "none"
  /\ queued # <<>>
  /\ Take(queued)
  /\ UNCHANGED <<index, life, pushed, outages, bad, table, refused, dropped, unsure, kept>>

\* The database executes an INSERT of these rows, all or none of them.
Insert(rows) == table' = [r \in Rows |-> IF r \in rows THEN table[r] + 1 ELSE table[r]]

\* A statement fails though its rows are good: not executed, or executed and the
\* answer lost.
Outage(rows) ==
  /\ outages < MaxOutages
  /\ outages' = outages + 1
  /\ kept' = {}
  /\ \/ rows \intersect bad = {} /\ Insert(rows) /\ unsure' = unsure \union rows
     \/ UNCHANGED <<table, unsure>>

\* Mutant: rows that go back are put behind the newer ones.
BackBehind(rows) == queued \o rows

\* Rows that go back are the oldest.
Back(rows) == rows \o queued

\* Mutant: the whole batch goes back, also what is settled.
WholeBatch(n) == batch

\* rows.slice(index).
Remainder(n) == SubSeq(batch, n + 1, Len(batch))

\* The write is over with n rows settled; the rest goes back, under the cap.
Over(n) ==
  LET all  == IF n = Len(batch) THEN queued ELSE Back(Remainder(n))
      over == IF n < Len(batch) /\ Len(all) > MaxBuffer THEN Len(all) - MaxBuffer ELSE 0
  IN  /\ queued' = SubSeq(all, over + 1, Len(all))
      /\ dropped' = dropped \union Range(SubSeq(all, 1, over))
      /\ batch' = <<>>
      /\ index' = 0
      /\ flight' = "none"

\* The batch's INSERT: done, refused for one of its rows, or failed otherwise.
BatchDone ==
  /\ flight = "batch"
  /\ Range(batch) \intersect bad = {}
  /\ Insert(Range(batch))
  /\ Over(Len(batch))
  /\ UNCHANGED <<life, pushed, outages, bad, refused, unsure, kept>>

OneByOne == flight' = "rows" /\ UNCHANGED <<queued, dropped, batch, index>>

\* Mutant: a single row that is refused goes back like any other.
SingleGoesBack == Over(0) /\ UNCHANGED refused

\* A batch of one row is refused as that row would be in the fallback.
SingleRefused == Over(1) /\ refused' = refused \union Range(batch)

BatchRefused ==
  /\ flight = "batch"
  /\ Range(batch) \intersect bad # {}
  /\ IF Len(batch) > 1 THEN OneByOne /\ UNCHANGED refused ELSE SingleRefused
  /\ UNCHANGED <<life, pushed, outages, bad, table, unsure, kept>>

BatchFails ==
  /\ flight = "batch"
  /\ Outage(Range(batch))
  /\ IF Len(batch) > 1 THEN OneByOne ELSE Over(0)
  /\ UNCHANGED <<life, pushed, bad, refused>>

\* The fallback's next row: written, refused, or failed otherwise, which ends it.
RowSettled ==
  LET row == batch[index + 1] IN
  /\ flight = "rows"
  /\ IF row \in bad THEN refused' = refused \union {row} /\ UNCHANGED table
     ELSE Insert({row}) /\ UNCHANGED refused
  /\ IF index + 1 < Len(batch)
       THEN index' = index + 1 /\ UNCHANGED <<queued, dropped, batch, flight>>
       ELSE Over(Len(batch))
  /\ UNCHANGED <<life, pushed, outages, bad, unsure, kept>>

RowFails ==
  /\ flight = "rows"
  /\ Outage({batch[index + 1]})
  /\ Over(index)
  /\ UNCHANGED <<life, pushed, bad, refused>>

\* Mutant: one flush.
OneFlush(c) == "over"

NextFlush(c) == IF c = "first" THEN "second" ELSE "over"

\* shutdown: a flush, which may be the one under way, is awaited, and then another.
CloseQueue ==
  /\ life = "on"
  /\ life' = "first"
  /\ Take(queued)
  /\ kept' = 1..pushed
  /\ UNCHANGED <<index, pushed, outages, bad, table, refused, dropped, unsure>>

CloseGoesOn ==
  /\ life \in {"first", "second"}
  /\ flight = "none"
  /\ life' = NextFlush(life)
  /\ IF life' = "second" THEN Take(queued) ELSE UNCHANGED <<queued, batch, flight>>
  /\ UNCHANGED <<index, pushed, outages, bad, table, refused, dropped, unsure, kept>>

Settle == BatchDone \/ BatchRefused \/ BatchFails \/ RowSettled \/ RowFails

QueueNext == Initialize \/ Push \/ Interval \/ Settle \/ CloseQueue \/ CloseGoesOn

QueueSpec == QueueInit /\ [][QueueNext]_queueVars

\* The boot comes to the queues, the interval ticks, statements are answered and the
\* shutdown goes on; outages end.
QueueFairness ==
  /\ WF_queueVars(Initialize)
  /\ WF_queueVars(Interval)
  /\ WF_queueVars(Settle)
  /\ WF_queueVars(CloseGoesOn)

-----------------------------------------------------------------------------
(* Properties.                                                             *)

QueueTypeOK ==
  /\ queued \in Seq(Rows)
  /\ batch \in Seq(Rows)
  /\ index \in Nat
  /\ flight \in {"none", "batch", "rows"}
  /\ flight = "none" <=> batch = <<>>
  /\ flight = "rows" => index < Len(batch)
  /\ flight # "rows" => index = 0
  /\ life \in {"off", "on", "first", "second", "over"}
  /\ pushed \in 0..MaxRows
  /\ outages \in 0..MaxOutages
  /\ bad \subseteq Rows
  /\ table \in [Rows -> Nat]
  /\ refused \subseteq Rows
  /\ dropped \subseteq Rows
  /\ unsure \subseteq Rows
  /\ kept \subseteq Rows

\* The rows still to be written, in their order.
Waiting == SubSeq(batch, index + 1, Len(batch)) \o queued

Stored == {r \in Rows : table[r] > 0}

Times(b) == IF b THEN 1 ELSE 0

\* Whatever fails, and however a fallback is interrupted, every row is in one place once:
\* to be written, in the table, refused, or dropped by the cap, which only outages can
\* fill.  A row is written twice only if the answer to a statement that wrote it was lost.
EveryRowAccountedFor ==
  /\ \A r \in Rows :
       LET times == Times(r \in Range(Waiting)) + table[r] + Times(r \in refused) + Times(r \in dropped)
       IN  IF r \in unsure THEN times >= 1 ELSE times = Times(r <= pushed)
  /\ refused \subseteq bad
  /\ dropped # {} => outages > 0

\* Rows wait in the order they were pushed, those of the write under way first: what
\* the cap drops is always the oldest.
OldestFirst ==
  \A i, j \in DOMAIN Waiting : i < j => Waiting[i] < Waiting[j]

\* The rows that were written or refused and are done with: a row that was written and
\* whose answer was lost still waits.
Reported == (Stored \union refused) \ (Range(Waiting) \union dropped)

\* Rows leave the buffer from the oldest on, the cap's too, which takes no row it need not,
\* and none comes back: batches, fallbacks and retries are not seen from outside.
Log == INSTANCE RowLog WITH
         Cap     <- MaxBuffer,
         newest  <- pushed,
         waiting <- Waiting,
         settled <- Reported,
         lost    <- dropped

ImplementsLog == Log!Spec

\* When a shutdown that met no outage is over, every row pushed before it was settled.
ShutdownWritesWhatIsLeft ==
  life = "over" => kept \intersect Range(Waiting) = {}

\* As long as the process runs, and once outages end, every row is settled: a row that
\* is refused does not hold back those behind it.
EveryRowIsSettled ==
  \A r \in Rows : pushed >= r ~> (r \in Stored \union refused \union dropped \/ life \notin {"off", "on"})

\* "Buffered rows beyond this are dropped, oldest first" (maxBuffer).
BufferIsBounded == Len(queued) <= MaxBuffer

-----------------------------------------------------------------------------
(* The invariant.                                                          *)

\* Rows wait once they are pushed.
WaitingIsPushed == \A i \in DOMAIN Waiting : Waiting[i] <= pushed

\* The rows a shutdown found are out of the buffer when its second flush has begun, and
\* settled when it is over.
KeptIsTaken ==
  /\ kept \subseteq 1..pushed
  /\ life = "second" => kept \intersect Range(queued) = {}
  /\ life = "over" => kept \intersect Range(Waiting) = {}

\* A row that was dropped does not wait again, and what is dropped or unsure was pushed.
DroppedIsGone ==
  /\ dropped \union unsure \subseteq 1..pushed
  /\ dropped \intersect Range(Waiting) = {}

QueueInv ==
  /\ QueueTypeOK
  /\ OldestFirst
  /\ WaitingIsPushed
  /\ EveryRowAccountedFor
  /\ DroppedIsGone
  /\ KeptIsTaken
=============================================================================
