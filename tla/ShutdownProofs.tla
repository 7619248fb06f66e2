---------------------------- MODULE ShutdownProofs ----------------------------
(***************************************************************************)
(* Proofs about GracefulShutdown, for any set of requests and any number   *)
(* of failing steps: a turn acknowledged before the drain is over is served *)
(* within the grace period, and its log row written.  And about InsertQueue, *)
(* for every size of buffer and batch: every row is waiting, written or    *)
(* counted as dropped, and what waits is in the order it was pushed.       *)
(***************************************************************************)
EXTENDS GracefulShutdown, InsertQueue, SequenceTheorems, TLAPS

-----------------------------------------------------------------------------
(* GracefulShutdown.                                                       *)

LEMMA ShutdownInvInit == ShutdownInit => ShutdownInv
<1> SUFFICES ASSUME ShutdownInit PROVE ShutdownInv
  OBVIOUS
<1>1. ShutdownTypeOK
  <2>1. /\ call \in [Calls -> {"none", "open", "turn", "over", "cut"}]
        /\ row \in [Calls -> {"none", "buffered", "written", "late"}]
    BY DEF ShutdownInit
  <2>2. 0 \in 0..MaxFailures
    BY ShutdownAssumption
  <2>3. FALSE \in BOOLEAN
    OBVIOUS
  <2> QED
    BY <2>1, <2>2, <2>3 DEF ShutdownInit, ShutdownTypeOK
<1>2. ClosedInOrder /\ DrainedIsOver /\ OwedRowsAreKept
  BY DEF ShutdownInit, ClosedInOrder, DrainedIsOver, OwedRowsAreKept
<1> QED
  BY <1>1, <1>2 DEF ShutdownInv

-----------------------------------------------------------------------------
(* Requests and turns.                                                     *)

\* A request that arrives, is answered or acknowledged.
LEMMA RequestKeeps ==
  ASSUME ShutdownInv, NEW c \in Calls, Arrive(c) \/ Respond(c) \/ Acknowledge(c)
  PROVE  ShutdownInv'
<1>1. PICK s \in {"open", "over", "turn"} : call' = [call EXCEPT ![c] = s]
  BY DEF Arrive, Respond, Acknowledge
<1>2. /\ call[c] \in {"none", "open"} /\ http # "closed"
      /\ UNCHANGED <<row, step, http, drain, awaited, grace, failures>>
  BY DEF Arrive, Respond, Acknowledge, ShutdownInv, ClosedInOrder
<1>3. c \notin owed
  BY <1>2 DEF ShutdownInv, DrainedIsOver
<1>4. /\ call' \in [Calls -> {"none", "open", "turn", "over", "cut"}] /\ call'[c] = s
      /\ \A d \in Calls : d # c => call'[d] = call[d]
  BY <1>1 DEF ShutdownInv, ShutdownTypeOK
<1>5. /\ owed \subseteq Calls /\ owed' \subseteq owed \union {c}
      /\ c \in owed' => s = "turn" /\ drain # "over"
  <2>1. CASE Arrive(c) \/ Respond(c)
    BY <1>3, <2>1 DEF Arrive, Respond, ShutdownInv, ShutdownTypeOK
  <2>2. CASE Acknowledge(c)
    BY <1>1, <1>3, <1>4, <2>2 DEF Acknowledge, ShutdownInv, ShutdownTypeOK
  <2> QED
    BY <2>1, <2>2
<1>6. ShutdownTypeOK'
  BY <1>2, <1>4, <1>5 DEF ShutdownInv, ShutdownTypeOK
<1>7. ClosedInOrder'
  BY <1>2 DEF ShutdownInv, ClosedInOrder
<1>8. DrainedIsOver'
  BY <1>2, <1>4, <1>5 DEF ShutdownInv, DrainedIsOver
<1>9. OwedRowsAreKept'
  BY <1>2, <1>3, <1>4, <1>5 DEF ShutdownInv, OwedRowsAreKept, ClosedInOrder
<1> QED
  BY <1>6, <1>7, <1>8, <1>9 DEF ShutdownInv

\* A turn that ends leaves its row: an owed one before the queues are shut down.
LEMMA TurnOfCallEndsKeeps ==
  ASSUME ShutdownInv, NEW c \in Calls, TurnOfCallEnds(c)
  PROVE  ShutdownInv'
<1>1. /\ call[c] = "turn" /\ step # "exit" /\ call' = [call EXCEPT ![c] = "over"]
      /\ row' = [row EXCEPT ![c] = IF step = "gateway" THEN "late" ELSE "buffered"]
      /\ UNCHANGED <<step, http, drain, awaited, grace, failures, owed>>
  BY DEF TurnOfCallEnds
<1>2. /\ call' \in [Calls -> {"none", "open", "turn", "over", "cut"}] /\ call'[c] = "over"
      /\ \A d \in Calls : d # c => call'[d] = call[d]
  BY <1>1 DEF ShutdownInv, ShutdownTypeOK
<1>3. /\ row' \in [Calls -> {"none", "buffered", "written", "late"}]
      /\ step # "gateway" => row'[c] = "buffered"
      /\ \A d \in Calls : d # c => row'[d] = row[d]
  BY <1>1 DEF ShutdownInv, ShutdownTypeOK
<1>4. ShutdownTypeOK'
  BY <1>1, <1>2, <1>3 DEF ShutdownInv, ShutdownTypeOK
<1>5. ClosedInOrder' /\ DrainedIsOver'
  BY <1>1, <1>2 DEF ShutdownInv, ShutdownTypeOK, ClosedInOrder, DrainedIsOver
<1>6. c \in owed /\ ~grace => step # "gateway"
  BY <1>1 DEF ShutdownInv, ClosedInOrder, DrainedIsOver
<1>7. OwedRowsAreKept'
  BY <1>1, <1>2, <1>3, <1>6 DEF ShutdownInv, ShutdownTypeOK, OwedRowsAreKept
<1> QED
  BY <1>4, <1>5, <1>7 DEF ShutdownInv

\* Writing what the queues hold keeps what is owed, whether a flush or the interval does it.
LEMMA WrittenRows ==
  ASSUME ShutdownInv, Written
  PROVE  /\ row' \in [Calls -> {"none", "buffered", "written", "late"}]
         /\ \A c \in Calls : row[c] \in {"buffered", "written"} => row'[c] = "written"
  BY DEF ShutdownInv, ShutdownTypeOK, Written

LEMMA RowsWrittenKeeps ==
  ASSUME ShutdownInv, RowsWritten
  PROVE  ShutdownInv'
<1>1. /\ step \notin {"gateway", "exit"} /\ Written
      /\ UNCHANGED <<call, step, http, drain, awaited, grace, failures, owed>>
  BY DEF RowsWritten
<1>2. ShutdownTypeOK' /\ ClosedInOrder' /\ DrainedIsOver'
  BY <1>1, WrittenRows DEF ShutdownInv, ShutdownTypeOK, ClosedInOrder, DrainedIsOver
<1>3. OwedRowsAreKept'
  BY <1>1, WrittenRows DEF ShutdownInv, ShutdownTypeOK, OwedRowsAreKept
<1> QED
  BY <1>2, <1>3 DEF ShutdownInv

-----------------------------------------------------------------------------
(* The shutdown.                                                           *)

\* The drain is over only when no turn runs.
LEMMA DrainKeeps ==
  ASSUME ShutdownInv, Signal \/ DrainWakes
  PROVE  ShutdownInv'
<1>1. /\ DrainLoop /\ UNCHANGED <<call, row, grace, failures, owed>>
      /\ step \notin {"gateway", "exit"} /\ step' \in {step, "wait"}
      /\ http' \in {http, "closing"} /\ (step = "up" /\ step' = "wait" => http' = "closing")
      /\ http' = "closed" => http = "closed"
      /\ step' \notin {"up", "wait"} => step' = step /\ http' = http /\ drain = "waiting"
      /\ step' # "up" /\ step # "up" => http' = http
  BY DEF Signal, DrainWakes, DrainAgain, ShutdownInv, ClosedInOrder
<1>2. /\ awaited' = Running /\ drain' \in {"waiting", "over"}
      /\ drain' = "over" => Running = {}
  BY <1>1 DEF DrainLoop
<1>3. Running \subseteq Calls
  BY DEF Running
<1>4. ShutdownTypeOK'
  BY <1>1, <1>2, <1>3 DEF ShutdownInv, ShutdownTypeOK
<1>5. ClosedInOrder'
  BY <1>1, <1>2 DEF ShutdownInv, ShutdownTypeOK, ClosedInOrder
<1>6. DrainedIsOver'
  BY <1>1, <1>2 DEF ShutdownInv, ShutdownTypeOK, DrainedIsOver, Running
<1>7. OwedRowsAreKept'
  BY <1>1 DEF ShutdownInv, OwedRowsAreKept
<1> QED
  BY <1>4, <1>5, <1>6, <1>7 DEF ShutdownInv

\* The listener closes when no request is open, and no other comes.
LEMMA HttpClosedKeeps ==
  ASSUME ShutdownInv, HttpClosed
  PROVE  ShutdownInv'
<1>1. /\ http = "closing" /\ (\A c \in Calls : call[c] # "open") /\ http' = "closed"
      /\ UNCHANGED <<call, row, step, drain, awaited, grace, failures, owed>>
  BY DEF HttpClosed
<1>2. ShutdownTypeOK' /\ ClosedInOrder'
  BY <1>1 DEF ShutdownInv, ShutdownTypeOK, ClosedInOrder
<1>3. DrainedIsOver' /\ OwedRowsAreKept'
  BY <1>1 DEF ShutdownInv, DrainedIsOver, OwedRowsAreKept
<1> QED
  BY <1>2, <1>3 DEF ShutdownInv

\* The deadline ends the wait: nothing is owed any more.
LEMMA GracePassesKeeps ==
  ASSUME ShutdownInv, GracePasses
  PROVE  ShutdownInv'
<1>1. /\ step = "wait" /\ grace' = TRUE /\ drain' = "over"
      /\ call' = [c \in Calls |-> IF call[c] = "open" THEN "cut" ELSE call[c]]
      /\ UNCHANGED <<row, step, http, awaited, failures, owed>>
  BY DEF GracePasses, DrainGivesUp
<1>2. ShutdownTypeOK'
  BY <1>1 DEF ShutdownInv, ShutdownTypeOK
<1>3. ClosedInOrder'
  BY <1>1 DEF ShutdownInv, ClosedInOrder
<1>4. DrainedIsOver' /\ OwedRowsAreKept'
  BY <1>1 DEF ShutdownInv, ShutdownTypeOK, DrainedIsOver, OwedRowsAreKept
<1> QED
  BY <1>2, <1>3, <1>4 DEF ShutdownInv

\* The steps before the flush and after it.
LEMMA StepKeeps ==
  ASSUME ShutdownInv, Waited \/ AdaptersClosed \/ Exit
  PROVE  ShutdownInv'
<1>1. UNCHANGED <<call, row, http, drain, awaited, grace, owed>>
  BY DEF Waited, AdaptersClosed, Exit
<1>2. /\ step \in {"wait", "adapters", "gateway"} /\ step' \in {"adapters", "queues", "exit"}
      /\ http = "closed" /\ drain = "over"
      /\ step' = "exit" => step = "gateway"
  BY DEF Waited, AdaptersClosed, Exit, ShutdownInv, ClosedInOrder
<1>3. failures' \in 0..MaxFailures /\ (failures' = 0 => failures = 0)
  <2>1. failures \in 0..MaxFailures
    BY DEF ShutdownInv, ShutdownTypeOK
  <2>2. failures' = failures \/ (failures < MaxFailures /\ failures' = failures + 1)
    BY DEF Waited, AdaptersClosed, Exit, Threw
  <2> QED
    BY <2>1, <2>2, ShutdownAssumption
<1>4. ShutdownTypeOK'
  BY <1>1, <1>2, <1>3 DEF ShutdownInv, ShutdownTypeOK
<1>5. ClosedInOrder' /\ DrainedIsOver'
  BY <1>1, <1>2 DEF ShutdownInv, ClosedInOrder, DrainedIsOver
<1>6. OwedRowsAreKept'
  BY <1>1, <1>2, <1>3 DEF ShutdownInv, OwedRowsAreKept
<1> QED
  BY <1>4, <1>5, <1>6 DEF ShutdownInv

\* The flush writes the rows of every owed turn, or the step throws.
LEMMA QueuesFlushedKeeps ==
  ASSUME ShutdownInv, QueuesFlushed
  PROVE  ShutdownInv'
<1>1. /\ step = "queues" /\ step' = "gateway"
      /\ UNCHANGED <<call, http, drain, awaited, grace, owed>>
      /\ http = "closed" /\ drain = "over"
  BY DEF QueuesFlushed, ShutdownInv, ClosedInOrder
<1>2. failures \in 0..MaxFailures /\ owed \subseteq Calls
  BY DEF ShutdownInv, ShutdownTypeOK
<1>3. \/ Written /\ failures' = failures
      \/ UNCHANGED row /\ failures < MaxFailures /\ failures' = failures + 1
  BY DEF QueuesFlushed, Flushed, Threw
<1>4. \A c \in owed : ~grace => call[c] = "over" /\ row[c] \in {"buffered", "written"}
  BY <1>1 DEF ShutdownInv, DrainedIsOver, OwedRowsAreKept
<1>5. ClosedInOrder' /\ DrainedIsOver'
  BY <1>1 DEF ShutdownInv, ClosedInOrder, DrainedIsOver
<1>6. CASE Written /\ failures' = failures
  <2>1. ShutdownTypeOK'
    BY <1>1, <1>2, <1>6, WrittenRows DEF ShutdownInv, ShutdownTypeOK
  <2>2. \A c \in owed : ~grace => row'[c] = "written"
    BY <1>2, <1>4, <1>6, WrittenRows
  <2> QED
    BY <1>1, <1>5, <2>1, <2>2 DEF ShutdownInv, OwedRowsAreKept
<1>7. CASE UNCHANGED row /\ failures < MaxFailures /\ failures' = failures + 1
  <2>1. failures' \in 0..MaxFailures /\ failures' # 0
    BY <1>2, <1>7, ShutdownAssumption
  <2>2. ShutdownTypeOK'
    BY <1>1, <1>7, <2>1 DEF ShutdownInv, ShutdownTypeOK
  <2>3. OwedRowsAreKept'
    BY <1>1, <1>4, <1>7, <2>1 DEF OwedRowsAreKept
  <2> QED
    BY <1>5, <2>2, <2>3 DEF ShutdownInv
<1> QED
  BY <1>3, <1>6, <1>7

-----------------------------------------------------------------------------
(* The theorems.                                                           *)

\* The inductive invariant of the shutdown (runShutdownSteps, drainBackgroundTurns).
THEOREM ShutdownIsInvariant == ShutdownSpec => []ShutdownInv
<1>1. ShutdownInv /\ [ShutdownNext]_downVars => ShutdownInv'
  <2> SUFFICES ASSUME ShutdownInv, [ShutdownNext]_downVars PROVE ShutdownInv'
    OBVIOUS
  <2>1. CASE UNCHANGED downVars
    BY <2>1 DEF downVars, ShutdownInv, ShutdownTypeOK, ClosedInOrder, DrainedIsOver, OwedRowsAreKept
  <2>2. CASE \E c \in Calls : Arrive(c) \/ Respond(c) \/ Acknowledge(c) \/ TurnOfCallEnds(c)
    BY <2>2, RequestKeeps, TurnOfCallEndsKeeps
  <2>3. CASE RowsWritten
    BY <2>3, RowsWrittenKeeps
  <2>4. CASE Signal \/ DrainWakes
    BY <2>4, DrainKeeps
  <2>5. CASE HttpClosed
    BY <2>5, HttpClosedKeeps
  <2>6. CASE GracePasses
    BY <2>6, GracePassesKeeps
  <2>7. CASE Waited \/ AdaptersClosed \/ Exit
    BY <2>7, StepKeeps
  <2>8. CASE QueuesFlushed
    BY <2>8, QueuesFlushedKeeps
  <2> QED
    BY <2>1, <2>2, <2>3, <2>4, <2>5, <2>6, <2>7, <2>8 DEF ShutdownNext, Proceed
<1> QED
  BY <1>1, ShutdownInvInit, PTL DEF ShutdownSpec

\* A turn acknowledged before the drain was over is served within the grace period, and
\* its log row is written unless a step of the shutdown throws.
THEOREM AwaitedTurnsAreServed == ShutdownSpec => []AwaitedTurnIsServed
<1>1. ShutdownInv => AwaitedTurnIsServed
  BY DEF ShutdownInv, ClosedInOrder, DrainedIsOver, OwedRowsAreKept, AwaitedTurnIsServed
<1> QED
  BY <1>1, ShutdownIsInvariant, PTL

-----------------------------------------------------------------------------
(* InsertQueue.                                                            *)

-----------------------------------------------------------------------------
(* Sequences.                                                              *)

Increasing(w) == \A i, j \in DOMAIN w : i < j => w[i] < w[j]

\* v is what is left of w without its first k elements.
Suffix(v, w, k) == Len(v) = Len(w) - k /\ \A i \in 1..Len(v) : v[i] = w[i + k]

\* Its first k elements.
First(w, k) == {w[i] : i \in 1..k}

\* A suffix of an increasing sequence is increasing, and has what the prefix has not.
LEMMA SuffixIncreasing ==
  ASSUME NEW w \in Seq(Rows), NEW v \in Seq(Rows), NEW k \in 0..Len(w), Suffix(v, w, k),
         Increasing(w)
  PROVE  Increasing(v) /\ Range(v) = Range(w) \ First(w, k) /\ First(w, k) \subseteq Range(w)
<1>1. /\ Len(w) \in Nat /\ DOMAIN w = 1..Len(w) /\ Len(v) \in Nat /\ DOMAIN v = 1..Len(v)
      /\ k \in Nat /\ k <= Len(w) /\ Len(v) = Len(w) - k
      /\ \A i \in 1..Len(w) : w[i] \in Nat
  <2>1. Len(w) \in Nat /\ DOMAIN w = 1..Len(w) /\ Len(v) \in Nat /\ DOMAIN v = 1..Len(v)
    BY LenProperties
  <2>2. \A i \in 1..Len(w) : w[i] \in Rows
    BY ElementOfSeq
  <2>3. Rows \subseteq Nat
    BY DEF Rows
  <2>4. k \in Nat /\ k <= Len(w) /\ Len(v) = Len(w) - k
    BY <2>1 DEF Suffix
  <2> QED
    BY <2>1, <2>2, <2>3, <2>4
<1>2. \A i \in 1..Len(v) : i + k \in 1..Len(w) /\ v[i] = w[i + k]
  BY <1>1 DEF Suffix
<1>3. Increasing(v)
  <2> SUFFICES ASSUME NEW i \in 1..Len(v), NEW j \in 1..Len(v), i < j PROVE v[i] < v[j]
    BY <1>1 DEF Increasing
  <2>1. i + k \in 1..Len(w) /\ j + k \in 1..Len(w) /\ i + k < j + k
    BY <1>1, <1>2
  <2> QED
    BY <1>1, <1>2, <2>1 DEF Increasing
<1>4. First(w, k) \subseteq Range(w)
  BY <1>1 DEF First, Range
<1>5. ASSUME NEW r \in Range(v) PROVE r \in Range(w) /\ r \notin First(w, k)
  <2>1. PICK i \in 1..Len(v) : r = w[i + k] /\ i + k \in 1..Len(w)
    BY <1>1, <1>2, <1>5 DEF Range
  <2>2. ASSUME NEW j \in 1..k, r = w[j] PROVE FALSE
    <3>1. j \in 1..Len(w) /\ j < i + k
      BY <1>1, <2>1
    <3>2. w[j] < w[i + k]
      BY <1>1, <2>1, <3>1 DEF Increasing
    <3> QED
      BY <1>1, <2>1, <2>2, <3>1, <3>2
  <2> QED
    BY <1>1, <2>1, <2>2 DEF Range, First
<1>6. ASSUME NEW r \in Range(w), r \notin First(w, k) PROVE r \in Range(v)
  <2>1. PICK j \in 1..Len(w) : r = w[j]
    BY <1>1, <1>6 DEF Range
  <2>2. j \notin 1..k
    BY <1>6, <2>1 DEF First
  <2>3. j - k \in 1..Len(v) /\ (j - k) + k = j
    BY <1>1, <2>1, <2>2
  <2> QED
    BY <1>1, <1>2, <2>1, <2>3 DEF Range
<1> QED
  BY <1>3, <1>4, <1>5, <1>6

\* What is left of a batch from n on, and what waits behind it.
LEMMA RestAndQueue ==
  ASSUME NEW b \in Seq(Rows), NEW q \in Seq(Rows), NEW n \in 0..Len(b)
  PROVE  /\ SubSeq(b, n + 1, Len(b)) \in Seq(Rows)
         /\ SubSeq(b, n + 1, Len(b)) \o q \in Seq(Rows)
         /\ Len(SubSeq(b, n + 1, Len(b)) \o q) = Len(b) - n + Len(q)
         /\ \A i \in 1..Len(b) - n : (SubSeq(b, n + 1, Len(b)) \o q)[i] = b[n + i]
         /\ \A i \in 1..Len(q) : (SubSeq(b, n + 1, Len(b)) \o q)[Len(b) - n + i] = q[i]
<1> DEFINE s == SubSeq(b, n + 1, Len(b))
<1>1. Len(b) \in Nat /\ Len(q) \in Nat /\ n \in Nat /\ n <= Len(b)
  BY LenProperties
<1>2. n + 1 \in Int /\ Len(b) \in Int /\ \A i \in (n + 1)..Len(b) : b[i] \in Rows
  BY <1>1, ElementOfSeq
<1>3. /\ s \in Seq(Rows) /\ Len(s) = Len(b) - n
      /\ \A i \in 1..Len(b) - n : s[i] = b[n + i]
  <2>1. /\ s \in Seq(Rows) /\ Len(s) = IF n + 1 <= Len(b) THEN Len(b) - (n + 1) + 1 ELSE 0
        /\ \A i \in 1..Len(b) - (n + 1) + 1 : s[i] = b[(n + 1) + i - 1]
    BY <1>2, SubSeqProperties
  <2> HIDE DEF s
  <2>2. Len(s) = Len(b) - n
    <3>1. Len(s) = IF n + 1 <= Len(b) THEN Len(b) - (n + 1) + 1 ELSE 0
      BY <2>1
    <3>2. CASE n + 1 <= Len(b)
      <4>1. Len(b) - (n + 1) + 1 = Len(b) - n
        BY <1>1
      <4> QED
        BY <3>1, <3>2, <4>1
    <3>3. CASE ~(n + 1 <= Len(b))
      <4>1. n = Len(b) /\ Len(b) - n = 0
        BY <1>1, <3>3
      <4> QED
        BY <3>1, <3>3, <4>1
    <3> QED
      BY <3>2, <3>3
  <2>3. ASSUME NEW i \in 1..Len(b) - n PROVE s[i] = b[n + i]
    <3>1. i \in 1..Len(b) - (n + 1) + 1 /\ (n + 1) + i - 1 = n + i
      BY <1>1
    <3> QED
      BY <2>1, <3>1
  <2> QED
    BY <2>1, <2>2, <2>3
<1> HIDE DEF s
<1>4. /\ s \o q \in Seq(Rows) /\ Len(s \o q) = Len(s) + Len(q)
      /\ \A i \in 1..Len(s) + Len(q) : (s \o q)[i] = IF i <= Len(s) THEN s[i] ELSE q[i - Len(s)]
  BY <1>3, ConcatProperties
<1>5. \A i \in 1..Len(b) - n : (s \o q)[i] = b[n + i]
  BY <1>1, <1>3, <1>4
<1>6. ASSUME NEW i \in 1..Len(q) PROVE (s \o q)[Len(b) - n + i] = q[i]
  <2> DEFINE j == Len(b) - n + i
  <2>1. j \in 1..Len(s) + Len(q) /\ ~(j <= Len(s)) /\ j - Len(s) = i
    BY <1>1, <1>3
  <2> HIDE DEF j
  <2>2. (s \o q)[j] = q[i]
    BY <1>4, <2>1
  <2> QED
    BY <2>2 DEF j
<1> QED
  BY <1>3, <1>4, <1>5, <1>6 DEF s

\* SubSeq cuts a sequence in two.
LEMMA CutInTwo ==
  ASSUME NEW b \in Seq(Rows), NEW n \in 0..Len(b)
  PROVE  /\ SubSeq(b, n + 1, Len(b)) \in Seq(Rows) /\ Suffix(SubSeq(b, n + 1, Len(b)), b, n)
         /\ Range(SubSeq(b, 1, n)) = First(b, n)
<1>1. Len(b) \in Nat /\ n \in Nat /\ n <= Len(b)
  BY LenProperties
<1>2. n + 1 \in Int /\ Len(b) \in Int /\ 1 \in Int /\ n \in Int
      /\ (\A i \in (n + 1)..Len(b) : b[i] \in Rows) /\ (\A i \in 1..n : b[i] \in Rows)
  BY <1>1, ElementOfSeq
<1>3. SubSeq(b, n + 1, Len(b)) \in Seq(Rows) /\ Suffix(SubSeq(b, n + 1, Len(b)), b, n)
  <2> DEFINE s == SubSeq(b, n + 1, Len(b))
  <2>1. /\ s \in Seq(Rows) /\ Len(s) = IF n + 1 <= Len(b) THEN Len(b) - (n + 1) + 1 ELSE 0
        /\ \A i \in 1..Len(b) - (n + 1) + 1 : s[i] = b[(n + 1) + i - 1]
    BY <1>2, SubSeqProperties
  <2> HIDE DEF s
  <2>2. Len(s) = Len(b) - n
    <3>1. Len(s) = IF n + 1 <= Len(b) THEN Len(b) - (n + 1) + 1 ELSE 0
      BY <2>1
    <3>2. CASE n + 1 <= Len(b)
      <4>1. Len(b) - (n + 1) + 1 = Len(b) - n
        BY <1>1
      <4> QED
        BY <3>1, <3>2, <4>1
    <3>3. CASE ~(n + 1 <= Len(b))
      <4>1. n = Len(b) /\ Len(b) - n = 0
        BY <1>1, <3>3
      <4> QED
        BY <3>1, <3>3, <4>1
    <3> QED
      BY <3>2, <3>3
  <2>3. ASSUME NEW i \in 1..Len(s) PROVE s[i] = b[i + n]
    <3>1. i \in 1..Len(b) - (n + 1) + 1 /\ (n + 1) + i - 1 = i + n
      BY <1>1, <2>2
    <3> QED
      BY <2>1, <3>1
  <2>4. Suffix(s, b, n)
    BY <2>2, <2>3 DEF Suffix
  <2> QED
    BY <2>1, <2>4 DEF s
<1>4. Range(SubSeq(b, 1, n)) = First(b, n)
  <2> DEFINE t == SubSeq(b, 1, n)
  <2>1. /\ t \in Seq(Rows) /\ Len(t) = IF 1 <= n THEN n - 1 + 1 ELSE 0
        /\ \A i \in 1..n - 1 + 1 : t[i] = b[1 + i - 1]
    BY <1>2, SubSeqProperties
  <2> HIDE DEF t
  <2>2. Len(t) = n
    BY <1>1, <2>1
  <2>3. \A i \in 1..n : t[i] = b[i]
    BY <1>1, <2>1
  <2>4. DOMAIN t = 1..n
    BY <2>1, <2>2, LenProperties
  <2>5. Range(t) = First(b, n)
    BY <2>3, <2>4 DEF Range, First
  <2> QED
    BY <2>5 DEF t
<1> QED
  BY <1>3, <1>4

\* No write is under way: what waits is the buffer.
LEMMA OnlyQueued ==
  ASSUME NEW q \in Seq(Rows)
  PROVE  SubSeq(<<>>, 0 + 1, Len(<<>>)) \o q = q
<1>1. SubSeq(<<>>, 0 + 1, Len(<<>>)) = <<>>
  <2>1. Len(<<>>) = 0 /\ 0 + 1 \in Int /\ Len(<<>>) \in Int /\ Len(<<>>) < 0 + 1
    BY EmptySeq
  <2> QED
    BY <2>1, SubSeqEmpty
<1> QED
  BY <1>1, ConcatEmptySeq

-----------------------------------------------------------------------------
(* What waits.                                                             *)

LEMMA WaitingIs ==
  ASSUME QueueTypeOK
  PROVE  /\ index \in 0..Len(batch) /\ Len(batch) \in Nat
         /\ Waiting \in Seq(Rows) /\ Len(Waiting) = Len(batch) - index + Len(queued)
         /\ \A i \in 1..Len(batch) - index : Waiting[i] = batch[index + i]
         /\ \A i \in 1..Len(queued) : Waiting[Len(batch) - index + i] = queued[i]
         /\ flight = "none" => Waiting = queued /\ index = 0 /\ batch = <<>>
         /\ flight # "none" => Len(batch) > 0
         /\ Range(queued) \subseteq Range(Waiting)
<1>1. /\ queued \in Seq(Rows) /\ batch \in Seq(Rows) /\ index \in Nat
      /\ flight \in {"none", "batch", "rows"} /\ (flight = "none" <=> batch = <<>>)
      /\ (flight = "rows" => index < Len(batch)) /\ (flight # "rows" => index = 0)
  BY DEF QueueTypeOK
<1>2. Len(batch) \in Nat /\ Len(queued) \in Nat /\ (batch # <<>> => Len(batch) > 0)
  BY <1>1, LenProperties, EmptySeq
<1>3. index \in 0..Len(batch)
  BY <1>1, <1>2
<1>4. /\ Waiting \in Seq(Rows) /\ Len(Waiting) = Len(batch) - index + Len(queued)
      /\ \A i \in 1..Len(batch) - index : Waiting[i] = batch[index + i]
      /\ \A i \in 1..Len(queued) : Waiting[Len(batch) - index + i] = queued[i]
  BY <1>1, <1>3, RestAndQueue DEF Waiting
<1>5. flight = "none" => Waiting = queued /\ index = 0 /\ batch = <<>>
  BY <1>1, OnlyQueued DEF Waiting
<1>6. Range(queued) \subseteq Range(Waiting)
  <2> SUFFICES ASSUME NEW i \in DOMAIN queued PROVE queued[i] \in Range(Waiting)
    BY DEF Range
  <2>1. i \in 1..Len(queued) /\ DOMAIN Waiting = 1..Len(Waiting)
    BY <1>1, <1>4, LenProperties
  <2>2. Len(batch) - index + i \in 1..Len(Waiting)
    BY <1>1, <1>2, <1>3, <1>4, <2>1
  <2> QED
    BY <1>4, <2>1, <2>2 DEF Range
<1> QED
  BY <1>1, <1>2, <1>3, <1>4, <1>5, <1>6

\* flush() only moves rows: what waits, waits in the same order.
LEMMA TakeKeepsOrder ==
  ASSUME QueueTypeOK, NEW rows \in Seq(Rows), Take(rows), index' = index
  PROVE  /\ queued' \in Seq(Rows) /\ batch' \in Seq(Rows) /\ flight' \in {"none", "batch", "rows"}
         /\ flight' = "none" <=> batch' = <<>>
         /\ flight' = "rows" => index' < Len(batch')
         /\ flight' # "rows" => index' = 0
         /\ Waiting' = SubSeq(batch, index + 1, Len(batch)) \o rows
         /\ queued' \in {rows, <<>>}
         /\ life # "off" /\ flight = "none" => queued' = <<>>
<1>1. /\ batch \in Seq(Rows) /\ index \in Nat /\ flight \in {"none", "batch", "rows"}
      /\ flight = "none" <=> batch = <<>>
      /\ flight = "rows" => index < Len(batch)
      /\ flight # "rows" => index = 0
  BY DEF QueueTypeOK
<1>2. CASE life # "off" /\ flight = "none" /\ rows # <<>>
  <2>1. batch' = rows /\ queued' = <<>> /\ flight' = "batch" /\ index' = 0 /\ batch = <<>> /\ index = 0
    BY <1>1, <1>2 DEF Take
  <2>2. Waiting' = rows
    <3>1. SubSeq(rows, 0 + 1, Len(rows)) = rows
      BY SubSeqFull
    <3> QED
      BY <2>1, <3>1, ConcatEmptySeq DEF Waiting
  <2>3. SubSeq(batch, index + 1, Len(batch)) \o rows = rows
    BY <2>1, OnlyQueued
  <2>4. <<>> \in Seq(Rows)
    BY EmptySeq
  <2> QED
    BY <1>1, <1>2, <2>1, <2>2, <2>3, <2>4
<1>3. CASE ~(life # "off" /\ flight = "none" /\ rows # <<>>)
  <2>1. queued' = rows /\ batch' = batch /\ flight' = flight
    BY <1>3 DEF Take
  <2>2. Waiting' = SubSeq(batch, index + 1, Len(batch)) \o rows
    BY <2>1 DEF Waiting
  <2> QED
    BY <1>1, <1>3, <2>1, <2>2
<1> QED
  BY <1>2, <1>3

\* A write is over with n rows settled: the others are in front of the buffer again, and
\* the oldest of them go if there are too many.
LEMMA OverCuts ==
  ASSUME QueueTypeOK, NEW n \in index..Len(batch), Over(n)
  PROVE  \E all \in Seq(Rows), over \in Nat :
           /\ n - index \in 0..Len(Waiting) /\ Suffix(all, Waiting, n - index)
           /\ over \in 0..Len(all) /\ (over # 0 => n < Len(batch) /\ over = Len(all) - MaxBuffer)
           /\ queued' \in Seq(Rows) /\ Suffix(queued', all, over) /\ dropped' = dropped \union First(all, over)
           /\ Waiting' = queued' /\ batch' = <<>> /\ index' = 0 /\ flight' = "none"
           /\ n = Len(batch) => all = queued /\ queued' = queued
<1> DEFINE all  == IF n = Len(batch) THEN queued ELSE SubSeq(batch, n + 1, Len(batch)) \o queued
           over == IF n < Len(batch) /\ Len(all) > MaxBuffer THEN Len(all) - MaxBuffer ELSE 0
           m    == n - index
<1>1. /\ queued' = SubSeq(all, over + 1, Len(all)) /\ dropped' = dropped \union Range(SubSeq(all, 1, over))
      /\ batch' = <<>> /\ index' = 0 /\ flight' = "none"
  BY DEF Over, Back, Remainder
<1>2. /\ queued \in Seq(Rows) /\ batch \in Seq(Rows) /\ Len(queued) \in Nat /\ Len(batch) \in Nat
      /\ index \in 0..Len(batch) /\ n \in 0..Len(batch) /\ m \in 0..Len(batch) - index
      /\ MaxBuffer \in Nat
  <2>1. queued \in Seq(Rows) /\ batch \in Seq(Rows)
    BY DEF QueueTypeOK
  <2>2. index \in 0..Len(batch) /\ Len(batch) \in Nat /\ Len(queued) \in Nat
    BY <2>1, WaitingIs, LenProperties
  <2> QED
    BY <2>1, <2>2, QueueAssumption
<1>3. /\ Waiting \in Seq(Rows) /\ Len(Waiting) = Len(batch) - index + Len(queued)
      /\ \A i \in 1..Len(batch) - index : Waiting[i] = batch[index + i]
      /\ \A i \in 1..Len(queued) : Waiting[Len(batch) - index + i] = queued[i]
  BY WaitingIs
<1>4. all \in Seq(Rows) /\ Suffix(all, Waiting, m)
  <2>1. CASE n = Len(batch)
    <3>1. all = queued /\ m = Len(batch) - index
      BY <2>1
    <3>2. ASSUME NEW i \in 1..Len(queued) PROVE queued[i] = Waiting[i + m]
      <4>1. i + m = Len(batch) - index + i
        BY <1>2, <3>1
      <4> QED
        BY <1>3, <4>1
    <3>3. Len(queued) = Len(Waiting) - m
      <4>1. /\ Len(queued) \in Nat /\ Len(batch) \in Nat /\ index \in Nat
            /\ Len(Waiting) = Len(batch) - index + Len(queued)
        BY <1>2, <1>3
      <4> HIDE DEF m
      <4> QED
        BY <3>1, <4>1
    <3> HIDE DEF all, m
    <3> QED
      BY <1>2, <3>1, <3>2, <3>3 DEF Suffix
  <2>2. CASE n # Len(batch)
    <3> DEFINE a == SubSeq(batch, n + 1, Len(batch)) \o queued
    <3>1. all = a
      BY <2>2
    <3>2. /\ a \in Seq(Rows) /\ Len(a) = Len(batch) - n + Len(queued)
          /\ \A i \in 1..Len(batch) - n : a[i] = batch[n + i]
          /\ \A i \in 1..Len(queued) : a[Len(batch) - n + i] = queued[i]
      BY <1>2, RestAndQueue
    <3> HIDE DEF a, all
    <3>3. Len(a) = Len(Waiting) - m
      BY <1>2, <1>3, <3>2
    <3>4. ASSUME NEW i \in 1..Len(a) PROVE a[i] = Waiting[i + m]
      <4>1. CASE i <= Len(batch) - n
        <5>1. i \in 1..Len(batch) - n /\ i + m \in 1..Len(batch) - index /\ index + (i + m) = n + i
          BY <1>2, <3>2, <4>1
        <5>2. Waiting[i + m] = batch[index + (i + m)]
          BY <1>3, <5>1
        <5> QED
          BY <3>2, <5>1, <5>2
      <4>2. CASE ~(i <= Len(batch) - n)
        <5> DEFINE j == i - (Len(batch) - n)
        <5>1. j \in 1..Len(queued) /\ Len(batch) - n + j = i /\ Len(batch) - index + j = i + m
          BY <1>2, <3>2, <4>2
        <5> HIDE DEF j
        <5>2. a[Len(batch) - n + j] = queued[j] /\ Waiting[Len(batch) - index + j] = queued[j]
          BY <1>3, <3>2, <5>1
        <5> QED
          BY <5>1, <5>2
      <4> QED
        BY <4>1, <4>2
    <3> QED
      BY <3>1, <3>2, <3>3, <3>4 DEF Suffix
  <2> QED
    BY <2>1, <2>2
<1>5. /\ over \in Nat /\ over \in 0..Len(all) /\ (over # 0 => n < Len(batch) /\ over = Len(all) - MaxBuffer)
      /\ n = Len(batch) => over = 0 /\ all = queued
  <2>1. Len(all) \in Nat
    BY <1>4, LenProperties
  <2> HIDE DEF all
  <2>2. /\ over \in Nat /\ over \in 0..Len(all)
        /\ over # 0 => n < Len(batch) /\ over = Len(all) - MaxBuffer
        /\ n = Len(batch) => over = 0
    BY <1>2, <2>1
  <2> QED
    BY <2>2 DEF all
<1> HIDE DEF all, over
<1>6. m \in 0..Len(Waiting)
  BY <1>2, <1>3
<1>7. queued' \in Seq(Rows) /\ Suffix(queued', all, over) /\ dropped' = dropped \union First(all, over)
  BY <1>1, <1>4, <1>5, CutInTwo
<1>8. Waiting' = queued'
  BY <1>1, <1>7, OnlyQueued DEF Waiting
<1>9. n = Len(batch) => all = queued /\ queued' = queued
  BY <1>1, <1>2, <1>5, SubSeqFull
<1> QED
  BY <1>1, <1>4, <1>5, <1>6, <1>7, <1>8, <1>9

\* The rows that wait lose those that were settled and, under the cap, the next ones.
LEMMA OverSettles ==
  ASSUME QueueTypeOK, Increasing(Waiting), NEW n \in index..Len(batch), Over(n)
  PROVE  \E D \in SUBSET Rows :
           /\ queued' \in Seq(Rows) /\ batch' = <<>> /\ index' = 0 /\ flight' = "none"
           /\ Waiting' = queued' /\ Increasing(Waiting')
           /\ First(Waiting, n - index) \subseteq Range(Waiting)
           /\ D \subseteq Range(Waiting) \ First(Waiting, n - index)
           /\ Range(Waiting') = Range(Waiting) \ (First(Waiting, n - index) \union D)
           /\ dropped' = dropped \union D
           /\ n = Len(batch) => D = {} /\ queued' = queued
<1> DEFINE m == n - index
<1>1. PICK all \in Seq(Rows), over \in Nat :
           /\ m \in 0..Len(Waiting) /\ Suffix(all, Waiting, m)
           /\ over \in 0..Len(all) /\ (over # 0 => n < Len(batch) /\ over = Len(all) - MaxBuffer)
           /\ queued' \in Seq(Rows) /\ Suffix(queued', all, over) /\ dropped' = dropped \union First(all, over)
           /\ Waiting' = queued' /\ batch' = <<>> /\ index' = 0 /\ flight' = "none"
           /\ n = Len(batch) => all = queued /\ queued' = queued
  BY OverCuts
<1> DEFINE D == First(all, over)
<1> HIDE DEF m
<1>2. Waiting \in Seq(Rows)
  BY WaitingIs
<1>3. /\ Increasing(all) /\ Range(all) = Range(Waiting) \ First(Waiting, m)
      /\ First(Waiting, m) \subseteq Range(Waiting)
  BY <1>1, <1>2, SuffixIncreasing
<1>4. /\ Increasing(queued') /\ Range(queued') = Range(all) \ D /\ D \subseteq Range(all)
  BY <1>1, <1>3, SuffixIncreasing
<1>5. D \in SUBSET Rows
  <2>1. Range(all) \subseteq Rows
    BY <1>1, LenProperties, ElementOfSeq DEF Range
  <2> QED
    BY <1>4, <2>1
<1>6. n = Len(batch) => D = {}
  <2>1. Len(batch) \in Nat
    BY WaitingIs
  <2>2. n = Len(batch) => over = 0
    BY <1>1, <2>1
  <2> QED
    BY <2>2 DEF First
<1> HIDE DEF D
<1>7. Range(Waiting') = Range(Waiting) \ (First(Waiting, m) \union D)
  BY <1>1, <1>3, <1>4
<1> QED
  BY <1>1, <1>3, <1>4, <1>5, <1>6, <1>7 DEF m, D

\* The fallback goes on to the next row.
LEMMA NextRowWaits ==
  ASSUME QueueTypeOK, flight = "rows", index + 1 < Len(batch),
         index' = index + 1, UNCHANGED <<queued, dropped, batch, flight>>
  PROVE  Waiting' \in Seq(Rows) /\ Suffix(Waiting', Waiting, 1) /\ 1 \in 0..Len(Waiting)
<1> DEFINE k == index + 1
           v == SubSeq(batch, k + 1, Len(batch)) \o queued
<1>1. /\ index \in Nat /\ Len(batch) \in Nat /\ queued \in Seq(Rows) /\ batch \in Seq(Rows)
      /\ Waiting \in Seq(Rows) /\ Len(Waiting) = Len(batch) - index + Len(queued)
      /\ \A i \in 1..Len(batch) - index : Waiting[i] = batch[index + i]
      /\ \A i \in 1..Len(queued) : Waiting[Len(batch) - index + i] = queued[i]
  BY WaitingIs DEF QueueTypeOK
<1>2. Waiting' = v
  BY DEF Waiting
<1>3. k \in 0..Len(batch) /\ Len(queued) \in Nat
  BY <1>1, LenProperties
<1>4. /\ v \in Seq(Rows) /\ Len(v) = Len(batch) - k + Len(queued)
      /\ \A i \in 1..Len(batch) - k : v[i] = batch[k + i]
      /\ \A i \in 1..Len(queued) : v[Len(batch) - k + i] = queued[i]
  BY <1>1, <1>3, RestAndQueue
<1> HIDE DEF v
<1>5. Len(v) = Len(Waiting) - 1 /\ 1 \in 0..Len(Waiting)
  BY <1>1, <1>3, <1>4
<1>6. ASSUME NEW i \in 1..Len(v) PROVE v[i] = Waiting[i + 1]
  <2>1. CASE i <= Len(batch) - k
    <3>1. i \in 1..Len(batch) - k /\ i + 1 \in 1..Len(batch) - index /\ index + (i + 1) = k + i
      BY <1>1, <1>3, <1>4, <2>1
    <3>2. Waiting[i + 1] = batch[index + (i + 1)]
      BY <1>1, <3>1
    <3> QED
      BY <1>4, <3>1, <3>2
  <2>2. CASE ~(i <= Len(batch) - k)
    <3> DEFINE j == i - (Len(batch) - k)
    <3>1. j \in 1..Len(queued) /\ Len(batch) - k + j = i /\ Len(batch) - index + j = i + 1
      BY <1>1, <1>3, <1>4, <2>2
    <3> HIDE DEF j
    <3>2. v[Len(batch) - k + j] = queued[j] /\ Waiting[Len(batch) - index + j] = queued[j]
      BY <1>1, <1>4, <3>1
    <3> QED
      BY <3>1, <3>2
  <2> QED
    BY <2>1, <2>2
<1> QED
  BY <1>2, <1>4, <1>5, <1>6 DEF Suffix

\* A row that is pushed waits behind the others, also when its push flushes.
LEMMA PushAppends ==
  ASSUME QueueTypeOK, Push
  PROVE  /\ queued' \in Seq(Rows) /\ batch' \in Seq(Rows) /\ flight' \in {"none", "batch", "rows"}
         /\ flight' = "none" <=> batch' = <<>>
         /\ flight' = "rows" => index' < Len(batch')
         /\ flight' # "rows" => index' = 0
         /\ queued' \in {Append(queued, pushed + 1), <<>>}
         /\ Append(queued, pushed + 1) \in Seq(Rows)
         /\ Waiting \in Seq(Rows) /\ Waiting' = Append(Waiting, pushed + 1)
<1> DEFINE r == pushed + 1
           rows == Append(queued, r)
           s == SubSeq(batch, index + 1, Len(batch))
<1>1. /\ pushed' = r /\ UNCHANGED <<index, life>>
      /\ IF Len(rows) >= BatchAt THEN Take(rows) ELSE queued' = rows /\ UNCHANGED <<batch, flight>>
  BY DEF Push
<1>2. r \in Rows
  BY QueueAssumption DEF Push, QueueTypeOK, Rows
<1>3. queued \in Seq(Rows) /\ batch \in Seq(Rows) /\ index \in 0..Len(batch)
  BY WaitingIs DEF QueueTypeOK
<1> HIDE DEF r
<1>4. rows \in Seq(Rows) /\ rows = queued \o <<r>> /\ <<r>> \in Seq(Rows)
  BY <1>2, <1>3, AppendProperties, AppendIsConcat
<1> HIDE DEF rows
<1>5. /\ queued' \in Seq(Rows) /\ batch' \in Seq(Rows) /\ flight' \in {"none", "batch", "rows"}
      /\ flight' = "none" <=> batch' = <<>>
      /\ flight' = "rows" => index' < Len(batch')
      /\ flight' # "rows" => index' = 0
      /\ Waiting' = s \o rows
      /\ queued' \in {rows, <<>>}
  <2>1. CASE Len(rows) >= BatchAt
    BY <1>1, <1>4, <2>1, TakeKeepsOrder
  <2>2. CASE ~(Len(rows) >= BatchAt)
    BY <1>1, <1>4, <2>2 DEF QueueTypeOK, Waiting
  <2> QED
    BY <2>1, <2>2
<1>6. s \in Seq(Rows) /\ Waiting \in Seq(Rows) /\ Waiting = s \o queued
  BY <1>3, WaitingIs, CutInTwo DEF Waiting
<1> HIDE DEF s
<1>7. s \o (queued \o <<r>>) = (s \o queued) \o <<r>>
  BY <1>3, <1>4, <1>6, ConcatAssociative
<1>8. Waiting' = Append(Waiting, r)
  BY <1>2, <1>4, <1>5, <1>6, <1>7, AppendIsConcat
<1> QED
  BY <1>4, <1>5, <1>6, <1>8 DEF r, rows

\* The boot, the interval and the shutdown move rows or do not touch them.
LEMMA FlushMoves ==
  ASSUME QueueTypeOK, Initialize \/ Interval \/ CloseQueue \/ CloseGoesOn
  PROVE  /\ UNCHANGED <<index, pushed, outages, bad, table, refused, dropped, unsure>>
         /\ queued' \in Seq(Rows) /\ batch' \in Seq(Rows) /\ flight' \in {"none", "batch", "rows"}
         /\ flight' = "none" <=> batch' = <<>>
         /\ flight' = "rows" => index' < Len(batch')
         /\ flight' # "rows" => index' = 0
         /\ Waiting' = Waiting
         /\ queued' \in {queued, <<>>}
<1>1. /\ UNCHANGED <<index, pushed, outages, bad, table, refused, dropped, unsure>>
      /\ Take(queued) \/ UNCHANGED <<queued, batch, flight>>
  BY DEF Initialize, Interval, CloseQueue, CloseGoesOn
<1>2. CASE Take(queued)
  <2>1. queued \in Seq(Rows) /\ index' = index
    BY <1>1 DEF QueueTypeOK
  <2> QED
    BY <1>1, <1>2, <2>1, TakeKeepsOrder DEF Waiting
<1>3. CASE UNCHANGED <<queued, batch, flight>>
  BY <1>1, <1>3 DEF QueueTypeOK, Waiting
<1> QED
  BY <1>1, <1>2, <1>3

\* What is settled is the write's: its whole batch, or the fallback's next row.
LEMMA SettledFirst ==
  ASSUME QueueTypeOK
  PROVE  /\ flight # "rows" => First(Waiting, Len(batch) - index) = Range(batch)
         /\ flight = "rows" => First(Waiting, 1) = {batch[index + 1]}
         /\ First(Waiting, 0) = {}
<1>1. /\ index \in 0..Len(batch) /\ Len(batch) \in Nat
      /\ \A i \in 1..Len(batch) - index : Waiting[i] = batch[index + i]
  BY WaitingIs
<1>2. batch \in Seq(Rows) /\ DOMAIN batch = 1..Len(batch)
  BY LenProperties DEF QueueTypeOK
<1>3. ASSUME flight # "rows" PROVE First(Waiting, Len(batch) - index) = Range(batch)
  <2>1. index = 0
    BY <1>3 DEF QueueTypeOK
  <2>2. Len(batch) - index = Len(batch) /\ \A i \in 1..Len(batch) : Waiting[i] = batch[i]
    BY <1>1, <2>1
  <2> QED
    BY <1>2, <2>2 DEF First, Range
<1>4. ASSUME flight = "rows" PROVE First(Waiting, 1) = {batch[index + 1]}
  <2>1. index < Len(batch)
    BY <1>4 DEF QueueTypeOK
  <2>2. 1 \in 1..Len(batch) - index /\ 1..1 = {1}
    BY <1>1, <2>1
  <2>3. Waiting[1] = batch[index + 1]
    BY <1>1, <2>2
  <2> QED
    BY <2>2, <2>3 DEF First
<1> QED
  BY <1>3, <1>4 DEF First

\* The rows a write may settle wait.
LEMMA BatchWaits ==
  ASSUME QueueTypeOK, flight # "none"
  PROVE  /\ flight = "batch" => Range(batch) \subseteq Range(Waiting)
         /\ flight = "rows" => batch[index + 1] \in Range(Waiting)
<1>1. /\ index \in 0..Len(batch) /\ Len(batch) \in Nat /\ Waiting \in Seq(Rows)
      /\ Len(Waiting) = Len(batch) - index + Len(queued)
  BY WaitingIs
<1>2. /\ DOMAIN Waiting = 1..Len(Waiting) /\ Len(queued) \in Nat
      /\ (flight = "rows" => index < Len(batch))
  BY <1>1, LenProperties DEF QueueTypeOK
<1>3. \A k \in 0..Len(batch) - index : First(Waiting, k) \subseteq Range(Waiting)
  BY <1>1, <1>2 DEF First, Range
<1>4. /\ Len(batch) - index \in 0..Len(batch) - index
      /\ flight = "rows" => 1 \in 0..Len(batch) - index
  BY <1>1, <1>2
<1> QED
  BY <1>3, <1>4, SettledFirst

-----------------------------------------------------------------------------
(* Accounting.                                                             *)

\* Rows S are settled, those of W written and those of R refused, and D dropped; a row
\* that was written and is not settled is one whose statement's answer was lost.
Progress(S, D, W, R) ==
  /\ S \subseteq Range(Waiting) /\ D \subseteq Range(Waiting) \ S
  /\ Range(Waiting') = Range(Waiting) \ (S \union D)
  /\ S \subseteq W \union R /\ W \intersect R = {} /\ W \subseteq Range(Waiting) /\ R \subseteq bad
  /\ (W \union R) \ unsure' \subseteq S
  /\ unsure \subseteq unsure' /\ unsure' \subseteq unsure \union W
  /\ dropped' = dropped \union D /\ refused' = refused \union R
  /\ Insert(W)
  /\ UNCHANGED <<pushed, bad>>
  /\ outages \in Nat /\ outages' \in Nat /\ outages' >= outages /\ (D # {} => outages' > 0)

LEMMA ProgressAccounts ==
  ASSUME QueueTypeOK, EveryRowAccountedFor, NEW S, NEW D, NEW W, NEW R, Progress(S, D, W, R)
  PROVE  EveryRowAccountedFor'
<1> DEFINE count(r) == Times(r \in Range(Waiting)) + table[r] + Times(r \in refused) + Times(r \in dropped)
<1>1. ASSUME NEW r \in Rows
      PROVE  IF r \in unsure' THEN count(r)' >= 1 ELSE count(r)' = Times(r <= pushed')
  <2>1. IF r \in unsure THEN count(r) >= 1 ELSE count(r) = Times(r <= pushed)
    BY DEF EveryRowAccountedFor
  <2>2. /\ table[r] \in Nat
        /\ r \in W => table'[r] = table[r] + 1
        /\ r \notin W => table'[r] = table[r]
    BY DEF Progress, Insert, QueueTypeOK
  <2>3. /\ r \in Range(Waiting') <=> r \in Range(Waiting) /\ r \notin S /\ r \notin D
        /\ r \in S => r \in Range(Waiting) /\ r \notin D
        /\ r \in D => r \in Range(Waiting) /\ r \notin S
        /\ r \in refused' <=> r \in refused \/ r \in R
        /\ r \in dropped' <=> r \in dropped \/ r \in D
        /\ r \in S => r \in W \/ r \in R
        /\ ~(r \in W /\ r \in R)
        /\ (r \in W \/ r \in R) /\ r \notin unsure' => r \in S
        /\ r \in unsure => r \in unsure'
        /\ r \in unsure' => r \in unsure \/ r \in W
        /\ pushed' = pushed
    BY DEF Progress
  <2> QED
    BY <2>1, <2>2, <2>3 DEF Times
<1>2. refused' \subseteq bad' /\ (dropped' # {} => outages' > 0)
  BY DEF Progress, EveryRowAccountedFor
<1> QED
  BY <1>1, <1>2 DEF EveryRowAccountedFor

\* Only rows that were pushed wait.
LEMMA WaitingInRange ==
  ASSUME QueueTypeOK, WaitingIsPushed
  PROVE  Range(Waiting) \subseteq 1..pushed
<1>1. Waiting \in Seq(Rows) /\ \A i \in DOMAIN Waiting : Waiting[i] \in Rows
  BY WaitingIs, LenProperties, ElementOfSeq
<1>2. pushed \in Nat /\ Rows = 1..MaxRows /\ MaxRows \in Nat
  BY QueueAssumption DEF QueueTypeOK, Rows
<1>3. \A i \in DOMAIN Waiting : Waiting[i] \in 1..pushed
  BY <1>1, <1>2 DEF WaitingIsPushed
<1> QED
  BY <1>3 DEF Range

LEMMA ProgressKeeps ==
  ASSUME QueueInv, QueueTypeOK', NEW S, NEW D, NEW W, NEW R, Progress(S, D, W, R),
         Increasing(Waiting'), life' = life, kept' = {} \/ (kept' = kept /\ queued' = queued)
  PROVE  QueueInv'
<1>1. OldestFirst'
  BY DEF OldestFirst, Increasing
<1>2. Range(Waiting') \subseteq Range(Waiting) /\ pushed' = pushed
  BY DEF Progress
<1>3. WaitingIsPushed'
  <2>1. \A r \in Range(Waiting) : r <= pushed
    BY DEF QueueInv, WaitingIsPushed, Range
  <2>2. \A i \in DOMAIN Waiting' : Waiting'[i] \in Range(Waiting')
    BY DEF Range
  <2> QED
    BY <1>2, <2>1, <2>2 DEF WaitingIsPushed
<1>4. EveryRowAccountedFor'
  BY ProgressAccounts DEF QueueInv
<1>5. KeptIsTaken'
  BY <1>2 DEF QueueInv, KeptIsTaken
<1>6. DroppedIsGone'
  <2>1. Range(Waiting) \subseteq 1..pushed
    BY WaitingInRange DEF QueueInv
  <2> QED
    BY <1>2, <2>1 DEF Progress, QueueInv, DroppedIsGone
<1> QED
  BY <1>1, <1>3, <1>4, <1>5, <1>6 DEF QueueInv

\* Writing rows keeps the table's type, and writing none changes nothing.
LEMMA InsertTyped ==
  ASSUME QueueTypeOK, NEW W
  PROVE  /\ Insert(W) => table' \in [Rows -> Nat]
         /\ UNCHANGED table => Insert({})
  BY DEF QueueTypeOK, Insert

\* An outage: the rows were not written, or they were and it is not known.
LEMMA OutageIs ==
  ASSUME QueueTypeOK, NEW rows \in SUBSET Rows, Outage(rows)
  PROVE  /\ outages' \in 0..MaxOutages /\ outages \in Nat /\ outages' > 0 /\ outages' >= outages
         /\ kept' = {} /\ table' \in [Rows -> Nat] /\ unsure' \subseteq Rows
         /\ \E W \in SUBSET rows : Insert(W) /\ unsure' = unsure \union W
<1>1. outages \in 0..MaxOutages /\ outages < MaxOutages /\ outages' = outages + 1 /\ kept' = {}
  BY DEF Outage, QueueTypeOK
<1>2. outages' \in 0..MaxOutages /\ outages \in Nat /\ outages' > 0 /\ outages' >= outages
  BY <1>1, QueueAssumption
<1>3. PICK W \in SUBSET rows : Insert(W) /\ unsure' = unsure \union W
  <2>1. CASE Insert(rows) /\ unsure' = unsure \union rows
    BY <2>1
  <2>2. CASE UNCHANGED <<table, unsure>>
    <3>1. {} \in SUBSET rows /\ Insert({}) /\ unsure' = unsure \union {}
      BY <2>2, InsertTyped
    <3> QED
      BY <3>1
  <2> QED
    BY <2>1, <2>2 DEF Outage
<1>4. table' \in [Rows -> Nat] /\ unsure' \subseteq Rows
  BY <1>3, InsertTyped DEF QueueTypeOK
<1> QED
  BY <1>1, <1>2, <1>3, <1>4

\* What every step of a write leaves as it is.
LEMMA Typed ==
  ASSUME QueueTypeOK, UNCHANGED <<life, pushed, bad>>,
         queued' \in Seq(Rows), batch' \in Seq(Rows), index' \in Nat,
         flight' \in {"none", "batch", "rows"}, flight' = "none" <=> batch' = <<>>,
         flight' = "rows" => index' < Len(batch'), flight' # "rows" => index' = 0,
         outages' \in 0..MaxOutages, table' \in [Rows -> Nat],
         refused' \subseteq Rows, dropped' \subseteq Rows, unsure' \subseteq Rows, kept' \subseteq Rows
  PROVE  QueueTypeOK'
  BY DEF QueueTypeOK

-----------------------------------------------------------------------------
(* The write's steps.                                                      *)

\* A write that is over, whatever it wrote and refused.
LEMMA OverKeeps ==
  ASSUME QueueInv, NEW n \in index..Len(batch), Over(n),
         NEW W \in SUBSET Rows, NEW R \in SUBSET Rows, Insert(W), refused' = refused \union R,
         First(Waiting, n - index) \subseteq W \union R, W \intersect R = {},
         W \subseteq Range(Waiting), R \subseteq bad,
         (W \union R) \ unsure' \subseteq First(Waiting, n - index),
         unsure \subseteq unsure', unsure' \subseteq unsure \union W,
         UNCHANGED <<life, pushed, bad>>,
         outages' \in 0..MaxOutages, outages \in Nat, outages' >= outages,
         \/ n = Len(batch) /\ kept' = kept
         \/ outages' > 0 /\ kept' = {}
  PROVE  QueueInv'
<1>1. QueueTypeOK /\ Increasing(Waiting)
  BY DEF QueueInv, OldestFirst, Increasing
<1> DEFINE S == First(Waiting, n - index)
<1>2. PICK D \in SUBSET Rows :
           /\ queued' \in Seq(Rows) /\ batch' = <<>> /\ index' = 0 /\ flight' = "none"
           /\ Waiting' = queued' /\ Increasing(Waiting')
           /\ S \subseteq Range(Waiting)
           /\ D \subseteq Range(Waiting) \ S
           /\ Range(Waiting') = Range(Waiting) \ (S \union D)
           /\ dropped' = dropped \union D
           /\ n = Len(batch) => D = {} /\ queued' = queued
  BY <1>1, OverSettles
<1> HIDE DEF S
<1>3. outages' \in Nat /\ (D # {} => outages' > 0)
  BY <1>2, QueueAssumption
<1>4. Progress(S, D, W, R)
  BY <1>2, <1>3 DEF Progress, S
<1>5. QueueTypeOK'
  <2>1. /\ refused' \subseteq Rows /\ dropped' \subseteq Rows /\ unsure' \subseteq Rows /\ kept' \subseteq Rows
    BY <1>1, <1>2 DEF QueueTypeOK
  <2>2. table' \in [Rows -> Nat]
    BY <1>1, InsertTyped
  <2>3. <<>> \in Seq(Rows) /\ 0 \in Nat
    BY EmptySeq
  <2> QED
    BY <1>1, <1>2, <2>1, <2>2, <2>3, Typed
<1> QED
  BY <1>2, <1>4, <1>5, ProgressKeeps

\* The fallback begins: nothing is settled, though the batch may have been written.
LEMMA OneByOneKeeps ==
  ASSUME QueueInv, flight = "batch", OneByOne, NEW W \in SUBSET Rows, W \subseteq Range(Waiting), Insert(W),
         unsure' = unsure \union W, UNCHANGED <<life, pushed, bad, refused>>,
         outages' \in 0..MaxOutages, outages \in Nat, outages' >= outages,
         kept' = kept \/ kept' = {}
  PROVE  QueueInv'
<1>1. QueueTypeOK /\ Increasing(Waiting)
  BY DEF QueueInv, OldestFirst, Increasing
<1>2. flight' = "rows" /\ UNCHANGED <<queued, dropped, batch, index>> /\ Waiting' = Waiting
  BY DEF OneByOne, Waiting
<1>3. outages' \in Nat
  BY QueueAssumption
<1>4. Progress({}, {}, W, {})
  BY <1>2, <1>3 DEF Progress
<1>5. QueueTypeOK'
  <2>1. refused' \subseteq Rows /\ dropped' \subseteq Rows /\ unsure' \subseteq Rows /\ kept' \subseteq Rows
    BY <1>1, <1>2 DEF QueueTypeOK
  <2>2. table' \in [Rows -> Nat]
    BY <1>1, InsertTyped
  <2>3. /\ queued' \in Seq(Rows) /\ batch' \in Seq(Rows) /\ index' = 0 /\ batch' # <<>>
        /\ index' < Len(batch')
    <3>1. index = 0 /\ batch # <<>> /\ queued \in Seq(Rows) /\ batch \in Seq(Rows)
      BY <1>1 DEF QueueTypeOK
    <3>2. Len(batch) > 0
      BY <1>1, WaitingIs
    <3> QED
      BY <1>2, <3>1, <3>2
  <2> QED
    BY <1>1, <1>2, <2>1, <2>2, <2>3, Typed
<1> QED
  BY <1>1, <1>2, <1>4, <1>5, ProgressKeeps

LEMMA BatchKeeps ==
  ASSUME QueueInv, BatchDone \/ BatchRefused \/ BatchFails
  PROVE  QueueInv'
<1>1. QueueTypeOK /\ flight = "batch"
  BY DEF QueueInv, BatchDone, BatchRefused, BatchFails
<1>2. /\ batch \in Seq(Rows) /\ index = 0 /\ Len(batch) \in Nat /\ Len(batch) > 0
      /\ First(Waiting, Len(batch) - index) = Range(batch) /\ First(Waiting, 0) = {}
      /\ outages \in Nat /\ outages \in 0..MaxOutages
  <2>1. batch \in Seq(Rows) /\ index = 0 /\ outages \in Nat /\ outages \in 0..MaxOutages
    BY <1>1 DEF QueueTypeOK
  <2> QED
    BY <1>1, <2>1, WaitingIs, SettledFirst
<1>3. Range(batch) \in SUBSET Rows /\ Range(batch) \subseteq Range(Waiting) /\ {} \subseteq Range(Waiting)
  <2>1. Range(batch) \in SUBSET Rows
    BY <1>2, LenProperties, ElementOfSeq DEF Range
  <2> QED
    BY <1>1, <2>1, BatchWaits
<1>4. 0 \in index..Len(batch) /\ Len(batch) \in index..Len(batch) /\ 0 - index = 0
  BY <1>2
<1>5. CASE BatchDone
  <2>1. /\ Insert(Range(batch)) /\ Over(Len(batch))
        /\ UNCHANGED <<life, pushed, outages, bad, refused, unsure, kept>>
    BY <1>5 DEF BatchDone
  <2>2. {} \in SUBSET Rows /\ refused' = refused \union {}
    BY <2>1
  <2>3. outages' \in 0..MaxOutages /\ outages' >= outages
    BY <1>2, <2>1
  <2>4. /\ First(Waiting, Len(batch) - index) \subseteq Range(batch) \union {}
        /\ Range(batch) \intersect {} = {} /\ {} \subseteq bad
        /\ (Range(batch) \union {}) \ unsure' \subseteq First(Waiting, Len(batch) - index)
        /\ unsure \subseteq unsure' /\ unsure' \subseteq unsure \union Range(batch)
    BY <1>2, <2>1
  <2>5. UNCHANGED <<life, pushed, bad>> /\ kept' = kept
    BY <2>1
  <2> QED
    BY <1>2, <1>3, <1>4, <2>1, <2>2, <2>3, <2>4, <2>5, OverKeeps
<1>6. CASE BatchRefused
  <2>1. /\ Range(batch) \intersect bad # {}
        /\ IF Len(batch) > 1 THEN OneByOne /\ UNCHANGED refused ELSE SingleRefused
        /\ UNCHANGED <<life, pushed, outages, bad, table, unsure, kept>>
    BY <1>6 DEF BatchRefused
  <2>2. {} \in SUBSET Rows /\ Insert({}) /\ unsure' = unsure \union {}
    BY <1>1, <2>1, InsertTyped
  <2>3. outages' \in 0..MaxOutages /\ outages' >= outages
    BY <1>2, <2>1
  <2>4. CASE Len(batch) > 1
    BY <1>1, <1>2, <1>3, <2>1, <2>2, <2>3, <2>4, OneByOneKeeps
  <2>5. CASE ~(Len(batch) > 1)
    <3>1. Len(batch) = 1
      <4>1. \A k \in Nat : k > 0 /\ ~(k > 1) => k = 1
        OBVIOUS
      <4>2. Len(batch) \in Nat /\ Len(batch) > 0
        BY <1>2
      <4> QED
        BY <2>5, <4>1, <4>2, Zenon
    <3>2. Over(Len(batch)) /\ refused' = refused \union Range(batch)
      BY <2>1, <2>5, <3>1 DEF SingleRefused
    <3>3. Range(batch) \subseteq bad
      <4>1. DOMAIN batch = {1}
        BY <1>2, <3>1, LenProperties
      <4> QED
        BY <2>1, <4>1 DEF Range
    <3>4. /\ First(Waiting, Len(batch) - index) \subseteq {} \union Range(batch)
          /\ {} \intersect Range(batch) = {}
          /\ ({} \union Range(batch)) \ unsure' \subseteq First(Waiting, Len(batch) - index)
          /\ unsure \subseteq unsure' /\ unsure' \subseteq unsure \union {}
      BY <1>2, <2>1
    <3>5. UNCHANGED <<life, pushed, bad>> /\ outages \in Nat /\ kept' = kept
      BY <1>2, <2>1
    <3> QED
      BY <1>3, <1>4, <2>2, <2>3, <3>2, <3>3, <3>4, <3>5, OverKeeps
  <2> QED
    BY <2>4, <2>5
<1>7. CASE BatchFails
  <2>1. /\ Outage(Range(batch)) /\ UNCHANGED <<life, pushed, bad, refused>>
        /\ IF Len(batch) > 1 THEN OneByOne ELSE Over(0)
    BY <1>7 DEF BatchFails
  <2>2. /\ outages' \in 0..MaxOutages /\ outages' > 0 /\ outages' >= outages /\ kept' = {}
        /\ \E W \in SUBSET Range(batch) : Insert(W) /\ unsure' = unsure \union W
    BY <1>1, <1>3, <2>1, OutageIs
  <2>3. PICK W \in SUBSET Range(batch) : Insert(W) /\ unsure' = unsure \union W
    BY <2>2
  <2>4. W \in SUBSET Rows /\ W \subseteq Range(Waiting) /\ {} \in SUBSET Rows /\ refused' = refused \union {}
    BY <1>3, <2>1
  <2>5. CASE Len(batch) > 1
    BY <1>1, <1>2, <2>1, <2>2, <2>3, <2>4, <2>5, OneByOneKeeps
  <2>6. CASE ~(Len(batch) > 1)
    <3>1. Over(0) /\ First(Waiting, 0 - index) = {}
      BY <1>2, <1>4, <2>1, <2>6
    <3>2. /\ First(Waiting, 0 - index) \subseteq W \union {} /\ W \intersect {} = {} /\ {} \subseteq bad
          /\ (W \union {}) \ unsure' \subseteq First(Waiting, 0 - index)
          /\ unsure \subseteq unsure' /\ unsure' \subseteq unsure \union W
      BY <2>3, <3>1
    <3> QED
      BY <1>2, <1>4, <2>1, <2>2, <2>3, <2>4, <3>1, <3>2, OverKeeps
  <2> QED
    BY <2>5, <2>6
<1> QED
  BY <1>5, <1>6, <1>7

\* The fallback's next row is settled, or an outage ends the fallback.
LEMMA RowKeeps ==
  ASSUME QueueInv, RowSettled \/ RowFails
  PROVE  QueueInv'
<1> DEFINE oldest == batch[index + 1]
<1>1. QueueTypeOK /\ flight = "rows" /\ Increasing(Waiting)
  BY DEF QueueInv, RowSettled, RowFails, OldestFirst, Increasing
<1>2. /\ batch \in Seq(Rows) /\ queued \in Seq(Rows) /\ index \in Nat /\ index < Len(batch)
      /\ outages \in Nat /\ outages \in 0..MaxOutages
  BY <1>1 DEF QueueTypeOK
<1>3. Len(batch) \in Nat /\ First(Waiting, 1) = {oldest} /\ First(Waiting, 0) = {}
  BY <1>1, WaitingIs, SettledFirst
<1>4. /\ index + 1 \in 1..Len(batch) /\ index \in index..Len(batch) /\ Len(batch) \in index..Len(batch)
      /\ index - index = 0 /\ index \in 0..Len(batch) /\ index + 1 \in 0..Len(batch)
  BY <1>2, <1>3
<1>5. oldest \in Rows /\ {oldest} \subseteq Range(Waiting)
  <2>1. oldest \in Rows
    BY <1>2, <1>4, ElementOfSeq
  <2> QED
    BY <1>1, <2>1, BatchWaits
<1>6. CASE RowSettled
  <2>1. PICK W \in SUBSET {oldest}, R \in SUBSET {oldest} :
          /\ Insert(W) /\ refused' = refused \union R /\ R \subseteq bad
          /\ W \union R = {oldest} /\ W \intersect R = {}
    <3>1. CASE oldest \in bad
      <4>1. refused' = refused \union {oldest} /\ UNCHANGED table
        BY <1>6, <3>1 DEF RowSettled
      <4> HIDE DEF oldest
      <4>2. /\ {} \in SUBSET {oldest} /\ {oldest} \in SUBSET {oldest} /\ Insert({}) /\ {oldest} \subseteq bad
            /\ {} \union {oldest} = {oldest} /\ {} \intersect {oldest} = {}
        BY <1>1, <3>1, <4>1, InsertTyped
      <4> QED
        BY <4>1, <4>2
    <3>2. CASE oldest \notin bad
      <4>1. Insert({oldest}) /\ refused' = refused \union {}
        BY <1>6, <3>2 DEF RowSettled
      <4> HIDE DEF oldest
      <4>2. /\ {} \in SUBSET {oldest} /\ {oldest} \in SUBSET {oldest} /\ {} \subseteq bad
            /\ {oldest} \union {} = {oldest} /\ {oldest} \intersect {} = {}
        OBVIOUS
      <4> QED
        BY <4>1, <4>2
    <3> QED
      BY <3>1, <3>2
  <2>2. /\ UNCHANGED <<life, pushed, outages, bad, unsure, kept>>
        /\ IF index + 1 < Len(batch)
             THEN index' = index + 1 /\ UNCHANGED <<queued, dropped, batch, flight>>
             ELSE Over(Len(batch))
    BY <1>6 DEF RowSettled
  <2>3. W \in SUBSET Rows /\ W \subseteq Range(Waiting) /\ R \in SUBSET Rows
    BY <1>5, <2>1
  <2>4. CASE index + 1 < Len(batch)
    <3>1. index' = index + 1 /\ UNCHANGED <<queued, dropped, batch, flight>>
      BY <2>2, <2>4
    <3>2. /\ Waiting' \in Seq(Rows) /\ Suffix(Waiting', Waiting, 1) /\ 1 \in 0..Len(Waiting)
      BY <1>1, <2>4, <3>1, NextRowWaits
    <3>3. /\ Increasing(Waiting') /\ Range(Waiting') = Range(Waiting) \ {oldest}
          /\ {oldest} \subseteq Range(Waiting)
      BY <1>1, <1>3, <3>2, WaitingIs, SuffixIncreasing
    <3>4. Progress({oldest}, {}, W, R)
      <4>1. dropped' = dropped \union {} /\ outages' \in Nat /\ outages' >= outages
        BY <1>2, <2>2, <3>1
      <4> QED
        BY <1>2, <2>1, <2>2, <3>3, <4>1 DEF Progress
    <3>5. QueueTypeOK'
      <4>1. refused' \subseteq Rows /\ dropped' \subseteq Rows /\ unsure' \subseteq Rows /\ kept' \subseteq Rows
        BY <1>1, <2>1, <2>2, <2>3, <3>1 DEF QueueTypeOK
      <4>2. table' \in [Rows -> Nat]
        BY <1>1, <2>1, InsertTyped
      <4>3. index' \in Nat /\ index' < Len(batch')
        BY <1>2, <2>4, <3>1
      <4>4. batch' # <<>> /\ flight' = "rows"
        BY <1>1, <3>1 DEF QueueTypeOK
      <4> QED
        BY <1>1, <1>2, <2>2, <3>1, <4>1, <4>2, <4>3, <4>4, Typed
    <3> QED
      BY <2>2, <3>1, <3>3, <3>4, <3>5, ProgressKeeps
  <2>5. CASE ~(index + 1 < Len(batch))
    <3>1. Over(Len(batch))
      BY <2>2, <2>5
    <3>2. Len(batch) - index = 1
      BY <1>2, <1>3, <2>5
    <3>3. First(Waiting, Len(batch) - index) = {oldest}
      BY <1>3, <3>2
    <3>4. /\ First(Waiting, Len(batch) - index) \subseteq W \union R
          /\ (W \union R) \ unsure' \subseteq First(Waiting, Len(batch) - index)
          /\ unsure \subseteq unsure' /\ unsure' \subseteq unsure \union W
      BY <2>1, <2>2, <3>3
    <3>5. /\ UNCHANGED <<life, pushed, bad>> /\ kept' = kept
          /\ outages' \in 0..MaxOutages /\ outages' >= outages
      BY <1>2, <2>2
    <3> QED
      BY <1>2, <1>4, <2>1, <2>3, <3>1, <3>4, <3>5, OverKeeps
  <2> QED
    BY <2>4, <2>5
<1>7. CASE RowFails
  <2>1. Outage({oldest}) /\ Over(index) /\ UNCHANGED <<life, pushed, bad, refused>>
    BY <1>7 DEF RowFails
  <2>2. {oldest} \in SUBSET Rows
    BY <1>5
  <2>3. /\ outages' \in 0..MaxOutages /\ outages' > 0 /\ outages' >= outages /\ kept' = {}
        /\ \E W \in SUBSET {oldest} : Insert(W) /\ unsure' = unsure \union W
    BY <1>1, <2>1, <2>2, OutageIs
  <2>4. PICK W \in SUBSET {oldest} : Insert(W) /\ unsure' = unsure \union W
    BY <2>3
  <2>5. /\ W \in SUBSET Rows /\ W \subseteq Range(Waiting)
        /\ {} \in SUBSET Rows /\ refused' = refused \union {}
    BY <1>5, <2>1, <2>2
  <2>6. First(Waiting, index - index) = {}
    BY <1>3, <1>4
  <2>7. /\ First(Waiting, index - index) \subseteq W \union {} /\ W \intersect {} = {} /\ {} \subseteq bad
        /\ (W \union {}) \ unsure' \subseteq First(Waiting, index - index)
        /\ unsure \subseteq unsure' /\ unsure' \subseteq unsure \union W
    BY <2>4, <2>6
  <2> QED
    BY <1>2, <1>4, <2>1, <2>3, <2>4, <2>5, <2>7, OverKeeps
<1> QED
  BY <1>6, <1>7

-----------------------------------------------------------------------------
(* The other steps.                                                        *)

\* A row joins those that wait, as the newest.
LEMMA PushKeeps ==
  ASSUME QueueInv, Push
  PROVE  QueueInv'
<1> DEFINE r == pushed + 1
           rows == Append(queued, r)
<1>1. QueueTypeOK /\ Increasing(Waiting)
  BY DEF QueueInv, OldestFirst, Increasing
<1>2. pushed' = r /\ UNCHANGED <<index, life, outages, bad, table, refused, dropped, unsure, kept>>
  BY DEF Push
<1>3. r \in Rows /\ r \in 0..MaxRows /\ pushed \in Nat /\ pushed < r
  BY <1>1, QueueAssumption DEF Push, QueueTypeOK, Rows
<1>4. queued \in Seq(Rows)
  BY <1>1 DEF QueueTypeOK
<1>5. /\ queued' \in Seq(Rows) /\ batch' \in Seq(Rows) /\ flight' \in {"none", "batch", "rows"}
      /\ flight' = "none" <=> batch' = <<>>
      /\ flight' = "rows" => index' < Len(batch')
      /\ flight' # "rows" => index' = 0
      /\ queued' \in {rows, <<>>} /\ rows \in Seq(Rows)
      /\ Waiting \in Seq(Rows) /\ Waiting' = Append(Waiting, r)
  BY <1>1, PushAppends
<1> HIDE DEF r, rows
<1>8. /\ Len(Waiting) \in Nat /\ DOMAIN Waiting = 1..Len(Waiting) /\ DOMAIN Waiting' = 1..Len(Waiting) + 1
      /\ \A i \in 1..Len(Waiting) : Waiting'[i] = Waiting[i] /\ Waiting[i] \in Nat
      /\ Waiting'[Len(Waiting) + 1] = r
  <2>1. /\ Append(Waiting, r) \in Seq(Rows) /\ Len(Append(Waiting, r)) = Len(Waiting) + 1
        /\ \A i \in 1..Len(Waiting) : Append(Waiting, r)[i] = Waiting[i]
        /\ Append(Waiting, r)[Len(Waiting) + 1] = r
    BY <1>3, <1>5, AppendProperties
  <2>2. DOMAIN Append(Waiting, r) = 1..Len(Waiting) + 1
    BY <2>1, LenProperties
  <2>3. /\ Len(Waiting) \in Nat /\ DOMAIN Waiting = 1..Len(Waiting)
        /\ \A i \in 1..Len(Waiting) : Waiting[i] \in Rows
    BY <1>5, LenProperties, ElementOfSeq
  <2>4. Rows \subseteq Nat
    BY DEF Rows
  <2> QED
    BY <1>5, <2>1, <2>2, <2>3, <2>4
<1>9. \A i \in 1..Len(Waiting) : Waiting[i] <= pushed
  BY <1>8 DEF QueueInv, WaitingIsPushed
<1>10. WaitingIsPushed'
  <2> SUFFICES ASSUME NEW i \in 1..Len(Waiting) + 1 PROVE Waiting'[i] <= pushed'
    BY <1>8 DEF WaitingIsPushed
  <2>1. CASE i = Len(Waiting) + 1
    BY <1>2, <1>3, <1>8, <2>1
  <2>2. CASE i # Len(Waiting) + 1
    <3>1. i \in 1..Len(Waiting)
      BY <1>8, <2>2
    <3>2. Waiting'[i] = Waiting[i] /\ Waiting[i] \in Nat /\ Waiting[i] <= pushed
      BY <1>8, <1>9, <3>1
    <3> QED
      BY <1>2, <1>3, <3>2
  <2> QED
    BY <2>1, <2>2
<1>11. OldestFirst'
  <2> SUFFICES ASSUME NEW i \in 1..Len(Waiting) + 1, NEW j \in 1..Len(Waiting) + 1, i < j
               PROVE  Waiting'[i] < Waiting'[j]
    BY <1>8 DEF OldestFirst
  <2>1. i \in 1..Len(Waiting)
    BY <1>8
  <2>2. Waiting'[i] = Waiting[i] /\ Waiting[i] \in Nat /\ Waiting[i] <= pushed
    BY <1>8, <1>9, <2>1
  <2>3. CASE j = Len(Waiting) + 1
    BY <1>3, <1>8, <2>2, <2>3
  <2>4. CASE j # Len(Waiting) + 1
    <3>1. j \in 1..Len(Waiting)
      BY <1>8, <2>4
    <3> QED
      BY <1>1, <1>8, <2>1, <2>2, <3>1 DEF Increasing
  <2> QED
    BY <2>3, <2>4
<1>12. Range(Waiting') = Range(Waiting) \union {r}
  <2>1. \A i \in 1..Len(Waiting) : i \in 1..Len(Waiting) + 1
    BY <1>8
  <2>2. \A i \in 1..Len(Waiting) + 1 : i \in 1..Len(Waiting) \/ i = Len(Waiting) + 1
    BY <1>8
  <2>3. Len(Waiting) + 1 \in 1..Len(Waiting) + 1
    BY <1>8
  <2> QED
    BY <1>8, <2>1, <2>2, <2>3 DEF Range
<1>13. r \notin Range(Waiting) /\ \A x \in Range(Waiting) : x <= pushed
  BY <1>3, <1>8, <1>9 DEF Range
<1>14. EveryRowAccountedFor'
  <2> DEFINE count(x) == Times(x \in Range(Waiting)) + table[x] + Times(x \in refused) + Times(x \in dropped)
  <2>1. ASSUME NEW x \in Rows
        PROVE  IF x \in unsure' THEN count(x)' >= 1 ELSE count(x)' = Times(x <= pushed')
    <3>1. IF x \in unsure THEN count(x) >= 1 ELSE count(x) = Times(x <= pushed)
      BY DEF QueueInv, EveryRowAccountedFor
    <3>2. table[x] \in Nat /\ x \in Nat /\ table'[x] = table[x]
      BY <1>1, <1>2 DEF QueueTypeOK, Rows
    <3>3. /\ x \in Range(Waiting') <=> x \in Range(Waiting) \/ x = r
          /\ x \in Range(Waiting) => x # r
          /\ x \in unsure' <=> x \in unsure
          /\ x \in refused' <=> x \in refused
          /\ x \in dropped' <=> x \in dropped
      BY <1>2, <1>12, <1>13
    <3>4. (x <= pushed' <=> x <= pushed \/ x = r) /\ (x = r => ~(x <= pushed))
      BY <1>2, <1>3, <3>2 DEF r
    <3> QED
      BY <3>1, <3>2, <3>3, <3>4 DEF Times
  <2>2. refused' \subseteq bad' /\ (dropped' # {} => outages' > 0)
    BY <1>2 DEF QueueInv, EveryRowAccountedFor
  <2> QED
    BY <2>1, <2>2 DEF EveryRowAccountedFor
<1>15. KeptIsTaken'
  <2>1. r \notin kept
    BY <1>3 DEF QueueInv, KeptIsTaken
  <2>2. Range(queued') \subseteq Range(queued) \union {r}
    <3>1. Range(<<>>) = {}
      BY EmptySeq, LenProperties DEF Range
    <3>2. Range(rows) \subseteq Range(queued) \union {r}
      <4>1. /\ Len(rows) = Len(queued) + 1 /\ rows[Len(queued) + 1] = r
            /\ \A i \in 1..Len(queued) : rows[i] = queued[i]
        BY <1>3, <1>4, AppendProperties DEF rows
      <4>2. /\ Len(queued) \in Nat /\ DOMAIN queued = 1..Len(queued) /\ DOMAIN rows = 1..Len(rows)
        BY <1>4, <1>5, LenProperties
      <4>3. \A i \in 1..Len(rows) : i \in 1..Len(queued) \/ i = Len(queued) + 1
        BY <4>1, <4>2
      <4> QED
        BY <4>1, <4>2, <4>3 DEF Range
    <3> QED
      BY <1>5, <3>1, <3>2
  <2>3. kept \subseteq 1..pushed'
    <3>1. 1..pushed \subseteq 1..pushed'
      BY <1>2, <1>3 DEF r
    <3> QED
      BY <3>1 DEF QueueInv, KeptIsTaken
  <2> QED
    BY <1>2, <1>12, <2>1, <2>2, <2>3 DEF QueueInv, KeptIsTaken
<1>16. QueueTypeOK'
  <2>1. pushed' \in 0..MaxRows
    BY <1>2, <1>3
  <2> QED
    BY <1>1, <1>2, <1>5, <2>1 DEF QueueTypeOK
<1>17. DroppedIsGone'
  <2>1. r \notin 1..pushed /\ 1..pushed \subseteq 1..pushed'
    BY <1>2, <1>3 DEF r
  <2> QED
    BY <1>2, <1>12, <2>1 DEF QueueInv, DroppedIsGone
<1> QED
  BY <1>10, <1>11, <1>14, <1>15, <1>16, <1>17 DEF QueueInv

\* QueueInv holds across them: what they take is the prefix of the waiting rows.
LEMMA FlushKeeps ==
  ASSUME QueueInv, Initialize \/ Interval \/ CloseQueue \/ CloseGoesOn
  PROVE  QueueInv'
<1>1. QueueTypeOK
  BY DEF QueueInv
<1>2. life' \in {"on", "first", "second", "over"}
  BY DEF Initialize, Interval, CloseQueue, CloseGoesOn, NextFlush
<1>3. /\ UNCHANGED <<index, pushed, outages, bad, table, refused, dropped, unsure>>
      /\ queued' \in Seq(Rows) /\ batch' \in Seq(Rows) /\ flight' \in {"none", "batch", "rows"}
      /\ flight' = "none" <=> batch' = <<>>
      /\ flight' = "rows" => index' < Len(batch')
      /\ flight' # "rows" => index' = 0
      /\ Waiting' = Waiting
      /\ queued' \in {queued, <<>>}
  BY <1>1, FlushMoves
<1>4. kept \subseteq Rows /\ 1..pushed \subseteq Rows
  BY <1>1, QueueAssumption DEF QueueTypeOK, Rows
<1>5. kept' \in {kept, 1..pushed}
  BY DEF Initialize, Interval, CloseQueue, CloseGoesOn
<1>6. QueueTypeOK'
  <2>1. kept' \subseteq Rows
    BY <1>4, <1>5
  <2> QED
    BY <1>1, <1>2, <1>3, <2>1 DEF QueueTypeOK
<1>7. OldestFirst' /\ WaitingIsPushed'
  BY <1>2, <1>3 DEF QueueInv, OldestFirst, WaitingIsPushed
<1>8. EveryRowAccountedFor'
  <2>1. UNCHANGED <<table, refused, dropped, unsure, pushed, bad, outages>> /\ Waiting' = Waiting
    BY <1>2, <1>3
  <2> QED
    BY <2>1 DEF QueueInv, EveryRowAccountedFor
<1>9. KeptIsTaken'
  <2>1. Range(<<>>) = {}
    BY EmptySeq, LenProperties DEF Range
  <2>2. kept' \subseteq 1..pushed'
    BY <1>3, <1>5 DEF QueueInv, KeptIsTaken
  <2>3. CASE Initialize \/ CloseQueue
    <3>1. life' \notin {"second", "over"}
      BY <2>3 DEF Initialize, CloseQueue
    <3> QED
      BY <2>2, <3>1 DEF KeptIsTaken
  <2>4. CASE Interval
    <3>1. life = "on" /\ life' = "on"
      BY <2>4 DEF Interval
    <3> QED
      BY <2>2, <3>1 DEF KeptIsTaken
  <2>5. CASE CloseGoesOn
    <3>1. life \in {"first", "second"} /\ flight = "none" /\ life' = NextFlush(life) /\ kept' = kept
      BY <2>5 DEF CloseGoesOn
    <3>2. CASE life = "first"
      <4>1. life' = "second" /\ Take(queued)
        BY <2>5, <3>1, <3>2 DEF CloseGoesOn, NextFlush
      <4>2. queued' = <<>>
        <5>1. queued \in Seq(Rows) /\ index' = index
          BY <1>1, <1>3 DEF QueueTypeOK
        <5> QED
          BY <1>1, <3>1, <3>2, <4>1, <5>1, TakeKeepsOrder
      <4> QED
        BY <2>1, <2>2, <4>1, <4>2 DEF KeptIsTaken
    <3>3. CASE life = "second"
      <4>1. life' = "over" /\ kept \intersect Range(queued) = {} /\ Waiting = queued
        BY <1>1, <3>1, <3>3, WaitingIs DEF NextFlush, QueueInv, KeptIsTaken
      <4> QED
        BY <1>3, <2>2, <3>1, <4>1 DEF KeptIsTaken
    <3> QED
      BY <3>1, <3>2, <3>3
  <2> QED
    BY <2>3, <2>4, <2>5
<1>10. DroppedIsGone'
  BY <1>2, <1>3 DEF QueueInv, DroppedIsGone
<1> QED
  BY <1>6, <1>7, <1>8, <1>9, <1>10 DEF QueueInv

LEMMA QueueInvInit == QueueInit => QueueInv
<1> SUFFICES ASSUME QueueInit PROVE QueueInv
  OBVIOUS
<1>1. /\ queued = <<>> /\ batch = <<>> /\ index = 0 /\ flight = "none" /\ life \in {"off", "on"}
      /\ pushed = 0 /\ outages = 0 /\ bad \subseteq Rows /\ table = [r \in Rows |-> 0]
      /\ refused = {} /\ dropped = {} /\ unsure = {} /\ kept = {}
  BY DEF QueueInit
<1>2. QueueTypeOK
  <2>1. 0 \in 0..MaxRows /\ 0 \in 0..MaxOutages /\ 0 \in Nat
    BY QueueAssumption
  <2>2. <<>> \in Seq(Rows)
    BY EmptySeq
  <2>3. table \in [Rows -> Nat]
    BY <1>1
  <2> QED
    BY <1>1, <2>1, <2>2, <2>3 DEF QueueTypeOK
<1>3. Waiting = <<>> /\ DOMAIN Waiting = {} /\ Range(Waiting) = {}
  <2>1. Waiting = <<>>
    BY <1>1, <1>2, WaitingIs
  <2>2. DOMAIN <<>> = {}
    BY EmptySeq, LenProperties
  <2> QED
    BY <2>1, <2>2 DEF Range
<1>4. OldestFirst /\ WaitingIsPushed
  BY <1>3 DEF OldestFirst, WaitingIsPushed
<1>5. EveryRowAccountedFor
  <2>1. \A r \in Rows : table[r] = 0 /\ ~(r <= pushed)
    BY <1>1 DEF Rows
  <2> QED
    BY <1>1, <1>3, <2>1 DEF EveryRowAccountedFor, Times
<1>6. KeptIsTaken
  BY <1>1 DEF KeptIsTaken
<1>7. DroppedIsGone
  BY <1>1 DEF DroppedIsGone
<1> QED
  BY <1>2, <1>4, <1>5, <1>6, <1>7 DEF QueueInv

-----------------------------------------------------------------------------
(* The theorems of the queue.                                              *)

\* The inductive invariant of a log queue (BufferedInsertQueue).
THEOREM QueueIsInvariant == QueueSpec => []QueueInv
<1>1. QueueInv /\ [QueueNext]_queueVars => QueueInv'
  <2> SUFFICES ASSUME QueueInv, [QueueNext]_queueVars PROVE QueueInv'
    OBVIOUS
  <2>1. CASE UNCHANGED queueVars
    <3>1. UNCHANGED <<queued, batch, index, flight, life, pushed, outages, bad, table,
                      refused, dropped, unsure, kept>>
      BY <2>1 DEF queueVars
    <3>2. QueueTypeOK' /\ Waiting' = Waiting
      BY <3>1 DEF QueueInv, QueueTypeOK, Waiting
    <3>3. OldestFirst' /\ WaitingIsPushed' /\ DroppedIsGone' /\ KeptIsTaken'
      BY <3>1, <3>2 DEF QueueInv, OldestFirst, WaitingIsPushed, DroppedIsGone, KeptIsTaken
    <3>4. EveryRowAccountedFor'
      BY <3>1, <3>2 DEF QueueInv, EveryRowAccountedFor
    <3> QED
      BY <3>2, <3>3, <3>4 DEF QueueInv
  <2>2. CASE Push
    BY <2>2, PushKeeps
  <2>3. CASE Initialize \/ Interval \/ CloseQueue \/ CloseGoesOn
    BY <2>3, FlushKeeps
  <2>4. CASE BatchDone \/ BatchRefused \/ BatchFails
    BY <2>4, BatchKeeps
  <2>5. CASE RowSettled \/ RowFails
    BY <2>5, RowKeeps
  <2> QED
    BY <2>1, <2>2, <2>3, <2>4, <2>5 DEF QueueNext, Settle
<1> QED
  BY <1>1, QueueInvInit, PTL DEF QueueSpec

\* Every row pushed is once to be written, in the table, refused or dropped, and twice in
\* the table only if an answer was lost, whatever fails.
THEOREM RowsAreAccountedFor == QueueSpec => []EveryRowAccountedFor
<1>1. QueueInv => EveryRowAccountedFor
  BY DEF QueueInv
<1> QED
  BY <1>1, QueueIsInvariant, PTL

\* Rows wait in the order they were pushed, so that the cap drops the oldest.
THEOREM RowsWaitOldestFirst == QueueSpec => []OldestFirst
<1>1. QueueInv => OldestFirst
  BY DEF QueueInv
<1> QED
  BY <1>1, QueueIsInvariant, PTL

\* A shutdown that met no outage has settled every row pushed before it.
THEOREM ShutdownFlushesTheQueue == QueueSpec => []ShutdownWritesWhatIsLeft
<1>1. QueueInv => ShutdownWritesWhatIsLeft
  BY DEF QueueInv, KeptIsTaken, ShutdownWritesWhatIsLeft
<1> QED
  BY <1>1, QueueIsInvariant, PTL

-----------------------------------------------------------------------------
(* What the log promises.                                                  *)

\* The rows X are written or refused.
Reports(X) == Stored' \union refused' = Stored \union refused \union X

LEMMA InsertReports ==
  ASSUME QueueTypeOK, NEW W \in SUBSET Rows, NEW R, Insert(W), refused' = refused \union R
  PROVE  Reports(W \union R)
<1>1. \A r \in Rows : table[r] \in Nat /\ table'[r] = IF r \in W THEN table[r] + 1 ELSE table[r]
  BY DEF Insert, QueueTypeOK
<1>2. \A r \in Rows : table'[r] > 0 <=> table[r] > 0 \/ r \in W
  BY <1>1
<1>3. Stored' = Stored \union W
  BY <1>2 DEF Stored
<1> QED
  BY <1>3 DEF Reports

\* A suffix is the rest of the sequence.
LEMMA SuffixIsRest ==
  ASSUME NEW w \in Seq(Rows), NEW v \in Seq(Rows), NEW k \in 0..Len(w), Suffix(v, w, k)
  PROVE  v = SubSeq(w, k + 1, Len(w))
<1> DEFINE s == SubSeq(w, k + 1, Len(w))
<1>1. s \in Seq(Rows) /\ Suffix(s, w, k)
  BY CutInTwo
<1> HIDE DEF s
<1>2. Len(s) = Len(v) /\ \A i \in 1..Len(s) : s[i] = v[i]
  BY <1>1 DEF Suffix
<1>3. v = s
  BY <1>1, <1>2, SeqEqual
<1> QED
  BY <1>3 DEF s

\* Without its first 0 elements, a sequence is whole.
LEMMA SuffixOfNone ==
  ASSUME NEW w \in Seq(Rows), NEW v \in Seq(Rows), Suffix(v, w, 0)
  PROVE  v = w
<1>1. Len(w) \in Nat /\ Len(v) \in Nat
  BY LenProperties
<1>2. Len(v) = Len(w) /\ \A i \in 1..Len(v) : v[i] = w[i]
  <2>1. Len(v) = Len(w) - 0 /\ \A i \in 1..Len(v) : v[i] = w[i + 0] /\ i + 0 = i
    BY DEF Suffix
  <2> QED
    BY <1>1, <2>1
<1> QED
  BY <1>2, SeqEqual

\* The oldest rows are settled.
LEMMA SettleStep ==
  ASSUME QueueInv, NEW k \in 1..Len(Waiting), Waiting' \in Seq(Rows), Suffix(Waiting', Waiting, k),
         NEW X, Reports(X), First(Waiting, k) \subseteq X, X \subseteq Range(Waiting),
         UNCHANGED <<pushed, dropped>>
  PROVE  Log!Settle
<1>1. Waiting \in Seq(Rows) /\ Increasing(Waiting) /\ k \in 0..Len(Waiting)
  BY WaitingIs DEF QueueInv, OldestFirst, Increasing
<1>2. /\ Range(Waiting') = Range(Waiting) \ First(Waiting, k)
      /\ First(Waiting, k) \subseteq Range(Waiting)
  BY <1>1, SuffixIncreasing
<1>3. Waiting' = SubSeq(Waiting, k + 1, Len(Waiting))
  BY <1>1, SuffixIsRest
<1>4. Reported' = Reported \union First(Waiting, k)
  BY <1>2 DEF Reports, Reported, QueueInv, DroppedIsGone
<1> QED
  BY <1>3, <1>4 DEF Log!Settle, Log!Oldest, Log!Others, First

\* More rows than the cap wait, and the oldest are lost.
LEMMA OverflowStep ==
  ASSUME QueueInv, NEW k \in 1..Len(Waiting), k = Len(Waiting) - MaxBuffer,
         Waiting' \in Seq(Rows), Suffix(Waiting', Waiting, k),
         NEW X, Reports(X), X \subseteq Range(Waiting),
         dropped' = dropped \union First(Waiting, k), pushed' = pushed
  PROVE  Log!Overflow
<1>1. Waiting \in Seq(Rows) /\ Increasing(Waiting) /\ k \in 0..Len(Waiting) /\ Len(Waiting) > MaxBuffer
  BY WaitingIs, QueueAssumption DEF QueueInv, OldestFirst, Increasing
<1>2. /\ Range(Waiting') = Range(Waiting) \ First(Waiting, k)
      /\ First(Waiting, k) \subseteq Range(Waiting)
  BY <1>1, SuffixIncreasing
<1>3. Waiting' = SubSeq(Waiting, k + 1, Len(Waiting))
  BY <1>1, SuffixIsRest
<1>4. Reported' = Reported
  BY <1>2 DEF Reports, Reported
<1> QED
  BY <1>1, <1>3, <1>4 DEF Log!Overflow, Log!Oldest, Log!Others, First

\* The same rows wait, though some of them may be written.
LEMMA LogStutters ==
  ASSUME UNCHANGED <<Waiting, pushed, dropped>>, NEW X, Reports(X), X \subseteq Range(Waiting)
  PROVE  UNCHANGED Log!vars
<1>1. Reported' = Reported
  BY DEF Reports, Reported
<1> QED
  BY <1>1 DEF Log!vars

\* A write that settles what is left of its batch.
LEMMA OverSettlesAll ==
  ASSUME QueueInv, flight # "none", Over(Len(batch)), pushed' = pushed,
         NEW X, Reports(X), First(Waiting, Len(batch) - index) \subseteq X, X \subseteq Range(Waiting)
  PROVE  Log!Settle
<1>1. QueueTypeOK
  BY DEF QueueInv
<1>2. index \in 0..Len(batch) /\ Len(batch) \in Nat /\ Len(batch) - index > 0
  BY <1>1, WaitingIs DEF QueueTypeOK
<1>3. Len(batch) \in index..Len(batch)
  BY <1>2
<1> DEFINE k == Len(batch) - index
<1>4. PICK all \in Seq(Rows), over \in Nat :
        /\ k \in 0..Len(Waiting) /\ Suffix(all, Waiting, k)
        /\ over \in 0..Len(all) /\ (over # 0 => Len(batch) < Len(batch) /\ over = Len(all) - MaxBuffer)
        /\ queued' \in Seq(Rows) /\ dropped' = dropped \union First(all, over)
        /\ Waiting' = queued' /\ all = queued /\ queued' = queued
  BY <1>1, <1>3, OverCuts
<1>5. First(all, over) = {}
  BY <1>2, <1>4 DEF First
<1>6. k \in 1..Len(Waiting)
  BY <1>2, <1>4
<1> HIDE DEF k
<1>7. Waiting' \in Seq(Rows) /\ Suffix(Waiting', Waiting, k) /\ dropped' = dropped
  BY <1>4, <1>5
<1>8. First(Waiting, k) \subseteq X
  BY DEF k
<1> QED
  BY <1>6, <1>7, <1>8, SettleStep

\* A write that fails with nothing settled by this step: its rows are back, under the cap.
LEMMA OverGivesBack ==
  ASSUME QueueInv, index < Len(batch), Over(index), pushed' = pushed,
         NEW X, Reports(X), X \subseteq Range(Waiting)
  PROVE  Log!Overflow \/ UNCHANGED Log!vars
<1>1. QueueTypeOK
  BY DEF QueueInv
<1>2. index \in 0..Len(batch) /\ Len(batch) \in Nat /\ index \in index..Len(batch) /\ index - index = 0
  BY <1>1, WaitingIs
<1>3. PICK all \in Seq(Rows), over \in Nat :
        /\ 0 \in 0..Len(Waiting) /\ Suffix(all, Waiting, 0)
        /\ over \in 0..Len(all) /\ (over # 0 => over = Len(all) - MaxBuffer)
        /\ queued' \in Seq(Rows) /\ Suffix(queued', all, over) /\ dropped' = dropped \union First(all, over)
        /\ Waiting' = queued'
  BY <1>1, <1>2, OverCuts
<1>4. all = Waiting
  BY <1>1, <1>3, WaitingIs, SuffixOfNone
<1>5. CASE over = 0
  <2>1. dropped' = dropped
    BY <1>3, <1>5 DEF First
  <2>2. Waiting' = Waiting
    BY <1>1, <1>3, <1>4, <1>5, WaitingIs, SuffixOfNone
  <2> QED
    BY <2>1, <2>2, LogStutters
<1>6. CASE over # 0
  <2>1. over \in 1..Len(Waiting) /\ over = Len(Waiting) - MaxBuffer
    BY <1>3, <1>4, <1>6
  <2> QED
    BY <1>3, <1>4, <2>1, OverflowStep
<1> QED
  BY <1>5, <1>6

\* A statement that fails: its rows may have been written all the same.
LEMMA OutageReports ==
  ASSUME QueueTypeOK, NEW rows \in SUBSET Rows, Outage(rows), refused' = refused
  PROVE  \E X \in SUBSET rows : Reports(X)
<1>1. PICK W \in SUBSET rows : Insert(W)
  BY OutageIs
<1>2. W \in SUBSET Rows /\ refused' = refused \union {}
  OBVIOUS
<1>3. Reports(W \union {})
  BY <1>1, <1>2, InsertReports
<1>4. W \union {} = W
  OBVIOUS
<1> QED
  BY <1>3, <1>4

\* The batch's INSERT settles its rows, or gives back a single row, or begins the
\* fallback, which the log does not see.
LEMMA BatchStep ==
  ASSUME QueueInv, BatchDone \/ BatchRefused \/ BatchFails
  PROVE  Log!Settle \/ Log!Overflow \/ UNCHANGED Log!vars
<1>1. QueueTypeOK /\ flight = "batch" /\ flight # "none" /\ pushed' = pushed
  BY DEF QueueInv, BatchDone, BatchRefused, BatchFails
<1>2. /\ batch \in Seq(Rows) /\ index = 0 /\ Len(batch) \in Nat /\ Len(batch) > 0
      /\ First(Waiting, Len(batch) - index) = Range(batch)
      /\ Range(batch) \in SUBSET Rows /\ Range(batch) \subseteq Range(Waiting)
  <2>1. batch \in Seq(Rows) /\ index = 0
    BY <1>1 DEF QueueTypeOK
  <2>2. Range(batch) \in SUBSET Rows
    BY <2>1, LenProperties, ElementOfSeq DEF Range
  <2> QED
    BY <1>1, <2>1, <2>2, WaitingIs, SettledFirst, BatchWaits
<1>3. OneByOne => UNCHANGED <<Waiting, dropped>>
  BY DEF OneByOne, Waiting
<1>4. CASE BatchDone
  <2>1. Insert(Range(batch)) /\ Over(Len(batch)) /\ refused' = refused \union {}
    BY <1>4 DEF BatchDone
  <2>2. Reports(Range(batch) \union {}) /\ Range(batch) \union {} = Range(batch)
    BY <1>1, <1>2, <2>1, InsertReports
  <2> QED
    BY <1>1, <1>2, <2>1, <2>2, OverSettlesAll
<1>5. CASE BatchRefused
  <2>1. /\ IF Len(batch) > 1 THEN OneByOne /\ UNCHANGED refused ELSE SingleRefused
        /\ UNCHANGED table
    BY <1>5 DEF BatchRefused
  <2>2. Insert({}) /\ {} \in SUBSET Rows
    BY <1>1, <2>1, InsertTyped
  <2>3. CASE Len(batch) > 1
    <3>1. OneByOne /\ refused' = refused \union {}
      BY <2>1, <2>3
    <3>2. Reports({} \union {}) /\ {} \union {} \subseteq Range(Waiting)
      BY <1>1, <2>2, <3>1, InsertReports
    <3> QED
      BY <1>1, <1>3, <3>1, <3>2, LogStutters
  <2>4. CASE ~(Len(batch) > 1)
    <3>1. Over(1) /\ refused' = refused \union Range(batch)
      BY <2>1, <2>4 DEF SingleRefused
    <3>2. Len(batch) = 1
      <4>1. \A k \in Nat : k > 0 /\ ~(k > 1) => k = 1
        OBVIOUS
      <4> QED
        BY <1>2, <2>4, <4>1, Zenon
    <3>3. Reports({} \union Range(batch)) /\ {} \union Range(batch) = Range(batch)
      BY <1>1, <2>2, <3>1, InsertReports
    <3>4. Over(Len(batch))
      BY <3>1, <3>2
    <3> QED
      BY <1>1, <1>2, <3>3, <3>4, OverSettlesAll
  <2> QED
    BY <2>3, <2>4
<1>6. CASE BatchFails
  <2>1. /\ Outage(Range(batch)) /\ refused' = refused
        /\ IF Len(batch) > 1 THEN OneByOne ELSE Over(0)
    BY <1>6 DEF BatchFails
  <2>2. PICK X \in SUBSET Range(batch) : Reports(X)
    BY <1>1, <1>2, <2>1, OutageReports
  <2>3. X \subseteq Range(Waiting)
    BY <1>2, <2>2
  <2>4. CASE Len(batch) > 1
    BY <1>1, <1>3, <2>1, <2>2, <2>3, <2>4, LogStutters
  <2>5. CASE ~(Len(batch) > 1)
    <3>1. Over(index) /\ index < Len(batch)
      BY <1>2, <2>1, <2>5
    <3> QED
      BY <1>1, <2>2, <2>3, <3>1, OverGivesBack
  <2> QED
    BY <2>4, <2>5
<1> QED
  BY <1>4, <1>5, <1>6

\* The fallback settles the oldest row; an outage gives back those that are left.
LEMMA RowStep ==
  ASSUME QueueInv, RowSettled \/ RowFails
  PROVE  Log!Settle \/ Log!Overflow \/ UNCHANGED Log!vars
<1> DEFINE oldest == batch[index + 1]
<1>1. QueueTypeOK /\ flight = "rows" /\ flight # "none" /\ pushed' = pushed
  BY DEF QueueInv, RowSettled, RowFails
<1>2. /\ batch \in Seq(Rows) /\ index \in Nat /\ index < Len(batch) /\ Len(batch) \in Nat
      /\ First(Waiting, 1) = {oldest} /\ oldest \in Range(Waiting)
  BY <1>1, WaitingIs, SettledFirst, BatchWaits DEF QueueTypeOK
<1>3. oldest \in Rows
  BY <1>2, ElementOfSeq
<1>4. {oldest} \in SUBSET Rows /\ {oldest} \subseteq Range(Waiting)
  BY <1>2, <1>3
<1>5. CASE RowSettled
  <2>1. Reports({oldest})
    <3>1. CASE oldest \in bad
      <4>1. refused' = refused \union {oldest} /\ UNCHANGED table
        BY <1>5, <3>1 DEF RowSettled
      <4> HIDE DEF oldest
      <4>2. Insert({}) /\ {} \in SUBSET Rows
        BY <1>1, <4>1, InsertTyped
      <4>3. Reports({} \union {oldest}) /\ {} \union {oldest} = {oldest}
        BY <1>1, <4>1, <4>2, InsertReports
      <4> QED
        BY <4>3
    <3>2. CASE oldest \notin bad
      <4>1. Insert({oldest}) /\ refused' = refused \union {}
        BY <1>5, <3>2 DEF RowSettled
      <4> HIDE DEF oldest
      <4>2. Reports({oldest} \union {}) /\ {oldest} \union {} = {oldest}
        BY <1>1, <1>4, <4>1, InsertReports
      <4> QED
        BY <4>2
    <3> QED
      BY <3>1, <3>2
  <2>2. CASE index + 1 < Len(batch)
    <3>1. index' = index + 1 /\ UNCHANGED <<queued, dropped, batch, flight>>
      BY <1>5, <2>2 DEF RowSettled
    <3>2. Waiting' \in Seq(Rows) /\ Suffix(Waiting', Waiting, 1) /\ 1 \in 0..Len(Waiting)
      BY <1>1, <2>2, <3>1, NextRowWaits
    <3>3. 1 \in 1..Len(Waiting) /\ First(Waiting, 1) \subseteq {oldest}
      BY <1>2, <3>2
    <3> QED
      BY <1>1, <1>4, <2>1, <3>1, <3>2, <3>3, SettleStep
  <2>3. CASE ~(index + 1 < Len(batch))
    <3>1. Over(Len(batch))
      BY <1>5, <2>3 DEF RowSettled
    <3>2. Len(batch) - index = 1
      BY <1>2, <2>3
    <3>3. First(Waiting, Len(batch) - index) \subseteq {oldest}
      BY <1>2, <3>2
    <3> QED
      BY <1>1, <1>4, <2>1, <3>1, <3>3, OverSettlesAll
  <2> QED
    BY <2>2, <2>3
<1>6. CASE RowFails
  <2>1. Outage({oldest}) /\ Over(index) /\ refused' = refused
    BY <1>6 DEF RowFails
  <2>2. PICK X \in SUBSET {oldest} : Reports(X)
    BY <1>1, <1>4, <2>1, OutageReports
  <2>3. X \subseteq Range(Waiting)
    BY <1>4, <2>2
  <2> QED
    BY <1>1, <1>2, <2>1, <2>2, <2>3, OverGivesBack
<1> QED
  BY <1>5, <1>6

\* A push is an Accept of the log, whether or not it flushes.
LEMMA PushStep ==
  ASSUME QueueInv, Push
  PROVE  Log!Accept
<1>1. QueueTypeOK
  BY DEF QueueInv
<1>2. /\ Waiting' = Append(Waiting, pushed + 1) /\ Waiting \in Seq(Rows)
      /\ pushed' = pushed + 1 /\ UNCHANGED <<table, refused, dropped>>
  BY <1>1, PushAppends DEF Push
<1> DEFINE r == pushed + 1
<1>3. r \in Rows /\ ~(r <= pushed) /\ r \notin 1..pushed
  BY <1>1, QueueAssumption DEF Push, QueueTypeOK, Rows
<1>4. r \notin Stored /\ r \notin refused
  <2>1. r \notin unsure
    BY <1>3 DEF QueueInv, DroppedIsGone
  <2>2. Times(r \in Range(Waiting)) + table[r] + Times(r \in refused) + Times(r \in dropped) = 0
    BY <1>3, <2>1 DEF QueueInv, EveryRowAccountedFor, Times
  <2>3. table[r] \in Nat
    BY <1>1, <1>3 DEF QueueTypeOK
  <2> QED
    BY <2>2, <2>3 DEF Times, Stored
<1>5. Range(Waiting') = Range(Waiting) \union {r}
  <2>1. /\ Waiting' \in Seq(Rows) /\ Len(Waiting') = Len(Waiting) + 1 /\ Waiting'[Len(Waiting) + 1] = r
        /\ \A i \in 1..Len(Waiting) : Waiting'[i] = Waiting[i]
    BY <1>2, <1>3, AppendProperties
  <2>2. Len(Waiting) \in Nat /\ DOMAIN Waiting = 1..Len(Waiting) /\ DOMAIN Waiting' = 1..Len(Waiting')
    BY <1>2, <2>1, LenProperties
  <2>3. \A i \in 1..Len(Waiting') : i \in 1..Len(Waiting) \/ i = Len(Waiting) + 1
    BY <2>1, <2>2
  <2>4. Len(Waiting) + 1 \in DOMAIN Waiting' /\ DOMAIN Waiting \subseteq DOMAIN Waiting'
    BY <2>1, <2>2
  <2> QED
    BY <2>1, <2>2, <2>3, <2>4 DEF Range
<1>6. Reported' = Reported
  <2>1. Stored' = Stored
    BY <1>2 DEF Stored
  <2> QED
    BY <1>2, <1>4, <1>5, <2>1 DEF Reported
<1> QED
  BY <1>2, <1>6 DEF Log!Accept

\* Batches, fallbacks and retries implement the log that RowLog specifies: rows leave it
\* from the oldest on, are lost only beyond the cap, and never come back.
THEOREM QueueImplementsLog == QueueSpec => ImplementsLog
<1>1. QueueInit => Log!Init
  <2> SUFFICES ASSUME QueueInit PROVE Log!Init
    OBVIOUS
  <2>1. QueueTypeOK /\ pushed = 0 /\ dropped = {} /\ refused = {} /\ flight = "none" /\ queued = <<>>
    BY QueueInvInit DEF QueueInit, QueueInv
  <2>2. Waiting = <<>>
    BY <2>1, WaitingIs
  <2>3. Stored = {}
    BY DEF QueueInit, Stored
  <2> QED
    BY <2>1, <2>2, <2>3 DEF Log!Init, Reported
<1>2. ASSUME QueueInv, [QueueNext]_queueVars PROVE [Log!Next]_(Log!vars)
  <2>1. CASE UNCHANGED queueVars
    BY <2>1 DEF queueVars, Log!vars, Reported, Stored, Waiting
  <2>2. CASE Push
    BY <1>2, <2>2, PushStep DEF Log!Next
  <2>3. CASE Initialize \/ Interval \/ CloseQueue \/ CloseGoesOn
    <3>1. UNCHANGED <<pushed, dropped, table, refused>> /\ Waiting' = Waiting
      BY <1>2, <2>3, FlushMoves DEF QueueInv
    <3> QED
      BY <3>1 DEF Log!vars, Reported, Stored
  <2>4. CASE BatchDone \/ BatchRefused \/ BatchFails
    BY <1>2, <2>4, BatchStep DEF Log!Next
  <2>5. CASE RowSettled \/ RowFails
    BY <1>2, <2>5, RowStep DEF Log!Next
  <2> QED
    BY <1>2, <2>1, <2>2, <2>3, <2>4, <2>5 DEF QueueNext, Settle
<1> QED
  BY <1>1, <1>2, QueueIsInvariant, PTL DEF QueueSpec, ImplementsLog, Log!Spec
=============================================================================
