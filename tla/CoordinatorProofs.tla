------------------------- MODULE CoordinatorProofs -------------------------
(***************************************************************************)
(* Coordinator for every number of fragments and restarts: its control     *)
(* invariant, the conservation of fragments, and the inbox it implements.  *)
(***************************************************************************)
EXTENDS Coordinator, SequenceTheorems, TLAPS

-----------------------------------------------------------------------------
(* The control invariant: no sequence arithmetic, only emptiness.          *)

\* The control invariant holds at first, ...
LEMMA ControlInit == Init => ControlInv
<1> SUFFICES ASSUME Init PROVE ControlInv
  OBVIOUS
<1> USE CoordinatorAssumption DEF Init
<1>1. Data
  BY DEF Data, Run
<1>2. RunHoldsFragments /\ StartingAlone
  BY DEF RunHoldsFragments, StartingAlone
<1>3. ControllerIsLatest /\ ToolIsProtected
  BY DEF ControllerIsLatest, ToolIsProtected
<1>4. NoBurstNoWork /\ SettledIsQuiet
  BY DEF NoBurstNoWork, SettledIsQuiet
<1>5. NothingStranded
  BY DEF NothingStranded
<1>6. AttemptsCounted
  BY DEF AttemptsCounted
<1> QED
  BY <1>1, <1>2, <1>3, <1>4, <1>5, <1>6 DEF ControlInv

\* An arriving fragment: cancelling the current run never cancels one that has
\* run a tool, and always leaves a timer armed.
LEMMA OnMessageControl == ControlInv /\ OnMessage => ControlInv'
<1> SUFFICES ASSUME ControlInv, OnMessage PROVE ControlInv'
  OBVIOUS
<1> USE CoordinatorAssumption
        DEF ControlInv, Data, RunHoldsFragments, ControllerIsLatest, ToolIsProtected,
            NoBurstNoWork, StartingAlone, SettledIsQuiet, NothingStranded, AttemptsCounted,
            Active, Run, ChainReady, runVars, burst, OnMessage, Quiet
<1>1. CASE StartBurst
  BY <1>1 DEF StartBurst
<1>2. CASE Supersede
  BY SMTT(30), <1>2 DEF Supersede, MaySupersede, RearmedTimer
<1>3. CASE Accumulate
  BY SMTT(30), <1>3 DEF Accumulate
<1>4. CASE Debounce
  BY <1>4 DEF Debounce
<1> QED
  BY <1>1, <1>2, <1>3, <1>4

\* A burst starts: nothing of an earlier one is left.  The timers: firing makes
\* a run that is the latest, so the controller cannot be an executing one's.
LEMMA BurstAndTimersControl ==
  ControlInv /\ (InstallState \/ OnTypingTimer \/ OnPipelineTimer \/ Shutdown) => ControlInv'
<1> SUFFICES ASSUME ControlInv,
                    InstallState \/ OnTypingTimer \/ OnPipelineTimer \/ Shutdown
             PROVE  ControlInv'
  OBVIOUS
<1> USE CoordinatorAssumption
        DEF ControlInv, Data, RunHoldsFragments, ControllerIsLatest, ToolIsProtected,
            NoBurstNoWork, StartingAlone, SettledIsQuiet, NothingStranded, AttemptsCounted,
            Active, Run, ChainReady, runVars, burst, Quiet
<1>1. CASE InstallState
  BY <1>1 DEF InstallState
<1>2. CASE OnTypingTimer
  BY <1>2 DEF OnTypingTimer
<1>3. CASE OnPipelineTimer
  <2> USE <1>3 DEF OnPipelineTimer
  <2>1. Data' /\ RunHoldsFragments'
    OBVIOUS
  <2>2. fired + 1 \notin aborted /\ (toolRun => fired + 1 # Active)
    OBVIOUS
  <2>3. ControllerIsLatest' /\ ToolIsProtected' /\ AttemptsCounted'
    BY <2>2
  <2>4. NothingStranded'
    BY <2>2
  <2>5. NoBurstNoWork' /\ StartingAlone' /\ SettledIsQuiet'
    OBVIOUS
  <2> QED
    BY <2>1, <2>3, <2>4, <2>5
<1>4. CASE Shutdown
  <2> USE <1>4 DEF Shutdown
  <2>1. Data'
    <3>1. {current} \ {0} \in SUBSET Run
      OBVIOUS
    <3>2. aborted' \in SUBSET Run
      BY <3>1
    <3> QED
      BY <3>2
  <2>2. RunHoldsFragments' /\ StartingAlone' /\ SettledIsQuiet'
    OBVIOUS
  <2>3. down' /\ ~live'
    OBVIOUS
  <2> QED
    BY <2>1, <2>2, <2>3
<1> QED
  BY <1>1, <1>2, <1>3, <1>4

\* The end of a run that is finalized: what is left in the buffer gets a timer,
\* and an empty buffer ends the burst with both timers cleared.
LEMMA FinishRunControl ==
  ASSUME ControlInv, FinishRun, done < fired
  PROVE  ControlInv'
<1> USE CoordinatorAssumption
        DEF ControlInv, Data, RunHoldsFragments, ControllerIsLatest, ToolIsProtected,
            NoBurstNoWork, StartingAlone, SettledIsQuiet, NothingStranded, AttemptsCounted,
            Active, Run, ChainReady, runVars, burst,
            FinishRun, FinalizePipeline, EndRun, Leftover, SettledTyping
<1>1. Data'
  <2>1. answered' \in Seq(Nat)
    BY ConcatProperties
  <2> QED
    BY <2>1
<1>2. RunHoldsFragments' /\ StartingAlone' /\ AttemptsCounted'
  OBVIOUS
<1>3. ControllerIsLatest' /\ ToolIsProtected'
  OBVIOUS
<1>4. SettledIsQuiet' /\ NothingStranded'
  <2>1. CASE buffer # <<>>
    <3>1. live' = live /\ timer' = live
      BY <2>1
    <3>2. typingTimer' => live
      BY <2>1
    <3> QED
      BY <3>1, <3>2
  <2>2. CASE buffer = <<>>
    BY <2>2
  <2> QED
    BY <2>1, <2>2
<1>5. NoBurstNoWork'
  OBVIOUS
<1> QED
  BY <1>1, <1>2, <1>3, <1>4, <1>5

\* The end of a cancelled run: another run or a timer answers its fragments.
LEMMA RestoreControl ==
  ASSUME ControlInv, RestoreOnAbort, Active \in aborted, phase # "idle"
  PROVE  ControlInv'
<1> USE CoordinatorAssumption
        DEF ControlInv, Data, RunHoldsFragments, ControllerIsLatest, ToolIsProtected,
            NoBurstNoWork, StartingAlone, SettledIsQuiet, NothingStranded, AttemptsCounted,
            Active, Run, ChainReady, runVars, burst,
            RestoreOnAbort, EndRun, RestoredBuffer
<1>1. buffer' \in Seq(Nat) /\ buffer' # <<>>
  BY ConcatProperties, ConcatEqualIffEmpty
<1> QED
  BY SMTT(30), <1>1

\* Everything else a run does.
LEMMA RunControl ==
  ControlInv /\ (ChainStep \/ ToolGate \/ Persist \/ HandlerReturn \/ SendDone) => ControlInv'
<1> SUFFICES ASSUME ControlInv,
                    ChainStep \/ ToolGate \/ Persist \/ HandlerReturn \/ SendDone
             PROVE  ControlInv'
  OBVIOUS
<1> USE CoordinatorAssumption
<1>0. phase # "idle" => done < fired
  BY DEF ControlInv, RunHoldsFragments
<1>1. CASE SkipRun
  BY <1>1
     DEF SkipRun, EndRun, ControlInv, Data, RunHoldsFragments, ControllerIsLatest,
         ToolIsProtected, NoBurstNoWork, StartingAlone, SettledIsQuiet, NothingStranded,
         AttemptsCounted, Active, Run, ChainReady, runVars, burst
<1>2. CASE EmptyRun
  BY <1>2, FinishRunControl DEF EmptyRun, ChainReady
<1>3. CASE StartRun
  BY <1>3
     DEF StartRun, ControlInv, Data, RunHoldsFragments, ControllerIsLatest,
         ToolIsProtected, NoBurstNoWork, StartingAlone, SettledIsQuiet, NothingStranded,
         AttemptsCounted, Active, Run, ChainReady, runVars, burst
<1>4. CASE ToolGate
  BY <1>4
     DEF ToolGate, ControlInv, Data, RunHoldsFragments, ControllerIsLatest,
         ToolIsProtected, NoBurstNoWork, StartingAlone, SettledIsQuiet, NothingStranded,
         AttemptsCounted, Active, Run, runVars, burst
<1>5. CASE Persist
  <2>1. \A i \in DOMAIN taken : taken[i] \in Nat
    BY ElementOfSeq, LenProperties DEF ControlInv, Data
  <2> QED
    BY <1>5, <2>1
       DEF Persist, ControlInv, Data, RunHoldsFragments, ControllerIsLatest,
           ToolIsProtected, NoBurstNoWork, StartingAlone, SettledIsQuiet, NothingStranded,
           AttemptsCounted, Active, Run, runVars, burst
<1>6. CASE ReturnCancelled
  BY <1>6, RestoreControl DEF ReturnCancelled, Returns
<1>7. CASE ReturnSilent
  BY <1>7, <1>0, FinishRunControl DEF ReturnSilent, Returns
<1>8. CASE ReturnText
  BY <1>8
     DEF ReturnText, Returns, ControlInv, Data, RunHoldsFragments, ControllerIsLatest,
         ToolIsProtected, NoBurstNoWork, StartingAlone, SettledIsQuiet, NothingStranded,
         AttemptsCounted, Active, Run, runVars, burst
<1>9. CASE SendDone
  BY <1>9, <1>0, FinishRunControl DEF SendDone
<1> QED
  BY <1>1, <1>2, <1>3, <1>4, <1>5, <1>6, <1>7, <1>8, <1>9 DEF ChainStep, HandlerReturn

\* ... and when nothing happens.
LEMMA ControlStutter == ControlInv /\ UNCHANGED vars => ControlInv'
BY SMTT(30) DEF vars, runVars, burst, ControlInv, Data, RunHoldsFragments, ControllerIsLatest,
       ToolIsProtected, NoBurstNoWork, StartingAlone, SettledIsQuiet, NothingStranded,
       AttemptsCounted, Active, Run

\* The invariant that explains the coordinator: who holds the controller, what
\* protects a run that has run a tool, and what will answer a waiting fragment.
THEOREM ControlIsInvariant == Spec => []ControlInv
<1>1. Init => ControlInv
  BY ControlInit
<1>2. ControlInv /\ [Next]_vars => ControlInv'
  BY OnMessageControl, BurstAndTimersControl, RunControl, ControlStutter DEF Next
<1> QED
  BY <1>1, <1>2, PTL DEF Spec

-----------------------------------------------------------------------------
(* What follows from it at once.                                           *)

\* However arrivals, timers and runs interleave, a run that has run a tool is
\* never cancelled: its fragments are not handed to another run.
THEOREM ToolWorkIsNotRepeated == Spec => []ToolRunNotCancelled
<1>1. ControlInv => ToolRunNotCancelled
  BY DEF ControlInv, ToolIsProtected, ToolRunNotCancelled
<1> QED
  BY <1>1, ControlIsInvariant, PTL

\* Waiting fragments always have a timer or a run that is not superseded.
THEOREM NoFragmentIsStranded == Spec => []NothingStranded
<1>1. ControlInv => NothingStranded
  BY DEF ControlInv
<1> QED
  BY <1>1, ControlIsInvariant, PTL

\* Between two answers at most MaxRestarts + 1 runs are started.
THEOREM AttemptsAreBounded == Spec => []AttemptsBounded
<1>1. ControlInv => AttemptsBounded
  BY CoordinatorAssumption DEF ControlInv, Data, AttemptsCounted, AttemptsBounded
<1> QED
  BY <1>1, ControlIsInvariant, PTL

-----------------------------------------------------------------------------
(* Conservation of fragments.                                              *)

\* Counting one further.
LEMMA CountUp ==
  ASSUME NEW n \in Nat
  PROVE  Append([i \in 1..n |-> i], n + 1) = [i \in 1..(n + 1) |-> i]
OBVIOUS

\* Appending to the last part of a concatenation appends to the whole.
LEMMA AppendToLast ==
  ASSUME NEW s \in Seq(Nat), NEW t \in Seq(Nat), NEW n \in Nat
  PROVE  s \o Append(t, n) = Append(s \o t, n)
<1>1. <<n>> \in Seq(Nat)
  OBVIOUS
<1>2. s \o t \in Seq(Nat)
  BY ConcatProperties
<1>3. Append(t, n) = t \o <<n>> /\ Append(s \o t, n) = (s \o t) \o <<n>>
  BY <1>2, AppendIsConcat
<1> QED
  BY <1>1, <1>3, ConcatAssociative

\* Fragments put back at the head of the buffer are where they were.
LEMMA PutBack ==
  ASSUME NEW a \in Seq(Nat), NEW t \in Seq(Nat), NEW b \in Seq(Nat)
  PROVE  a \o <<>> \o (t \o b) = a \o t \o b
<1>1. a \o <<>> = a
  BY ConcatEmptySeq
<1>2. (a \o t) \o b = a \o (t \o b)
  BY SMTT(30), ConcatAssociative
<1> QED
  BY <1>1, <1>2

\* A fragment that arrives goes to the end of the line.
LEMMA ArrivalExtendsLine ==
  ASSUME ControlInv, OnMessage
  PROVE  Line' = Append(Line, arrived + 1)
<1> DEFINE head == answered \o taken
           body == head \o buffer
<1>0. /\ answered \in Seq(Nat) /\ taken \in Seq(Nat) /\ buffer \in Seq(Nat) /\ starting \in Seq(Nat)
      /\ arrived \in Nat
      /\ live => starting = <<>>
  BY DEF ControlInv, Data, StartingAlone
<1>1. head \in Seq(Nat) /\ body \in Seq(Nat) /\ body \o starting \in Seq(Nat)
  BY <1>0, ConcatProperties
<1>2. arrived' = arrived + 1 /\ arrived + 1 \in Nat
  BY <1>0 DEF OnMessage
<1>3. CASE StartBurst
  <2>1. Line' = body \o Append(starting, arrived + 1)
    BY <1>2, <1>3 DEF StartBurst, burst, runVars, Line
  <2>2. body \o Append(starting, arrived + 1) = Append(body \o starting, arrived + 1)
    <3> HIDE DEF body
    <3> QED
      BY ZenonT(30), <1>0, <1>1, <1>2, AppendToLast
  <2> QED
    BY <2>1, <2>2 DEF Line
<1>4. CASE Supersede \/ Accumulate \/ Debounce
  <2>1. starting = <<>>
    BY <1>0, <1>4 DEF Supersede, Accumulate, Debounce
  <2>2. Line' = (head \o Append(buffer, arrived + 1)) \o starting
    BY <1>2, <1>4 DEF Supersede, Accumulate, Debounce, runVars, Line
  <2>3. head \o Append(buffer, arrived + 1) = Append(body, arrived + 1)
    <3> HIDE DEF head
    <3> QED
      BY ZenonT(30), <1>0, <1>1, <1>2, AppendToLast
  <2>4. Append(body, arrived + 1) \in Seq(Nat)
    BY <1>1, <1>2, AppendProperties
  <2> QED
    BY <1>1, <2>1, <2>2, <2>3, <2>4, ConcatEmptySeq DEF Line
<1> QED
  BY <1>3, <1>4 DEF OnMessage

\* Every other step moves fragments along the line without changing it.
LEMMA LineIsKept ==
  ASSUME ControlInv, Next \/ UNCHANGED vars, ~OnMessage
  PROVE  Line' = Line /\ arrived' = arrived
<1> USE DEF ControlInv, Data, StartingAlone, RunHoldsFragments
<1>0. /\ answered \o taken \in Seq(Nat)
      /\ answered \o taken \o buffer \in Seq(Nat)
  BY ConcatProperties
<1>1. CASE InstallState
  <2>1. buffer = <<>> /\ taken = <<>>
    BY <1>1 DEF InstallState
  <2>2. Line' = answered \o taken \o starting \o <<>>
    BY <1>1 DEF InstallState, Line
  <2> QED
    BY <1>0, <1>1, <2>1, <2>2, ConcatEmptySeq DEF InstallState, Line
<1>2. CASE StartRun
  <2>1. taken = <<>>
    BY <1>2 DEF StartRun, ChainReady
  <2>2. Line' = answered \o buffer \o <<>> \o starting
    BY <1>2 DEF StartRun, Line
  <2>3. answered \o buffer \in Seq(Nat)
    BY ConcatProperties
  <2> QED
    BY <1>0, <1>2, <2>1, <2>2, <2>3, ConcatEmptySeq DEF StartRun, Line
<1>3. CASE FinishRun
  <2>1. Line' = (answered \o taken) \o <<>> \o buffer \o starting
    BY <1>3 DEF FinishRun, EndRun, Line
  <2> QED
    BY <1>0, <1>3, <2>1, ConcatEmptySeq DEF FinishRun, EndRun, Line
<1>4. CASE RestoreOnAbort
  <2>1. Line' = answered \o <<>> \o (taken \o buffer) \o starting
    BY <1>4 DEF RestoreOnAbort, EndRun, RestoredBuffer, Line
  <2>2. answered \o <<>> \o (taken \o buffer) = answered \o taken \o buffer
    BY PutBack
  <2> QED
    BY <1>4, <2>1, <2>2 DEF RestoreOnAbort, EndRun, Line
<1>5. CASE SkipRun
  BY <1>5 DEF SkipRun, EndRun, ChainReady, burst, Line
<1>6. CASE OnTypingTimer \/ OnPipelineTimer \/ ToolGate \/ Persist \/ ReturnText \/ Shutdown
  BY <1>6 DEF OnTypingTimer, OnPipelineTimer, ToolGate, Persist, ReturnText, Shutdown,
              burst, runVars, Line
<1>7. CASE UNCHANGED vars
  BY <1>7 DEF vars, burst, runVars, Line
<1> QED
  BY <1>1, <1>2, <1>3, <1>4, <1>5, <1>6, <1>7
     DEF Next, ChainStep, HandlerReturn, EmptyRun, ReturnCancelled, ReturnSilent, SendDone

\* No interleaving of cancellations and restarts loses, repeats or reorders a fragment.
THEOREM FragmentsKeepTheirOrder == Spec => []FragmentsInOrder
<1>1. Init => FragmentsInOrder
  <2>1. <<>> \o <<>> = <<>>
    BY ConcatEmptySeq
  <2> QED
    BY <2>1 DEF Init, FragmentsInOrder, Line, Fragments
<1>2. ASSUME ControlInv, FragmentsInOrder, [Next]_vars
      PROVE  FragmentsInOrder'
  <2>1. CASE OnMessage
    <3>1. arrived \in Nat /\ arrived' = arrived + 1
      BY <1>2, <2>1 DEF ControlInv, Data, OnMessage
    <3> QED
      BY <1>2, <2>1, <3>1, ArrivalExtendsLine, CountUp DEF FragmentsInOrder, Fragments
  <2>2. CASE ~OnMessage
    BY <1>2, <2>2, LineIsKept DEF FragmentsInOrder, Fragments
  <2> QED
    BY <2>1, <2>2
<1> QED
  BY <1>1, <1>2, ControlIsInvariant, PTL DEF Spec

\* A burst that left the background-turn tracker has had every fragment answered, and
\* none of its timers is left.
THEOREM DrainedIsAnswered == Spec => []BurstEndsClean
<1>1. ControlInv /\ FragmentsInOrder => DrainedMeansAnswered
  <2> SUFFICES ASSUME ControlInv, FragmentsInOrder, ~live, starting = <<>>, ~down
               PROVE  answered = [i \in Fragments |-> i]
    BY DEF DrainedMeansAnswered
  <2>1. taken = <<>> /\ buffer = <<>> /\ answered \in Seq(Nat)
    BY DEF ControlInv, Data, NoBurstNoWork
  <2>2. answered \o <<>> = answered
    BY <2>1, ConcatEmptySeq
  <2> QED
    BY <2>1, <2>2 DEF FragmentsInOrder, Line
<1>2. ControlInv => SettledIsQuiet
  BY DEF ControlInv
<1> QED
  BY <1>1, <1>2, ControlIsInvariant, FragmentsKeepTheirOrder, PTL DEF BurstEndsClean

-----------------------------------------------------------------------------
(* Types.                                                                  *)

\* The flags stay Booleans.
LEMMA FlagsKept == Flags /\ [Next]_vars => Flags'
<1> SUFFICES ASSUME Flags, [Next]_vars PROVE Flags'
  OBVIOUS
<1>1. CASE OnMessage
  BY <1>1 DEF Flags, OnMessage, StartBurst, Supersede, RearmedTimer, Accumulate, Debounce,
              burst, runVars
<1>2. CASE InstallState
  BY <1>2 DEF Flags, InstallState
<1>3. CASE OnTypingTimer \/ OnPipelineTimer
  BY <1>3 DEF Flags, OnTypingTimer, OnPipelineTimer, runVars
<1>4. CASE FinishRun
  BY <1>4 DEF Flags, FinishRun, FinalizePipeline, EndRun, Leftover, SettledTyping
<1>5. CASE RestoreOnAbort \/ SkipRun \/ StartRun
  BY <1>5 DEF Flags, RestoreOnAbort, SkipRun, StartRun, EndRun, burst
<1>6. CASE ToolGate
  BY <1>6 DEF Flags, ToolGate
<1>7. CASE Persist \/ ReturnText
  BY <1>7 DEF Flags, Persist, ReturnText, burst
<1>8. CASE Shutdown
  BY <1>8 DEF Flags, Shutdown
<1>9. CASE UNCHANGED vars
  BY <1>9 DEF Flags, vars, burst, runVars
<1> QED
  BY <1>1, <1>2, <1>3, <1>4, <1>5, <1>6, <1>7, <1>8, <1>9
     DEF Next, ChainStep, HandlerReturn, EmptyRun, ReturnCancelled, ReturnSilent, SendDone

\* Type correctness; in particular restarts never exceed their cap.
THEOREM TypeCorrect == Spec => []TypeOK
<1>1. Init => Flags
  BY DEF Init, Flags
<1>2. ControlInv => Data
  BY DEF ControlInv
<1> QED
  BY <1>1, <1>2, FlagsKept, ControlIsInvariant, PTL DEF Spec, TypeOK

-----------------------------------------------------------------------------
(* The coordinator implements Inbox; and a turn that does not wait after   *)
(* its save is stored once.                                                *)

Pending == taken \o buffer \o starting

-----------------------------------------------------------------------------
(* Facts about sequences.                                                  *)

\* Concatenation is associative.
LEMMA Assoc ==
  ASSUME NEW a \in Seq(Nat), NEW b \in Seq(Nat), NEW c \in Seq(Nat)
  PROVE  (a \o b) \o c = a \o (b \o c)
BY SMTT(30), ConcatAssociative

\* Concatenation of sequences of numbers is one.
LEMMA Closed ==
  ASSUME NEW a \in Seq(Nat), NEW b \in Seq(Nat)
  PROVE  a \o b \in Seq(Nat) /\ Len(a \o b) = Len(a) + Len(b)
BY ConcatProperties

\* Taking a head off a concatenation leaves the tail.
LEMMA SplitOff ==
  ASSUME NEW t \in Seq(Nat), NEW r \in Seq(Nat)
  PROVE  /\ SubSeq(t \o r, 1, Len(t)) = t
         /\ SubSeq(t \o r, Len(t) + 1, Len(t \o r)) = r
<1> DEFINE w == t \o r
<1>1. w \in Seq(Nat) /\ Len(w) = Len(t) + Len(r) /\ Len(t) \in Nat /\ Len(r) \in Nat
  BY Closed, LenProperties
<1>2. \A i \in 1..Len(w) : w[i] = IF i <= Len(t) THEN t[i] ELSE r[i - Len(t)]
  BY <1>1, ConcatProperties
<1>3. \A i \in 1..Len(w) : w[i] \in Nat
  BY <1>1, ElementOfSeq
<1> HIDE DEF w
<1>4. SubSeq(w, 1, Len(t)) = t
  <2> DEFINE x == SubSeq(w, 1, Len(t))
  <2>1. \A i \in 1..Len(t) : w[i] \in Nat
    BY <1>1, <1>3
  <2>2. /\ x \in Seq(Nat)
        /\ Len(x) = IF 1 <= Len(t) THEN Len(t) - 1 + 1 ELSE 0
        /\ \A i \in 1..(Len(t) - 1 + 1) : x[i] = w[1 + i - 1]
    BY <1>1, <2>1, SubSeqProperties
  <2> HIDE DEF x
  <2>3. Len(x) = Len(t) /\ \A i \in 1..Len(t) : x[i] = t[i]
    BY <1>1, <1>2, <2>2
  <2>4. x = t
    BY <2>2, <2>3, SeqEqual
  <2> QED
    BY <2>4 DEF x
<1>5. SubSeq(w, Len(t) + 1, Len(w)) = r
  <2> DEFINE x == SubSeq(w, Len(t) + 1, Len(w))
  <2>1. \A i \in (Len(t) + 1)..Len(w) : w[i] \in Nat
    BY <1>1, <1>3
  <2>2. /\ x \in Seq(Nat)
        /\ Len(x) = IF Len(t) + 1 <= Len(w) THEN Len(w) - (Len(t) + 1) + 1 ELSE 0
        /\ \A i \in 1..(Len(w) - (Len(t) + 1) + 1) : x[i] = w[Len(t) + 1 + i - 1]
    BY <1>1, <2>1, SubSeqProperties
  <2> HIDE DEF x
  <2>3. Len(x) = Len(r)
    BY <1>1, <2>2
  <2>5. ASSUME NEW i \in 1..Len(r)
        PROVE  x[i] = r[i]
    <3>1. i \in Nat /\ i > 0 /\ i <= Len(r) /\ i = (Len(t) + i) - Len(t)
      BY <1>1
    <3>2. i \in 1..(Len(w) - (Len(t) + 1) + 1) /\ Len(t) + 1 + i - 1 = Len(t) + i
      BY <1>1, <3>1
    <3>3. x[i] = w[Len(t) + i]
      BY <2>2, <3>2
    <3>4. Len(t) + i \in 1..Len(w) /\ ~(Len(t) + i <= Len(t))
      BY <1>1, <3>1
    <3>5. w[Len(t) + i] = r[(Len(t) + i) - Len(t)]
      BY <1>2, <3>4
    <3> QED
      BY <3>1, <3>3, <3>5
  <2>4. x = r
    BY <2>2, <2>3, <2>5, SeqEqual
  <2> QED
    BY <2>4 DEF x
<1> QED
  BY <1>4, <1>5 DEF w

\* A common prefix can be taken away.
LEMMA CancelLeft ==
  ASSUME NEW a \in Seq(Nat), NEW b \in Seq(Nat), NEW c \in Seq(Nat), a \o b = a \o c
  PROVE  b = c
BY ConcatSimplifications

\* Concatenation by a name of its own: the provers rewrite chains of \o, and
\* then no longer find the instance of a quantified fact.
Cat(a, b) == a \o b

\* What stands behind the answered fragments is what is pending.
LEMMA LineSplits ==
  ASSUME NEW a \in Seq(Nat), NEW t \in Seq(Nat), NEW b \in Seq(Nat), NEW s \in Seq(Nat)
  PROVE  /\ Cat(Cat(Cat(a, t), b), s) = Cat(a, Cat(Cat(t, b), s))
         /\ Cat(Cat(t, b), s) \in Seq(Nat)
<1>1. \A x, y, z \in Seq(Nat) : Cat(Cat(x, y), z) = Cat(x, Cat(y, z))
  BY Assoc DEF Cat
<1>2. \A x, y \in Seq(Nat) : Cat(x, y) \in Seq(Nat)
  BY Closed DEF Cat
<1> QED
  BY <1>1, <1>2

-----------------------------------------------------------------------------
(* The refinement.                                                         *)

\* What the control invariant says of the sequences and numbers below.
LEMMA LineOfControl ==
  ASSUME ControlInv, ControlInv'
  PROVE  /\ Line = answered \o Pending /\ Pending \in Seq(Nat)
         /\ Line' = answered' \o Pending' /\ Pending' \in Seq(Nat)
<1>1. /\ answered \in Seq(Nat) /\ taken \in Seq(Nat)
      /\ buffer \in Seq(Nat) /\ starting \in Seq(Nat)
      /\ answered' \in Seq(Nat) /\ taken' \in Seq(Nat)
      /\ buffer' \in Seq(Nat) /\ starting' \in Seq(Nat)
  BY DEF ControlInv, Data
<1>2. /\ Cat(Cat(Cat(answered, taken), buffer), starting)
         = Cat(answered, Cat(Cat(taken, buffer), starting))
      /\ Cat(Cat(taken, buffer), starting) \in Seq(Nat)
  BY <1>1, LineSplits
<1>3. /\ Cat(Cat(Cat(answered', taken'), buffer'), starting')
         = Cat(answered', Cat(Cat(taken', buffer'), starting'))
      /\ Cat(Cat(taken', buffer'), starting') \in Seq(Nat)
  BY <1>1, LineSplits
<1> QED
  BY <1>2, <1>3 DEF Cat, Line, Pending

\* An arriving fragment is an Accept of the inbox.
LEMMA AcceptStep ==
  ASSUME ControlInv, ControlInv', FragmentsInOrder, OnMessage
  PROVE  InboxOf!Accept
<1>1. /\ Line = answered \o Pending /\ Pending \in Seq(Nat)
      /\ Line' = answered' \o Pending' /\ Pending' \in Seq(Nat)
  BY LineOfControl
<1>2. answered' = answered /\ answered \in Seq(Nat) /\ arrived \in Nat
  BY DEF ControlInv, Data, OnMessage, StartBurst, Supersede, Accumulate, Debounce, runVars
<1>3. Append(Pending, arrived + 1) \in Seq(Nat)
  BY <1>1, <1>2, AppendProperties
<1>4. answered \o Pending' = answered \o Append(Pending, arrived + 1)
  <2>1. Line' = Append(Line, arrived + 1)
    BY ArrivalExtendsLine
  <2>2. answered \o Append(Pending, arrived + 1) = Append(answered \o Pending, arrived + 1)
    <3>1. \A a, p \in Seq(Nat) : \A n \in Nat : a \o Append(p, n) = Append(a \o p, n)
      BY AppendToLast
    <3>2. arrived + 1 \in Nat
      BY <1>2
    <3> QED
      BY <1>1, <1>2, <3>1, <3>2, Zenon
  <2> QED
    BY <1>1, <1>2, <2>1, <2>2
<1>5. Pending' = Append(Pending, arrived + 1)
  BY <1>1, <1>2, <1>3, <1>4, CancelLeft
<1>6. arrived = Len(answered) + Len(Pending)
  <2>1. Len(Line) = arrived
    BY <1>2 DEF FragmentsInOrder, Fragments
  <2> QED
    BY <1>1, <1>2, <2>1, Closed
<1> QED
  BY <1>2, <1>5, <1>6 DEF InboxOf!Accept, Pending

\* A run that ends answered is an Answer of the inbox.
LEMMA AnswerStep ==
  ASSUME ControlInv, FinishRun
  PROVE  InboxOf!Answer \/ UNCHANGED <<Pending, answered>>
<1> USE DEF ControlInv, Data
<1> DEFINE rest == buffer \o starting
<1>1. rest \in Seq(Nat) /\ <<>> \o buffer = buffer
  BY Closed, ConcatEmptySeq
<1>2. Pending = taken \o rest
  BY Assoc DEF Pending
<1>3. Pending' = rest
  BY <1>1 DEF Pending, FinishRun, EndRun
<1>4. answered' = answered \o taken
  BY DEF FinishRun
<1>5. CASE taken = <<>>
  BY <1>1, <1>2, <1>3, <1>4, <1>5, ConcatEmptySeq
<1>6. CASE taken # <<>>
  <2>1. /\ SubSeq(Pending, 1, Len(taken)) = taken
        /\ SubSeq(Pending, Len(taken) + 1, Len(Pending)) = rest
    BY ZenonT(60), <1>1, <1>2, SplitOff
  <2>2. Len(taken) \in 1..Len(Pending)
    <3>1. Len(taken) \in Nat \ {0} /\ Len(rest) \in Nat
      BY <1>1, <1>6, EmptySeq, LenProperties
    <3>2. Len(Pending) = Len(taken) + Len(rest)
      BY <1>1, <1>2, Closed
    <3> QED
      BY <3>1, <3>2
  <2>3. InboxOf!Answer
    BY <1>3, <1>4, <2>1, <2>2 DEF InboxOf!Answer, Pending
  <2> QED
    BY <2>3
<1> QED
  BY <1>5, <1>6

\* Steps that answer nothing keep what is pending.
LEMMA InboxStutters ==
  ASSUME ControlInv, ControlInv', Next \/ UNCHANGED vars, ~OnMessage, ~FinishRun
  PROVE  UNCHANGED <<Pending, answered>>
<1>1. answered' = answered /\ answered \in Seq(Nat)
  BY DEF ControlInv, Data, Next, ChainStep, HandlerReturn, InstallState, OnTypingTimer, OnPipelineTimer,
         SkipRun, EmptyRun, StartRun, ToolGate, Persist, ReturnCancelled, RestoreOnAbort,
         ReturnSilent, ReturnText, SendDone, Shutdown, vars, runVars
<1>2. /\ Line = answered \o Pending /\ Pending \in Seq(Nat)
      /\ Line' = answered' \o Pending' /\ Pending' \in Seq(Nat)
  BY LineOfControl
<1>3. Line' = Line
  BY LineIsKept
<1>4. Pending' = Pending
  BY <1>1, <1>2, <1>3, CancelLeft
<1> QED
  BY <1>1, <1>4

\* Every fragment is answered exactly once and in order of arrival, as Inbox
\* specifies, however cancel-and-restart interleaves.
THEOREM CoordinatorImplementsInbox == Spec => ImplementsInbox
<1>1. Init => InboxOf!Init
  <2>1. <<>> \o <<>> = <<>>
    BY ConcatEmptySeq
  <2> QED
    BY <2>1 DEF Init, InboxOf!Init
<1>2. ASSUME ControlInv, ControlInv', FragmentsInOrder, [Next]_vars
      PROVE  [InboxOf!Next]_(InboxOf!vars)
  <2>1. CASE OnMessage
    BY <1>2, <2>1, AcceptStep DEF InboxOf!Next
  <2>2. CASE FinishRun
    BY <1>2, <2>2, AnswerStep DEF InboxOf!Next, InboxOf!vars, Pending
  <2>3. CASE ~OnMessage /\ ~FinishRun
    BY <1>2, <2>3, InboxStutters DEF InboxOf!vars, Pending
  <2> QED
    BY <2>1, <2>2, <2>3
<1> QED
  BY <1>1, <1>2, ControlIsInvariant, FragmentsKeepTheirOrder, PTL
     DEF Spec, ImplementsInbox, InboxOf!Spec

-----------------------------------------------------------------------------
(* Storing.                                                                *)

\* Where the elements of two joined sequences are.
LEMMA Joined ==
  ASSUME NEW a \in Seq(Nat), NEW b \in Seq(Nat)
  PROVE  /\ Cat(a, b) \in Seq(Nat)
         /\ Len(Cat(a, b)) = Len(a) + Len(b)
         /\ \A i \in 1..Len(a) : Cat(a, b)[i] = a[i]
         /\ \A i \in 1..Len(b) : Cat(a, b)[Len(a) + i] = b[i]
<1>1. Cat(a, b) \in Seq(Nat) /\ Len(Cat(a, b)) = Len(a) + Len(b)
  BY Closed DEF Cat
<1>2. \A i \in 1..Len(a) : Cat(a, b)[i] = a[i]
  BY DEF Cat
<1>3. \A i \in 1..Len(b) : Cat(a, b)[Len(a) + i] = b[i]
  BY DEF Cat
<1> QED
  BY <1>1, <1>2, <1>3

\* The fragments of the executing run follow the answered ones, and those in
\* the buffer follow the run's.
LEMMA WhereFragmentsAre ==
  ASSUME ControlInv, FragmentsInOrder
  PROVE  /\ \A i \in DOMAIN taken : taken[i] = Len(answered) + i
         /\ \A i \in DOMAIN buffer : buffer[i] = Len(answered) + Len(taken) + i
<1> DEFINE at   == Cat(answered, taken)
           atb  == Cat(at, buffer)
           atbs == Cat(atb, starting)
<1>1. /\ answered \in Seq(Nat) /\ taken \in Seq(Nat)
      /\ buffer \in Seq(Nat) /\ starting \in Seq(Nat) /\ arrived \in Nat
  BY DEF ControlInv, Data
<1>2. /\ at \in Seq(Nat) /\ Len(at) = Len(answered) + Len(taken)
      /\ \A i \in 1..Len(taken) : at[Len(answered) + i] = taken[i]
  BY <1>1, Joined
<1>3. /\ atb \in Seq(Nat) /\ Len(atb) = Len(at) + Len(buffer)
      /\ \A i \in 1..Len(at) : atb[i] = at[i]
      /\ \A i \in 1..Len(buffer) : atb[Len(at) + i] = buffer[i]
  <2> HIDE DEF at
  <2> QED
    BY <1>1, <1>2, Joined
<1>4. /\ Len(atbs) = Len(atb) + Len(starting)
      /\ \A i \in 1..Len(atb) : atbs[i] = atb[i]
  <2> HIDE DEF atb
  <2> QED
    BY <1>1, <1>3, Joined
<1>5. /\ Len(atbs) = arrived
      /\ \A i \in 1..arrived : atbs[i] = i
  <2>1. atbs = [i \in 1..arrived |-> i]
    BY DEF FragmentsInOrder, Fragments, Line, Cat
  <2> HIDE DEF atbs
  <2> QED
    BY <1>1, <2>1
<1> HIDE DEF at, atb, atbs
<1>6. /\ Len(answered) \in Nat /\ Len(taken) \in Nat /\ Len(buffer) \in Nat
      /\ Len(starting) \in Nat
  BY <1>1, LenProperties
<1>7. ASSUME NEW i \in 1..Len(taken)
      PROVE  taken[i] = Len(answered) + i
  <2> DEFINE k == Len(answered) + i
  <2>1. k \in 1..Len(at) /\ k \in 1..Len(atb) /\ k \in 1..arrived
    <3>1. /\ Len(at) = Len(answered) + Len(taken)
          /\ Len(atb) = Len(at) + Len(buffer)
          /\ arrived = Len(atb) + Len(starting)
      BY <1>2, <1>3, <1>4, <1>5
    <3> QED
      BY <1>6, <3>1
  <2>2. at[k] = taken[i]
    BY <1>2
  <2> HIDE DEF k
  <2>3. atb[k] = at[k] /\ atbs[k] = atb[k] /\ atbs[k] = k
    BY <1>3, <1>4, <1>5, <2>1
  <2> QED
    BY <2>2, <2>3 DEF k
<1>8. ASSUME NEW i \in 1..Len(buffer)
      PROVE  buffer[i] = Len(answered) + Len(taken) + i
  <2> DEFINE k == Len(at) + i
  <2>1. k \in 1..Len(atb) /\ k \in 1..arrived
    BY SMTT(30), <1>2, <1>3, <1>4, <1>5, <1>6
  <2>2. atb[k] = buffer[i]
    BY <1>3
  <2> HIDE DEF k
  <2>3. atbs[k] = atb[k] /\ atbs[k] = k
    BY <1>4, <1>5, <2>1
  <2> QED
    BY <1>2, <2>2, <2>3 DEF k
<1>9. DOMAIN taken = 1..Len(taken) /\ DOMAIN buffer = 1..Len(buffer)
  BY <1>1, LenProperties
<1> QED
  BY <1>7, <1>8, <1>9

\* Without awaited response_sent hooks, no step saves a run that is then cancelled.
LEMMA SavedKept ==
  ASSUME ~SentHooksWait, ControlInv, ControlInv', FragmentsInOrder, SavedInv, [Next]_vars
  PROVE  SavedInv'
<1> DEFINE extra == IF phase \in {"saved", "sending"} THEN Len(taken) ELSE 0
<1>1. /\ Len(answered) \in Nat /\ Len(taken) \in Nat /\ saved \subseteq Nat
      /\ taken \in Seq(Nat) /\ answered \in Seq(Nat) /\ extra \in 0..Len(taken)
  BY SMTT(30) DEF ControlInv, Data
<1>2. CASE UNCHANGED vars
  BY <1>2 DEF SavedInv, Active, vars, runVars
<1>3. CASE OnMessage
  BY <1>3 DEF SavedInv, Active, OnMessage, Quiet, StartBurst, Supersede, Accumulate, Debounce,
              runVars, burst
<1>4. CASE InstallState
  BY <1>4 DEF SavedInv, Active, InstallState, Quiet
<1>5. CASE OnTypingTimer
  BY <1>5 DEF SavedInv, Active, OnTypingTimer, runVars
<1>6. CASE OnPipelineTimer
  BY <1>6 DEF SavedInv, Active, OnPipelineTimer
<1>7. ASSUME FinishRun
      PROVE  SavedInv'
  <2>1. Len(answered') = Len(answered) + Len(taken)
    BY <1>1, <1>7 DEF FinishRun
  <2>2. saved' = saved /\ phase' = "idle"
    BY <1>7 DEF FinishRun, EndRun
  <2>3. \A f \in saved : f <= Len(answered) + extra
    BY DEF SavedInv
  <2>4. \A f \in saved : f <= Len(answered')
    BY <1>1, <2>1, <2>3
  <2> QED
    BY <1>1, <2>1, <2>2, <2>4 DEF SavedInv
<1>8. CASE SkipRun
  BY <1>8 DEF SavedInv, SkipRun, EndRun, ChainReady
<1>9. CASE StartRun
  BY <1>9 DEF SavedInv, StartRun, ChainReady
<1>10. CASE ToolGate
  BY <1>10 DEF SavedInv, ToolGate
<1>11. CASE Persist
  <2>1. phase = "handling" /\ phase' = "saved" /\ Active \notin aborted
    BY <1>11 DEF Persist, PersistGate
  <2>2. /\ saved' = saved \union {taken[i] : i \in DOMAIN taken}
        /\ answered' = answered /\ taken' = taken /\ done' = done /\ aborted' = aborted
    BY <1>11 DEF Persist
  <2>3. \A f \in saved : f <= Len(answered) + Len(taken)
    BY <1>1, <2>1 DEF SavedInv
  <2>4. \A i \in DOMAIN taken : taken[i] <= Len(answered) + Len(taken)
    BY <1>1, WhereFragmentsAre
  <2> QED
    BY <2>1, <2>2, <2>3, <2>4 DEF SavedInv, Active
<1>12. CASE ReturnCancelled
  <2>1. phase = "handling"
    BY <1>12 DEF SavedInv, ReturnCancelled, Returns
  <2> QED
    BY <1>12, <2>1 DEF SavedInv, ReturnCancelled, RestoreOnAbort, EndRun
<1>13. CASE ReturnText
  <2>1. phase' = "sending" /\ UNCHANGED <<saved, answered, taken>>
    BY <1>13 DEF ReturnText
  <2>2. \A f \in saved : f <= Len(answered) + extra
    BY DEF SavedInv
  <2>3. \A f \in saved : f <= Len(answered) + Len(taken)
    BY <1>1, <2>2
  <2> QED
    BY <2>1, <2>3 DEF SavedInv
<1>14. CASE Shutdown
  BY <1>14 DEF SavedInv, Active, Shutdown, Quiet
<1> QED
  BY <1>2, <1>3, <1>4, <1>5, <1>6, <1>7, <1>8, <1>9, <1>10, <1>11, <1>12, <1>13, <1>14
     DEF Next, ChainStep, HandlerReturn, EmptyRun, ReturnSilent, SendDone

\* Where a turn returns as soon as it was saved, a fragment that waits for a run
\* is never already stored (CancelledRunNotSaved).
THEOREM CancelledRunsLeaveNoTrace ==
  ~SentHooksWait => (Spec => []CancelledRunNotSaved)
<1> SUFFICES ASSUME ~SentHooksWait
             PROVE  Spec => []CancelledRunNotSaved
  OBVIOUS
<1>1. Init => SavedInv
  BY DEF Init, SavedInv
<1>2. ASSUME ControlInv, ControlInv', FragmentsInOrder, SavedInv, [Next]_vars
      PROVE  SavedInv'
  BY <1>2, SavedKept
<1>3. ASSUME ControlInv, FragmentsInOrder, SavedInv
      PROVE  CancelledRunNotSaved
  <2>1. /\ Len(answered) \in Nat /\ Len(taken) \in Nat /\ saved \subseteq Nat
        /\ buffer \in Seq(Nat)
    BY <1>3 DEF ControlInv, Data
  <2>2. \A f \in saved : f <= Len(answered) + Len(taken)
    BY <1>3, <2>1 DEF SavedInv
  <2>3. \A i \in DOMAIN buffer : buffer[i] = Len(answered) + Len(taken) + i
    BY <1>3, WhereFragmentsAre
  <2>4. \A i \in DOMAIN buffer : i \in Nat /\ i > 0
    BY <2>1
  <2> QED
    BY <2>1, <2>2, <2>3, <2>4 DEF CancelledRunNotSaved
<1> QED
  BY <1>1, <1>2, <1>3, ControlIsInvariant, FragmentsKeepTheirOrder, PTL DEF Spec
=============================================================================
