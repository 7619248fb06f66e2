---------------------------- MODULE EventBacklog ----------------------------
(***************************************************************************)
(* What the backlog of a Room promises, with no processes, ticks or        *)
(* database in sight: an event that a cycle has taken is nobody else's,    *)
(* and comes back only when no cycle holds anything; what was settled      *)
(* never comes back.                                                       *)
(***************************************************************************)
CONSTANTS Events, Cycles

VARIABLES
  place,    \* each event: outside, waiting, taken, or settled
  hold      \* the events each cycle holds, the settled ones included

vars == <<place, hold>>

Init ==
  /\ place = [e \in Events |-> "outside"]
  /\ hold = [c \in Cycles |-> {}]

In(p) == {e \in Events : place[e] = p}

Move(events, to) == place' = [e \in Events |-> IF e \in events THEN to ELSE place[e]]

Enter(e) ==
  /\ place[e] = "outside"
  /\ Move({e}, "waiting")
  /\ UNCHANGED hold

\* A cycle takes all that waits ...
Take(c) ==
  /\ hold[c] = {}
  /\ Move(In("waiting"), "taken")
  /\ hold' = [hold EXCEPT ![c] = In("waiting")]

\* ... and so does a claim that outlives its cycle, for nobody.
TakeForNobody ==
  /\ Move(In("waiting"), "taken")
  /\ UNCHANGED hold

Resolve(c, events) ==
  /\ events \subseteq hold[c]
  /\ Move(events, "settled")
  /\ UNCHANGED hold

Finish(c) ==
  /\ Move(hold[c], "settled")
  /\ hold' = [hold EXCEPT ![c] = {}]

\* Cycles fail, or stop with their process: what they held stays taken.
LetGo(cycles) ==
  /\ hold' = [c \in Cycles |-> IF c \in cycles THEN {} ELSE hold[c]]
  /\ UNCHANGED place

PutBack ==
  /\ \A c \in Cycles : hold[c] = {}
  /\ Move(In("taken"), "waiting")
  /\ UNCHANGED hold

Next ==
  \/ \E cycles \in SUBSET Cycles : LetGo(cycles)
  \/ \E e \in Events : Enter(e)
  \/ \E c \in Cycles : Take(c) \/ Finish(c)
  \/ \E c \in Cycles : \E events \in SUBSET Events : Resolve(c, events)
  \/ TakeForNobody
  \/ PutBack

Spec == Init /\ [][Next]_vars
=============================================================================
