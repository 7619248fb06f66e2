------------------------------- MODULE RowLog -------------------------------
(***************************************************************************)
(* What a buffered log promises, with no batches, fallbacks or shutdown in *)
(* sight: its rows leave it from the oldest on, to be settled or, if more  *)
(* than Cap wait, to be lost, and never more of them than that takes.      *)
(***************************************************************************)
EXTENDS Naturals, Sequences

CONSTANT Cap

VARIABLES
  newest,     \* number of the newest row
  waiting,    \* rows that are neither settled nor lost, oldest first
  settled,    \* rows that were written or reported as refused
  lost

vars == <<newest, waiting, settled, lost>>

Init == newest = 0 /\ waiting = <<>> /\ settled = {} /\ lost = {}

\* The n oldest rows, and the others.
Oldest(n) == {waiting[i] : i \in 1..n}
Others(n) == SubSeq(waiting, n + 1, Len(waiting))

Accept ==
  /\ newest' = newest + 1
  /\ waiting' = Append(waiting, newest')
  /\ UNCHANGED <<settled, lost>>

Settle ==
  \E n \in 1..Len(waiting) :
    /\ settled' = settled \union Oldest(n)
    /\ waiting' = Others(n)
    /\ UNCHANGED <<newest, lost>>

Overflow ==
  /\ Len(waiting) > Cap
  /\ lost' = lost \union Oldest(Len(waiting) - Cap)
  /\ waiting' = Others(Len(waiting) - Cap)
  /\ UNCHANGED <<newest, settled>>

Next == Accept \/ Settle \/ Overflow

Spec == Init /\ [][Next]_vars
=============================================================================
