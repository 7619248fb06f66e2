------------------------------- MODULE Inbox -------------------------------
(***************************************************************************)
(* What the message coordinator promises about one conversation, with no   *)
(* timers, runs or cancellations in sight: every fragment the adapter      *)
(* acknowledged is answered exactly once, and in the order of arrival.     *)
(* One reply may cover several consecutive fragments.  Fragments are       *)
(* numbered in the order the adapter hands them over.                      *)
(***************************************************************************)
EXTENDS Naturals, Sequences

VARIABLES
  pending,    \* acknowledged fragments with no reply yet, oldest first
  answered    \* fragments covered by a reply (or by a handled failure)

vars == <<pending, answered>>

Init == /\ pending = <<>>
        /\ answered = <<>>

\* A new fragment is the successor of every fragment seen so far.
Accept == /\ pending' = Append(pending, Len(answered) + Len(pending) + 1)
          /\ UNCHANGED answered

\* A reply covers a non-empty prefix of what is pending.
Answer == \E n \in 1..Len(pending) :
            /\ answered' = answered \o SubSeq(pending, 1, n)
            /\ pending'  = SubSeq(pending, n + 1, Len(pending))

Next == Accept \/ Answer

Spec == Init /\ [][Next]_vars
=============================================================================
