----------------------------- MODULE TaskLease ------------------------------
(***************************************************************************)
(* What the scheduler promises about a task, with no replicas, stamps or   *)
(* reapers in sight: a lease.  A run that starts takes the task and is its *)
(* owner; nobody else starts until the owner has settled the task or, once *)
(* it is overdue or over, has lost it; and whoever has lost it settles     *)
(* nothing any more.                                                       *)
(***************************************************************************)
CONSTANT Runs

VARIABLES
  state,     \* each run: waiting, working, overdue (its deadline has passed) or over
  taken,     \* the task is marked as running
  owner,     \* the run that took it, unless it is over
  removed    \* the task was deleted

vars == <<state, taken, owner, removed>>

Init ==
  /\ state = [e \in Runs |-> "waiting"]
  /\ taken = FALSE
  /\ owner = {}
  /\ removed = FALSE

Start(e) ==
  /\ state[e] = "waiting" /\ ~taken /\ ~removed
  /\ state' = [state EXCEPT ![e] = "working"]
  /\ taken' = TRUE
  /\ owner' = {e}
  /\ UNCHANGED removed

Overrun(e) ==
  /\ state[e] = "working"
  /\ state' = [state EXCEPT ![e] = "overdue"]
  /\ UNCHANGED <<taken, owner, removed>>

\* The owner records its outcome on the task.
Settle(e) ==
  /\ e \in owner
  /\ state' = [state EXCEPT ![e] = "over"]
  /\ taken' = FALSE
  /\ owner' = {}
  /\ UNCHANGED removed

\* Runs end, one or all those of a process, and leave the task as it is.
End(ended) ==
  /\ state' = [e \in Runs |-> IF e \in ended THEN "over" ELSE state[e]]
  /\ owner' = owner \ ended
  /\ UNCHANGED <<taken, removed>>

\* The task is freed: nobody works on it in time.
Revoke ==
  /\ taken
  /\ \A e \in owner : state[e] = "overdue"
  /\ taken' = FALSE
  /\ owner' = {}
  /\ UNCHANGED <<state, removed>>

Remove ==
  /\ removed' = TRUE
  /\ taken' = FALSE
  /\ owner' = {}
  /\ UNCHANGED state

Next ==
  \/ \E ended \in SUBSET Runs : End(ended)
  \/ \E e \in Runs : Start(e) \/ Overrun(e) \/ Settle(e)
  \/ Revoke
  \/ Remove

Spec == Init /\ [][Next]_vars

\* Two runs never work at once in time, though one that is overdue may go on.
OneWorks ==
  \A e, f \in Runs : state[e] = "working" /\ state[f] = "working" => e = f
=============================================================================
