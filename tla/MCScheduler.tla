---------------------------- MODULE MCScheduler ----------------------------
(* Scheduler with two replicas; the replicas are interchangeable.          *)
EXTENDS Scheduler, TLC

CONSTANTS p1, p2

MCProcs == {p1, p2}

Replicas == Permutations(MCProcs)
=============================================================================
