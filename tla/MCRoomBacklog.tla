--------------------------- MODULE MCRoomBacklog ---------------------------
(* RoomBacklog with two processes and a slot for a cycle of each.          *)
EXTENDS RoomBacklog

CONSTANTS p1, p2, c1, c2, e1, e2

MCProcs  == {p1, p2}
MCCycles == {c1, c2}
MCEvents == {e1, e2}
=============================================================================
