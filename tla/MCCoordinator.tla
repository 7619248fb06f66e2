--------------------------- MODULE MCCoordinator ---------------------------
(* Coordinator on a small conversation.  The constants are given in the    *)
(* configurations: one burst of a few fragments is enough to overlap a     *)
(* delivery, two queued runs and a cancellation.                           *)
EXTENDS Coordinator
=============================================================================
