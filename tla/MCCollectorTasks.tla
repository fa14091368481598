------------------------- MODULE MCCollectorTasks -------------------------
(* Model-checking instance of CollectorTasks. *)
EXTENDS CollectorTasks
=============================================================================
