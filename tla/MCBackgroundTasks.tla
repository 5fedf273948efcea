------------------------- MODULE MCBackgroundTasks -------------------------
(* RunParallelThreads on small instances; see the cfg files. *)
EXTENDS BackgroundTasks
=============================================================================
