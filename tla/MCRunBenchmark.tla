--------------------------- MODULE MCRunBenchmark ---------------------------
(* A few values of --run_stage: everything at once, and the stages one or   *)
(* some at a time, so that specs travel through the pickle.                 *)
EXTENDS RunBenchmark

All == {"provision", "prepare", "run", "cleanup", "teardown"}

MCStageLists ==
    {All, {"provision"}, {"provision", "prepare", "run"}, {"cleanup", "teardown"},
     {"teardown"}}
=============================================================================
