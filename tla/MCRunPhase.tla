----------------------------- MODULE MCRunPhase -----------------------------
(* Runs that are timed and runs that are counted, stages that are left out, *)
(* with and without publication and the failed-run sample.                  *)
EXTENDS RunPhase

Setting(stages, timed, iterations, retries, publish, failedSamples) ==
    [stages |-> stages, timed |-> timed, iterations |-> iterations, retries |-> retries,
     publish |-> publish, failedSamples |-> failedSamples]

MCSettings ==
    {Setting(<<"prepare", "run">>, FALSE, 1, 0, TRUE, TRUE),
     Setting(<<"run">>, TRUE, 0, 1, FALSE, FALSE),
     Setting(<<"run", "cleanup">>, FALSE, 2, 1, TRUE, FALSE)}
=============================================================================
