--------------------------- MODULE MCRunBenchmarks --------------------------
(* Two regions; the second has a zone without the machine type.  Command    *)
(* lines: smart retries in series, plain retries in two processes, a stop   *)
(* after the first failure, and --zone=any; the validators refuse retries   *)
(* of some of the stages.                                                   *)
EXTENDS RunBenchmarks
CONSTANTS a1, a2, b1, b2

MCZones == {a1, a2, b1, b2}
MCRegionOf == [z \in MCZones |-> IF z \in {a1, a2} THEN "A" ELSE "B"]
MCSupported == {a1, a2, b1}

Plain == [zone |-> a1, retries |-> 0, smartQuota |-> FALSE, smartCapacity |-> FALSE,
          allStages |-> TRUE, stopOnFailure |-> FALSE, processes |-> 0]
Smart == [Plain EXCEPT !.retries = 2, !.smartQuota = TRUE, !.smartCapacity = TRUE]
MCSettings == {Smart,
               [Plain EXCEPT !.allStages = FALSE, !.stopOnFailure = TRUE],
               [Plain EXCEPT !.retries = 1, !.processes = 2],
               [Plain EXCEPT !.retries = 1, !.allStages = FALSE],
               [Plain EXCEPT !.zone = Any, !.retries = 1]}
=============================================================================
