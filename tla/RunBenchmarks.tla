--------------------------- MODULE RunBenchmarks ----------------------------
(***************************************************************************)
(* RunBenchmarks of pkb.py: every benchmark is a RunBenchmarkTask, which   *)
(* runs it, and again when it failed in a way worth a retry; tasks run in  *)
(* series or, with --run_processes, in the workers of a process pool, and  *)
(* share one event that stops what has not started.  What the last         *)
(* attempts collected is published when every task has come back.          *)
(*                                                                         *)
(* RunBenchmark, which has a module of its own, is here one step with any  *)
(* of its outcomes; what it leaves in the cloud is followed there.  The    *)
(* flags live as long as their process: a worker of the pool hands those   *)
(* that its first task changed on to the next one.                         *)
(***************************************************************************)
EXTENDS ZoneRetryManager, Sequences

CONSTANTS
    N,            \* number of benchmarks
    Workers,      \* processes that may run them
    Settings      \* command lines: see Setting below

ASSUME NAssumption == N \in Nat \ {0}
ASSUME WorkersAssumption == IsFiniteSet(Workers) /\ Workers # {}

Setting == [zone : Zones \cup {Any}, retries : Nat, smartQuota : BOOLEAN,
            smartCapacity : BOOLEAN, allStages : BOOLEAN, stopOnFailure : BOOLEAN,
            processes : Nat]         \* 0 when --run_processes is not given
ASSUME SettingsAssumption == Settings \subseteq Setting

Benchmarks == 1..N
Substatuses == {"quota", "capacity", "known", "fatal"}
RetrySubstatuses == {"quota", "capacity", "known"}

VARIABLES
    setting,      \* the command line
    flags,        \* FLAGS in each worker: zone, retries and the smart retries
    teardown,     \* _TEARDOWN_EVENT
    task,         \* each RunBenchmarkTask: its locals and the outcome of its last spec
    tour,         \* history: zone and failure of each attempt
    fresh,        \* history: those whose last attempt ended with unpublished samples
    late,         \* history: number of attempts begun with the event set
    loop,         \* where RunBenchmarks is
    awaited,      \* tasks whose result it has
    published,    \* the attempts whose samples were published, per benchmark
    exit          \* return code

work == <<setting, flags, teardown, task, tour, fresh, late>>
main == <<loop, awaited, published, exit>>
loopVars == <<work, main>>

(* The flag validators. *)
ValidateSmartZoneRetryFlags(s) == s.smartQuota \/ s.smartCapacity => s.retries > 0
ValidateRetriesAndRunStages(s) == s.retries > 0 => s.allStages

NewTask == [pc |-> "pending", worker |-> CHOOSE w \in Workers : TRUE,
            manager |-> NewManager, maxRunCount |-> 0, status |-> "skipped",
            substatus |-> "none", samples |-> {}]

LoopInit ==
    /\ setting \in {s \in Settings : /\ ValidateSmartZoneRetryFlags(s)
                                     /\ ValidateRetriesAndRunStages(s)}
    /\ flags = [w \in Workers |->
                  [zone |-> setting.zone, retries |-> setting.retries,
                   smartQuota |-> setting.smartQuota, smartCapacity |-> setting.smartCapacity]]
    /\ teardown = FALSE
    /\ task = [b \in Benchmarks |-> NewTask]
    /\ tour = [b \in Benchmarks |-> <<>>]
    /\ fresh = {}
    /\ late = 0
    /\ loop = "tasks" /\ awaited = {}
    /\ published = [b \in Benchmarks |-> {}]
    /\ exit = 2

Ended == {"returned", "raised", "interrupted"}
Active(b) == task[b].pc \notin Ended \cup {"pending"}
Series == setting.processes = 0

----------------------------------------------------------------------------
(* RunBenchmarkTask *)

(* The loop of _RunParallelTasks, or of RunBenchmarkTasksInSeries, starts   *)
(* the next task in a worker that is free.                                  *)
StartTask(b, w) ==
    /\ loop = "tasks"
    /\ task[b].pc = "pending"
    /\ \A c \in 1..(b-1) : task[c].pc # "pending"
    /\ Cardinality({c \in 1..(b-1) : c \notin awaited}) <
          (IF Series THEN 1 ELSE setting.processes)
    /\ ~ \E c \in Benchmarks : Active(c) /\ task[c].worker = w
    /\ Series => w = NewTask.worker
    /\ task' = [task EXCEPT ![b].pc = "init", ![b].worker = w]
    /\ UNCHANGED <<setting, flags, teardown, tour, fresh, late, main>>

(* The zone retry manager and the number of runs. *)
InitTask(b) ==
    /\ task[b].pc = "init"
    /\ \E r \in CreateManager(flags[task[b].worker]) :
          /\ flags' = [flags EXCEPT ![task[b].worker] = r.flags]
          /\ task' = [task EXCEPT ![b].pc = "check", ![b].manager = r.manager,
                                  ![b].maxRunCount = 1 + r.flags.retries]
    /\ UNCHANGED <<setting, teardown, tour, fresh, late, main>>

(* A wrong version of the next one: the event is not looked at. *)
CheckNoEvent(b) ==
    /\ task[b].pc = "check"
    /\ task' = [task EXCEPT ![b].pc = "begin"]
    /\ UNCHANGED <<setting, flags, teardown, tour, fresh, late, main>>

(* Head of the loop: is the event set?  Without an attempt the answer is    *)
(* the spec as it came, which says skipped, and no sample.                  *)
CheckEvent(b) ==
    /\ task[b].pc = "check"
    /\ task' = [task EXCEPT ![b].pc = IF teardown THEN "returned" ELSE "begin"]
    /\ UNCHANGED <<setting, flags, teardown, tour, fresh, late, main>>

NewAttempt(b) ==
    [zone |-> flags[task[b].worker].zone, substatus |-> "none"]

(* A new collector and a new copy of the spec; RunBenchmark is called. *)
BeginAttempt(b) ==
    /\ task[b].pc = "begin"
    /\ task' = [task EXCEPT ![b].pc = "attempt", ![b].status = "skipped",
                            ![b].substatus = "none", ![b].samples = {}]
    /\ tour' = [tour EXCEPT ![b] = Append(@, NewAttempt(b))]
    /\ late' = IF teardown THEN late + 1 ELSE late
    /\ UNCHANGED <<setting, flags, teardown, fresh, main>>

Last(b) == Len(tour[b])
Collected(b, some) == IF some THEN {Last(b)} ELSE {}

(* RunBenchmark comes back: it went well, or a pending run was skipped. *)
AttemptReturns(b) ==
    /\ task[b].pc = "attempt"
    /\ \E s \in {"succeeded", "skipped"}, c \in BOOLEAN :
          /\ s = "skipped" => ~c
          /\ task' = [task EXCEPT ![b].pc = "returned", ![b].status = s,
                                  ![b].samples = @ \cup Collected(b, c)]
          /\ fresh' = IF c THEN fresh \cup {b} ELSE fresh \ {b}
    /\ UNCHANGED <<setting, flags, teardown, tour, late, main>>

(* Or it raises.  A KeyboardInterrupt, or the user's wish to stop, sets the *)
(* event and ends the loop; else _ShouldRetry decides.                      *)
AttemptRaises(b) ==
    /\ task[b].pc = "attempt"
    /\ \E sub \in Substatuses, interrupt, c \in BOOLEAN :
          /\ tour' = [tour EXCEPT ![b][Last(b)].substatus = sub]
          /\ fresh' = IF c THEN fresh \cup {b} ELSE fresh \ {b}
          /\ teardown' = (teardown \/ interrupt \/ setting.stopOnFailure)
          /\ task' = [task EXCEPT
                ![b].status = "failed", ![b].substatus = sub,
                ![b].samples = @ \cup Collected(b, c),
                ![b].pc = IF /\ ~interrupt /\ ~setting.stopOnFailure
                             /\ sub \in RetrySubstatuses
                             /\ Last(b) # task[b].maxRunCount
                          THEN "retry" ELSE "returned"]
    /\ UNCHANGED <<setting, flags, late, main>>

(* The delay, and then HandleSmartRetries. *)
Retry(b) ==
    /\ task[b].pc = "retry"
    /\ \E r \in HandleSmartRetries(task[b].manager, flags[task[b].worker],
                                   task[b].substatus) :
          /\ flags' = [flags EXCEPT ![task[b].worker].zone = r.zone]
          /\ task' = [task EXCEPT ![b].pc = "check", ![b].manager = r.manager]
    /\ UNCHANGED <<setting, teardown, tour, fresh, late, main>>

(* Outside RunBenchmark nothing is caught: the provider's utilities fail,   *)
(* 'any' finds no supported zone, or the interrupt comes during the delay.  *)
TaskRaises(b) ==
    /\ task[b].pc \in {"init", "retry"}
    /\ \E how \in {"raised", "interrupted"} : task' = [task EXCEPT ![b].pc = how]
    /\ UNCHANGED <<setting, flags, teardown, tour, fresh, late, main>>

----------------------------------------------------------------------------
(* RunBenchmarks *)

(* The result of a task.  In series an exception goes straight through; a   *)
(* pool notes it and goes on, but a KeyboardInterrupt handed back by a      *)
(* worker makes it wait for the tasks that run and then go on its way.      *)
Await(b) ==
    /\ loop = "tasks"
    /\ b \notin awaited
    /\ task[b].pc \in Ended
    /\ awaited' = awaited \cup {b}
    /\ loop' = IF Series /\ task[b].pc # "returned" THEN "raised"
               ELSE IF task[b].pc = "interrupted" THEN "shutdown"
               ELSE loop
    /\ UNCHANGED <<work, published, exit>>

(* A wrong version of the next one: it also waits for tasks that never started. *)
ShutdownAll ==
    /\ loop = "shutdown"
    /\ \A b \in Benchmarks : task[b].pc \in Ended
    /\ loop' = "raised"
    /\ UNCHANGED <<work, awaited, published, exit>>

Shutdown ==
    /\ loop = "shutdown"
    /\ \A b \in Benchmarks : ~Active(b)
    /\ loop' = "raised"
    /\ UNCHANGED <<work, awaited, published, exit>>

(* Every task is back: with errors the whole list of results is lost to an  *)
(* exception; without, the samples of the last attempts are collected.      *)
Collect ==
    /\ loop = "tasks"
    /\ awaited = Benchmarks
    /\ loop' = IF \E b \in Benchmarks : task[b].pc = "raised" THEN "raised" ELSE "publish"
    /\ UNCHANGED <<work, awaited, published, exit>>

(* A wrong version of the next one: what was skipped counts as well. *)
PublishExitFailedOnly ==
    /\ loop = "publish"
    /\ published' = [b \in Benchmarks |-> task[b].samples]
    /\ exit' = IF \A b \in Benchmarks : task[b].status # "failed" THEN 0 ELSE 1
    /\ loop' = "done"
    /\ UNCHANGED <<work, awaited>>

(* PublishSamples, the summary and the status files, and the return code.   *)
PublishSamples ==
    /\ loop = "publish"
    /\ published' = [b \in Benchmarks |-> task[b].samples]
    /\ exit' = IF \A b \in Benchmarks : task[b].status = "succeeded" THEN 0 ELSE 1
    /\ loop' = "done"
    /\ UNCHANGED <<work, awaited>>

PublishSamplesRaises ==
    /\ loop = "publish"
    /\ \E b \in Benchmarks : task[b].samples # {}
    /\ loop' = "raised"
    /\ UNCHANGED <<work, awaited, published, exit>>

LoopNext ==
    \/ \E b \in Benchmarks :
          \/ \E w \in Workers : StartTask(b, w)
          \/ InitTask(b) \/ CheckEvent(b) \/ BeginAttempt(b)
          \/ AttemptReturns(b) \/ AttemptRaises(b)
          \/ Retry(b) \/ TaskRaises(b)
          \/ Await(b)
    \/ Shutdown \/ Collect \/ PublishSamples \/ PublishSamplesRaises

(* Every step is one of a running thread of control: commands, delays and   *)
(* RunBenchmark itself come to an end.                                      *)
LoopSpec == LoopInit /\ [][LoopNext]_loopVars /\ WF_loopVars(LoopNext)

----------------------------------------------------------------------------
LoopTypeOK ==
    /\ setting \in Setting
    /\ flags \in [Workers -> [zone : Zones \cup {Any}, retries : Nat,
                              smartQuota : BOOLEAN, smartCapacity : BOOLEAN]]
    /\ teardown \in BOOLEAN
    /\ task \in [Benchmarks ->
          [pc : {"pending", "init", "check", "begin", "attempt", "retry"} \cup Ended,
           worker : Workers, manager : Managers, maxRunCount : Nat,
           status : {"skipped", "failed", "succeeded"},
           substatus : Substatuses \cup {"none"}, samples : SUBSET Nat]]
    /\ tour \in [Benchmarks -> Seq([zone : Zones, substatus : Substatuses \cup {"none"}])]
    /\ fresh \subseteq Benchmarks
    /\ late \in Nat
    /\ loop \in {"tasks", "shutdown", "publish", "done", "raised"}
    /\ awaited \subseteq Benchmarks
    /\ published \in [Benchmarks -> SUBSET Nat]
    /\ exit \in 0..2

(* Once some task has set the event, only the other workers can still begin *)
(* an attempt, and each only the one it had already checked for: the check  *)
(* of _TEARDOWN_EVENT at the head of the loop is not atomic with the start. *)
(* In series nothing begins at all.                                         *)
LateStartsBounded == late < (IF Series THEN 1 ELSE setting.processes)

(* What RunBenchmarks gives back is of the last attempts: it publishes what *)
(* each of them left in its collector, all of that and nothing of earlier   *)
(* ones; and return code 0 means that every benchmark was run, that the     *)
(* last attempt of each went well, and that nothing had asked for the stop. *)
ResultsAreTrue ==
    /\ loop = "done" =>
          \A b \in Benchmarks :
              published[b] = IF b \in fresh THEN {Last(b)} ELSE {}
    /\ exit = 0 =>
          /\ ~teardown
          /\ \A b \in Benchmarks :
                /\ tour[b] # <<>> /\ tour[b][Last(b)].substatus = "none"
                /\ task[b].status = "succeeded"

OnlyFailed(b, how) == \A n \in 1..(Last(b) - 1) : tour[b][n].substatus = how
HomeRegion(b) == RegionOf[task[b].manager.originalZone]
HomeZones(b) ==
    (GetZonesInRegion(HomeRegion(b)) \cap Supported) \cup {task[b].manager.originalZone}

(* A smart retry goes through the alternatives before it repeats one.  For  *)
(* lack of capacity: the supported zones of the region the benchmark began  *)
(* in, never another region.  For lack of quota: the regions that support   *)
(* the machine type.                                                        *)
AlternativesFirst ==
    \A b \in Benchmarks :
        LET f == flags[task[b].worker]
            Distinct(limit, Key(_)) ==
                \A i, j \in 1..Last(b) :
                    i < j /\ j <= limit => Key(tour[b][i].zone) # Key(tour[b][j].zone)
            Zone(z) == z
            Region(z) == RegionOf[z]
        IN  Active(b) /\ Last(b) > 0 =>
              /\ f.smartCapacity /\ OnlyFailed(b, "capacity") =>
                    /\ Distinct(Cardinality(HomeZones(b)), Zone)
                    /\ \A n \in 1..Last(b) : tour[b][n].zone \in HomeZones(b)
              /\ f.smartQuota /\ OnlyFailed(b, "quota") =>
                    Distinct(Cardinality(SupportedRegions \cup {HomeRegion(b)}), Region)

(* RunBenchmarks comes to an end, whatever its benchmarks do. *)
Terminates == <>(loop \in {"done", "raised"})
=============================================================================
