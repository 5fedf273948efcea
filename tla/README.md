# Verification of the PerfKitBenchmarker core of the Ampere Performance Toolkit

The Ampere Performance Toolkit is PerfKitBenchmarker (PKB, under
`perfkitbenchmarker/`) with an Oracle Cloud provider, benchmarks and event
hooks of Ampere's (under `ampere/pkb/`). PKB provisions cloud resources, runs
a benchmark on them and tears them down. Most of its 1500 files are scripts:
they install a tool on a VM, run it and parse what it prints. The logic that
is hard to get right is small and is what this project is about: how PKB runs
things in parallel and stops them, how it creates and deletes a resource that
costs money as long as it exists, how it keeps track of those resources across
exceptions, kills, retries and several invocations, and how it learns what a
command did that it sent to a process, to a VM or to two of its own workers.

Paths below are relative to the repository. `P/` is `perfkitbenchmarker/`.

## 1. Inventory

| component | code | state | operations | hard behaviour |
|---|---|---|---|---|
| task queue | `P/background_tasks.py` `_NonPollingSingleReaderQueue` | a deque, a lock used as a signal | `Put`, `Get` | signals collapse; threads interleave between the check, the pop and the signal |
| thread tasks | `P/background_tasks.py` `_BackgroundThreadTaskManager`, `_RunParallelTasks`, `RunThreaded` | worker threads, one queue each, a response queue, the list of available workers | start, await, interrupt, stop | KeyboardInterrupts at any step, workers asleep in `Lock.acquire`, failing targets |
| process tasks | `P/background_tasks.py` `_BackgroundProcessTaskManager` | a process pool | `RunParallelProcesses` | tasks that share a process share its flags |
| resource | `P/resource.py` `BaseResource`, with `Retry` of `P/vm_util.py` | `created`, `deleted`, `restored` | `Create`, `Delete`, `Restore`, `Freeze` | hooks that fail, are ignored, or return before the cloud is done; flags that lag behind the cloud |
| benchmark orchestration | `P/pkb.py` `RunBenchmark` and its phases, `P/benchmark_spec.py` | stages, the spec, its pickle, its status | provision, prepare, run, cleanup, teardown | exceptions in handlers and in `finally`; kills; state that travels in a pickle |
| run loop | `P/pkb.py` `RunBenchmarks`, `RunBenchmarkTask` | the attempts, the flags, the teardown event | run, retry, publish, answer | a retry starts over a pickle left by the attempt before it; the event is checked in one step and acted on in another |
| zone retry manager | `P/pkb.py` `ZoneRetryManager` | zones and regions tried | choose the next zone | sets that are cleared when exhausted |
| interrupt checker | `P/pkb.py` `InterruptChecker` | a thread per VM, an event | start, end and raise | interruption between polls and between phases |
| run stage | `P/pkb.py` `DoRunPhase`, `P/publisher.py` `SampleCollector` | samples, published samples | iterate, retry, publish | samples lost or published twice |
| command execution | `P/vm_util.py` `IssueCommand`, `Retry` | a process, a kill timer | run, kill, try again | the timer fires while the command ends |
| robust remote command | `P/linux_virtual_machine.py` `RobustRemoteCommand`, `P/scripts/execute_command.py`, `wait_for_command.py` | a status file and its lock, a file that announces it | start, wait, fetch and delete | a connection that fails leaves it open what was started; locks on a file that was unlinked |
| messaging latency runner | `P/scripts/messaging_service_scripts/common/e2e/` | a main process, a publisher, a receiver, their pipes | publish, consume, purge | failures, timeouts and late messages in a protocol of three processes |
| stage lists | `P/stages.py` | none | parse `--run_stage` | a pure function |
| static VMs | `P/static_virtual_machine.py` | a class-level pool and its lock | take, give back | objects reused after `Delete` |
| OCI provider | `ampere/pkb/providers/oci/` | ids, the status of the last poll, the rules of a shared security list | the hooks of `BaseResource`, `Create` of the network under `Retry`, `AllowPort` | stale status; a retry in the middle; VMs that read and write one list |
| the rest | other providers, benchmarks, packages, events, traces, configuration, logging | | | I/O, shell commands, parsing |

How they interact. `RunBenchmarks` runs one `RunBenchmarkTask` per benchmark,
in series or through the process manager. `RunBenchmark` reads the spec from a
pickle or makes a new one, runs the phases and pickles the spec again.
`BenchmarkSpec.Provision` and `Delete` call `Create` and `Delete` of each
resource, VMs through `RunThreaded`, which is `RunParallelThreads` over the
queues. Each `Create` and `Delete` calls the hooks of a provider, which run
command-line tools with `IssueCommand` under `Retry`.

What makes them correct. The queue: nothing lost, nothing reordered, no reader
asleep on an item. The thread manager: every target called once, no answer
while one runs, failures reported, and always an answer, even to someone who
presses Ctrl-C twice. The resource: what is called deleted is gone, and its
dependencies go after it. The orchestration: what is left in the cloud is on
the pickle if any object was told of it, teardown runs when it was asked for, and
success is not reported otherwise. The run loop: no retry before its time or after the stop, the other
zones before a repetition, the last attempt's samples and a return code that
is true. The run stage: an interrupted VM fails the run, samples are neither
lost nor, without a failure, doubled. Commands, local and remote: "ok" only of
a command that did its work, no two at once, an answer in the end. The pool: no
VM given out twice. The OCI provider: deleted is gone, the network is whole
before a VM boots. The messaging runner: a round begins with nothing left over,
and a report is of the message of the round.

`PROJECT.json` lists every component with its status, and under `hazards` the
places where this goes wrong most easily, line by line.

## 2. Modules

| module | what it is |
|---|---|
| `FifoChannel` | abstract: a first-in first-out channel that does not ignore an item |
| `NonPollingQueue` | `_NonPollingSingleReaderQueue`, a step per access to the deque or the lock |
| `ParallelCall` | abstract: what a caller of `RunParallelThreads` may rely on |
| `BackgroundTasks` | `_RunParallelTasks` over `_BackgroundThreadTaskManager` and its workers |
| `Resource` | `BaseResource`, its caller and the cloud, a step per hook |
| `RunBenchmark` | `RunBenchmark`, `Provision`, `Delete` and the pickle, over several invocations |
| `RunPhase` | what `RunBenchmark` takes as one step: the stages under an `InterruptChecker`, `DoRunPhase`, `SampleCollector` |
| `ZoneRetryManager` | the zones a retry may choose; used by the next |
| `RunBenchmarks` | `RunBenchmarks` and its `RunBenchmarkTask`s, in series or in processes, around `RunBenchmark` as one step |
| `IssueCommand` | `IssueCommand` under `Retry`: caller, process and timer |
| `RobustCommand` | `RobustRemoteCommand` and the two scripts on the VM |
| `StaticVmPool` | the pool of static VMs under several benchmarks |
| `OciProvider` | network, firewall and instances of Oracle's cloud under `Provision` and `Delete` |
| `EndToEndLatency` | the messaging latency runner: main process, publisher, receiver |
| `NonPollingQueueProofs`, `BackgroundTasksProofs`, `ResourceProofs`, `RunBenchmarkProofs`, `RunPhaseProofs`, `IssueCommandProofs`, `RobustCommandProofs`, `EndToEndLatencyProofs` | the theorems about the module each is named for; `ResourceProofs` also has those about `StaticVmPool` and `OciProvider`, whose objects are resources, and `RunBenchmarkProofs` those about `RunBenchmarks` and `ZoneRetryManager` |
| `MC...` | the modules TLC is run on; their `.cfg` files give the constants values |

A module of proofs extends all the modules it is about, so three of these have a
prefix in the names of their specification: `PoolInit`, `PoolNext`, `PoolSpec` in
`StaticVmPool`, likewise `OciSpec` in `OciProvider` and `LoopSpec` in
`RunBenchmarks`.

Definitions whose comment says "wrong version" are plausible bugs in the step
they stand before. No specification uses them; each shows that a property
would notice the bug (`mutants` in `PROJECT.json`).

### NonPollingQueue

`deque`, `locked`, `item` are `_deque`, `_lock` and the local variable of
`Get`; `reader` and `writer` are program counters. `PutAppend` and `PutSignal`
are the two statements of `Put`; `WaitForItem`, `GetCheck`, `GetPop`,
`GetRecheck`, `GetResignal`, `GetReturn` are the accesses of `Get`. Releasing a
released lock raises `ThreadError`, which is ignored: in the model a signal is
a bit that is set. The refinement mapping to `FifoChannel` counts an item as
received from the moment it is popped.

### BackgroundTasks

The parent is at one place of the constructor (`spawn`, `boot`), of the while
loop of `_RunParallelTasks` (`loop`, `starting`), of `HandleKeyboardInterrupt`
(`setexc`, `wake`, `waking`, `reap`) or of `__exit__` (`stop`, `stopping`,
`join`), with `next` the position of the current for-loop. A worker is at one
place of `_ExecuteBackgroundThreadTasks`. `Get` is one step, which is what
`NonPollingQueue` justifies. `Put` is two, since a KeyboardInterrupt can come
between the append and the release and leave an item nobody was told of.

A KeyboardInterrupt can come between any two steps of the parent: in the loop
it runs the handler, in the handler it ends the handler and leaves `__exit__` to
run, and in the constructor or in `__exit__` it leaves at once.
`PyThreadState_SetAsyncExc` sets `pending`; the worker raises it at a later
step, and not while it is asleep in `Lock.acquire`, which is what the comments
in the code say and why the handler also puts an item in the queue.

`Habits` says what else targets do. With `"exit"` a target may call `sys.exit`
(some providers do), which `_BackgroundTask.Run` does not catch; with
`"swallow"` it may catch everything with a bare `except` (others do).

### Resource

`created`, `deleted`, `restored` are the flags of the object; `config` its
settings and which optional hooks (`_Exists`, `_IsDeleting`) its class has.
`pc` is the hook about to be called, so an exception, a retry and a move of the
cloud can fall between any two. The hooks are external and do what
`resource.py` is prepared for: `_Create` succeeds at once, or later, or never
and says nothing; `_Delete` likewise; `_Exists` tells what the cloud lists,
which does not include a resource that is still coming and does include one
that is leaving. `Retry` is `vm_util.Retry`, its deadline and limit of attempts
turned into a number of attempts. `_CreateResource` and `_DeleteResource` are
retried (`tries`); inside the second, `WaitUntilDeleted` is a `Retry` of its own
with its own deadline (`polls`, `StillDeleting`), and so is `WaitUntilReady`
(`NotReady`). The caller is `BenchmarkSpec`: `Create` once,
`Delete`, `Delete` again if the first raised, `Freeze` before `Delete` with
`--freeze`, and a new run from the pickle with `--restore`. Timestamps, samples
and metadata are left out.

### RunBenchmark

Three resources stand for the many a spec can hold: a network and a VM, whose
failing deletion `BenchmarkSpec.Delete` logs and passes over, and a service
(relational database, cluster, job...), whose failing deletion leaves `Delete`.
For each the model keeps `created`, `deleted` and whether it is in the cloud,
and `Create` and `Delete` of a resource are one step each with the outcomes
`Resource` has: done, raised before, raised after it took effect.

`pc` is the place in `RunBenchmark`, `ctx` the call of `Pickle` or `Delete` it
is in, `raising` that an exception is on its way out. `Pickle` is two steps,
since `open(..., 'wb')` empties the file and `pickle.dump` fills it. An
invocation starts with some `--run_stage`, with a new spec if it includes
provision, whatever the pickle holds, and with the pickle otherwise, and may be
killed at any step. A retry of `RunBenchmarkTask` is such a start too: it brings
a copy of the new spec, over the pickle and the cloud of the attempt before it.
`unknown` is the history of what is in the cloud and no object was told of: a
`Create` raised after `_Create` took effect, PKB was killed before `Provision`
was pickled, or it was there when a new spec was made.

The prepare, run and cleanup phases, the listeners of the signals and the
publishing of samples are steps that go well or raise: nothing they do touches
this state, and `RunPhase` has their inside. A watched stage that raises leaves
its `InterruptChecker` behind (`checker`), and the `finally` clause begins with
the join of its threads, which a KeyboardInterrupt may leave before `Delete`
(`JoinRaises`). Otherwise a KeyboardInterrupt is one of the exceptions of the
call it arrives in; the instants between two calls of the `finally` clause are
left out.

### RunPhase

The main thread is at one place of `RunBenchmark`'s stages, of `DoRunPhase`'s
loop (`run`, `extras`, `period`, `loop`), of `PublishSamples`, or of the
`except` and `finally` clauses. `at["checker"][v]` is the thread of
`InterruptChecker` for VM `v`, `at["report"][v]` the thread by which
`PublishFailedRunSample` looks once more; both ask the provider in one step and
write `spot_early_termination` in another, so that they can overtake each other.
`phase_status`, the event that ends the checker threads, is `phaseSet`.
KeyboardInterrupts come where the main thread starts or waits for threads or is
in a run: in the constructor of `InterruptChecker`, with some of its threads
started and nothing assigned yet (`BeginInterrupted`), in the join that ends a
stage (`JoinInterrupted`), and in that of the `finally` clause
(`FinallyJoinInterrupted`), which leaves out the rest of the clause. `cut`
remembers the first and the last.
`pending` and `published` are the two lists of `SampleCollector`, and
`delivered` counts what each publisher got: `PublishSamples` calls them one
after the other and any of them may raise. The samples of one run are one
sample, named for its run number.

### ZoneRetryManager and RunBenchmarks

The manager is a record with `zonesTried`, `regionsTried` and the original
zone, and each operation is the set of what it may answer, since
`random.choice` may choose anything. `task[b]` holds the locals of
`RunBenchmarkTask` for benchmark `b`. The check of `_TEARDOWN_EVENT` and the
start of an attempt are two steps. `RunBenchmark` is one step with all the ends
it can have: success, one of the failed substatuses, an exception. What an
attempt leaves in the cloud and on the pickle is the matter of `RunBenchmark`. `flags` is kept per worker process, because
`FLAGS` is: a task that changes `--zone` changes it for the next task in the
same process. `RunBenchmarks` awaits the results, publishes them and makes the
return code. `tour`, `late` and `fresh` record what happened for the
properties.

### IssueCommand

`call[k]` is the process and the timer of try `k`. The timer thread goes
through three places (fired, `did_timeout` noted, `kill` sent), and
`cancel` works only before the first; the process may end, or never end, between
any two. `Judge` is everything after `wait`: cancel, look at the code and at
`did_timeout`, and return or raise as the arguments say. `Retry` calls again,
raises for its deadline or for its limit. All combinations of the arguments are
enumerated. What the process prints is left out, so `suppress_failure` may
answer either way. The process is the one that `Popen` made: with
`--time_commands` that is `/usr/bin/time`, and the `kill` of the timer does not
reach the command under it (`vm_util.py:470`). That flag is not modelled, and
`OneProcessAtATime` is not about it.

### RobustCommand

`wrapper[k]` is the k-th run of `execute_command.py` (an ssh that failed with
255 is tried again and may start another), `waiter[w]` a run of
`wait_for_command.py`; waiter 0 is the one the caller listens to, the others are
those it lost its connection to. Files are numbered: `status` says which of them
has the name, `content` what is in each, and whoever opened one holds a number,
so that a lock on a file that was unlinked is a lock on the old one. A wrapper
opens and truncates the status file, locks it, starts the command, makes the
exclusive file, waits, writes the code and unlocks. A waiter waits for the files,
opens, locks (shared), reads, and deletes when it was told to. Its alarm ends it
with 0 while somebody else has the lock; an error of `lockf` ends it with 0
(`ECONNREFUSED`, `EAGAIN`, `EACCES`) or kills it (any other), whoever has the
lock (`LockFails`). `unread` is the history of a call that succeeded on a 0 of
either kind.
A drop can come before or after the remote script was started, and a wrapper can
be killed at any step. `ignore_failure`, login shells and the timeout of a
single ssh call are left out.

### StaticVmPool

`pool` is `vm_pool`; `GetStaticVirtualMachine` takes its head under the lock,
and `_Delete` puts it back at the left end. `created`, `deleted` and `from_pool`
(`createdVms`, `deletedVms`, `fromPool`) are flags of objects that live as long as
the process, which is what makes the second use differ from the first.
Construction may fail half-way, a VM may be rejected for its CPU, `Delete` has a
thread per VM and is called again by the `finally` clause when it raised.

### OciProvider

`net` is `OciNetwork` with its `OciVcn`, and the command of `Create` it is at;
a try that raises starts again from the first command, with the VCN kept by its
`created` flag and new ids for the rest. `vm[v]` is the object of a VM with the
status of its last poll, `inst[v]` what it really is. Threads launch, poll,
read and write the security list (two steps), wait for the boot, and on a CPU
mismatch delete and launch again. `BenchmarkSpec.Delete` runs a thread per VM
and then deletes the network; a second invocation does it again with the
flags of the pickle. Updates of the security list are sent with
`raise_on_failure=False` and never read back: the cloud takes one or refuses it
unnoticed, both in `Create` (ssh and icmp) and for the port of a VM. `granted`,
`refused` and `overlapped` are the history of what `Create` left on the list,
whose update was refused, and whose ran into another's. The route table, disks
and an existing VCN are left out.

### EndToEndLatency

`pc` is where the main process is in its round, `in` and `out` the pipes of each
worker, `at` the state of a worker; the receiver's are those of its state
machine (ready, pulling, success, error, purging). An answer that carries an
error is a type of its own. The service delivers what was sent, late or again,
or never. A publication may fail with or without its message on its way. A wait
times out only when nothing has come, and a worker may die of an exception. Of a
timestamp only its presence is kept.

## 3. Runs

| run | properties | shows |
|---|---|---|
| `queue` | `NoLostWakeup`, `FifoDelivery` | no wakeup is lost although signals collapse; the queue implements `FifoChannel`, liveness included: each item comes out, once and in order |
| `threads` | `AssertionsHold`, `SpinnerIsInterrupted`, `ImplementsParallelCall`, `Terminates` | with up to two KeyboardInterrupts at any step the thread manager implements `ParallelCall`, its assertions hold and it always comes back |
| `thread_habits` | `AnswerIsTrue`, `WaitsForEverOnlyBy` | when targets also call `sys.exit` or swallow the interrupt, an answer is still true, and only these two can make the caller wait for ever |
| `resource` | `ReliableDelete`, `DependenciesOutlive`, `CreateProvides`, `CallsReturn` | what was created and is called deleted is gone; dependencies go last; a `Create` that returns has made the resource; every call ends by its deadlines, whatever the cloud does |
| `benchmark` | `NothingForgotten`, `TeardownRuns`, `SuccessIsEarned`, `PickleDropsOnlyTheGone` | a readable pickle lists what is left in the cloud and was told to some object; a teardown that was asked for is left out only if `Delete` raised or a second KeyboardInterrupt came in the join before it; success is earned; no pickle drops what its spec knows to be there |
| `run_phase` | `InterruptionFailsRun`, `NoThreadOutlives`, `SamplesDelivered`, `RetryBudget`, `Ends` | a VM a checker saw taken back fails the run whichever thread writes last; no checker thread survives its stage, but for a KeyboardInterrupt in the constructor or in the last join; a publisher that raises loses nothing, and only then is a sample sent twice; the stage gives up exactly with its budget; it ends |
| `run_loop` | `LateStartsBounded`, `ResultsAreTrue`, `AlternativesFirst`, `Terminates` | after a stop only attempts already checked for begin, fewer than there are processes; the samples of the last attempts are published, and of no other, and 0 means that everything went well; a smart retry tries the alternatives before it repeats; it ends |
| `issue_command` | `OneProcessAtATime`, `OkIsEarned`, `TimedCallsEnd` | the timer racing the end of the command never yields a false "ok" or two commands at once; a call with a timeout ends although the command hangs |
| `robust_command` | `AnswersAreTrue`, `NoOverlap`, `Answered` | connections that fail at any moment do not make a running command look finished or a failed one good; a command started twice waits for the first; an answer comes when the command ends |
| `static_pool` | `NoVmTwice`, `Accounted` | no VM is given out twice however often it is deleted; one that is in nobody's hands was kept by a failure, or was used before |
| `oci` | `DeletedMeansGone`, `NetworkServes` | the cached status is never ahead of the cloud where it matters; after any number of tries the network is whole before a VM starts; what `Create` put on the security list stays there; a VM misses its port only if its update was refused or overlapped with that of another port |
| `end_to_end` | `RoundsStartClean`, `ReportsMatch`, `AbortHasCause`, `RunEnds` | no answer of one round is taken for another's; a late or repeated message is not reported; the loop is cut short only for cause; both workers are gone at the end |

Several properties have exceptions that name what the code does not promise
(`AnswersAreTrue` leaves out a success that read nothing, `Accounted` a second
use, `NothingForgotten` what no object was told of). Each is needed: the
observations of section 5 say what happens in it.

The types are not properties of the runs. They are theorems (section 4), and so
is `PopSafe`, that `popleft` never meets an empty deque.

### Bounds, and why they are enough

- `queue`: two writers with two items each. Signals collapse with two pending
  items; a `Put` of another writer fits in every gap of `Get`. The safety
  properties are proved for any number.
- `threads`: three targets on two workers, so that a worker is reused and one
  is idle while the other runs; two interrupts, so that the handler can itself
  be interrupted. A third would interrupt `__exit__`, which the code does not
  handle: the parent then leaves running targets behind, and `ParallelCall`
  does not hold. `thread_habits` has two targets, one interrupt.
- `resource`: two attempts per `Retry`, so that a repeated `_Delete` meets a
  resource on its way out; two runs, so that an object is restored from a
  pickle. All settings and hooks are enumerated. Proved for any number.
- `benchmark`: three starts (provision; a teardown that fails, or provision
  again; another) and one kill, over five values of `--run_stage`: all stages, one alone, the
  first three, the last ones. The safety properties are proved for any.
- `run_phase`: two VMs, so that one is seen and the other is not; two
  publishers, so that one of them can raise after the other was served; three
  runs; settings that are timed and counted, with and without publication.
  KeyboardInterrupts need no bound: each leaves a clause, at most three.
- `run_loop`: two benchmarks, of which the second meets what the first left in
  the flags and the event; four zones in two regions, one without the machine
  type; two retries. Settings: smart retries in series, retries in two
  processes, a stop after the first failure, `--zone=any`. The safety properties
  are proved for any benchmarks, processes, zones and flags.
- `issue_command`: three tries, more than any limit of retries in the run (none,
  0, 1), and every combination of arguments.
- `robust_command`: ssh is tried twice, two connections drop (one at the start
  and one later, or both later), one wrapper is killed and one `lockf` fails.
- `static_pool`: three VMs and three benchmarks of up to three VMs: a VM can be
  used, used again, and missed. Proved for any number.
- `oci`: two VMs that open different ports, 22 and 3389 as a Linux and a Windows
  VM do, so that one can overwrite the rule of the other; two tries of the
  network, two launches per VM, two teardowns. Proved for any number.
- `end_to_end`: three messages, so that one of the first round can come in the
  third, and one death.

Deadlock is not checked where the system stops by itself: a reader with nothing
left to read, a parent that has its answer, a resource its caller is finished
with, a PKB that is not invoked again, a call that has returned, a run that
is over.

### Fairness

- Queue: the reader's steps and `PutSignal` are weakly fair. A thread that can
  run is run; nothing makes a writer call `Put`.
- Threads: the parent and each worker are weakly fair, hence a target ends, and
  a worker spinning in `time.sleep` raises its pending interrupt (its only
  step). KeyboardInterrupts are never forced.
- Resource: a method that can go on does (the interpreter runs it; hooks
  return). Nothing is assumed of the cloud: a wait for it ends at the deadline of
  its `Retry` (`resource.py:301`, 361). Exceptions are never forced.
- Benchmark, static pool, OCI: none. Their properties are safety properties.
- Run phase: the main thread, the checker threads and the report threads. Calls
  return or raise; no VM need ever be taken back, no KeyboardInterrupt come.
- Run loop: `LoopNext`, a single condition: every step is one of a running thread of
  control, and commands, delays and `RunBenchmark` come to an end.
- `IssueCommand`: the caller and the timer threads. Nothing is assumed of the
  process, hence `TimedCallsEnd` is only about calls with a timeout.
- Robust command: the caller, the scripts, and the command, which ends.
  `Answered` needs that: the caller polls as long as the command runs. No alarm
  and no error of the lock is assumed.
- Messaging runner: the three processes run. The service need deliver nothing.

## 4. Proofs

Each argument is an inductive invariant that TLC has also checked: `IInv`, and
for the modules that are guests in a module of proofs `PoolInv`, `OciInv`, `LoopInv`.

`NonPollingQueueProofs`, for any set of writers and any number of items.
`NoLostWakeup` alone is not inductive, as it says nothing of a reader that
holds the signal and has not looked yet. `Awake` does: an item is in the deque
only if a signal is pending, a `Put` is about to give one, or the reader has
yet to look. With `Holding` (where the reader has an item) it gives
`WakeupsAreNotLost`, `PopsAreSafe` and `QueueTypes`; and every step maps to a
send, a receive or a stutter of the channel: `QueueImplementsChannel`.

`ResourceProofs`, for any number of attempts and runs. `Control` says what each
place in a method implies of the flags (at `_Delete`, the object is created and
not deleted); `History`, that within an object's life flags are only set, so a
pickle never claims more than the object; `Listed`, that a created resource is
no longer on its way, so it cannot appear after `_Exists` has said it is gone.
`DeleteIsReliable`, `DependenciesGoLast` and `ResourceTypes` follow. For
`CreateIsReliable`, `FirstCreate` adds that in the first run nothing was created
or deleted before `Create`: the cloud is not removing the resource, so what
`_Exists` lists is there to stay.

`RunBenchmarkProofs`, for any set of values of `--run_stage`, any number of
starts, retries included, and of kills. The heart is a triangle between the
cloud, the object and the pickle, each but for what is `unknown`: `ObjectKnows`
(what is in the cloud the object holds), `PickleKnows` (so does the pickle, except
while `Provision` runs) and `PickleAgrees` (what the pickle lists and the object
does not is gone, or was there before a new spec). `Fresh` starts it off: up to
`Provision` the spec has created nothing. `PastDelete`, `Raises`, `ServiceFirst`
and `Earned` carry what the ends of the `finally` clause need; `Raises` also says
that only a stage that raised leaves a checker, so a join can cost the teardown
only after a failure. `NothingIsForgotten`, `TeardownIsRun`, `SuccessIsTrue`,
`PickleKeepsWhatIsThere` and `BenchmarkTypes` follow, with the exceptions their
run has (section 5 says why each is needed).

`RunBenchmarks`, in `RunBenchmarkProofs`, for any number of benchmarks, processes and
retries, any zones and regions, and any command lines. The flags belong to a
process and not to a task, so `LoopInv` is about a task together with the flags of
its worker, and needs `OnePerWorker` (a worker runs one task at a time) to say
that another task does not change them meanwhile.

- `Past` says which samples a task holds: none while an attempt runs, those of its
  last attempt after it. With `Outcome` (what the loop publishes, when) it gives
  `PublishedIsTrue`.
- `InOrder` bounds the tasks under way by the processes, and `Lateness` counts:
  after the stop, the attempts that began late and the tasks that have found the
  event unset are together fewer than the processes, since the one that set the
  event is among the tasks under way. `FewStartLate` follows.
- `Zoned`, `ByCapacity`, `ByQuota` relate the sets of the zone manager to the
  tour: as long as every failure was one of capacity, the zones tried are
  exactly those of the attempts made and the next is another, until there is no
  other. The sets are cleared when exhausted, so this holds only for as many
  attempts as there are zones; that many attempts being in different zones is a
  counting argument (`FewTried`). For quota the same of regions. The lemmas
  `ChooseAnswers`, `AnotherZone`, `AnotherRegion` and `SameZone` say what each
  branch of `HandleSmartRetries` answers. `AlternativesGoFirst` and `LoopTypes`
  follow.

`StaticVmPool`, in `ResourceProofs`, for any finite set of static VMs and any number of
benchmarks. `NoVmTwice` needs to know of every VM which flags it can have when
`Delete` meets it. `Taken`: what a benchmark holds is created and from the pool;
`Flagged`: what is back in the pool is marked deleted, or its thread is about to;
so a second `Delete`, of the `finally` clause, returns nothing again.
`Threads`, `DeletedOnes` and `SpecDeletedOnes` say that a VM whose deletion is past
has been returned, or is one of the two exceptions of `Accounted`.
`VmsAreGivenOnce`, `VmsAreAccountedFor` and `PoolTypes` follow.

`OciProvider`, in `ResourceProofs`, for any number of VMs, tries, boots and teardowns.
`Lifecycle` relates the object of a VM to its instance: the status of the last poll
is never ahead of the cloud (the object says TERMINATED only of an instance that
is), an object that is created has been polled since its launch. `Built` does
the same for the network: the commands of `Create` this try has come past have
left what they make in the cloud under the ids the object now holds, so a try
that starts again relies on nothing of the one before except the VCN.
`DeletedVmsAreGone` and `OciTypes` follow. For `TheNetworkServes`, `ListInv` adds
what the security list holds: two VMs that are both about to write overlap; one
that is about to write has read what `Create` left and the port of every VM that
was served before it read; and the port of a VM that is booting or up is on the
list, unless its update was refused or overlapped with one for another port. It
holds for any ports, the same or different.

`BackgroundTasksProofs`, for any number of tasks, any `max_concurrency` and any
number of KeyboardInterrupts. The invariant is a conjunction of what could be
argued one after the other. `Counts`: the parent's own numbers; in particular
the list of available workers is as long as the caller's count of active tasks
lets it be, which is all `StartTask` relies on. `Booting`: each worker reports
once, before it does anything else. `Placed`: a task is in one queue, or in one
worker's hands, or in neither, and its call has come as far as that. `Armed`: a
worker that spins, or has the request to wait in its queue, has an interrupt to
come, or is dead. `Joined`: whom the parent has waited for. `Calm`, the largest,
holds as long as there was no interrupt: a worker is available, or has one task,
or a response on its way, and a task that was started and is nowhere has been
collected, its failure noted once; so when no task is active all workers are
available (a counting argument: as many available workers as there are workers,
no two the same) and nothing is left to do. `Answered`: after the answer no
worker can begin a call. From these:

- `ManagerAssertions`, `TheAnswerIsTrue` and `BackgroundTypes`, without
  conditions, that is with targets that exit or swallow interrupts as well;
- `SpinnersAreInterrupted`, if no target swallows the interrupt (one that does
  leaves a worker spinning: section 5);
- `RunParallelThreadsImplementsParallelCall`, the refinement the `threads` run
  checks, if no target calls `sys.exit` (`ParallelCall` has no such end) and at
  most two KeyboardInterrupts come (with a third the parent can leave running
  targets behind). `RunTask` maps to `Begin`, the end of a target to `End`, an
  interrupt that ends a running target to `Cut`; an interrupt of the parent maps
  to `Interrupt`, to `InterruptAnswer` or, in the handler, to a stutter; all that
  moves tasks between parent and workers stutters. `Begin` needs that fewer than
  `Limit` calls are running: each has a worker of its own, and not the one that
  is about to begin.

`RunPhaseProofs`, for any VMs, publishers, flags and number of runs. `Control`
says which clause of `RunBenchmark` the main thread is in and what was raised
and published there. The other parts use it and not each other. `Watching`: as
long as nothing was raised only one checker thread writes the flag of a VM, and
what it saw is on its way to the flag or in it; after that the run fails anyway.
Its `Threads` also says where a thread may be left: of a constructor that was
interrupted there is no checker, and at the last join the event is set.
`Counting`: `failures` is the length of the run of failures at the end of the
results. `Collecting`: no sample is added twice, and the publishers this
publication has come past have what is pending. `SeenInterruptionFails`,
`ThreadsAreJoined`, `RetriesAreCounted`, `NoSampleIsLost` and `RunPhaseTypes`
follow.

`IssueCommandProofs`, for any number of tries. `CodesTell` says what a code
proves (0, that the process did its work; the code of a kill, that the timer
came to its end), `Past` and `Fresh` that tries before and after the current one
have no process. The lemma `ActorsAdvance` sums up process and timer: they touch
code and effect only while the process runs, and a timeout that was marked
stays. `OneAtATime`, `OkIsTrue`, `CommandTypes` follow, and two results that are
not properties of a run: `RerunsHaveCause` (a command is repeated only if it
could not start, failed or timed out, and no more than `max_retries` times) and
the action property `CodesStay` (a timer that `cancel` came too late for changes
no return code).

`RobustCommandProofs`, for any number of ssh retries, lost connections and
killed wrappers. `OverlapIsBounded` rests on `Mutex` (one wrapper holds the lock
of a file) and `OrphansCounted` (a command runs without its wrapper only if that
was killed). The first half of `TrueAnswers`, for any number of starts, is an
invariant of its own, `Truth`: some command has ended with 0, or no file, no
waiter and no answer has one. The second half has `Single`, for the case of one
wrapper: where that wrapper is when the lock was announced, what the file holds,
and how far a waiter can be.

`EndToEndLatencyProofs`, for any number of messages and deaths. `Phases` lists,
for each wait of the main process, what may be in the four pipes and where the
two workers may be; it is the protocol written down. `Commands` and `NotAhead`
say the same of the time after the main process has given up: a command is of
this round, no message is of a later one. `CleanRounds`, `MatchingReports`,
`CausedAborts` and `LatencyTypes` follow.

The assumptions are those of the modules: bounds are natural numbers (positive
where there is at least one: tasks, tries, runs), stage lists are sets of
stages, the code of a killed process is neither 0 nor 1; in `RunPhase` each stage
comes once, since `RunBenchmark` asks of each in turn whether it is in
`--run_stage`. In the run loop the supported zones are finitely many, each zone has
a region, and `any` is not the name of one; of the command lines,
`LoopInit` leaves those that the flag validators accept. The conditions on what
targets do are hypotheses of the theorems that need them.

Only model-checked: everything about liveness (`Terminates` of the threads and of
the run loop, `CallsReturn`, `Ends`, `TimedCallsEnd`, `Answered` of
`RobustCommand`, `RunEnds`, `WaitsForEverOnlyBy`, the fairness half of
`FifoDelivery`), which is out of the proof system's reach. Every invariant that a
passing run checks is also a theorem.

## 5. Observations met while modelling

What the code does where a reader might expect something else. They are the
reason for the exceptions in some of the properties. Two of them contradict what
the repository says of itself; TLC finds each in a few steps when the exception is
taken out of the property:

- `NothingForgotten` without `unknown`. `pkb.py:642-643`: "Pickle the spec before we try to
  create anything so we can clean everything up on a second run if something goes
  wrong." That pickle lists nothing as created, and the next one is made when
  `Provision` has ended: killed in between, PKB leaves resources that the
  teardown of a second run skips (`resource.py:308`). A `Create` that raises after
  `_Create` took effect, and a new spec over an old pickle, lead to the same.
- `AnswersAreTrue` without `unread`. `linux_virtual_machine.py:575-577`: `RemoteCommandError` is
  raised if "the command fails". When `lockf` fails with `ECONNREFUSED`, `EAGAIN`
  or `EACCES`, the waiter returns 0 and says "This will be retried with a
  subsequent wait" (`wait_for_command.py:144-156`). The polling loop does retry,
  but the last call, the one that fetches the code and the output, is made once
  (640-645): its 0 and its empty output are returned, whatever the command did.

Threads and commands:

- A target that calls `sys.exit` ends its worker without a response, and the
  parent waits for ever (`background_tasks.py:254`; the docstring at 525 says
  every failure is raised). A target with a bare `except` swallows the interrupt
  and its worker waits for another (411; comment at 304). `WaitsForEverOnlyBy`
  says that nothing else does this.
- In `RobustRemoteCommand`, a connection that fails after the fetch has deleted
  the files makes the retry fail, although the docstring calls failures
  "tolerated and safely retried" (`linux_virtual_machine.py:562`). A start that
  is retried after 255 may run the command a second time, and beside the first
  once a wrapper was killed or the status file unlinked. A fetch whose wait for
  the lock times out returns 0; with one start this does not happen.
- A command that ends by itself as the kill timer fires is reported as timed out,
  or run again (`vm_util.py:551`).

Resources and the pickle:

- `created` is set only after `_WaitUntilRunning`, so an exception between
  `_Create` and there leaves a resource that `Delete` skips (`resource.py:308`).
- An object restored from a pickle has `created` set, so
  `create_on_restore_error` creates nothing (`resource.py:271`; compare
  `configs/freeze_restore_spec.py:32`), and one restored as deleted is never
  deleted again. `_PreDelete` runs again on every later `Delete`.
- A retry, or a new invocation with the provision stage, makes a new spec and
  pickles it over the old one (`benchmark_spec.py:1164`, `pkb.py:644`, 1297-1304):
  what the attempt before could not delete, and `Delete` passed over, is on no
  list any more.
- `open(..., 'wb')` empties the only pickle before `dump`
  fills it (`benchmark_spec.py:1130`).
- In the `except` clause, `PublishFailedRunSample` or `DoCleanupPhase` may raise
  and skip the teardown that was asked for (`pkb.py:1130`; `flags.py:136`). In the
  `finally` clause a second KeyboardInterrupt, in the join of the checker's
  threads, skips `spec.Delete`, the publication and the last pickle (1148).

Run loop and run stage:

- `--zone=any` sets retries after the validator that wants all stages for them
  (`pkb.py:1393`); a retry then provisions over the pickle of an attempt that
  was not torn down. With no supported zone it raises `AttributeError`.
- A retry for lack of capacity after one for lack of quota goes back to the
  original region. A quota retry may choose a zone without the machine type.
- Flags that a task changes stay changed for the next one in its process.
- An exception outside `RunBenchmark` loses the samples collected so far.
- With one iteration and at least one retry, a failed run ends the stage as
  succeeded (`pkb.py:771`; compare `flags.py:249-262`): the loop counts it.
- A KeyboardInterrupt in the constructor of `InterruptChecker` leaves threads
  whose event nobody has: they poll until their VM is taken back, after
  `RunBenchmark` has ended (`pkb.py:666-673`).
- `PublishFailedRunSample`'s own look at a VM can overwrite a TRUE of the
  checker with an older FALSE. An exception between a run and `AddSamples` loses
  that run's samples. A publication that fails half-way is repeated in full.
- The help of `--run_stage` speaks of "without skipping any stage"; the table
  `_NEXT_STAGE` allows some to be skipped.

Static VMs and OCI:

- A static VM's `deleted` flag is never reset: its second user does not return
  it to the pool.
- OCI VMs that open different ports at the same time read and write one security
  list, and a rule may be lost; so may one whose update was refused, as nobody
  looks at the answer (`oci_network.py:384`). A retried
  `Create` of the network makes another subnet and gateway beside the first.
  The VCN is marked deleted though the cloud refused. A VM whose boot is repeated
  for its CPU keeps `created`, so it is not created again.

Messaging runner:

- After a publication that failed and whose message does not come, the receiver
  goes on pulling: it looks at `Purge` only once it has a message, so the purge
  times out and the whole run ends.

## 6. Not modelled

- Other providers, benchmarks, packages, events, traces: commands sent to a
  shell or a cloud and the parsing of their output, with no protocol of their
  own. They are most of the repository's lines, so the mapped share of it is
  small. What `resource.py` expects of a provider is in `Resource`.
- Configuration and flags: input validation, except the validators of the
  retries. `RunStageParser`: one pass over a list with a table of successors,
  without state. Logging: wording.
- Publishers: I/O; a publisher is a step that goes well or raises.
- OCI disks, route tables and `use_vcn=False`; `--time_commands`; the streaming receiver and the statistics of
  the messaging runner; `ignore_failure`, login shells and the ssh call timeout
  of `RobustRemoteCommand`; `IssueBackgroundCommand`, a `Popen` nobody waits for.

## 7. Plan

The components with a protocol of their own are modelled, and their safety
properties proved. What is left to model: the streaming receiver of the messaging
runner, and OCI disks.
