-------------------------- MODULE BackgroundTasks --------------------------
(***************************************************************************)
(* RunParallelThreads of background_tasks.py: _RunParallelTasks in the     *)
(* calling thread (the parent), _BackgroundThreadTaskManager, and the      *)
(* worker threads that run _ExecuteBackgroundThreadTasks.                  *)
(*                                                                         *)
(* The parent may be hit by a KeyboardInterrupt between any two of its     *)
(* steps, MaxInterrupts times at most.  It passes one on to a worker with  *)
(* PyThreadState_SetAsyncExc; the worker meets it at some later step, but  *)
(* never while it is asleep in Lock.acquire.                               *)
(*                                                                         *)
(* Get is one step here: NonPollingQueue shows that its parts compose to   *)
(* one.  Put is two, because the parent can be interrupted in between.     *)
(***************************************************************************)
EXTENDS Integers, Sequences, FiniteSets

CONSTANTS
    NTasks,          \* len(target_arg_tuples)
    MaxConcurrency,  \* max_concurrency
    MaxInterrupts,   \* bound on the KeyboardInterrupts of the parent
    Habits           \* what targets do beyond returning and raising Exception:
                     \* "exit" (sys.exit), "swallow" (a bare except)

ASSUME NTasksAssumption == NTasks \in Nat \ {0}
ASSUME MaxConcurrencyAssumption == MaxConcurrency \in Nat \ {0}
ASSUME MaxInterruptsAssumption == MaxInterrupts \in Nat
ASSUME HabitsAssumption == Habits \subseteq {"exit", "swallow"}

Task == 1 .. NTasks
Concurrency == IF MaxConcurrency < NTasks THEN MaxConcurrency ELSE NTasks
Worker == 1 .. Concurrency

Stop == 0                   \* _THREAD_STOP_PROCESSING
WaitForInterrupt == -1      \* _THREAD_WAIT_FOR_KEYBOARD_INTERRUPT
Booted == 0                 \* a bootstrap response, which names no task

VARIABLES
    parent,      \* where the parent is
    next,        \* the worker its current for-loop has come to
    uninit,      \* uninitialized_worker_ids
    started,     \* len(self.tasks)
    active,      \* active_task_count
    available,   \* self._available_worker_ids
    errors,      \* error_strings, as the sequence of the failed tasks
    interrupts,  \* the KeyboardInterrupts of the parent so far
    outcome,     \* what the caller got
    responses,   \* self._response_queue
    queue,       \* the deque of each task queue
    signal,      \* its lock is released
    thread,      \* where each worker is
    current,     \* the task it has taken
    pending,     \* it has an asynchronous KeyboardInterrupt to raise
    call         \* what has become of each target

parentVars == <<parent, next, uninit, started, active, available, errors,
                interrupts, outcome>>
vars == <<parentVars, responses, queue, signal, thread, current, pending, call>>

Init ==
    /\ parent = "spawn"
    /\ next = 1
    /\ uninit = Worker
    /\ started = 0
    /\ active = 0
    /\ available = [i \in 1 .. Concurrency |-> i]
    /\ errors = <<>>
    /\ interrupts = 0
    /\ outcome = "none"
    /\ responses = <<>>
    /\ queue = [w \in Worker |-> <<>>]
    /\ signal = [w \in Worker |-> FALSE]
    /\ thread = [w \in Worker |-> "unborn"]
    /\ current = [w \in Worker |-> Booted]
    /\ pending = [w \in Worker |-> FALSE]
    /\ call = [t \in Task |-> "new"]

----------------------------------------------------------------------------
(* Wrong versions of some steps, to show that the properties notice them.  *)

(* The concurrency limit is not looked at. *)
MayStartAlways == started < NTasks

(* HandleKeyboardInterrupt sends the workers the value that makes them wait *)
(* for a KeyboardInterrupt, and never raises one in them.                   *)
InterruptUnraised ==
    /\ parent # "done"
    /\ interrupts < MaxInterrupts
    /\ interrupts' = interrupts + 1
    /\ next' = 1
    /\ parent' = CASE parent \in {"loop", "starting"} -> "wake"
                   [] parent \in {"wake", "waking", "reap"} -> "stop"
                   [] OTHER -> "done"
    /\ outcome' = IF parent \in {"loop", "starting", "wake", "waking", "reap"}
                  THEN outcome ELSE "interrupt"
    /\ UNCHANGED <<uninit, started, active, available, errors, responses, queue,
                   signal, thread, current, pending, call>>

(* HandleKeyboardInterrupt does not wake sleeping workers. *)
SetAsyncExcOnly ==
    /\ parent = "setexc"
    /\ pending' = [pending EXCEPT ![next] = thread[next] # "dead"]
    /\ IF next = Concurrency
       THEN parent' = "reap" /\ next' = 1
       ELSE parent' = "setexc" /\ next' = next + 1
    /\ UNCHANGED <<uninit, started, active, available, errors, interrupts,
                   outcome, responses, queue, signal, thread, current, call>>

(* The traceback of the last task is not looked at. *)
AwaitAnyTaskLastUnread ==
    /\ parent = "loop"
    /\ started = NTasks \/ active = Concurrency
    /\ active > 0
    /\ responses # <<>>
    /\ available' = Append(available, Head(responses)[1])
    /\ errors' = IF call[Head(responses)[2]] = "failed" /\ Head(responses)[2] # NTasks
                 THEN Append(errors, Head(responses)[2]) ELSE errors
    /\ responses' = Tail(responses)
    /\ active' = active - 1
    /\ UNCHANGED <<parent, next, uninit, started, interrupts, outcome, queue,
                   signal, thread, current, pending, call>>

(* __exit__ does not wait for the threads it told to stop. *)
AwaitNoThread ==
    /\ parent = "join"
    /\ parent' = "answer"
    /\ UNCHANGED <<next, uninit, started, active, available, errors, interrupts,
                   outcome, responses, queue, signal, thread, current, pending,
                   call>>

----------------------------------------------------------------------------
(* Steps the parent's loops share. *)

(* Put, first half: the item is in the deque, the lock still held. *)
PutAppend(w, item) == queue' = [queue EXCEPT ![w] = Append(@, item)]

(* Put, second half. *)
PutSignal(w) == signal' = [signal EXCEPT ![w] = TRUE]

(* A for-loop over the workers, at loop, goes round again or on to after. *)
Advance(loop, after) ==
    IF next = Concurrency
    THEN parent' = after /\ next' = 1
    ELSE parent' = loop /\ next' = next + 1

----------------------------------------------------------------------------
(* _BackgroundThreadTaskManager.__init__ *)

SpawnThread ==
    /\ parent = "spawn"
    /\ thread' = [thread EXCEPT ![next] = "boot"]
    /\ Advance("spawn", "boot")
    /\ UNCHANGED <<uninit, started, active, available, errors, interrupts,
                   outcome, responses, queue, signal, current, pending, call>>

AwaitBootstrap ==
    /\ parent = "boot"
    /\ responses # <<>>
    /\ uninit' = uninit \ {Head(responses)[1]}
    /\ responses' = Tail(responses)
    /\ Advance("boot", "loop")
    /\ UNCHANGED <<started, active, available, errors, interrupts, outcome,
                   queue, signal, thread, current, pending, call>>

----------------------------------------------------------------------------
(* The while loop of _RunParallelTasks *)

MayStart == started < NTasks /\ active < Concurrency

(* StartTask, up to the append of Put: the task takes the last available   *)
(* worker.                                                                  *)
StartTask ==
    /\ parent = "loop"
    /\ MayStart
    /\ started' = started + 1
    /\ available' = SubSeq(available, 1, Len(available) - 1)
    /\ PutAppend(available[Len(available)], started + 1)
    /\ next' = available[Len(available)]
    /\ parent' = "starting"
    /\ UNCHANGED <<uninit, active, errors, interrupts, outcome, responses,
                   signal, thread, current, pending, call>>

StartTaskSignal ==
    /\ parent = "starting"
    /\ PutSignal(next)
    /\ active' = active + 1
    /\ next' = 1
    /\ parent' = "loop"
    /\ UNCHANGED <<uninit, started, available, errors, interrupts, outcome,
                   responses, queue, thread, current, pending, call>>

AwaitAnyTask ==
    /\ parent = "loop"
    /\ ~MayStart
    /\ active > 0
    /\ responses # <<>>
    /\ LET worker == Head(responses)[1]
           task == Head(responses)[2]
       IN  /\ available' = Append(available, worker)
           /\ errors' = IF call[task] = "failed" THEN Append(errors, task) ELSE errors
    /\ responses' = Tail(responses)
    /\ active' = active - 1
    /\ UNCHANGED <<parent, next, uninit, started, interrupts, outcome, queue,
                   signal, thread, current, pending, call>>

AllTasksDone ==
    /\ parent = "loop"
    /\ started = NTasks
    /\ active = 0
    /\ parent' = "stop"
    /\ UNCHANGED <<next, uninit, started, active, available, errors, interrupts,
                   outcome, responses, queue, signal, thread, current, pending,
                   call>>

----------------------------------------------------------------------------
(* HandleKeyboardInterrupt: three loops over the threads. *)

SetAsyncExc ==
    /\ parent = "setexc"
    /\ pending' = [pending EXCEPT ![next] = thread[next] # "dead"]
    /\ Advance("setexc", "wake")
    /\ UNCHANGED <<uninit, started, active, available, errors, interrupts,
                   outcome, responses, queue, signal, thread, current, call>>

PutWait ==
    /\ parent = "wake"
    /\ PutAppend(next, WaitForInterrupt)
    /\ parent' = "waking"
    /\ UNCHANGED <<next, uninit, started, active, available, errors, interrupts,
                   outcome, responses, signal, thread, current, pending, call>>

PutWaitSignal ==
    /\ parent = "waking"
    /\ PutSignal(next)
    /\ Advance("wake", "reap")
    /\ UNCHANGED <<uninit, started, active, available, errors, interrupts,
                   outcome, responses, queue, thread, current, pending, call>>

AwaitInterruptedThread ==
    /\ parent = "reap"
    /\ thread[next] = "dead"
    /\ Advance("reap", "stop")
    /\ UNCHANGED <<uninit, started, active, available, errors, interrupts,
                   outcome, responses, queue, signal, thread, current, pending,
                   call>>

----------------------------------------------------------------------------
(* __exit__, and the end of _RunParallelTasks *)

PutStop ==
    /\ parent = "stop"
    /\ PutAppend(next, Stop)
    /\ parent' = "stopping"
    /\ UNCHANGED <<next, uninit, started, active, available, errors, interrupts,
                   outcome, responses, signal, thread, current, pending, call>>

PutStopSignal ==
    /\ parent = "stopping"
    /\ PutSignal(next)
    /\ Advance("stop", "join")
    /\ UNCHANGED <<uninit, started, active, available, errors, interrupts,
                   outcome, responses, queue, thread, current, pending, call>>

AwaitStoppedThread ==
    /\ parent = "join"
    /\ thread[next] = "dead"
    /\ Advance("join", "answer")
    /\ UNCHANGED <<uninit, started, active, available, errors, interrupts,
                   outcome, responses, queue, signal, thread, current, pending,
                   call>>

(* The re-raised KeyboardInterrupt, the combined exception, or the results. *)
Answer ==
    /\ parent = "answer"
    /\ outcome' = IF interrupts > 0 THEN "interrupt"
                  ELSE IF errors # <<>> THEN "exception" ELSE "results"
    /\ parent' = "done"
    /\ UNCHANGED <<next, uninit, started, active, available, errors, interrupts,
                   responses, queue, signal, thread, current, pending, call>>

(* A KeyboardInterrupt reaches the parent.  In the loop it is handled; in   *)
(* the handler it cuts the handler short, and __exit__ still runs; in the   *)
(* constructor and in __exit__ there is nobody to handle it.                *)
InLoop == {"loop", "starting"}
InHandler == {"setexc", "wake", "waking", "reap"}
Interrupt ==
    /\ parent # "done"
    /\ interrupts < MaxInterrupts
    /\ interrupts' = interrupts + 1
    /\ next' = 1
    /\ parent' = CASE parent \in InLoop -> "setexc"
                   [] parent \in InHandler -> "stop"
                   [] OTHER -> "done"
    /\ outcome' = IF parent \in InLoop \cup InHandler THEN outcome ELSE "interrupt"
    /\ UNCHANGED <<uninit, started, active, available, errors, responses, queue,
                   signal, thread, current, pending, call>>

----------------------------------------------------------------------------
(* _ExecuteBackgroundThreadTasks *)

Boot(w) ==
    /\ thread[w] = "boot"
    /\ responses' = Append(responses, <<w, Booted>>)
    /\ thread' = [thread EXCEPT ![w] = "ready"]
    /\ UNCHANGED <<parentVars, queue, signal, current, pending, call>>

(* The worker enters Lock.acquire, out of reach of KeyboardInterrupt. *)
WaitForItem(w) ==
    /\ thread[w] = "ready"
    /\ thread' = [thread EXCEPT ![w] = "asleep"]
    /\ UNCHANGED <<parentVars, responses, queue, signal, current, pending, call>>

(* acquire returns, and Get takes an item or goes back to waiting. *)
Get(w) ==
    /\ thread[w] = "asleep"
    /\ signal[w]
    /\ IF queue[w] = <<>>
       THEN /\ signal' = [signal EXCEPT ![w] = FALSE]
            /\ thread' = [thread EXCEPT ![w] = "ready"]
            /\ UNCHANGED <<queue, current>>
       ELSE LET item == Head(queue[w])
            IN  /\ queue' = [queue EXCEPT ![w] = Tail(@)]
                /\ signal' = [signal EXCEPT ![w] = Len(queue[w]) > 1]
                /\ thread' = [thread EXCEPT ![w] =
                                 CASE item = Stop -> "dead"
                                   [] item = WaitForInterrupt -> "spinning"
                                   [] OTHER -> "taken"]
                /\ current' = [current EXCEPT ![w] = item]
    /\ UNCHANGED <<parentVars, responses, pending, call>>

RunTask(w) ==
    /\ thread[w] = "taken"
    /\ thread' = [thread EXCEPT ![w] = "running"]
    /\ call' = [call EXCEPT ![current[w]] = "running"]
    /\ UNCHANGED <<parentVars, responses, queue, signal, current, pending>>

(* The target returns, or raises an Exception, which Run records. *)
EndTask(w) ==
    /\ thread[w] = "running"
    /\ \E r \in {"ok", "failed"} : call' = [call EXCEPT ![current[w]] = r]
    /\ thread' = [thread EXCEPT ![w] = "respond"]
    /\ UNCHANGED <<parentVars, responses, queue, signal, current, pending>>

(* The target raises SystemExit, which neither Run nor the worker catches. *)
ExitTask(w) ==
    /\ "exit" \in Habits
    /\ thread[w] = "running"
    /\ call' = [call EXCEPT ![current[w]] = "exited"]
    /\ thread' = [thread EXCEPT ![w] = "dead"]
    /\ UNCHANGED <<parentVars, responses, queue, signal, current, pending>>

Respond(w) ==
    /\ thread[w] = "respond"
    /\ responses' = Append(responses, <<w, current[w]>>)
    /\ thread' = [thread EXCEPT ![w] = "ready"]
    /\ UNCHANGED <<parentVars, queue, signal, current, pending, call>>

(* The asynchronous KeyboardInterrupt is raised in the worker and ends it. *)
Alive(w) == thread[w] \notin {"unborn", "dead"}
RaiseInThread(w) ==
    /\ pending[w]
    /\ Alive(w) /\ thread[w] # "asleep"
    /\ pending' = [pending EXCEPT ![w] = FALSE]
    /\ thread' = [thread EXCEPT ![w] = "dead"]
    /\ call' = IF thread[w] = "running"
               THEN [call EXCEPT ![current[w]] = "cut"] ELSE call
    /\ UNCHANGED <<parentVars, responses, queue, signal, current>>

(* It is raised inside a target that catches everything, and goes no        *)
(* further: the target returns or raises an Exception of its own.           *)
SwallowInTask(w) ==
    /\ "swallow" \in Habits
    /\ pending[w]
    /\ thread[w] = "running"
    /\ pending' = [pending EXCEPT ![w] = FALSE]
    /\ \E r \in {"ok", "failed"} : call' = [call EXCEPT ![current[w]] = r]
    /\ thread' = [thread EXCEPT ![w] = "respond"]
    /\ UNCHANGED <<parentVars, responses, queue, signal, current>>

----------------------------------------------------------------------------
ParentStep ==
    \/ SpawnThread \/ AwaitBootstrap
    \/ StartTask \/ StartTaskSignal \/ AwaitAnyTask \/ AllTasksDone
    \/ SetAsyncExc \/ PutWait \/ PutWaitSignal \/ AwaitInterruptedThread
    \/ PutStop \/ PutStopSignal \/ AwaitStoppedThread \/ Answer

WorkerStep(w) ==
    \/ Boot(w) \/ WaitForItem(w) \/ Get(w) \/ RunTask(w) \/ EndTask(w)
    \/ ExitTask(w) \/ Respond(w) \/ RaiseInThread(w) \/ SwallowInTask(w)

Next == ParentStep \/ Interrupt \/ \E w \in Worker : WorkerStep(w)

(* Threads are scheduled fairly and targets end.  A pending interrupt is    *)
(* raised by the next thing the thread does, unless it sleeps in acquire:   *)
(* a thread that spins in time.sleep takes no other step.                   *)
Fairness == WF_vars(ParentStep) /\ \A w \in Worker : WF_vars(WorkerStep(w))

Spec == Init /\ [][Next]_vars /\ Fairness

----------------------------------------------------------------------------
(* Types. *)
TypeOK ==
    /\ parent \in {"spawn", "boot", "loop", "starting", "stop", "stopping",
                  "join", "answer", "done"} \cup InHandler
    /\ next \in Worker
    /\ uninit \subseteq Worker
    /\ started \in 0 .. NTasks
    /\ active \in 0 .. Concurrency
    /\ available \in Seq(Worker)
    /\ errors \in Seq(Task)
    /\ interrupts \in 0 .. MaxInterrupts
    /\ outcome \in {"none", "results", "exception", "interrupt"}
    /\ responses \in Seq(Worker \X (Task \cup {Booted}))
    /\ queue \in [Worker -> Seq(Task \cup {Stop, WaitForInterrupt})]
    /\ signal \in [Worker -> BOOLEAN]
    /\ thread \in [Worker -> {"unborn", "boot", "ready", "asleep", "taken",
                              "running", "respond", "spinning", "dead"}]
    /\ current \in [Worker -> Task \cup {Stop, WaitForInterrupt}]
    /\ pending \in [Worker -> BOOLEAN]
    /\ call \in [Task -> {"new", "running", "ok", "failed", "cut", "exited"}]

(* The assertions of _BackgroundThreadTaskManager: StartTask always finds   *)
(* an available worker although it is the caller's count, not the list of   *)
(* workers, that lets it be called; and every worker has reported once when *)
(* the constructor returns.                                                 *)
AssertionsHold ==
    /\ parent = "loop" /\ MayStart => available # <<>>
    /\ parent = "boot" /\ responses # <<>> => Head(responses)[1] \in uninit
    /\ parent = "loop" => uninit = {}

(* A worker that spins until it is interrupted has an interrupt to come:    *)
(* _THREAD_WAIT_FOR_KEYBOARD_INTERRUPT never overtakes the one that         *)
(* HandleKeyboardInterrupt sets, even when HandleKeyboardInterrupt is cut   *)
(* short by another and __exit__ takes over.                                *)
SpinnerIsInterrupted == \A w \in Worker : thread[w] = "spinning" => pending[w]

(* RunParallelThreads does what ParallelCall says: each target is called at *)
(* most once, all of them even if some fail, no answer while one still      *)
(* runs, failure reported if and only if there was one.  With a third       *)
(* KeyboardInterrupt the parent could leave running targets behind, so the  *)
(* runs that check this have MaxInterrupts <= 2.                            *)
Call == INSTANCE ParallelCall WITH
            Limit <- Concurrency,
            interrupted <- interrupts > 0

ImplementsParallelCall == Call!Spec

(* The answer is true, whatever else targets do: results only if every      *)
(* target returned, the combined exception only if every target ended, and  *)
(* it names exactly those that raised, once each.                           *)
AnswerIsTrue ==
    /\ outcome = "results" => \A t \in Task : call[t] = "ok"
    /\ outcome = "exception" =>
          /\ \A t \in Task : call[t] \in {"ok", "failed"}
          /\ \A t \in Task : call[t] = "failed"
                <=> Cardinality({i \in DOMAIN errors : errors[i] = t}) = 1

(* The parent always comes back, however it is interrupted: no worker is    *)
(* left asleep in acquire or spinning while the parent waits for it.        *)
Terminates == <>(parent = "done")

(* Whatever targets do, the parent waits for ever only in two cases: a      *)
(* target has ended its worker with SystemExit, and no response will come;  *)
(* or one has swallowed its KeyboardInterrupt, and the worker then waits    *)
(* for another one.  A failure, an interrupt or both together are not       *)
(* enough.                                                                  *)
WaitsForEverOnlyBy ==
    <>(\/ parent = "done"
       \/ \E t \in Task : call[t] = "exited"
       \/ \E w \in Worker : thread[w] = "spinning" /\ ~pending[w])
=============================================================================
