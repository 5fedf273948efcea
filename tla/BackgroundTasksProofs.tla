------------------------ MODULE BackgroundTasksProofs ------------------------
(***************************************************************************)
(* RunParallelThreads, for any number of tasks, any concurrency limit and  *)
(* any number of KeyboardInterrupts: the assertions of the task manager    *)
(* hold, a spinning worker is interrupted, the answer is true, and what    *)
(* the caller sees is what ParallelCall says.                              *)
(*                                                                         *)
(* The invariant says where the parent is and what it has counted, how far *)
(* the constructor has come, where every task is, which workers have an    *)
(* interrupt to come or are joined, and, as long as there was none, what   *)
(* has become of every task that was started.                              *)
(***************************************************************************)
EXTENDS BackgroundTasks, FiniteSetTheorems, SequenceTheorems, TLAPS

Available == {available[i] : i \in 1 .. Len(available)}
Errors == {errors[i] : i \in 1 .. Len(errors)}
AtEnd == {"stop", "stopping", "join", "answer"}

----------------------------------------------------------------------------
(* The parent's own accounts. *)
Counts ==
    /\ parent \in {"spawn", "boot", "loop", "starting"} => interrupts = 0
    /\ parent \in InHandler => interrupts = 1
    /\ parent \in {"spawn", "boot"} => started = 0 /\ active = 0 /\ errors = <<>>
    /\ parent \in {"spawn", "boot", "loop"} => Len(available) = Concurrency - active
    /\ parent = "starting" => Len(available) = Concurrency - active - 1
    /\ outcome = "none" <=> parent # "done"
    /\ outcome \in {"results", "exception"} => interrupts = 0
    /\ outcome = "results" => errors = <<>>

(* The constructor: a worker reports once, before it does anything else. *)
Booting ==
    /\ parent = "spawn" => uninit = Worker /\ \A w \in Worker : thread[w] = "unborn" <=> w >= next
    /\ parent = "boot" => Cardinality(uninit) = Concurrency - next + 1
    /\ parent \notin {"spawn", "boot", "done"} => uninit = {}
    /\ parent \notin {"spawn", "done"} => \A w \in Worker : thread[w] # "unborn"
    /\ parent # "done" =>
         /\ \A w \in Worker : thread[w] \in {"unborn", "boot"} => w \in uninit
         /\ \A i \in 1 .. Len(responses) : responses[i][2] = Booted => responses[i][1] \in uninit
    /\ parent \in {"spawn", "boot"} =>
         /\ \A w \in Worker : thread[w] \in {"unborn", "boot", "ready", "asleep"} /\ queue[w] = <<>>
         /\ \A i \in 1 .. Len(responses) :
              /\ responses[i][2] = Booted
              /\ thread[responses[i][1]] \in {"ready", "asleep"}
         /\ \A i, j \in 1 .. Len(responses) : responses[i][1] = responses[j][1] => i = j
         /\ available = [i \in 1 .. Concurrency |-> i]

----------------------------------------------------------------------------
(* Where the tasks are. *)
InQueue(w, t) == \E i \in 1 .. Len(queue[w]) : queue[w][i] = t
Holds(w, t) == thread[w] \in {"taken", "running"} /\ current[w] = t
Located(w, t) == InQueue(w, t) \/ Holds(w, t)

(* A task is in one place at a time, and its call has come as far as that.  *)
Placed ==
    /\ \A w \in Worker, t \in Task : Located(w, t) => t <= started
    /\ \A v, w \in Worker, t \in Task : Located(v, t) /\ Located(w, t) => v = w
    /\ \A w \in Worker, t \in Task : InQueue(w, t) => ~Holds(w, t) /\ call[t] = "new"
    /\ \A w \in Worker : \A i, j \in 1 .. Len(queue[w]) :
         queue[w][i] = queue[w][j] /\ queue[w][i] \in Task => i = j
    /\ \A w \in Worker :
         /\ thread[w] \in {"taken", "running", "respond"} => current[w] \in Task
         /\ thread[w] = "taken" => call[current[w]] = "new"
         /\ thread[w] = "running" => call[current[w]] = "running"
         /\ thread[w] = "respond" => call[current[w]] \in {"ok", "failed"}
    /\ \A t \in Task : t > started => call[t] = "new"
    /\ \A t \in Task : call[t] = "running" =>
         \E w \in Worker : thread[w] = "running" /\ current[w] = t

----------------------------------------------------------------------------
(* The workers that HandleKeyboardInterrupt has been to, and those that     *)
(* were told to wait, have an interrupt to come, or have had it.            *)
Armed ==
    /\ \A w \in Worker : pending[w] => interrupts > 0
    /\ "swallow" \notin Habits => \A w \in Worker :
         \/ thread[w] = "spinning" \/ InQueue(w, WaitForInterrupt)
         \/ parent \in {"wake", "waking", "reap"} \/ (parent = "setexc" /\ w < next)
         => pending[w] \/ thread[w] = "dead"

(* The workers the parent has waited for. *)
Joined ==
    /\ parent \in {"reap", "join"} => \A w \in Worker : w < next => thread[w] = "dead"
    /\ parent = "answer" \/ (parent \in AtEnd /\ interrupts = 1)
         => \A w \in Worker : thread[w] = "dead"

----------------------------------------------------------------------------
(* As long as there was no interrupt: a worker is available, or has one     *)
(* task in hand, or a response on its way; and a task that was started and  *)
(* is nowhere has been collected, its failure noted once.                   *)
Free(w) == thread[w] \in {"ready", "asleep"} /\ queue[w] = <<>>
Responding(t) == \E w \in Worker : thread[w] = "respond" /\ current[w] = t
Responded(t) == \E i \in 1 .. Len(responses) : responses[i][2] = t
Exited(t) == \E w \in Worker : thread[w] = "dead" /\ current[w] = t /\ call[t] = "exited"
Out(t) == (\E w \in Worker : Located(w, t)) \/ Responding(t) \/ Responded(t) \/ Exited(t)

Hands ==
    /\ \A i, j \in 1 .. Len(available) : available[i] = available[j] => i = j
    /\ \A w \in Available : Free(w)
    /\ \A w \in Worker : Len(queue[w]) <= 1
    /\ \A w \in Worker : thread[w] \in {"taken", "running", "respond", "dead"} => queue[w] = <<>>
    /\ \A i \in 1 .. Len(responses) :
         /\ responses[i][1] \notin Available /\ Free(responses[i][1])
         /\ responses[i][2] \in Task /\ call[responses[i][2]] \in {"ok", "failed"}
         /\ ~Responding(responses[i][2])
         /\ \A j \in 1 .. Len(responses) :
              responses[i][1] = responses[j][1] \/ responses[i][2] = responses[j][2] => i = j
    /\ \A v, w \in Worker : thread[v] = "respond" /\ thread[w] = "respond"
                            /\ current[v] = current[w] => v = w

Noted ==
    /\ \A i, j \in 1 .. Len(errors) : errors[i] = errors[j] => i = j
    /\ \A t \in Errors : call[t] = "failed"

Collected ==
    /\ \A t \in Task : t <= started /\ ~Out(t) =>
         call[t] \in {"ok", "failed"} /\ (call[t] = "failed" => t \in Errors)
    /\ \A t \in Errors : ~Out(t) /\ t <= started

(* Once all of them are, nothing is left to do. *)
Settled ==
    /\ \A w \in Worker, t \in Task : ~Located(w, t)
    /\ \A t \in Task : call[t] \in {"ok", "failed"} /\ (call[t] = "failed" => t \in Errors)

Calm ==
    interrupts = 0 =>
        /\ Noted
        /\ parent \in {"loop", "starting"} => Hands /\ Collected
        /\ parent \in AtEnd \cup {"done"} => Settled

(* The caller has its answer: no call is begun any more.  A third interrupt *)
(* could come while calls are still being made.                             *)
Answered ==
    MaxInterrupts <= 2 /\ outcome # "none" =>
        \A w \in Worker : thread[w] = "dead" \/ \A t \in Task : ~Located(w, t)

IInv == TypeOK /\ Counts /\ Booting /\ Placed /\ Armed /\ Joined /\ Calm /\ Answered

USE NTasksAssumption, MaxConcurrencyAssumption, MaxInterruptsAssumption

----------------------------------------------------------------------------
LEMMA Sizes ==
    /\ Concurrency \in Nat \ {0} /\ Concurrency <= NTasks
    /\ IsFiniteSet(Worker) /\ Cardinality(Worker) = Concurrency
<1>1. Concurrency \in Nat \ {0} /\ Concurrency <= NTasks
  BY DEF Concurrency
<1>2. IsFiniteSet(1 .. Concurrency) /\ Cardinality(1 .. Concurrency) = Concurrency
  BY <1>1, FS_Interval
<1> QED
  BY <1>1, <1>2 DEF Worker

(* The steps that lead from where the parent is. *)
LEMMA ForLoop ==
    ASSUME TypeOK, NEW again, NEW after, Advance(again, after)
    PROVE  /\ next' \in Worker /\ parent' \in {again, after}
           /\ \/ parent' = after /\ next = Concurrency /\ next' = 1
              \/ parent' = again /\ next < Concurrency /\ next' = next + 1
BY Sizes DEF Advance, TypeOK, Worker

----------------------------------------------------------------------------
(* Types. *)
Parents == {"spawn", "boot", "loop", "starting", "stop", "stopping",
            "join", "answer", "done"} \cup InHandler
Items == Task \cup {Stop, WaitForInterrupt}
Threads == {"unborn", "boot", "ready", "asleep", "taken", "running", "respond", "spinning", "dead"}
Fates == {"new", "running", "ok", "failed", "cut", "exited"}

ParentTypes ==
    /\ parent \in Parents /\ next \in Worker /\ uninit \subseteq Worker
    /\ started \in 0 .. NTasks /\ active \in 0 .. Concurrency /\ available \in Seq(Worker)
    /\ errors \in Seq(Task) /\ interrupts \in 0 .. MaxInterrupts
    /\ outcome \in {"none", "results", "exception", "interrupt"}
WorkerTypes ==
    /\ responses \in Seq(Worker \X (Task \cup {Booted}))
    /\ queue \in [Worker -> Seq(Items)]
    /\ signal \in [Worker -> BOOLEAN]
    /\ thread \in [Worker -> Threads]
    /\ current \in [Worker -> Items]
    /\ pending \in [Worker -> BOOLEAN]
    /\ call \in [Task -> Fates]

LEMMA Types == TypeOK <=> ParentTypes /\ WorkerTypes
BY DEF TypeOK, ParentTypes, WorkerTypes, Parents, Items, Threads, Fates

(* The oldest response, and those that come after it. *)
LEMMA Responses ==
    ASSUME WorkerTypes, responses # <<>>
    PROVE  /\ Head(responses) = responses[1] /\ 1 \in 1 .. Len(responses)
           /\ Head(responses)[1] \in Worker /\ Head(responses)[2] \in Task \cup {Booted}
           /\ Tail(responses) \in Seq(Worker \X (Task \cup {Booted}))
           /\ Len(Tail(responses)) = Len(responses) - 1
           /\ \A i \in 1 .. Len(Tail(responses)) :
                i + 1 \in 1 .. Len(responses) /\ Tail(responses)[i] = responses[i + 1]
<1>1. responses \in Seq(Worker \X (Task \cup {Booted}))
  BY DEF WorkerTypes
<1>2. Head(responses) \in Worker \X (Task \cup {Booted})
  BY <1>1
<1> QED
  BY <1>1, <1>2

LEMMA EachResponse ==
    ASSUME WorkerTypes, NEW i \in 1 .. Len(responses)
    PROVE  responses[i][1] \in Worker /\ responses[i][2] \in Task \cup {Booted}
<1>1. responses[i] \in Worker \X (Task \cup {Booted})
  BY DEF WorkerTypes
<1> QED
  BY <1>1

(* The worker that StartTask takes, which is there. *)
LEMMA LastAvailable ==
    ASSUME TypeOK, Counts, parent = "loop", MayStart
    PROVE  /\ available # <<>> /\ Len(available) \in Nat \ {0}
           /\ Len(available) \in 1 .. Len(available)
           /\ available[Len(available)] \in Worker
           /\ SubSeq(available, 1, Len(available) - 1) \in Seq(Worker)
           /\ Len(SubSeq(available, 1, Len(available) - 1)) = Len(available) - 1
           /\ \A i \in 1 .. Len(available) - 1 :
                SubSeq(available, 1, Len(available) - 1)[i] = available[i]
<1>1. available \in Seq(Worker) /\ active \in Nat /\ Len(available) \in Nat
  BY DEF TypeOK
<1>2. Len(available) > 0
  BY <1>1, Sizes DEF Counts, MayStart
<1>3. /\ available # <<>> /\ Len(available) \in Nat \ {0}
      /\ Len(available) \in 1 .. Len(available)
      /\ available[Len(available)] \in Worker
  BY <1>1, <1>2
<1>4. PICK n \in Nat : n = Len(available) - 1
  BY <1>1, <1>2
<1>5. /\ n - 1 + 1 = n /\ \A i \in 1 .. n : 1 + i - 1 = i /\ available[i] \in Worker
      /\ 1 \in 1 .. Len(available) + 1 /\ n \in 1 - 1 .. Len(available)
      /\ n = IF 1 <= n THEN n - 1 + 1 ELSE 0
  BY <1>1, <1>2, <1>4
<1>6. /\ SubSeq(available, 1, n) \in Seq(Worker)
      /\ Len(SubSeq(available, 1, n)) = n
      /\ \A i \in 1 .. n : SubSeq(available, 1, n)[i] = available[1 + i - 1]
  BY <1>1, <1>5, SubSeqProperties
<1>7. \A i \in 1 .. n : SubSeq(available, 1, n)[i] = available[i]
  BY <1>5, <1>6
<1> QED
  BY <1>3, <1>4, <1>6, <1>7

LEMMA ParentTypesStep == ASSUME TypeOK, Counts, Booting, Next PROVE ParentTypes'
<1>t. ParentTypes /\ WorkerTypes
  BY Types
<1> USE DEF ParentTypes
<1>1. CASE SpawnThread
  BY <1>1, <1>t, ForLoop DEF SpawnThread, Parents
<1>2. CASE AwaitBootstrap
  BY <1>2, <1>t, ForLoop DEF AwaitBootstrap, Parents
<1>3. CASE StartTask
  BY <1>3, <1>t, LastAvailable DEF StartTask, Parents, MayStart
<1>4. CASE StartTaskSignal
  BY <1>4, <1>t, Sizes DEF StartTaskSignal, Parents, Counts, Worker
<1>5. CASE AwaitAnyTask
  <2>1. uninit = {} /\ responses # <<>> /\ parent = "loop"
    BY <1>5 DEF AwaitAnyTask, Booting
  <2>2. Head(responses)[1] \in Worker /\ Head(responses)[2] \in Task
    BY <2>1, <1>t, Responses DEF Booting
  <2>3. available' \in Seq(Worker) /\ errors' \in Seq(Task)
    BY <1>5, <1>t, <2>2 DEF AwaitAnyTask
  <2> QED
    BY <1>5, <1>t, <2>3, Sizes DEF AwaitAnyTask
<1>6. CASE AllTasksDone \/ PutWait \/ PutStop
  BY <1>6, <1>t DEF AllTasksDone, PutWait, PutStop, Parents, InHandler
<1>7. CASE SetAsyncExc
  BY <1>7, <1>t, ForLoop DEF SetAsyncExc, Parents, InHandler
<1>8. CASE PutWaitSignal
  BY <1>8, <1>t, ForLoop DEF PutWaitSignal, Parents, InHandler
<1>9. CASE AwaitInterruptedThread
  BY <1>9, <1>t, ForLoop DEF AwaitInterruptedThread, Parents, InHandler
<1>10. CASE PutStopSignal
  BY <1>10, <1>t, ForLoop DEF PutStopSignal, Parents
<1>11. CASE AwaitStoppedThread
  BY <1>11, <1>t, ForLoop DEF AwaitStoppedThread, Parents
<1>12. CASE Answer
  BY <1>12, <1>t DEF Answer, Parents
<1>13. CASE Interrupt
  <2>1. parent' \in {"setexc", "stop", "done"} /\ next' = 1 /\ interrupts' = interrupts + 1
        /\ outcome' \in {outcome, "interrupt"} /\ interrupts < MaxInterrupts
    BY <1>13 DEF Interrupt
  <2>2. UNCHANGED <<uninit, started, active, available, errors>>
    BY <1>13 DEF Interrupt
  <2> QED
    BY <2>1, <2>2, <1>t, Sizes DEF Parents, InHandler, Worker
<1>14. CASE \E w \in Worker : WorkerStep(w)
  <2>1. UNCHANGED parentVars
    BY <1>14 DEF WorkerStep, Boot, WaitForItem, Get, RunTask, EndTask, ExitTask, Respond,
       RaiseInThread, SwallowInTask
  <2> QED
    BY <2>1, <1>t DEF parentVars
<1> QED
  BY <1>1, <1>2, <1>3, <1>4, <1>5, <1>6, <1>7, <1>8, <1>9, <1>10, <1>11, <1>12, <1>13, <1>14
     DEF Next, ParentStep

LEMMA WorkerTypesStep == ASSUME TypeOK, Counts, Placed, Next PROVE WorkerTypes'
<1>t. ParentTypes /\ WorkerTypes
  BY Types
<1>i. /\ Stop \in Items /\ WaitForInterrupt \in Items /\ Task \subseteq Items
      /\ Task = 1 .. NTasks
  BY DEF Items, Task
<1> USE DEF WorkerTypes
<1>1. CASE SpawnThread
  BY <1>1, <1>t DEF SpawnThread, ParentTypes, Threads
<1>2. CASE AwaitBootstrap \/ AwaitAnyTask
  BY <1>2, <1>t, Responses DEF AwaitBootstrap, AwaitAnyTask
<1>3. CASE StartTask
  <2>1. started + 1 \in Items /\ available[Len(available)] \in Worker
    BY <1>3, <1>i, <1>t, LastAvailable DEF StartTask, MayStart, ParentTypes
  <2>2. queue' \in [Worker -> Seq(Items)]
    BY <1>3, <2>1, <1>t DEF StartTask, PutAppend
  <2> QED
    BY <1>3, <2>2, <1>t DEF StartTask
<1>4. CASE StartTaskSignal \/ PutWaitSignal \/ PutStopSignal
  BY <1>4, <1>t DEF StartTaskSignal, PutWaitSignal, PutStopSignal, PutSignal, ParentTypes
<1>5. CASE AllTasksDone \/ AwaitInterruptedThread \/ AwaitStoppedThread \/ Answer \/ Interrupt
  BY <1>5, <1>t DEF AllTasksDone, AwaitInterruptedThread, AwaitStoppedThread, Answer, Interrupt
<1>6. CASE SetAsyncExc
  BY <1>6, <1>t DEF SetAsyncExc
<1>7. CASE PutWait \/ PutStop
  <2>1. PICK x \in {Stop, WaitForInterrupt} : queue' = [queue EXCEPT ![next] = Append(queue[next], x)]
    BY <1>7, <1>t DEF PutWait, PutStop, PutAppend, ParentTypes
  <2>2. next \in Worker /\ UNCHANGED <<responses, signal, thread, current, pending, call>>
    BY <1>7, <1>t DEF PutWait, PutStop, ParentTypes
  <2> QED
    BY <2>1, <2>2, <1>i, <1>t
<1>8. ASSUME NEW w \in Worker, WorkerStep(w) PROVE WorkerTypes'
  <2>1. CASE Boot(w)
    <3>1. <<w, Booted>> \in Worker \X (Task \cup {Booted})
      OBVIOUS
    <3>2. responses' \in Seq(Worker \X (Task \cup {Booted}))
      BY <2>1, <3>1, <1>t DEF Boot
    <3> QED
      BY <2>1, <3>2, <1>t DEF Boot, Threads
  <2>2. CASE WaitForItem(w)
    BY <2>2, <1>t DEF WaitForItem, Threads
  <2>3. CASE Get(w)
    <3>1. CASE queue[w] = <<>>
      BY <2>3, <3>1, <1>t DEF Get, Threads
    <3>2. CASE queue[w] # <<>>
      <4>1. Head(queue[w]) \in Items /\ Tail(queue[w]) \in Seq(Items)
        BY <3>2, <1>t
      <4>2. PICK p \in {"dead", "spinning", "taken"} : thread' = [thread EXCEPT ![w] = p]
        BY <2>3, <3>2 DEF Get
      <4>3. /\ queue' = [queue EXCEPT ![w] = Tail(queue[w])]
            /\ current' = [current EXCEPT ![w] = Head(queue[w])]
            /\ signal' = [signal EXCEPT ![w] = Len(queue[w]) > 1]
            /\ UNCHANGED <<responses, pending, call>>
        BY <2>3, <3>2, <1>t DEF Get
      <4> QED
        BY <4>1, <4>2, <4>3, <1>t DEF Threads
    <3> QED
      BY <3>1, <3>2
  <2>4. CASE RunTask(w)
    BY <2>4, <1>t DEF RunTask, Threads, Fates
  <2>5. CASE EndTask(w) \/ ExitTask(w)
    BY <2>5, <1>t DEF EndTask, ExitTask, Threads, Fates
  <2>6. CASE Respond(w)
    <3>1. <<w, current[w]>> \in Worker \X (Task \cup {Booted})
      BY <2>6 DEF Respond, Placed
    <3>2. responses' \in Seq(Worker \X (Task \cup {Booted}))
      BY <2>6, <3>1, <1>t DEF Respond
    <3> QED
      BY <2>6, <3>2, <1>t DEF Respond, Threads
  <2>7. CASE RaiseInThread(w) \/ SwallowInTask(w)
    <3>1. call' \in [Task -> Fates]
      BY <2>7, <1>t DEF RaiseInThread, SwallowInTask, Fates
    <3>2. /\ pending' = [pending EXCEPT ![w] = FALSE]
          /\ thread' \in {[thread EXCEPT ![w] = "dead"], [thread EXCEPT ![w] = "respond"]}
          /\ UNCHANGED <<responses, queue, signal, current>>
      BY <2>7 DEF RaiseInThread, SwallowInTask
    <3> QED
      BY <3>1, <3>2, <1>t DEF Threads
  <2> QED
    BY <1>8, <2>1, <2>2, <2>3, <2>4, <2>5, <2>6, <2>7 DEF WorkerStep
<1> QED
  BY <1>1, <1>2, <1>3, <1>4, <1>5, <1>6, <1>7, <1>8 DEF Next, ParentStep

----------------------------------------------------------------------------
(* The parent's accounts. *)
LEMMA CountsStep == ASSUME TypeOK, Counts, Next PROVE Counts'
<1>t. ParentTypes /\ WorkerTypes
  BY Types
<1>n. /\ Len(available) \in Nat /\ active \in Nat /\ interrupts \in Nat
      /\ Concurrency \in Nat
  BY <1>t, Sizes DEF ParentTypes
<1> USE DEF Counts, InHandler
<1>1. CASE SpawnThread
  BY <1>1, ForLoop DEF SpawnThread
<1>2. CASE AwaitBootstrap
  BY <1>2, ForLoop DEF AwaitBootstrap
<1>3. CASE StartTask
  BY <1>3, <1>n, LastAvailable DEF StartTask
<1>4. CASE StartTaskSignal
  BY <1>4, <1>n DEF StartTaskSignal
<1>5. CASE AwaitAnyTask
  <2>1. Len(available') = Len(available) + 1
    BY <1>5, <1>t, Responses DEF AwaitAnyTask, ParentTypes
  <2> QED
    BY <1>5, <1>n, <2>1 DEF AwaitAnyTask
<1>6. CASE AllTasksDone \/ PutWait \/ PutStop
  BY <1>6 DEF AllTasksDone, PutWait, PutStop
<1>7. CASE SetAsyncExc
  BY <1>7, ForLoop DEF SetAsyncExc
<1>8. CASE PutWaitSignal
  BY <1>8, ForLoop DEF PutWaitSignal
<1>9. CASE AwaitInterruptedThread
  BY <1>9, ForLoop DEF AwaitInterruptedThread
<1>10. CASE PutStopSignal
  BY <1>10, ForLoop DEF PutStopSignal
<1>11. CASE AwaitStoppedThread
  BY <1>11, ForLoop DEF AwaitStoppedThread
<1>12. CASE Answer
  BY <1>12, <1>n DEF Answer
<1>13. CASE Interrupt
  BY <1>13, <1>n, <1>t DEF Interrupt, InLoop, ParentTypes, Parents
<1>14. CASE \E w \in Worker : WorkerStep(w)
  <2>1. UNCHANGED parentVars
    BY <1>14 DEF WorkerStep, Boot, WaitForItem, Get, RunTask, EndTask, ExitTask, Respond,
       RaiseInThread, SwallowInTask
  <2> QED
    BY <2>1 DEF parentVars
<1> QED
  BY <1>1, <1>2, <1>3, <1>4, <1>5, <1>6, <1>7, <1>8, <1>9, <1>10, <1>11, <1>12, <1>13, <1>14
     DEF Next, ParentStep

----------------------------------------------------------------------------
(* What a step does to one worker's thread, and to no other's. *)
LEMMA OneThread ==
    ASSUME WorkerTypes, NEW w \in Worker, NEW p, thread' = [thread EXCEPT ![w] = p]
    PROVE  thread'[w] = p /\ \A v \in Worker \ {w} : thread'[v] = thread[v]
BY DEF WorkerTypes

(* The constructor. *)
LEMMA BootingStep ==
    ASSUME TypeOK, Counts, Booting, Placed, Armed, Next
    PROVE  Booting'
<1>t. ParentTypes /\ WorkerTypes
  BY Types
<1>s. Concurrency \in Nat \ {0} /\ Worker = 1 .. Concurrency /\ next \in 1 .. Concurrency
  BY <1>t, Sizes DEF Worker, ParentTypes
<1>1. CASE SpawnThread
  <2>1. /\ parent = "spawn" /\ thread' = [thread EXCEPT ![next] = "boot"] /\ parent' \in {"spawn", "boot"}
        /\ UNCHANGED <<uninit, responses, queue, available>>
        /\ \/ parent' = "boot" /\ next = Concurrency /\ next' = 1
           \/ parent' = "spawn" /\ next < Concurrency /\ next' = next + 1
    BY <1>1, ForLoop DEF SpawnThread
  <2>2. thread'[next] = "boot" /\ \A v \in Worker \ {next} : thread'[v] = thread[v]
    BY <2>1, <1>t, <1>s, OneThread
  <2>3. parent' = "spawn" => \A w \in Worker : thread'[w] = "unborn" <=> w >= next'
    BY <2>1, <2>2, <1>s DEF Booting
  <2>4. parent' = "boot" => /\ Cardinality(uninit) = Concurrency - next' + 1
                            /\ \A w \in Worker : thread'[w] # "unborn"
    BY <2>1, <2>2, <1>s, Sizes DEF Booting
  <2>5. \A w \in Worker : thread'[w] \in {"unborn", "boot", "ready", "asleep"}
    BY <2>1, <2>2 DEF Booting
  <2>6. \A i \in 1 .. Len(responses) : thread'[responses[i][1]] \in {"ready", "asleep"}
    <3>1. thread[next] = "unborn"
      BY <2>1, <1>s DEF Booting
    <3> QED
      BY <3>1, <2>1, <2>2, <1>t, EachResponse DEF Booting
  <2> QED
    BY <2>1, <2>3, <2>4, <2>5, <2>6 DEF Booting
<1>2. CASE AwaitBootstrap
  <2>1. /\ parent = "boot" /\ responses # <<>> /\ responses' = Tail(responses)
        /\ uninit' = uninit \ {Head(responses)[1]} /\ UNCHANGED <<thread, queue, available>>
        /\ \/ parent' = "loop" /\ next = Concurrency /\ next' = 1
           \/ parent' = "boot" /\ next < Concurrency /\ next' = next + 1
    BY <1>2, ForLoop DEF AwaitBootstrap
  <2>2. /\ Head(responses) = responses[1] /\ 1 \in 1 .. Len(responses)
        /\ Len(responses') = Len(responses) - 1
        /\ \A i \in 1 .. Len(responses') :
             i + 1 \in 1 .. Len(responses) /\ responses'[i] = responses[i + 1] /\ i + 1 # 1
    BY <2>1, <1>t, Responses
  <2>3. responses[1][1] \in uninit /\ thread[responses[1][1]] \in {"ready", "asleep"}
    BY <2>1, <2>2 DEF Booting
  <2>4. Cardinality(uninit') = Concurrency - next /\ IsFiniteSet(uninit')
    <3>1. IsFiniteSet(uninit)
      BY <1>t, Sizes, FS_Subset DEF ParentTypes
    <3>2. IsFiniteSet(uninit') /\ Cardinality(uninit') = Cardinality(uninit) - 1
      BY <3>1, <2>1, <2>2, <2>3, FS_RemoveElement
    <3>3. Cardinality(uninit) = Concurrency - next + 1
      BY <2>1 DEF Booting
    <3> QED
      BY <3>2, <3>3, <1>s
  <2>5. parent' = "loop" => uninit' = {}
    <3>1. parent' = "loop" => Cardinality(uninit') = 0
      BY <2>1, <2>4, <1>s
    <3> QED
      BY <3>1, <2>4, FS_EmptySet
  <2>6. parent' = "boot" => Cardinality(uninit') = Concurrency - next' + 1
    BY <2>1, <2>4, <1>s
  <2>7. \A w \in Worker : thread'[w] \in {"unborn", "boot"} => w \in uninit'
    BY <2>1, <2>2, <2>3 DEF Booting
  <2>8. \A i \in 1 .. Len(responses') :
          /\ responses'[i][1] \in uninit' /\ responses'[i][2] = Booted
          /\ thread'[responses'[i][1]] \in {"ready", "asleep"}
    BY <2>1, <2>2 DEF Booting
  <2>9. \A i, j \in 1 .. Len(responses') : responses'[i][1] = responses'[j][1] => i = j
    BY <2>1, <2>2 DEF Booting
  <2>10. \A w \in Worker : thread'[w] # "unborn" /\ queue'[w] = <<>>
                           /\ thread'[w] \in {"boot", "ready", "asleep"}
    BY <2>1 DEF Booting
  <2>11. available' = [i \in 1 .. Concurrency |-> i]
    BY <2>1 DEF Booting
  <2> QED
    BY <2>1, <2>5, <2>6, <2>7, <2>8, <2>9, <2>10, <2>11 DEF Booting
<1>3. CASE AwaitAnyTask
  <2>1. /\ parent = "loop" /\ responses # <<>> /\ responses' = Tail(responses)
        /\ UNCHANGED <<parent, thread, uninit>>
    BY <1>3 DEF AwaitAnyTask
  <2>2. /\ Len(responses') = Len(responses) - 1
        /\ \A i \in 1 .. Len(responses') :
             i + 1 \in 1 .. Len(responses) /\ responses'[i] = responses[i + 1]
    BY <2>1, <1>t, Responses
  <2> QED
    BY <2>1, <2>2 DEF Booting
<1>4. CASE \/ StartTask \/ StartTaskSignal \/ AllTasksDone \/ PutWait \/ PutStop \/ Answer
           \/ SetAsyncExc \/ PutWaitSignal \/ AwaitInterruptedThread \/ PutStopSignal
           \/ AwaitStoppedThread \/ Interrupt
  <2>1. UNCHANGED <<uninit, responses, thread>>
    BY <1>4 DEF StartTask, StartTaskSignal, AllTasksDone, PutWait, PutStop, Answer, SetAsyncExc,
       PutWaitSignal, AwaitInterruptedThread, PutStopSignal, AwaitStoppedThread, Interrupt
  <2>2. parent' = "done" \/ (parent \notin {"spawn", "boot", "done"} /\ parent' \notin {"spawn", "boot"})
    <3>1. CASE StartTask \/ StartTaskSignal \/ AllTasksDone \/ PutWait \/ PutStop \/ Answer
      BY <3>1 DEF StartTask, StartTaskSignal, AllTasksDone, PutWait, PutStop, Answer
    <3>2. CASE SetAsyncExc
      BY <3>2, ForLoop DEF SetAsyncExc
    <3>3. CASE PutWaitSignal
      BY <3>3, ForLoop DEF PutWaitSignal
    <3>4. CASE AwaitInterruptedThread
      BY <3>4, ForLoop DEF AwaitInterruptedThread
    <3>5. CASE PutStopSignal
      BY <3>5, ForLoop DEF PutStopSignal
    <3>6. CASE AwaitStoppedThread
      BY <3>6, ForLoop DEF AwaitStoppedThread
    <3>7. CASE Interrupt
      BY <3>7 DEF Interrupt, InLoop, InHandler
    <3> QED
      BY <1>4, <3>1, <3>2, <3>3, <3>4, <3>5, <3>6, <3>7
  <2> QED
    BY <2>1, <2>2 DEF Booting
<1>5. ASSUME NEW w \in Worker, WorkerStep(w) PROVE Booting'
  <2>1. UNCHANGED <<parent, next, uninit, available, interrupts>>
    BY <1>5 DEF WorkerStep, Boot, WaitForItem, Get, RunTask, EndTask, ExitTask, Respond,
       RaiseInThread, SwallowInTask, parentVars
  <2>2. CASE Boot(w)
    <3>1. /\ thread[w] = "boot" /\ UNCHANGED queue /\ thread' = [thread EXCEPT ![w] = "ready"]
          /\ responses' = Append(responses, <<w, Booted>>)
      BY <2>2 DEF Boot
    <3>2. thread'[w] = "ready" /\ \A v \in Worker \ {w} : thread'[v] = thread[v]
      BY <3>1, <1>t, OneThread
    <3>3. /\ Len(responses) \in Nat /\ Len(responses') = Len(responses) + 1
          /\ responses'[Len(responses')] = <<w, Booted>>
          /\ \A i \in 1 .. Len(responses) : responses'[i] = responses[i] /\ i # Len(responses')
          /\ \A i \in 1 .. Len(responses') : i \in 1 .. Len(responses) \/ i = Len(responses')
      BY <3>1, <1>t DEF WorkerTypes
    <3>4. parent = "spawn" => \A v \in Worker : thread'[v] = "unborn" <=> v >= next
      BY <3>1, <3>2 DEF Booting
    <3>5. parent # "done" =>
            /\ \A v \in Worker : thread'[v] \in {"unborn", "boot"} => v \in uninit
            /\ \A i \in 1 .. Len(responses') : responses'[i][2] = Booted => responses'[i][1] \in uninit
      BY <3>1, <3>2, <3>3 DEF Booting
    <3>6. parent \in {"spawn", "boot"} =>
            /\ \A v \in Worker : thread'[v] \in {"unborn", "boot", "ready", "asleep"}
            /\ \A i \in 1 .. Len(responses') :
                 responses'[i][2] = Booted /\ thread'[responses'[i][1]] \in {"ready", "asleep"}
      BY <3>1, <3>2, <3>3, <1>t, EachResponse DEF Booting
    <3>7. parent \in {"spawn", "boot"} =>
            \A i, j \in 1 .. Len(responses') : responses'[i][1] = responses'[j][1] => i = j
      <4>1. parent \in {"spawn", "boot"} =>
              \A i \in 1 .. Len(responses) : responses[i][1] # w
        BY <3>1 DEF Booting
      <4> QED
        BY <4>1, <3>3 DEF Booting
    <3>8. parent \notin {"spawn", "done"} => \A v \in Worker : thread'[v] # "unborn"
      BY <3>2 DEF Booting
    <3> QED
      BY <3>1, <3>4, <3>5, <3>6, <3>7, <3>8, <2>1 DEF Booting
  <2>3. CASE WaitForItem(w) \/ (Get(w) /\ queue[w] = <<>>)
    <3>1. PICK p \in {"ready", "asleep"} : thread' = [thread EXCEPT ![w] = p]
      BY <2>3 DEF WaitForItem, Get
    <3>2. UNCHANGED <<queue, responses>> /\ thread[w] \in {"ready", "asleep"}
      BY <2>3 DEF WaitForItem, Get
    <3>3. thread'[w] = p /\ \A v \in Worker \ {w} : thread'[v] = thread[v]
      BY <3>1, <1>t, OneThread
    <3> QED
      BY <2>1, <3>2, <3>3, <1>t, EachResponse DEF Booting
  <2>4. CASE \/ (Get(w) /\ queue[w] # <<>>) \/ RunTask(w) \/ EndTask(w) \/ ExitTask(w)
             \/ RaiseInThread(w) \/ SwallowInTask(w)
    <3>1. parent \notin {"spawn", "boot"}
      BY <2>4, <1>s DEF Booting, Get, RunTask, EndTask, ExitTask, RaiseInThread, SwallowInTask, Armed,
         Counts
    <3>2. PICK p \in Threads \ {"unborn", "boot"} : thread' = [thread EXCEPT ![w] = p]
      BY <2>4 DEF Get, RunTask, EndTask, ExitTask, RaiseInThread, SwallowInTask, Threads
    <3>3. thread'[w] = p /\ (\A v \in Worker \ {w} : thread'[v] = thread[v]) /\ UNCHANGED responses
      BY <3>2, <2>4, <1>t, OneThread DEF Get, RunTask, EndTask, ExitTask, RaiseInThread, SwallowInTask
    <3> QED
      BY <3>1, <3>3, <2>1 DEF Booting
  <2>5. CASE Respond(w)
    <3>1. /\ thread[w] = "respond" /\ thread' = [thread EXCEPT ![w] = "ready"]
          /\ responses' = Append(responses, <<w, current[w]>>)
      BY <2>5 DEF Respond
    <3>2. thread'[w] = "ready" /\ \A v \in Worker \ {w} : thread'[v] = thread[v]
      BY <3>1, <1>t, OneThread
    <3>3. /\ Len(responses) \in Nat /\ Len(responses') = Len(responses) + 1
          /\ responses'[Len(responses')] = <<w, current[w]>>
          /\ \A i \in 1 .. Len(responses) : responses'[i] = responses[i]
          /\ \A i \in 1 .. Len(responses') : i \in 1 .. Len(responses) \/ i = Len(responses')
      BY <3>1, <1>t DEF WorkerTypes
    <3>4. current[w] # Booted /\ parent \notin {"spawn", "boot"}
      BY <3>1 DEF Placed, Task, Booted, Booting
    <3> QED
      BY <3>2, <3>3, <3>4, <2>1 DEF Booting
  <2> QED
    BY <1>5, <2>2, <2>3, <2>4, <2>5 DEF WorkerStep
<1> QED
  BY <1>1, <1>2, <1>3, <1>4, <1>5 DEF Next, ParentStep

----------------------------------------------------------------------------
(* Put and Get, seen from what is in the queues. *)
LEMMA PutEffect ==
    ASSUME WorkerTypes, NEW w \in Worker, NEW x, PutAppend(w, x)
    PROVE  /\ \A v \in Worker \ {w} : queue'[v] = queue[v]
           /\ Len(queue[w]) \in Nat /\ Len(queue'[w]) = Len(queue[w]) + 1
           /\ queue'[w][Len(queue[w]) + 1] = x
           /\ \A i \in 1 .. Len(queue[w]) : queue'[w][i] = queue[w][i]
           /\ \A v \in Worker, t \in Items : InQueue(v, t)' <=> InQueue(v, t) \/ (v = w /\ t = x)
<1>1. /\ queue' = [queue EXCEPT ![w] = Append(queue[w], x)] /\ queue[w] \in Seq(Items)
      /\ queue \in [Worker -> Seq(Items)]
  BY DEF PutAppend, WorkerTypes
<1>2. queue'[w] = Append(queue[w], x) /\ \A v \in Worker \ {w} : queue'[v] = queue[v]
  BY <1>1
<1>3. /\ Len(queue[w]) \in Nat /\ Len(queue'[w]) = Len(queue[w]) + 1
      /\ queue'[w][Len(queue[w]) + 1] = x
      /\ \A i \in 1 .. Len(queue[w]) : queue'[w][i] = queue[w][i]
  BY <1>1, <1>2
<1>4. ASSUME NEW v \in Worker, NEW t \in Items
      PROVE  InQueue(v, t)' <=> InQueue(v, t) \/ (v = w /\ t = x)
  <2>1. CASE v = w
    <3>1. PICK n \in Nat : n = Len(queue[w])
      BY <1>3
    <3>2. /\ Len(queue'[w]) = n + 1 /\ queue'[w][n + 1] = x
          /\ \A i \in 1 .. n : queue'[w][i] = queue[w][i]
      BY <3>1, <1>3
    <3>3. \A i \in 1 .. n + 1 : i \in 1 .. n \/ i = n + 1
      OBVIOUS
    <3>4. n + 1 \in 1 .. n + 1 /\ 1 .. n \subseteq 1 .. n + 1
      OBVIOUS
    <3>5. InQueue(w, t)' <=> \E i \in 1 .. n + 1 : queue'[w][i] = t
      BY <3>2 DEF InQueue
    <3>6. InQueue(w, t) <=> \E i \in 1 .. n : queue[w][i] = t
      BY <3>1 DEF InQueue
    <3> QED
      BY <2>1, <3>2, <3>3, <3>4, <3>5, <3>6
  <2>2. CASE v # w
    BY <2>2, <1>2 DEF InQueue
  <2> QED
    BY <2>1, <2>2
<1> QED
  BY <1>2, <1>3, <1>4

LEMMA TakeEffect ==
    ASSUME WorkerTypes, NEW w \in Worker, queue[w] # <<>>,
           queue' = [queue EXCEPT ![w] = Tail(queue[w])]
    PROVE  /\ \A v \in Worker \ {w} : queue'[v] = queue[v]
           /\ Len(queue[w]) \in Nat \ {0} /\ Len(queue'[w]) = Len(queue[w]) - 1
           /\ Head(queue[w]) = queue[w][1] /\ Head(queue[w]) \in Items
           /\ \A i \in 1 .. Len(queue'[w]) :
                i + 1 \in 1 .. Len(queue[w]) /\ queue'[w][i] = queue[w][i + 1]
           /\ InQueue(w, Head(queue[w]))
           /\ \A v \in Worker, t \in Items : InQueue(v, t)' => InQueue(v, t)
           /\ \A v \in Worker, t \in Items :
                InQueue(v, t) => InQueue(v, t)' \/ (v = w /\ t = Head(queue[w]))
<1>1. queue \in [Worker -> Seq(Items)] /\ queue[w] \in Seq(Items)
  BY DEF WorkerTypes
<1>2. queue'[w] = Tail(queue[w]) /\ \A v \in Worker \ {w} : queue'[v] = queue[v]
  BY <1>1
<1>3. /\ Len(queue[w]) \in Nat \ {0} /\ Len(queue'[w]) = Len(queue[w]) - 1
      /\ Head(queue[w]) = queue[w][1] /\ Head(queue[w]) \in Items
      /\ \A i \in 1 .. Len(queue'[w]) :
           i + 1 \in 1 .. Len(queue[w]) /\ queue'[w][i] = queue[w][i + 1]
  BY <1>1, <1>2
<1>4. InQueue(w, Head(queue[w]))
  BY <1>3 DEF InQueue
<1>5. ASSUME NEW v \in Worker, NEW t \in Items, InQueue(v, t)' PROVE InQueue(v, t)
  <2>1. CASE v = w
    BY <2>1, <1>3, <1>5 DEF InQueue
  <2>2. CASE v # w
    BY <2>2, <1>2, <1>5 DEF InQueue
  <2> QED
    BY <2>1, <2>2
<1>6. ASSUME NEW v \in Worker, NEW t \in Items, InQueue(v, t)
      PROVE  InQueue(v, t)' \/ (v = w /\ t = Head(queue[w]))
  <2>1. CASE v = w
    <3>1. PICK i \in 1 .. Len(queue[w]) : queue[w][i] = t
      BY <2>1, <1>6 DEF InQueue
    <3>2. CASE i = 1
      BY <3>1, <3>2, <2>1, <1>3
    <3>3. CASE i # 1
      <4>1. i - 1 \in 1 .. Len(queue'[w]) /\ queue'[w][i - 1] = t
        BY <3>1, <3>3, <1>3
      <4> QED
        BY <4>1, <2>1 DEF InQueue
    <3> QED
      BY <3>2, <3>3
  <2>2. CASE v # w
    BY <2>2, <1>2, <1>6 DEF InQueue
  <2> QED
    BY <2>1, <2>2
<1> QED
  BY <1>2, <1>3, <1>4, <1>5, <1>6

(* The places of the tasks.  Most steps of the parent leave them alone. *)
LEMMA PlacedKept ==
    ASSUME Placed, UNCHANGED <<queue, thread, current, call, started>>
    PROVE  Placed'
<1>1. \A w \in Worker, t \in Items :
        /\ InQueue(w, t)' <=> InQueue(w, t)
        /\ Holds(w, t)' <=> Holds(w, t)
        /\ Located(w, t)' <=> Located(w, t)
  BY DEF InQueue, Holds, Located
<1>2. Task \subseteq Items
  BY DEF Items
<1> QED
  BY <1>1, <1>2 DEF Placed

LEMMA ParentPlaces ==
    ASSUME TypeOK, Counts, Booting, Placed, ParentStep \/ Interrupt
    PROVE  Placed'
<1>t. ParentTypes /\ WorkerTypes
  BY Types
<1>i. Task \subseteq Items /\ Stop \notin Task /\ WaitForInterrupt \notin Task
      /\ Task = 1 .. NTasks /\ started \in Nat
  BY <1>t DEF Items, Task, Stop, WaitForInterrupt, ParentTypes
<1>1. CASE SpawnThread
  <2>1. /\ thread[next] = "unborn" /\ thread' = [thread EXCEPT ![next] = "boot"] /\ next \in Worker
        /\ UNCHANGED <<queue, current, call, started>>
    BY <1>1, <1>t, Sizes DEF SpawnThread, Booting, ParentTypes, Worker
  <2>2. thread'[next] = "boot" /\ \A v \in Worker \ {next} : thread'[v] = thread[v]
    BY <2>1, <1>t, OneThread
  <2>3. \A w \in Worker, t \in Task :
          /\ InQueue(w, t)' <=> InQueue(w, t)
          /\ Holds(w, t)' <=> Holds(w, t)
          /\ Located(w, t)' <=> Located(w, t)
    BY <2>1, <2>2 DEF InQueue, Holds, Located
  <2> QED
    BY <2>1, <2>2, <2>3 DEF Placed
<1>2. CASE StartTask
  <2>1. PICK w \in Worker : PutAppend(w, started + 1)
    BY <1>2, LastAvailable DEF StartTask
  <2>2. started' = started + 1 /\ started + 1 \in Task /\ UNCHANGED <<thread, current, call>>
    BY <1>2, <1>i, <1>t DEF StartTask, MayStart, ParentTypes
  <2>3. /\ \A v \in Worker \ {w} : queue'[v] = queue[v]
        /\ Len(queue[w]) \in Nat /\ Len(queue'[w]) = Len(queue[w]) + 1
        /\ queue'[w][Len(queue[w]) + 1] = started + 1
        /\ \A i \in 1 .. Len(queue[w]) : queue'[w][i] = queue[w][i]
        /\ \A v \in Worker, t \in Task :
             InQueue(v, t)' <=> InQueue(v, t) \/ (v = w /\ t = started + 1)
    BY <2>1, <2>2, <1>t, <1>i, PutEffect
  <2>4. \A v \in Worker, t \in Task :
          /\ Holds(v, t)' <=> Holds(v, t)
          /\ Located(v, t)' <=> Located(v, t) \/ (v = w /\ t = started + 1)
    BY <2>2, <2>3 DEF Holds, Located
  <2>5. call[started + 1] = "new" /\ \A v \in Worker : ~Located(v, started + 1)
    BY <2>2, <1>i DEF Placed
  <2>6. /\ \A v \in Worker, t \in Task : Located(v, t)' => t <= started'
        /\ \A u, v \in Worker, t \in Task : Located(u, t)' /\ Located(v, t)' => u = v
    BY <2>2, <2>4, <2>5, <1>i DEF Placed
  <2>7. \A v \in Worker, t \in Task : InQueue(v, t)' => ~Holds(v, t)' /\ call'[t] = "new"
    BY <2>2, <2>3, <2>4, <2>5 DEF Placed, Located
  <2>8. \A v \in Worker : \A i, j \in 1 .. Len(queue'[v]) :
          queue'[v][i] = queue'[v][j] /\ queue'[v][i] \in Task => i = j
    <3>1. ASSUME NEW i \in 1 .. Len(queue[w]) PROVE queue[w][i] # started + 1
      BY <2>5 DEF Located, InQueue
    <3>2. \A i \in 1 .. Len(queue'[w]) : i \in 1 .. Len(queue[w]) \/ i = Len(queue[w]) + 1
      BY <2>3
    <3>3. \A i, j \in 1 .. Len(queue'[w]) :
            queue'[w][i] = queue'[w][j] /\ queue'[w][i] \in Task => i = j
      BY <2>3, <3>1, <3>2 DEF Placed
    <3> QED
      BY <2>3, <3>3 DEF Placed
  <2>9. \A t \in Task : t > started' => call'[t] = "new"
    BY <2>2, <1>i DEF Placed
  <2> QED
    BY <2>2, <2>6, <2>7, <2>8, <2>9 DEF Placed
<1>3. CASE PutWait \/ PutStop
  <2>1. PICK x \in Items \ Task : PutAppend(next, x)
    BY <1>3, <1>i DEF PutWait, PutStop, Items
  <2>2. next \in Worker /\ UNCHANGED <<thread, current, call, started>>
    BY <1>3, <1>t DEF PutWait, PutStop, ParentTypes
  <2>3. /\ \A v \in Worker \ {next} : queue'[v] = queue[v]
        /\ Len(queue[next]) \in Nat /\ Len(queue'[next]) = Len(queue[next]) + 1
        /\ queue'[next][Len(queue[next]) + 1] = x
        /\ \A i \in 1 .. Len(queue[next]) : queue'[next][i] = queue[next][i]
        /\ \A v \in Worker, t \in Task : InQueue(v, t)' <=> InQueue(v, t)
    BY <2>1, <2>2, <1>t, <1>i, PutEffect
  <2>4. \A v \in Worker, t \in Task :
          /\ Holds(v, t)' <=> Holds(v, t)
          /\ Located(v, t)' <=> Located(v, t)
    BY <2>2, <2>3 DEF Holds, Located
  <2>5. \A i, j \in 1 .. Len(queue'[next]) :
          queue'[next][i] = queue'[next][j] /\ queue'[next][i] \in Task => i = j
    <3>1. \A i \in 1 .. Len(queue'[next]) : i \in 1 .. Len(queue[next]) \/ i = Len(queue[next]) + 1
      BY <2>3
    <3>2. \A i, j \in 1 .. Len(queue[next]) :
            queue[next][i] = queue[next][j] /\ queue[next][i] \in Task => i = j
      BY <2>2 DEF Placed
    <3>3. x \notin Task
      BY <2>1
    <3> QED
      BY <2>3, <3>1, <3>2, <3>3
  <2> QED
    BY <2>2, <2>3, <2>4, <2>5 DEF Placed
<1>4. CASE \/ AwaitBootstrap \/ StartTaskSignal \/ AwaitAnyTask \/ AllTasksDone \/ SetAsyncExc
           \/ PutWaitSignal \/ AwaitInterruptedThread \/ PutStopSignal \/ AwaitStoppedThread
           \/ Answer \/ Interrupt
  <2>1. UNCHANGED <<queue, thread, current, call, started>>
    BY <1>4 DEF AwaitBootstrap, StartTaskSignal, AwaitAnyTask, AllTasksDone, SetAsyncExc,
       PutWaitSignal, AwaitInterruptedThread, PutStopSignal, AwaitStoppedThread, Answer,
       Interrupt
  <2> QED
    BY <2>1, PlacedKept
<1> QED
  BY <1>1, <1>2, <1>3, <1>4 DEF ParentStep

(* A thread that runs no target moves on, or ends. *)
LEMMA IdleStep ==
    ASSUME WorkerTypes, Placed, NEW w \in Worker, NEW p \in Threads \ {"taken", "running", "respond"},
           thread' = [thread EXCEPT ![w] = p], thread[w] # "running",
           UNCHANGED <<queue, current, call, started>>
    PROVE  Placed'
<1>1. thread'[w] = p /\ \A v \in Worker \ {w} : thread'[v] = thread[v]
  BY OneThread
<1>2. \A v \in Worker, t \in Task :
        /\ InQueue(v, t)' <=> InQueue(v, t)
        /\ Holds(v, t)' => Holds(v, t)
        /\ Located(v, t)' => Located(v, t)
  BY <1>1 DEF InQueue, Holds, Located
<1>3. \A t \in Task : call'[t] = "running" =>
        \E v \in Worker : thread'[v] = "running" /\ current'[v] = t
  BY <1>1 DEF Placed
<1> QED
  BY <1>1, <1>2, <1>3 DEF Placed

(* A call ends, in one way or another. *)
LEMMA CallEnds ==
    ASSUME WorkerTypes, Placed, NEW w \in Worker, NEW p \in {"respond", "dead"},
           NEW r \in {"ok", "failed", "cut", "exited"}, thread[w] = "running",
           thread' = [thread EXCEPT ![w] = p], call' = [call EXCEPT ![current[w]] = r],
           p = "respond" => r \in {"ok", "failed"}, UNCHANGED <<queue, current, started>>
    PROVE  Placed'
<1>1. thread'[w] = p /\ \A v \in Worker \ {w} : thread'[v] = thread[v]
  BY OneThread
<1>2. current[w] \in Task /\ call[current[w]] = "running"
  BY DEF Placed
<1>3. call'[current[w]] = r /\ \A t \in Task \ {current[w]} : call'[t] = call[t]
  BY <1>2 DEF WorkerTypes
<1>4. \A v \in Worker, t \in Task :
        /\ InQueue(v, t)' <=> InQueue(v, t)
        /\ Holds(v, t)' => Holds(v, t)
        /\ Located(v, t)' => Located(v, t)
  BY <1>1 DEF InQueue, Holds, Located
<1>5. \A v \in Worker \ {w} : thread[v] \in {"taken", "running", "respond"} => current[v] # current[w]
  <2>1. ASSUME NEW v \in Worker \ {w}, thread[v] \in {"taken", "running"}, current[v] = current[w]
        PROVE  FALSE
    BY <2>1, <1>2 DEF Placed, Located, Holds
  <2>2. ASSUME NEW v \in Worker \ {w}, thread[v] = "respond", current[v] = current[w]
        PROVE  FALSE
    BY <2>2, <1>2 DEF Placed
  <2> QED
    BY <2>1, <2>2
<1>6. \A v \in Worker, t \in Task : InQueue(v, t) => t # current[w]
  BY <1>2 DEF Placed
<1>7. \A v \in Worker :
        /\ thread'[v] \in {"taken", "running", "respond"} => current'[v] \in Task
        /\ thread'[v] = "taken" => call'[current'[v]] = "new"
        /\ thread'[v] = "running" => call'[current'[v]] = "running"
        /\ thread'[v] = "respond" => call'[current'[v]] \in {"ok", "failed"}
  BY <1>1, <1>2, <1>3, <1>5 DEF Placed
<1>8. \A t \in Task : call'[t] = "running" =>
        \E v \in Worker : thread'[v] = "running" /\ current'[v] = t
  BY <1>1, <1>2, <1>3 DEF Placed
<1>9. \A t \in Task : t > started' => call'[t] = "new"
  BY <1>2, <1>3 DEF Placed
<1> QED
  BY <1>3, <1>4, <1>6, <1>7, <1>8, <1>9 DEF Placed

LEMMA WorkerPlaces ==
    ASSUME TypeOK, Placed, NEW w \in Worker, WorkerStep(w)
    PROVE  Placed'
<1>t. ParentTypes /\ WorkerTypes
  BY Types
<1>i. Task \subseteq Items /\ Stop \notin Task /\ WaitForInterrupt \notin Task /\ Stop # WaitForInterrupt
      /\ \A x \in Items : x \in Task <=> x # Stop /\ x # WaitForInterrupt
  BY DEF Items, Task, Stop, WaitForInterrupt
<1>s. UNCHANGED started
  BY DEF WorkerStep, Boot, WaitForItem, Get, RunTask, EndTask, ExitTask, Respond,
     RaiseInThread, SwallowInTask, parentVars
<1>1. CASE \/ Boot(w) \/ WaitForItem(w) \/ (Get(w) /\ queue[w] = <<>>) \/ Respond(w)
           \/ (RaiseInThread(w) /\ thread[w] # "running")
  <2>1. /\ thread' \in {[thread EXCEPT ![w] = p] : p \in {"ready", "asleep", "dead"}}
        /\ thread[w] # "running" /\ UNCHANGED <<queue, current, call>>
    BY <1>1 DEF Boot, WaitForItem, Get, Respond, RaiseInThread
  <2>2. PICK p \in {"ready", "asleep", "dead"} : thread' = [thread EXCEPT ![w] = p]
    BY <2>1
  <2> QED
    BY <2>1, <2>2, <1>t, <1>s, IdleStep DEF Threads
<1>2. CASE \/ EndTask(w) \/ ExitTask(w) \/ SwallowInTask(w)
           \/ (RaiseInThread(w) /\ thread[w] = "running")
  <2>1. \E p \in {"respond", "dead"}, r \in {"ok", "failed", "cut", "exited"} :
          /\ thread' = [thread EXCEPT ![w] = p] /\ call' = [call EXCEPT ![current[w]] = r]
          /\ p = "respond" => r \in {"ok", "failed"}
    BY <1>2 DEF EndTask, ExitTask, SwallowInTask, RaiseInThread
  <2>2. thread[w] = "running" /\ UNCHANGED <<queue, current>>
    BY <1>2 DEF EndTask, ExitTask, SwallowInTask, RaiseInThread
  <2> QED
    BY <2>1, <2>2, <1>t, <1>s, CallEnds
<1>3. CASE Get(w) /\ queue[w] # <<>>
  <2>0. PICK item \in Items : item = Head(queue[w])
    BY <1>3, <1>t DEF WorkerTypes
  <2>1. /\ thread[w] = "asleep"
        /\ queue' = [queue EXCEPT ![w] = Tail(queue[w])]
        /\ current' = [current EXCEPT ![w] = item]
        /\ UNCHANGED call
    BY <1>3, <2>0, <1>t DEF Get, WorkerTypes
  <2>2. PICK p \in {"dead", "spinning", "taken"} : /\ thread' = [thread EXCEPT ![w] = p]
                                                   /\ p = "taken" <=> item \in Task
    <3>1. CASE item = Stop
      BY <1>3, <2>0, <3>1, <1>i DEF Get
    <3>2. CASE item = WaitForInterrupt
      BY <1>3, <2>0, <3>2, <1>i DEF Get
    <3>3. CASE item # Stop /\ item # WaitForInterrupt
      BY <1>3, <2>0, <3>3, <1>i DEF Get
    <3> QED
      BY <3>1, <3>2, <3>3
  <2>3. thread'[w] = p /\ \A v \in Worker \ {w} : thread'[v] = thread[v]
    BY <2>2, <1>t, OneThread
  <2>4. current'[w] = item /\ \A v \in Worker \ {w} : current'[v] = current[v]
    BY <2>1, <1>t DEF WorkerTypes
  <2>5. /\ \A v \in Worker \ {w} : queue'[v] = queue[v]
        /\ Len(queue[w]) \in Nat \ {0} /\ Len(queue'[w]) = Len(queue[w]) - 1
        /\ item = queue[w][1]
        /\ \A i \in 1 .. Len(queue'[w]) :
             i + 1 \in 1 .. Len(queue[w]) /\ queue'[w][i] = queue[w][i + 1]
        /\ InQueue(w, item)
        /\ \A v \in Worker, t \in Task : InQueue(v, t)' => InQueue(v, t)
    BY <2>0, <2>1, <1>3, <1>t, <1>i, TakeEffect
  <2>6. item \in Task => ~InQueue(w, item)'
    <3>1. ASSUME item \in Task, NEW i \in 1 .. Len(queue'[w]), queue'[w][i] = item PROVE FALSE
      <4>1. queue[w][i + 1] = queue[w][1] /\ i + 1 \in 1 .. Len(queue[w]) /\ 1 \in 1 .. Len(queue[w])
        BY <3>1, <2>5
      <4>2. i + 1 = 1
        BY <4>1, <3>1, <2>5 DEF Placed
      <4> QED
        BY <4>2
    <3> QED
      BY <3>1 DEF InQueue
  <2>7. \A v \in Worker, t \in Task :
          /\ Holds(v, t)' <=> Holds(v, t) \/ (v = w /\ t = item)
          /\ v = w => ~Holds(v, t)
    BY <2>1, <2>2, <2>3, <2>4 DEF Holds
  <2>8. \A v \in Worker, t \in Task : Located(v, t)' => Located(v, t)
    BY <2>5, <2>7 DEF Located
  <2>9. \A v \in Worker, t \in Task : InQueue(v, t)' => ~Holds(v, t)' /\ call'[t] = "new"
    BY <2>1, <2>5, <2>6, <2>7 DEF Placed
  <2>10. \A v \in Worker : \A i, j \in 1 .. Len(queue'[v]) :
           queue'[v][i] = queue'[v][j] /\ queue'[v][i] \in Task => i = j
    <3>1. \A i, j \in 1 .. Len(queue'[w]) :
            queue'[w][i] = queue'[w][j] /\ queue'[w][i] \in Task => i = j
      <4>1. ASSUME NEW i \in 1 .. Len(queue'[w]), NEW j \in 1 .. Len(queue'[w]),
                   queue'[w][i] = queue'[w][j], queue'[w][i] \in Task
            PROVE  i = j
        <5>1. /\ i + 1 \in 1 .. Len(queue[w]) /\ j + 1 \in 1 .. Len(queue[w])
              /\ queue[w][i + 1] = queue[w][j + 1] /\ queue[w][i + 1] \in Task
          BY <4>1, <2>5
        <5>2. i + 1 = j + 1
          BY <5>1 DEF Placed
        <5> QED
          BY <5>2
      <4> QED
        BY <4>1
    <3>2. ASSUME NEW v \in Worker \ {w}
          PROVE  \A i, j \in 1 .. Len(queue'[v]) :
                   queue'[v][i] = queue'[v][j] /\ queue'[v][i] \in Task => i = j
      <4>1. queue'[v] = queue[v]
        BY <2>5
      <4> QED
        BY <4>1 DEF Placed
    <3> QED
      BY <3>1, <3>2
  <2>11. \A v \in Worker :
           /\ thread'[v] \in {"taken", "running", "respond"} => current'[v] \in Task
           /\ thread'[v] = "taken" => call'[current'[v]] = "new"
           /\ thread'[v] = "running" => call'[current'[v]] = "running"
           /\ thread'[v] = "respond" => call'[current'[v]] \in {"ok", "failed"}
    BY <2>1, <2>2, <2>3, <2>4, <2>5 DEF Placed
  <2>12. \A t \in Task : call'[t] = "running" =>
           \E v \in Worker : thread'[v] = "running" /\ current'[v] = t
    BY <2>1, <2>3, <2>4 DEF Placed
  <2> QED
    BY <2>1, <2>8, <2>9, <2>10, <2>11, <2>12, <1>s DEF Placed
<1>4. CASE RunTask(w)
  <2>1. /\ thread[w] = "taken" /\ thread' = [thread EXCEPT ![w] = "running"]
        /\ call' = [call EXCEPT ![current[w]] = "running"] /\ UNCHANGED <<queue, current>>
    BY <1>4 DEF RunTask
  <2>2. thread'[w] = "running" /\ \A v \in Worker \ {w} : thread'[v] = thread[v]
    BY <2>1, <1>t, OneThread
  <2>3. current[w] \in Task /\ call[current[w]] = "new" /\ Holds(w, current[w])
    BY <2>1 DEF Placed, Holds
  <2>4. call'[current[w]] = "running" /\ \A t \in Task \ {current[w]} : call'[t] = call[t]
    BY <2>1, <2>3, <1>t DEF WorkerTypes
  <2>5. \A v \in Worker, t \in Task :
          /\ InQueue(v, t)' <=> InQueue(v, t)
          /\ Holds(v, t)' <=> Holds(v, t)
          /\ Located(v, t)' <=> Located(v, t)
    BY <2>1, <2>2 DEF InQueue, Holds, Located
  <2>6. \A v \in Worker, t \in Task : InQueue(v, t) => t # current[w]
    BY <2>3 DEF Placed, Located
  <2>7. \A v \in Worker \ {w} : thread[v] \in {"taken", "running", "respond"} => current[v] # current[w]
    <3>1. ASSUME NEW v \in Worker \ {w}, thread[v] \in {"taken", "running"}, current[v] = current[w]
          PROVE  FALSE
      <4>1. Located(v, current[w]) /\ Located(w, current[w])
        BY <3>1, <2>3 DEF Located, Holds
      <4> QED
        BY <4>1, <2>3 DEF Placed
    <3>2. ASSUME NEW v \in Worker \ {w}, thread[v] = "respond", current[v] = current[w]
          PROVE  FALSE
      BY <3>2, <2>3 DEF Placed
    <3> QED
      BY <3>1, <3>2
  <2>8. \A v \in Worker :
          /\ thread'[v] \in {"taken", "running", "respond"} => current'[v] \in Task
          /\ thread'[v] = "taken" => call'[current'[v]] = "new"
          /\ thread'[v] = "running" => call'[current'[v]] = "running"
          /\ thread'[v] = "respond" => call'[current'[v]] \in {"ok", "failed"}
    BY <2>1, <2>2, <2>3, <2>4, <2>7 DEF Placed
  <2>9. \A t \in Task : call'[t] = "running" =>
          \E v \in Worker : thread'[v] = "running" /\ current'[v] = t
    BY <2>1, <2>2, <2>3, <2>4 DEF Placed
  <2>10. \A t \in Task : t > started' => call'[t] = "new"
    <3>1. current[w] <= started
      BY <2>3 DEF Placed, Located
    <3> QED
      BY <3>1, <2>3, <2>4, <1>s, <1>t DEF Placed, Task, ParentTypes
  <2> QED
    BY <2>1, <2>4, <2>5, <2>6, <2>8, <2>9, <2>10, <1>s DEF Placed
<1> QED
  BY <1>1, <1>2, <1>3, <1>4 DEF WorkerStep

LEMMA PlacedStep == ASSUME TypeOK, Counts, Booting, Placed, Next PROVE Placed'
BY ParentPlaces, WorkerPlaces DEF Next

----------------------------------------------------------------------------
(* What no step of a worker does: touch another worker, come back from the  *)
(* dead, find an item that was not put, or lose an interrupt.               *)
LEMMA WorkerEffect ==
    ASSUME TypeOK, NEW w \in Worker, WorkerStep(w)
    PROVE  /\ UNCHANGED parentVars
           /\ thread[w] \notin {"unborn", "dead"} /\ thread'[w] \in Threads
           /\ \A v \in Worker \ {w} : /\ thread'[v] = thread[v] /\ current'[v] = current[v]
                                      /\ pending'[v] = pending[v] /\ queue'[v] = queue[v]
           /\ pending'[w] => pending[w]
           /\ pending[w] => \/ pending'[w] \/ thread'[w] = "dead"
                            \/ ("swallow" \in Habits /\ thread'[w] = "respond")
           /\ thread'[w] = "spinning" => InQueue(w, WaitForInterrupt)
           /\ \A v \in Worker, t \in Items : InQueue(v, t)' => InQueue(v, t)
           /\ \A v \in Worker, t \in Task : Located(v, t)' => Located(v, t)
<1>t. ParentTypes /\ WorkerTypes
  BY Types
<1>i. Task \subseteq Items /\ WaitForInterrupt \in Items
  BY DEF Items
<1>1. CASE Get(w) /\ queue[w] # <<>>
  <2>1. PICK p \in {"dead", "spinning", "taken"} :
          /\ thread' = [thread EXCEPT ![w] = p]
          /\ p = "spinning" => Head(queue[w]) = WaitForInterrupt
    BY <1>1 DEF Get
  <2>2. /\ thread[w] = "asleep" /\ queue' = [queue EXCEPT ![w] = Tail(queue[w])]
        /\ current' = [current EXCEPT ![w] = Head(queue[w])]
        /\ UNCHANGED <<parentVars, pending>>
    BY <1>1, <1>t DEF Get, WorkerTypes
  <2>3. thread'[w] = p /\ \A v \in Worker \ {w} : thread'[v] = thread[v]
    BY <2>1, <1>t, OneThread
  <2>4. current'[w] = Head(queue[w]) /\ \A v \in Worker \ {w} : current'[v] = current[v]
    BY <2>2, <1>t DEF WorkerTypes
  <2>5. /\ \A v \in Worker \ {w} : queue'[v] = queue[v]
        /\ InQueue(w, Head(queue[w]))
        /\ \A v \in Worker, t \in Items : InQueue(v, t)' => InQueue(v, t)
    BY <2>2, <1>1, <1>t, TakeEffect
  <2>6. \A v \in Worker, t \in Task : Located(v, t)' => Located(v, t)
    BY <2>3, <2>4, <2>5, <1>i DEF Located, Holds
  <2>7. p = "spinning" => InQueue(w, WaitForInterrupt)
    BY <2>1, <2>5
  <2> QED
    BY <2>1, <2>2, <2>3, <2>4, <2>5, <2>6, <2>7 DEF Threads
<1>2. CASE ~(Get(w) /\ queue[w] # <<>>)
  <2>1. UNCHANGED <<parentVars, queue, current>>
    BY <1>2 DEF WorkerStep, Boot, WaitForItem, Get, RunTask, EndTask, ExitTask, Respond,
       RaiseInThread, SwallowInTask
  <2>2. PICK p \in Threads \ {"unborn", "spinning", "taken"} :
          /\ thread' = [thread EXCEPT ![w] = p]
          /\ thread[w] \notin {"unborn", "dead"}
          /\ p = "running" => thread[w] = "taken"
          /\ \/ UNCHANGED pending
             \/ pending' = [pending EXCEPT ![w] = FALSE] /\ p = "dead"
             \/ pending' = [pending EXCEPT ![w] = FALSE] /\ p = "respond" /\ "swallow" \in Habits
    <3>1. CASE Boot(w) \/ WaitForItem(w) \/ Get(w) \/ Respond(w)
      BY <3>1, <1>2 DEF Boot, WaitForItem, Get, Respond, Threads
    <3>2. CASE RunTask(w) \/ EndTask(w) \/ ExitTask(w)
      BY <3>2 DEF RunTask, EndTask, ExitTask, Threads
    <3>3. CASE RaiseInThread(w)
      BY <3>3 DEF RaiseInThread, Alive, Threads
    <3>4. CASE SwallowInTask(w)
      BY <3>4 DEF SwallowInTask, Threads
    <3> QED
      BY <3>1, <3>2, <3>3, <3>4 DEF WorkerStep
  <2>3. thread'[w] = p /\ \A v \in Worker \ {w} : thread'[v] = thread[v]
    BY <2>2, <1>t, OneThread
  <2>4. /\ \A v \in Worker \ {w} : pending'[v] = pending[v]
        /\ pending'[w] = pending[w] \/ (pending'[w] = FALSE /\ p = "dead")
           \/ (pending'[w] = FALSE /\ p = "respond" /\ "swallow" \in Habits)
    BY <2>2, <1>t DEF WorkerTypes
  <2>5. \A v \in Worker, t \in Items : InQueue(v, t)' => InQueue(v, t)
    BY <2>1 DEF InQueue
  <2>6. \A v \in Worker, t \in Task : Located(v, t)' => Located(v, t)
    BY <2>1, <2>2, <2>3, <2>5, <1>i DEF Located, Holds
  <2> QED
    BY <2>1, <2>2, <2>3, <2>4, <2>5, <2>6
<1> QED
  BY <1>1, <1>2

(* Interrupts. *)
LEMMA ArmedStep == ASSUME TypeOK, Counts, Booting, Armed, Next PROVE Armed'
<1>t. ParentTypes /\ WorkerTypes
  BY Types
<1>s. Concurrency \in Nat \ {0} /\ Worker = 1 .. Concurrency /\ next \in Worker /\ interrupts \in Nat
  BY <1>t, Sizes DEF Worker, ParentTypes
<1>i. WaitForInterrupt \in Items /\ Stop # WaitForInterrupt /\ started + 1 # WaitForInterrupt
  BY <1>t DEF Items, Stop, WaitForInterrupt, ParentTypes
<1>1. CASE SpawnThread
  <2>1. /\ thread' = [thread EXCEPT ![next] = "boot"] /\ parent' \in {"spawn", "boot"}
        /\ UNCHANGED <<pending, queue, interrupts>> /\ parent = "spawn" /\ queue[next] = <<>>
    BY <1>1, <1>s, ForLoop DEF SpawnThread, Booting
  <2>2. thread'[next] = "boot" /\ \A v \in Worker \ {next} : thread'[v] = thread[v]
    BY <2>1, <1>t, <1>s, OneThread
  <2>3. \A v \in Worker : InQueue(v, WaitForInterrupt)' <=> InQueue(v, WaitForInterrupt)
    BY <2>1 DEF InQueue
  <2>4. ~InQueue(next, WaitForInterrupt)
    BY <2>1 DEF InQueue
  <2> QED
    BY <2>1, <2>2, <2>3, <2>4 DEF Armed
<1>2. CASE SetAsyncExc
  <2>1. /\ parent = "setexc" /\ UNCHANGED <<thread, queue, interrupts>>
        /\ pending' = [pending EXCEPT ![next] = thread[next] # "dead"]
        /\ \/ parent' = "wake" /\ next = Concurrency
           \/ parent' = "setexc" /\ next' = next + 1
    BY <1>2, ForLoop DEF SetAsyncExc
  <2>2. pending'[next] = (thread[next] # "dead") /\ \A v \in Worker \ {next} : pending'[v] = pending[v]
    BY <2>1, <1>t, <1>s DEF WorkerTypes
  <2>3. \A v \in Worker : InQueue(v, WaitForInterrupt)' <=> InQueue(v, WaitForInterrupt)
    BY <2>1 DEF InQueue
  <2>4. interrupts > 0
    BY <2>1 DEF Counts, InHandler
  <2>5. \A v \in Worker : v = next => pending'[v] \/ thread'[v] = "dead"
    BY <2>1, <2>2
  <2>6. \A v \in Worker \ {next} : parent' = "wake" \/ v < next' => v < next
    BY <2>1, <1>s
  <2> QED
    BY <2>1, <2>2, <2>3, <2>4, <2>5, <2>6 DEF Armed
<1>3. CASE PutWait \/ PutWaitSignal \/ AwaitInterruptedThread
  <2>1. parent \in {"wake", "waking", "reap"} /\ UNCHANGED <<thread, pending, interrupts>>
    BY <1>3 DEF PutWait, PutWaitSignal, AwaitInterruptedThread
  <2> QED
    BY <2>1 DEF Armed
<1>4. CASE StartTask \/ PutStop
  <2>1. PICK v \in Worker, x \in Items : PutAppend(v, x) /\ x # WaitForInterrupt
    <3>1. CASE StartTask
      <4>1. started + 1 \in Items
        BY <3>1, <1>t DEF StartTask, MayStart, ParentTypes, Items, Task
      <4> QED
        BY <3>1, <4>1, <1>i, LastAvailable DEF StartTask
    <3>2. CASE PutStop
      BY <3>2, <1>i, <1>s DEF PutStop, Items
    <3> QED
      BY <1>4, <3>1, <3>2
  <2>2. \A u \in Worker : InQueue(u, WaitForInterrupt)' <=> InQueue(u, WaitForInterrupt)
    BY <2>1, <1>t, <1>i, PutEffect
  <2>3. parent' \in {"starting", "stopping"} /\ UNCHANGED <<thread, pending, interrupts>>
    BY <1>4 DEF StartTask, PutStop
  <2> QED
    BY <2>2, <2>3 DEF Armed
<1>5. CASE \/ AwaitBootstrap \/ StartTaskSignal \/ AwaitAnyTask \/ AllTasksDone
           \/ PutStopSignal \/ AwaitStoppedThread \/ Answer \/ Interrupt
  <2>1. UNCHANGED <<thread, pending, queue>>
    BY <1>5 DEF AwaitBootstrap, StartTaskSignal, AwaitAnyTask, AllTasksDone, PutStopSignal,
       AwaitStoppedThread, Answer, Interrupt
  <2>2. /\ parent' \notin {"wake", "waking", "reap"}
        /\ parent' = "setexc" => next' = 1
        /\ interrupts' \in {interrupts, interrupts + 1}
    <3>1. CASE AwaitBootstrap
      BY <3>1, ForLoop DEF AwaitBootstrap
    <3>2. CASE StartTaskSignal \/ AwaitAnyTask \/ AllTasksDone \/ Answer
      BY <3>2 DEF StartTaskSignal, AwaitAnyTask, AllTasksDone, Answer
    <3>3. CASE PutStopSignal
      BY <3>3, ForLoop DEF PutStopSignal
    <3>4. CASE AwaitStoppedThread
      BY <3>4, ForLoop DEF AwaitStoppedThread
    <3>5. CASE Interrupt
      BY <3>5 DEF Interrupt
    <3> QED
      BY <1>5, <3>1, <3>2, <3>3, <3>4, <3>5
  <2>3. \A v \in Worker : InQueue(v, WaitForInterrupt)' <=> InQueue(v, WaitForInterrupt)
    BY <2>1 DEF InQueue
  <2>4. \A v \in Worker : ~(parent' = "setexc" /\ v < next')
    BY <2>2, <1>s
  <2>5. \A v \in Worker : pending'[v] => interrupts' > 0
    BY <2>1, <2>2, <1>s DEF Armed
  <2> QED
    BY <2>1, <2>2, <2>3, <2>4, <2>5 DEF Armed
<1>6. ASSUME NEW w \in Worker, WorkerStep(w) PROVE Armed'
  <2>1. UNCHANGED <<parent, next, interrupts>>
    BY <1>6, WorkerEffect DEF parentVars
  <2>2. \A v \in Worker : pending'[v] => interrupts' > 0
    BY <2>1, <1>6, WorkerEffect DEF Armed
  <2>3. ASSUME "swallow" \notin Habits, NEW v \in Worker,
               \/ thread'[v] = "spinning" \/ InQueue(v, WaitForInterrupt)'
               \/ parent \in {"wake", "waking", "reap"} \/ (parent = "setexc" /\ v < next)
        PROVE  pending'[v] \/ thread'[v] = "dead"
    <3>1. pending[v] \/ thread[v] = "dead"
      BY <2>3, <1>6, <1>i, WorkerEffect DEF Armed
    <3> QED
      BY <2>3, <3>1, <1>6, WorkerEffect
  <2> QED
    BY <2>1, <2>2, <2>3 DEF Armed
<1> QED
  BY <1>1, <1>2, <1>3, <1>4, <1>5, <1>6 DEF Next, ParentStep

(* The workers that were waited for. *)
LEMMA JoinedStep == ASSUME TypeOK, Counts, Joined, Next PROVE Joined'
<1>t. ParentTypes /\ WorkerTypes
  BY Types
<1>s. Concurrency \in Nat \ {0} /\ Worker = 1 .. Concurrency /\ next \in Worker /\ interrupts \in Nat
  BY <1>t, Sizes DEF Worker, ParentTypes
<1>1. CASE SpawnThread
  BY <1>1, ForLoop DEF SpawnThread, Joined, AtEnd
<1>2. CASE AwaitInterruptedThread
  <2>1. /\ parent = "reap" /\ thread[next] = "dead" /\ UNCHANGED <<thread, interrupts>>
        /\ \/ parent' = "stop" /\ next = Concurrency /\ next' = 1
           \/ parent' = "reap" /\ next < Concurrency /\ next' = next + 1
    BY <1>2, ForLoop DEF AwaitInterruptedThread
  <2> QED
    BY <2>1, <1>s DEF Joined, AtEnd
<1>3. CASE AwaitStoppedThread
  <2>1. /\ parent = "join" /\ thread[next] = "dead" /\ UNCHANGED <<thread, interrupts>>
        /\ \/ parent' = "answer" /\ next = Concurrency /\ next' = 1
           \/ parent' = "join" /\ next < Concurrency /\ next' = next + 1
    BY <1>3, ForLoop DEF AwaitStoppedThread
  <2> QED
    BY <2>1, <1>s DEF Joined, AtEnd
<1>4. CASE PutWaitSignal
  <2>1. /\ \/ parent' = "reap" /\ next' = 1
           \/ parent' = "wake"
        /\ UNCHANGED <<thread, interrupts>>
    BY <1>4, ForLoop DEF PutWaitSignal
  <2> QED
    BY <2>1, <1>s DEF Joined, AtEnd
<1>5. CASE PutStopSignal
  <2>1. /\ \/ parent' = "join" /\ next' = 1
           \/ parent' = "stop"
        /\ parent = "stopping" /\ UNCHANGED <<thread, interrupts>>
    BY <1>5, ForLoop DEF PutStopSignal
  <2> QED
    BY <2>1, <1>s DEF Joined, AtEnd
<1>6. CASE AwaitBootstrap
  BY <1>6, ForLoop DEF AwaitBootstrap, Joined, AtEnd
<1>7. CASE SetAsyncExc
  BY <1>7, ForLoop DEF SetAsyncExc, Joined, AtEnd
<1>8. CASE StartTask \/ StartTaskSignal \/ AwaitAnyTask \/ PutWait \/ PutStop \/ Answer
  BY <1>8 DEF StartTask, StartTaskSignal, AwaitAnyTask, PutWait, PutStop, Answer, Joined, AtEnd
<1>9. CASE AllTasksDone
  BY <1>9 DEF AllTasksDone, Joined, AtEnd, Counts
<1>10. CASE Interrupt
  <2>1. /\ parent' \in {"setexc", "stop", "done"} /\ interrupts' = interrupts + 1
        /\ parent' = "stop" => parent \in InHandler
    BY <1>10 DEF Interrupt
  <2> QED
    BY <2>1, <1>s DEF Joined, AtEnd, Counts
<1>11. ASSUME NEW w \in Worker, WorkerStep(w) PROVE Joined'
  <2>1. UNCHANGED <<parent, next, interrupts>> /\ \A v \in Worker : thread[v] = "dead" => thread'[v] = "dead"
    BY <1>11, WorkerEffect DEF parentVars
  <2> QED
    BY <2>1 DEF Joined
<1> QED
  BY <1>1, <1>2, <1>3, <1>4, <1>5, <1>6, <1>7, <1>8, <1>9, <1>10, <1>11 DEF Next, ParentStep

(* The answer. *)
LEMMA AnsweredStep ==
    ASSUME TypeOK, Counts, Placed, Joined, Calm, Answered, Next
    PROVE  Answered'
<1>t. ParentTypes /\ WorkerTypes
  BY Types
<1> SUFFICES ASSUME MaxInterrupts <= 2, outcome' # "none"
             PROVE  \A w \in Worker : thread'[w] = "dead" \/ \A t \in Task : ~Located(w, t)'
  BY DEF Answered
<1>1. CASE Answer
  BY <1>1 DEF Answer, Joined
<1>2. CASE Interrupt
  <2>1. /\ UNCHANGED <<thread, queue, current>> /\ interrupts < 2 /\ interrupts \in Nat
        /\ parent \in {"spawn", "boot"} \cup AtEnd
    BY <1>2, <1>t DEF Interrupt, ParentTypes, Parents, InLoop, Counts, AtEnd
  <2>2. \A w \in Worker, t \in Task : Located(w, t)' <=> Located(w, t)
    BY <2>1 DEF Located, InQueue, Holds
  <2>3. CASE parent \in {"spawn", "boot"}
    BY <2>2, <2>3 DEF Counts, Placed, Task
  <2>4. CASE parent \in AtEnd /\ interrupts = 0
    BY <2>2, <2>4 DEF Calm, Settled
  <2>5. CASE parent \in AtEnd /\ interrupts = 1
    BY <2>1, <2>5 DEF Joined
  <2> QED
    BY <2>1, <2>3, <2>4, <2>5
<1>3. CASE ParentStep /\ ~Answer
  <2>1. parent # "done" /\ UNCHANGED outcome
    BY <1>3 DEF ParentStep, SpawnThread, AwaitBootstrap, StartTask, StartTaskSignal,
       AwaitAnyTask, AllTasksDone, SetAsyncExc, PutWait, PutWaitSignal, AwaitInterruptedThread,
       PutStop, PutStopSignal, AwaitStoppedThread
  <2> QED
    BY <2>1 DEF Counts
<1>4. ASSUME NEW w \in Worker, WorkerStep(w)
      PROVE  \A v \in Worker : thread'[v] = "dead" \/ \A t \in Task : ~Located(v, t)'
  <2>1. outcome # "none" /\ \A v \in Worker : thread[v] = "dead" => thread'[v] = "dead"
    BY <1>4, WorkerEffect DEF parentVars
  <2>2. \A v \in Worker, t \in Task : Located(v, t)' => Located(v, t)
    BY <1>4, WorkerEffect
  <2> QED
    BY <2>1, <2>2 DEF Answered
<1> QED
  BY <1>1, <1>2, <1>3, <1>4 DEF Next

----------------------------------------------------------------------------
(* As long as there was no interrupt. *)

(* A worker's step changes the call it is making, and no other. *)
LEMMA CallEffect ==
    ASSUME TypeOK, Placed, NEW w \in Worker, WorkerStep(w)
    PROVE  \A t \in Task : call'[t] = call[t] \/ (Holds(w, t) /\ call[t] \in {"new", "running"})
<1>t. ParentTypes /\ WorkerTypes
  BY Types
<1>1. CASE UNCHANGED call
  BY <1>1
<1>2. CASE ~UNCHANGED call
  <2>1. /\ thread[w] \in {"taken", "running"}
        /\ \E r \in Fates : call' = [call EXCEPT ![current[w]] = r]
    BY <1>2 DEF WorkerStep, Boot, WaitForItem, Get, RunTask, EndTask, ExitTask, Respond,
       RaiseInThread, SwallowInTask, Fates
  <2>2. current[w] \in Task /\ call[current[w]] \in {"new", "running"}
    BY <2>1 DEF Placed
  <2> QED
    BY <2>1, <2>2, <1>t DEF Holds, WorkerTypes
<1> QED
  BY <1>1, <1>2

LEMMA NotedKept ==
    ASSUME Noted, ParentTypes, UNCHANGED errors,
           \A t \in Task : call[t] = "failed" => call'[t] = "failed"
    PROVE  Noted'
<1>1. Errors \subseteq Task /\ Errors' = Errors
  BY DEF Errors, ParentTypes
<1> QED
  BY <1>1 DEF Noted

LEMMA SettledKept ==
    ASSUME Settled, UNCHANGED errors, \A t \in Task : call'[t] = call[t],
           \A w \in Worker, t \in Task : Located(w, t)' => Located(w, t)
    PROVE  Settled'
<1>1. Errors' = Errors
  BY DEF Errors
<1> QED
  BY <1>1 DEF Settled

LEMMA CollectedKept ==
    ASSUME Collected, ParentTypes, UNCHANGED <<errors, started>>,
           \A t \in Task : Out(t)' <=> Out(t),
           \A t \in Task : ~Out(t) => call'[t] = call[t]
    PROVE  Collected'
<1>1. Errors \subseteq Task /\ Errors' = Errors
  BY DEF Errors, ParentTypes
<1> QED
  BY <1>1 DEF Collected

(* A worker goes to sleep or wakes up with nothing to do. *)
LEMMA QuietHands ==
    ASSUME TypeOK, Hands, NEW w \in Worker, NEW p \in {"ready", "asleep"},
           thread[w] \in {"ready", "asleep"}, thread' = [thread EXCEPT ![w] = p],
           UNCHANGED <<available, responses, queue, current, call>>
    PROVE  Hands' /\ \A t \in Task : Out(t)' <=> Out(t)
<1>t. ParentTypes /\ WorkerTypes
  BY Types
<1>1. thread'[w] = p /\ \A v \in Worker \ {w} : thread'[v] = thread[v]
  BY <1>t, OneThread
<1>2. \A v \in Worker : /\ Free(v)' <=> Free(v)
                        /\ \A t \in Task : Located(v, t)' <=> Located(v, t)
                        /\ \A x \in {"taken", "running", "respond", "dead"} :
                             thread'[v] = x <=> thread[v] = x
  BY <1>1 DEF Free, Located, InQueue, Holds
<1>3. \A t : /\ Responding(t)' <=> Responding(t)
             /\ Responded(t)' <=> Responded(t)
             /\ Exited(t)' <=> Exited(t)
  BY <1>2 DEF Responding, Responded, Exited
<1>4. Available' = Available /\ Available \subseteq Worker
  BY <1>t DEF Available, ParentTypes
<1>5. \A i \in 1 .. Len(responses) : responses[i][1] \in Worker
  BY <1>t, EachResponse
<1>6. Hands'
  BY <1>2, <1>3, <1>4, <1>5 DEF Hands
<1> QED
  BY <1>2, <1>3, <1>6 DEF Out

(* A worker takes the one item it has; if that is a task, it has it in hand. *)
LEMMA TakingHands ==
    ASSUME TypeOK, Placed, Hands, NEW w \in Worker, Get(w), queue[w] # <<>>
    PROVE  Hands' /\ \A t \in Task : Out(t)' <=> Out(t)
<1>t. ParentTypes /\ WorkerTypes
  BY Types
<1>i. Task \subseteq Items /\ Stop \notin Task /\ WaitForInterrupt \notin Task
  BY DEF Items, Task, Stop, WaitForInterrupt
<1>1. PICK p \in {"dead", "spinning", "taken"} :
        /\ thread' = [thread EXCEPT ![w] = p]
        /\ p = "taken" <=> Head(queue[w]) \notin {Stop, WaitForInterrupt}
  BY DEF Get
<1>2. /\ thread[w] = "asleep" /\ queue' = [queue EXCEPT ![w] = Tail(queue[w])]
      /\ current' = [current EXCEPT ![w] = Head(queue[w])]
      /\ UNCHANGED <<available, responses, call>>
  BY <1>t DEF Get, WorkerTypes, parentVars
<1>3. thread'[w] = p /\ \A v \in Worker \ {w} : thread'[v] = thread[v]
  BY <1>1, <1>t, OneThread
<1>4. current'[w] = Head(queue[w]) /\ \A v \in Worker \ {w} : current'[v] = current[v]
  BY <1>2, <1>t DEF WorkerTypes
<1>5. /\ \A v \in Worker \ {w} : queue'[v] = queue[v]
      /\ Len(queue'[w]) = Len(queue[w]) - 1 /\ Len(queue[w]) = 1
      /\ Head(queue[w]) = queue[w][1] /\ Head(queue[w]) \in Items
  <2>1. Len(queue[w]) <= 1
    BY DEF Hands
  <2>2. /\ \A v \in Worker \ {w} : queue'[v] = queue[v]
        /\ Len(queue[w]) \in Nat \ {0} /\ Len(queue'[w]) = Len(queue[w]) - 1
        /\ Head(queue[w]) = queue[w][1] /\ Head(queue[w]) \in Items
    BY <1>2, <1>t, TakeEffect, Zenon
  <2>3. PICK n \in Nat \ {0} : n = Len(queue[w])
    BY <2>2, Zenon
  <2>4. n <= 1
    BY <2>1, <2>3, Zenon
  <2>5. n = 1
    BY <2>4
  <2>6. Len(queue[w]) = 1
    BY <2>3, <2>5, Zenon
  <2> QED
    BY <2>2, <2>6, Zenon
<1>6. queue'[w] = <<>>
  <2>1. queue \in [Worker -> Seq(Items)] /\ queue[w] \in Seq(Items)
    BY <1>t DEF WorkerTypes
  <2>2. queue'[w] = Tail(queue[w])
    BY <2>1, <1>2
  <2>3. queue'[w] \in Seq(Items) /\ Len(queue'[w]) = 0
    BY <2>1, <2>2, <1>5
  <2> QED
    BY <2>3
<1>7. \A v \in Worker : /\ Free(v) => v # w /\ Free(v)'
                        /\ thread'[v] = "respond" <=> thread[v] = "respond"
                        /\ thread[v] = "respond" => current'[v] = current[v]
  BY <1>2, <1>3, <1>4, <1>5 DEF Free
<1>8. ASSUME NEW v \in Worker, NEW t \in Task
      PROVE  Located(v, t)' <=> Located(v, t)
  <2>1. CASE v = w
    <3>1. Located(w, t) <=> t = queue[w][1]
      BY <1>2, <1>5 DEF Located, InQueue, Holds
    <3>2. Located(w, t)' <=> p = "taken" /\ t = queue[w][1]
      BY <1>3, <1>4, <1>5 DEF Located, InQueue, Holds
    <3> QED
      BY <2>1, <3>1, <3>2, <1>1, <1>5, <1>i
  <2>2. CASE v # w
    BY <2>2, <1>3, <1>4, <1>5 DEF Located, InQueue, Holds
  <2> QED
    BY <2>1, <2>2
<1>9. ASSUME NEW t \in Task
      PROVE  /\ Responding(t)' <=> Responding(t)
             /\ Responded(t)' <=> Responded(t)
             /\ Exited(t)' <=> Exited(t)
  <2>1. (Responding(t)' <=> Responding(t)) /\ (Responded(t)' <=> Responded(t))
    BY <1>2, <1>7 DEF Responding, Responded
  <2>2. Exited(t) => Exited(t)'
    BY <1>2, <1>3, <1>4 DEF Exited
  <2>3. p = "dead" => current'[w] \notin Task
    BY <1>1, <1>4, <1>i
  <2>4. Exited(t)' => Exited(t)
    BY <1>2, <1>3, <1>4, <2>3 DEF Exited
  <2> QED
    BY <2>1, <2>2, <2>4
<1>10. Available' = Available /\ Available \subseteq Worker
  BY <1>2, <1>t DEF Available, ParentTypes
<1>11. \A i \in 1 .. Len(responses) : responses[i][1] \in Worker
  BY <1>t, EachResponse
<1>12. \A v \in Worker : Len(queue'[v]) <= 1
  BY <1>5 DEF Hands
<1>13. \A v \in Worker : thread'[v] \in {"taken", "running", "respond", "dead"} => queue'[v] = <<>>
  BY <1>3, <1>5, <1>6 DEF Hands
<1>14. \A v \in Available : Free(v)'
  BY <1>7, <1>10 DEF Hands
<1>15. \A i \in 1 .. Len(responses) :
         /\ responses[i][1] \notin Available' /\ Free(responses[i][1])'
         /\ responses[i][2] \in Task /\ ~Responding(responses[i][2])'
  <2>1. ASSUME NEW i \in 1 .. Len(responses)
        PROVE  /\ responses[i][1] \notin Available' /\ Free(responses[i][1])'
               /\ responses[i][2] \in Task /\ ~Responding(responses[i][2])'
    <3>1. PICK v \in Worker, t \in Task :
            /\ v = responses[i][1] /\ t = responses[i][2]
            /\ v \notin Available /\ Free(v) /\ ~Responding(t)
      BY <1>11 DEF Hands
    <3>2. v \notin Available' /\ Free(v)' /\ ~Responding(t)'
      BY <3>1, <1>7, <1>9, <1>10
    <3>3. v = responses'[i][1] /\ t = responses'[i][2]
      BY <3>1, <1>2
    <3> QED
      BY <3>1, <3>2, <3>3 DEF Free, Responding
  <2> QED
    BY <2>1
<1>16. Hands'
  BY <1>2, <1>7, <1>10, <1>12, <1>13, <1>14, <1>15 DEF Hands
<1> QED
  BY <1>8, <1>9, <1>16 DEF Out

(* A worker makes a call, the target returns or raises, or it exits. *)
LEMMA CallingHands ==
    ASSUME TypeOK, Placed, Hands, NEW w \in Worker, RunTask(w) \/ EndTask(w) \/ ExitTask(w)
    PROVE  Hands' /\ \A t \in Task : Out(t)' <=> Out(t)
<1>t. ParentTypes /\ WorkerTypes
  BY Types
<1>1. PICK p \in {"running", "respond", "dead"}, r \in {"running", "ok", "failed", "exited"} :
        /\ thread' = [thread EXCEPT ![w] = p] /\ call' = [call EXCEPT ![current[w]] = r]
        /\ p = "respond" => r \in {"ok", "failed"}
        /\ p = "dead" <=> r = "exited"
  BY DEF RunTask, EndTask, ExitTask
<1>2. /\ thread[w] \in {"taken", "running"}
      /\ UNCHANGED <<available, responses, queue, current>>
  BY DEF RunTask, EndTask, ExitTask, parentVars
<1>3. current[w] \in Task /\ call[current[w]] \in {"new", "running"} /\ queue[w] = <<>>
  BY <1>2 DEF Placed, Hands
<1>4. thread'[w] = p /\ \A v \in Worker \ {w} : thread'[v] = thread[v]
  BY <1>1, <1>t, OneThread
<1>5. call'[current[w]] = r /\ \A t \in Task \ {current[w]} : call'[t] = call[t]
  BY <1>1, <1>3, <1>t DEF WorkerTypes
<1>6. \A v \in Worker : /\ Free(v) => v # w /\ Free(v)'
                        /\ thread[v] = "respond" => v # w /\ current[v] # current[w]
  BY <1>2, <1>3, <1>4 DEF Free, Placed
<1>7. \A v \in Worker \ {w}, t \in Task : Located(v, t)' <=> Located(v, t)
  BY <1>2, <1>4 DEF Located, InQueue, Holds
<1>8. \A t \in Task : /\ Located(w, t) <=> t = current[w]
                      /\ Located(w, t)' <=> t = current[w] /\ p = "running"
  BY <1>2, <1>3, <1>4 DEF Located, InQueue, Holds
<1>9. ASSUME NEW t \in Task
      PROVE  /\ Responding(t)' <=> Responding(t) \/ (t = current[w] /\ p = "respond")
             /\ Responded(t)' <=> Responded(t)
             /\ Exited(t)' <=> Exited(t) \/ (t = current[w] /\ p = "dead")
  <2>1. Responded(t)' <=> Responded(t)
    BY <1>2 DEF Responded
  <2>2. Responding(t)' <=> Responding(t) \/ (t = current[w] /\ p = "respond")
    BY <1>2, <1>4, <1>6 DEF Responding
  <2>3. Exited(t) => Exited(t)'
    <3>1. call[t] = "exited" => call'[t] = "exited"
      BY <1>3, <1>5
    <3> QED
      BY <3>1, <1>2, <1>4 DEF Exited
  <2>4. t = current[w] /\ p = "dead" => Exited(t)'
    BY <1>1, <1>2, <1>4, <1>5 DEF Exited
  <2>5. ASSUME Exited(t)' PROVE Exited(t) \/ (t = current[w] /\ p = "dead")
    <3>1. PICK v \in Worker : thread'[v] = "dead" /\ current[v] = t /\ call'[t] = "exited"
      BY <2>5, <1>2 DEF Exited
    <3>2. CASE v = w
      BY <3>1, <3>2, <1>4
    <3>3. CASE v # w
      <4>1. thread[v] = "dead"
        BY <3>1, <3>3, <1>4
      <4>2. CASE t = current[w]
        <5>1. r = "exited"
          BY <3>1, <4>2, <1>5
        <5>2. p = "dead"
          BY <5>1, <1>1
        <5> QED
          BY <4>2, <5>2
      <4>3. CASE t # current[w]
        BY <3>1, <4>1, <4>3, <1>5 DEF Exited
      <4> QED
        BY <4>2, <4>3
    <3> QED
      BY <3>2, <3>3
  <2> QED
    BY <2>1, <2>2, <2>3, <2>4, <2>5
<1>10. Available' = Available /\ Available \subseteq Worker
  BY <1>2, <1>t DEF Available, ParentTypes
<1>11. \A i \in 1 .. Len(responses) : responses[i][1] \in Worker
  BY <1>t, EachResponse
<1>12. \A i \in 1 .. Len(responses) :
         /\ responses[i][2] # current[w] /\ responses[i][2] \in Task
         /\ call'[responses[i][2]] \in {"ok", "failed"}
         /\ ~Responding(responses[i][2])'
  <2> SUFFICES ASSUME NEW i \in 1 .. Len(responses)
               PROVE  /\ responses[i][2] # current[w] /\ responses[i][2] \in Task
                      /\ call'[responses[i][2]] \in {"ok", "failed"}
                      /\ ~Responding(responses[i][2])'
    OBVIOUS
  <2>1. PICK t \in Task : /\ t = responses[i][2] /\ call[t] \in {"ok", "failed"}
                          /\ ~Responding(t)
    BY DEF Hands
  <2>2. t # current[w]
    BY <2>1, <1>3
  <2>3. ~Responding(t)'
    BY <2>1, <2>2, <1>9
  <2>4. t = responses'[i][2] /\ call'[t] \in {"ok", "failed"}
    BY <2>1, <2>2, <1>2, <1>5
  <2> QED
    BY <2>1, <2>2, <2>3, <2>4 DEF Responding
<1>13. \A v \in Worker : thread'[v] \in {"taken", "running", "respond", "dead"} => queue'[v] = <<>>
  BY <1>2, <1>3, <1>4 DEF Hands
<1>14. \A u, v \in Worker : thread'[u] = "respond" /\ thread'[v] = "respond"
                            /\ current'[u] = current'[v] => u = v
  BY <1>2, <1>4, <1>6 DEF Hands
<1>15. Hands'
  BY <1>2, <1>6, <1>10, <1>11, <1>12, <1>13, <1>14 DEF Hands, Responding
<1> QED
  BY <1>1, <1>7, <1>8, <1>9, <1>15 DEF Out

(* A worker hands its response to the parent, and is free again. *)
LEMMA RespondingHands ==
    ASSUME TypeOK, Placed, Hands, NEW w \in Worker, Respond(w)
    PROVE  Hands' /\ \A t \in Task : Out(t)' <=> Out(t)
<1>t. ParentTypes /\ WorkerTypes
  BY Types
<1>1. /\ thread[w] = "respond" /\ thread' = [thread EXCEPT ![w] = "ready"]
      /\ responses' = Append(responses, <<w, current[w]>>)
      /\ UNCHANGED <<available, queue, current, call>>
  BY DEF Respond, parentVars
<1>2. current[w] \in Task /\ call[current[w]] \in {"ok", "failed"} /\ queue[w] = <<>>
  BY <1>1 DEF Placed, Hands
<1>3. thread'[w] = "ready" /\ \A v \in Worker \ {w} : thread'[v] = thread[v]
  BY <1>1, <1>t, OneThread
<1>4. PICK n \in Nat :
        /\ n = Len(responses) /\ Len(responses') = n + 1
        /\ responses'[n + 1] = <<w, current[w]>>
        /\ \A i \in 1 .. n : responses'[i] = responses[i]
  <2>1. responses \in Seq(Worker \X (Task \cup {Booted})) /\ Len(responses) \in Nat
    BY <1>t DEF WorkerTypes
  <2> QED
    BY <2>1, <1>1
<1>5. \A v \in Worker : /\ Free(v) => v # w /\ Free(v)'
                        /\ thread'[v] = "respond" <=> thread[v] = "respond" /\ v # w
  BY <1>1, <1>3 DEF Free
<1>6. Free(w)'
  BY <1>1, <1>2, <1>3 DEF Free
<1>7. \A v \in Worker, t \in Task : Located(v, t)' <=> Located(v, t)
  BY <1>1, <1>3 DEF Located, InQueue, Holds
<1>8. ASSUME NEW t \in Task
      PROVE  /\ Responding(t)' <=> Responding(t) /\ t # current[w]
             /\ Responded(t)' <=> Responded(t) \/ t = current[w]
             /\ Exited(t)' <=> Exited(t)
  <2>1. Exited(t)' <=> Exited(t)
    BY <1>1, <1>3 DEF Exited
  <2>2. Responding(t)' <=> Responding(t) /\ t # current[w]
    BY <1>1, <1>5 DEF Responding, Hands
  <2>3. Responded(t)' => Responded(t) \/ t = current[w]
    BY <1>4 DEF Responded
  <2>4. Responded(t) => Responded(t)'
    BY <1>4 DEF Responded
  <2>5. t = current[w] => Responded(t)'
    <3>1. n + 1 \in 1 .. Len(responses') /\ responses'[n + 1][2] = current[w]
      BY <1>4
    <3> QED
      BY <3>1 DEF Responded
  <2> QED
    BY <2>1, <2>2, <2>3, <2>4, <2>5
<1>9. Responding(current[w])
  BY <1>1 DEF Responding
<1>10. Available' = Available /\ Available \subseteq Worker
  BY <1>1, <1>t DEF Available, ParentTypes
<1>11. w \notin Available
  BY <1>5, <1>10 DEF Hands
<1>12. \A i \in 1 .. n :
         /\ responses[i][1] \in Worker \ {w} /\ responses[i][2] \in Task \ {current[w]}
         /\ responses[i][1] \notin Available
         /\ call'[responses[i][2]] \in {"ok", "failed"}
  <2>1. \A i \in 1 .. n : responses[i][1] \in Worker
    BY <1>4, <1>t, EachResponse
  <2>2. \A i \in 1 .. n : /\ responses[i][1] \notin Available /\ Free(responses[i][1])
                          /\ responses[i][2] \in Task /\ call[responses[i][2]] \in {"ok", "failed"}
                          /\ ~Responding(responses[i][2])
    BY <1>4 DEF Hands
  <2>3. \A i \in 1 .. n : responses[i][1] # w
    BY <2>1, <2>2, <1>5
  <2>4. \A i \in 1 .. n : responses[i][2] # current[w]
    BY <2>2, <1>9
  <2> QED
    BY <2>1, <2>2, <2>3, <2>4, <1>1
<1>13. ASSUME NEW i \in 1 .. n + 1
       PROVE  /\ responses'[i][1] \notin Available /\ Free(responses[i][1])'
              /\ responses'[i][2] \in Task /\ call'[responses'[i][2]] \in {"ok", "failed"}
              /\ ~Responding(responses[i][2])'
  <2>1. PICK v \in Worker, t \in Task :
          /\ v = responses'[i][1] /\ t = responses'[i][2]
          /\ v \notin Available /\ call'[t] \in {"ok", "failed"} /\ Free(v)'
          /\ t = current[w] \/ ~Responding(t)
    <3>1. CASE i = n + 1
      <4>1. responses'[i][1] = w /\ responses'[i][2] = current[w]
        BY <3>1, <1>4
      <4> QED
        BY <4>1, <1>1, <1>2, <1>6, <1>11
    <3>2. CASE i \in 1 .. n
      <4>1. responses'[i] = responses[i]
        BY <3>2, <1>4
      <4>2. PICK v \in Worker, t \in Task : v = responses[i][1] /\ t = responses[i][2]
        BY <3>2, <1>12
      <4>3. v \notin Available /\ call'[t] \in {"ok", "failed"} /\ ~Responding(t) /\ Free(v)
        BY <3>2, <4>2, <1>12, <1>4, <1>1 DEF Hands
      <4> QED
        BY <4>1, <4>2, <4>3, <1>5
    <3> QED
      BY <3>1, <3>2
  <2>2. ~Responding(t)'
    BY <2>1, <1>8
  <2> QED
    BY <2>1, <2>2 DEF Responding, Free
<1>14. \A i, j \in 1 .. n + 1 :
         responses'[i][1] = responses'[j][1] \/ responses'[i][2] = responses'[j][2] => i = j
  <2>1. \A i, j \in 1 .. n :
          responses[i][1] = responses[j][1] \/ responses[i][2] = responses[j][2] => i = j
    BY <1>4 DEF Hands
  <2>2. \A i \in 1 .. n : /\ responses'[i][1] = responses[i][1] /\ responses'[i][1] # w
                          /\ responses'[i][2] = responses[i][2] /\ responses'[i][2] # current[w]
    BY <1>4, <1>12
  <2>3. responses'[n + 1][1] = w /\ responses'[n + 1][2] = current[w]
    BY <1>4
  <2>4. \A i \in 1 .. n + 1 : i \in 1 .. n \/ i = n + 1
    OBVIOUS
  <2> QED
    BY <2>1, <2>2, <2>3, <2>4
<1>15. \A v \in Worker : thread'[v] \in {"taken", "running", "respond", "dead"} => queue'[v] = <<>>
  BY <1>1, <1>3 DEF Hands
<1>16. \A u, v \in Worker : thread'[u] = "respond" /\ thread'[v] = "respond"
                            /\ current'[u] = current'[v] => u = v
  BY <1>1, <1>5 DEF Hands
<1>17. \A v \in Available : Free(v)'
  BY <1>5, <1>10 DEF Hands
<1>18. Hands'
  BY <1>1, <1>4, <1>10, <1>13, <1>14, <1>15, <1>16, <1>17 DEF Hands, Responding, Free
<1> QED
  BY <1>2, <1>7, <1>8, <1>9, <1>18 DEF Out

(* Nothing else a worker does happens in the loop without an interrupt. *)
LEMMA WorkerHands ==
    ASSUME TypeOK, Booting, Placed, Armed, Hands, interrupts = 0, parent \in {"loop", "starting"},
           NEW w \in Worker, WorkerStep(w)
    PROVE  Hands' /\ \A t \in Task : Out(t)' <=> Out(t)
<1>1. ~pending[w] /\ thread[w] # "boot"
  BY DEF Armed, Booting
<1>2. CASE WaitForItem(w)
  BY <1>2, QuietHands DEF WaitForItem, parentVars
<1>3. CASE Get(w) /\ queue[w] = <<>>
  BY <1>3, QuietHands DEF Get, parentVars
<1>4. CASE Get(w) /\ queue[w] # <<>>
  BY <1>4, TakingHands
<1>5. CASE RunTask(w) \/ EndTask(w) \/ ExitTask(w)
  BY <1>5, CallingHands
<1>6. CASE Respond(w)
  BY <1>6, RespondingHands
<1> QED
  BY <1>1, <1>2, <1>3, <1>4, <1>5, <1>6 DEF WorkerStep, Boot, RaiseInThread, SwallowInTask

(* A task is put into the queue of the last available worker. *)
LEMMA StartHands ==
    ASSUME TypeOK, Counts, Hands, Collected, StartTask
    PROVE  Hands' /\ Collected'
<1>t. ParentTypes /\ WorkerTypes
  BY Types
<1>1. PICK n \in Nat \ {0}, w \in Worker :
        /\ n = Len(available) /\ w = available[n] /\ Len(available') = n - 1
        /\ \A i \in 1 .. n - 1 : available'[i] = available[i]
        /\ available' \in Seq(Worker)
  BY LastAvailable DEF StartTask
<1>2. PICK x \in Task : x = started + 1
  BY <1>t DEF StartTask, MayStart, ParentTypes, Task
<1>3. PutAppend(w, x) /\ started' = x
  BY <1>1, <1>2 DEF StartTask
<1>4. UNCHANGED <<errors, responses, thread, current, call>>
  BY DEF StartTask
<1>5. Task \subseteq Items /\ started \in Nat /\ Task = 1 .. NTasks
  BY <1>t DEF Items, ParentTypes, Task
<1>6. /\ \A v \in Worker \ {w} : queue'[v] = queue[v]
      /\ Len(queue[w]) \in Nat /\ Len(queue'[w]) = Len(queue[w]) + 1
      /\ \A v \in Worker, t \in Task : InQueue(v, t)' <=> InQueue(v, t) \/ (v = w /\ t = x)
  BY <1>3, <1>5, <1>t, PutEffect
<1>7. /\ Available \subseteq Worker /\ w \in Available
      /\ Available' \subseteq Available /\ w \notin Available'
  <2>1. \A i, j \in 1 .. n : available[i] = available[j] => i = j
    BY <1>1 DEF Hands
  <2>2. Available' = {available[i] : i \in 1 .. n - 1}
    BY <1>1 DEF Available
  <2>3. Available = {available[i] : i \in 1 .. n}
    BY <1>1 DEF Available
  <2>4. Available \subseteq Worker
    BY <1>t DEF Available, ParentTypes
  <2> QED
    BY <2>1, <2>2, <2>3, <2>4, <1>1
<1>8. Free(w) /\ queue[w] = <<>> /\ thread[w] \in {"ready", "asleep"}
  BY <1>7 DEF Hands, Free
<1>9. \A v \in Worker \ {w} : Free(v)' <=> Free(v)
  BY <1>4, <1>6 DEF Free
<1>10. \A v \in Worker, t \in Task : Located(v, t)' <=> Located(v, t) \/ (v = w /\ t = x)
  BY <1>4, <1>6 DEF Located, Holds
<1>11. \A t : /\ Responding(t)' <=> Responding(t)
              /\ Responded(t)' <=> Responded(t)
              /\ Exited(t)' <=> Exited(t)
  BY <1>4 DEF Responding, Responded, Exited
<1>12. \A t \in Task : Out(t)' <=> Out(t) \/ t = x
  BY <1>10, <1>11 DEF Out
<1>13. Hands'
  <2>1. \A i, j \in 1 .. Len(available') : available'[i] = available'[j] => i = j
    BY <1>1 DEF Hands
  <2>2. \A v \in Available' : Free(v)'
    BY <1>7, <1>9 DEF Hands
  <2>3. \A v \in Worker : Len(queue'[v]) <= 1
    <3>1. Len(queue[w]) = 0
      BY <1>8
    <3>2. PICK k \in Nat : k = Len(queue[w]) /\ Len(queue'[w]) = k + 1
      BY <1>6, Zenon
    <3>3. k = 0
      BY <3>1, <3>2, Zenon
    <3>4. k + 1 <= 1
      BY <3>3
    <3>5. Len(queue'[w]) <= 1
      BY <3>2, <3>4, Zenon
    <3>6. \A v \in Worker \ {w} : Len(queue'[v]) <= 1
      BY <1>6, Zenon DEF Hands
    <3> QED
      BY <3>5, <3>6, Zenon
  <2>4. \A v \in Worker : thread'[v] \in {"taken", "running", "respond", "dead"} => queue'[v] = <<>>
    BY <1>4, <1>6, <1>8 DEF Hands
  <2>5. \A i \in 1 .. Len(responses) :
          /\ responses[i][1] \notin Available' /\ responses[i][1] \in Worker \ {w}
          /\ Free(responses[i][1])
    BY <1>7, <1>t, EachResponse DEF Hands
  <2>6. \A i \in 1 .. Len(responses) : Free(responses[i][1])'
    BY <2>5, <1>4, <1>6 DEF Free
  <2> QED
    BY <2>1, <2>2, <2>3, <2>4, <2>5, <2>6, <1>4, <1>11 DEF Hands
<1>14. Errors' = Errors /\ Errors \subseteq Task
  BY <1>4, <1>t DEF Errors, ParentTypes
<1>15. Collected'
  <2>1. \A t \in Task : t <= x /\ t # x => t <= started
    BY <1>2, <1>5
  <2>2. \A t \in Task : t <= started => t # x /\ t <= x
    BY <1>2, <1>5
  <2> QED
    BY <2>1, <2>2, <1>3, <1>4, <1>12, <1>14 DEF Collected
<1> QED
  BY <1>13, <1>15

(* The parent takes the oldest response: its worker is available, and its  *)
(* task is collected.                                                       *)
LEMMA AwaitHands ==
    ASSUME TypeOK, Placed, Hands, Collected, Noted, AwaitAnyTask
    PROVE  Hands' /\ Collected' /\ Noted'
<1>t. ParentTypes /\ WorkerTypes
  BY Types
<1>1. /\ responses # <<>> /\ responses' = Tail(responses)
      /\ UNCHANGED <<started, queue, thread, current, call>>
  BY DEF AwaitAnyTask
<1>2. PICK n \in Nat :
        /\ n = Len(responses') /\ Len(responses) = n + 1
        /\ \A i \in 1 .. n : responses'[i] = responses[i + 1]
  <2>1. responses \in Seq(Worker \X (Task \cup {Booted})) /\ responses # <<>>
    BY <1>1, <1>t DEF WorkerTypes
  <2>2. PICK k \in Nat \ {0} : k = Len(responses)
    BY <2>1
  <2>3. k - 1 \in Nat /\ k - 1 = Len(Tail(responses)) /\ k = (k - 1) + 1
    BY <2>1, <2>2
  <2>4. \A i \in 1 .. k - 1 : Tail(responses)[i] = responses[i + 1]
    BY <2>1, <2>2
  <2> QED
    BY <2>2, <2>3, <2>4, <1>1
<1>3. \A i \in 1 .. n : i + 1 \in 1 .. n + 1 /\ i + 1 # 1
  OBVIOUS
<1>4. PICK w \in Worker, t \in Task :
        /\ w = Head(responses)[1] /\ t = Head(responses)[2]
        /\ w = responses[1][1] /\ t = responses[1][2]
        /\ w \notin Available /\ Free(w) /\ call[t] \in {"ok", "failed"} /\ ~Responding(t)
  <2>1. /\ Head(responses) = responses[1] /\ 1 \in 1 .. Len(responses)
        /\ Head(responses)[1] \in Worker
    BY <1>1, <1>t, Responses
  <2>2. /\ responses[1][1] \notin Available /\ Free(responses[1][1])
        /\ responses[1][2] \in Task /\ call[responses[1][2]] \in {"ok", "failed"}
        /\ ~Responding(responses[1][2])
    BY <2>1 DEF Hands
  <2> QED
    BY <2>1, <2>2
<1>5. /\ available' = Append(available, w)
      /\ errors' = IF call[t] = "failed" THEN Append(errors, t) ELSE errors
  BY <1>4 DEF AwaitAnyTask
<1>6. \A i, j \in 1 .. n + 1 :
        responses[i][1] = responses[j][1] \/ responses[i][2] = responses[j][2] => i = j
  BY <1>2 DEF Hands
<1>7. PICK m \in Nat :
        /\ m = Len(available) /\ Len(available') = m + 1 /\ available'[m + 1] = w
        /\ \A i \in 1 .. m : available'[i] = available[i]
  <2>1. available \in Seq(Worker) /\ Len(available) \in Nat
    BY <1>t DEF ParentTypes
  <2> QED
    BY <2>1, <1>5
<1>8. Available' = Available \cup {w} /\ Available \subseteq Worker
  <2>1. Available = {available[i] : i \in 1 .. m} /\ Available' = {available'[i] : i \in 1 .. m + 1}
    BY <1>7 DEF Available
  <2>2. 1 .. m + 1 = 1 .. m \cup {m + 1}
    OBVIOUS
  <2>3. Available \subseteq Worker
    BY <1>t DEF Available, ParentTypes
  <2> QED
    BY <2>1, <2>2, <2>3, <1>7
<1>9. \A v \in Worker : /\ Free(v)' <=> Free(v)
                        /\ \A u \in Task : Located(v, u)' <=> Located(v, u)
  BY <1>1 DEF Free, Located, InQueue, Holds
<1>10. \A u : (Responding(u)' <=> Responding(u)) /\ (Exited(u)' <=> Exited(u))
  BY <1>1 DEF Responding, Exited
<1>11. ASSUME NEW u \in Task PROVE Responded(u)' <=> Responded(u) /\ u # t
  <2>1. ASSUME Responded(u)' PROVE Responded(u) /\ u # t
    <3>1. PICK i \in 1 .. n : responses'[i][2] = u
      BY <2>1, <1>2 DEF Responded
    <3>2. i + 1 \in 1 .. n + 1 /\ i + 1 # 1 /\ responses[i + 1][2] = u /\ 1 \in 1 .. n + 1
      BY <3>1, <1>2
    <3> QED
      BY <3>2, <1>2, <1>4, <1>6 DEF Responded
  <2>2. ASSUME Responded(u), u # t PROVE Responded(u)'
    <3>1. PICK i \in 1 .. n + 1 : responses[i][2] = u
      BY <2>2, <1>2 DEF Responded
    <3>2. i # 1
      BY <3>1, <2>2, <1>4
    <3>3. i - 1 \in 1 .. n /\ responses'[i - 1] = responses[i]
      BY <3>2, <1>2
    <3> QED
      BY <3>1, <3>3, <1>2 DEF Responded
  <2> QED
    BY <2>1, <2>2
<1>12. ~Responding(t) /\ ~Exited(t) /\ \A v \in Worker : ~Located(v, t)
  <2>1. \A v \in Worker : ~InQueue(v, t)
    BY <1>4 DEF Placed
  <2>2. \A v \in Worker : ~Holds(v, t)
    BY <1>4 DEF Placed, Holds
  <2> QED
    BY <2>1, <2>2, <1>4 DEF Located, Exited
<1>13. Out(t) /\ \A u \in Task : Out(u)' <=> Out(u) /\ u # t
  <2>1. Responded(t)
    BY <1>2, <1>4 DEF Responded
  <2> QED
    BY <2>1, <1>9, <1>10, <1>11, <1>12 DEF Out
<1>14. Hands'
  <2>1. \A i, j \in 1 .. Len(available') : available'[i] = available'[j] => i = j
    <3>1. \A i \in 1 .. m : available'[i] = available[i] /\ available[i] # w
      BY <1>4, <1>7 DEF Available
    <3>2. \A i \in 1 .. m + 1 : i \in 1 .. m \/ i = m + 1
      OBVIOUS
    <3>3. \A i, j \in 1 .. m : available[i] = available[j] => i = j
      BY <1>7 DEF Hands
    <3> QED
      BY <3>1, <3>2, <3>3, <1>7
  <2>2. \A v \in Available' : Free(v)'
    BY <1>4, <1>8, <1>9 DEF Hands
  <2>3. ASSUME NEW i \in 1 .. n
        PROVE  /\ responses'[i][1] \notin Available' /\ Free(responses[i][1])'
               /\ responses'[i][2] \in Task /\ call'[responses'[i][2]] \in {"ok", "failed"}
               /\ ~Responding(responses[i][2])'
    <3>1. PICK v \in Worker, u \in Task :
            /\ v = responses[i + 1][1] /\ u = responses[i + 1][2]
            /\ v \notin Available /\ Free(v) /\ call[u] \in {"ok", "failed"} /\ ~Responding(u)
      <4>1. i + 1 \in 1 .. Len(responses)
        BY <1>2, <1>3
      <4>2. responses[i + 1][1] \in Worker
        BY <4>1, <1>t, EachResponse
      <4> QED
        BY <4>1, <4>2 DEF Hands
    <3>2. v # w
      BY <3>1, <1>3, <1>4, <1>6
    <3>3. v = responses'[i][1] /\ u = responses'[i][2]
      BY <3>1, <1>2
    <3>4. v \notin Available' /\ Free(v)' /\ call'[u] \in {"ok", "failed"} /\ ~Responding(u)'
      BY <3>1, <3>2, <1>1, <1>8, <1>9, <1>10
    <3> QED
      BY <3>3, <3>4 DEF Free, Responding
  <2>4. \A i, j \in 1 .. n :
          responses'[i][1] = responses'[j][1] \/ responses'[i][2] = responses'[j][2] => i = j
    <3>1. \A i, j \in 1 .. n : i + 1 = j + 1 => i = j
      OBVIOUS
    <3> QED
      BY <3>1, <1>2, <1>3, <1>6
  <2> QED
    BY <2>1, <2>2, <2>3, <2>4, <1>1, <1>2 DEF Hands, Free, Responding
<1>15. /\ Errors \subseteq Task /\ t \notin Errors
       /\ Errors' = IF call[t] = "failed" THEN Errors \cup {t} ELSE Errors
       /\ \A i, j \in 1 .. Len(errors') : errors'[i] = errors'[j] => i = j
  <2>1. Errors \subseteq Task
    BY <1>t DEF Errors, ParentTypes
  <2>2. t \notin Errors
    BY <1>13 DEF Collected
  <2>3. CASE call[t] = "failed"
    <3>1. PICK k \in Nat : /\ k = Len(errors) /\ Len(errors') = k + 1 /\ errors'[k + 1] = t
                           /\ \A i \in 1 .. k : errors'[i] = errors[i]
      <4>1. errors \in Seq(Task) /\ Len(errors) \in Nat
        BY <1>t DEF ParentTypes
      <4>2. errors' = Append(errors, t)
        BY <2>3, <1>5, Zenon
      <4> QED
        BY <4>1, <4>2
    <3>2. Errors = {errors[i] : i \in 1 .. k} /\ Errors' = {errors'[i] : i \in 1 .. k + 1}
      BY <3>1 DEF Errors
    <3>3. 1 .. k + 1 = 1 .. k \cup {k + 1}
      OBVIOUS
    <3>4. Errors' = Errors \cup {t}
      BY <3>1, <3>2, <3>3
    <3>5. \A i, j \in 1 .. k : errors[i] = errors[j] => i = j
      BY <3>1 DEF Noted
    <3>6. \A i \in 1 .. k : errors[i] # t
      BY <3>2, <2>2
    <3> QED
      BY <2>1, <2>2, <2>3, <3>1, <3>3, <3>4, <3>5, <3>6
  <2>4. CASE call[t] # "failed"
    BY <2>1, <2>2, <2>4, <1>5 DEF Errors, Noted
  <2> QED
    BY <2>3, <2>4
<1>16. t <= started
  BY <1>4, <1>t DEF Placed, ParentTypes, Task
<1>17. Collected'
  BY <1>1, <1>4, <1>13, <1>15, <1>16 DEF Collected
<1>18. Noted'
  BY <1>1, <1>15 DEF Noted
<1> QED
  BY <1>14, <1>17, <1>18

(* The constructor is done: every worker is available, none has a task. *)
LEMMA BootstrapHands ==
    ASSUME TypeOK, Counts, Booting, AwaitBootstrap, parent' = "loop", Booting'
    PROVE  Hands' /\ Collected'
<1>t. ParentTypes /\ WorkerTypes
  BY Types
<1>1. /\ parent = "boot" /\ responses # <<>> /\ responses' = Tail(responses)
      /\ UNCHANGED <<started, errors, available, queue, thread, current, call>>
  BY DEF AwaitBootstrap
<1>2. uninit' = {}
  BY DEF Booting
<1>3. \A w \in Worker : thread'[w] \in {"ready", "asleep"} /\ queue'[w] = <<>>
  <2>1. \A w \in Worker : /\ thread'[w] \in {"unborn", "boot", "ready", "asleep"}
                          /\ queue'[w] = <<>>
    BY <1>1 DEF Booting
  <2>2. \A w \in Worker : thread'[w] \notin {"unborn", "boot"}
    BY <1>2 DEF Booting
  <2> QED
    BY <2>1, <2>2
<1>4. ASSUME NEW i \in 1 .. Len(responses') PROVE FALSE
  <2>1. i + 1 \in 1 .. Len(responses) /\ responses'[i] = responses[i + 1]
    BY <1>1, <1>t, Responses
  <2>2. responses'[i][2] = Booted
    BY <2>1, <1>1 DEF Booting
  <2> QED
    BY <2>2, <1>2 DEF Booting
<1>5. available' = [i \in 1 .. Concurrency |-> i] /\ Concurrency \in Nat
  BY <1>1, Sizes DEF Booting
<1>6. \A i, j \in 1 .. Len(available') : available'[i] = available'[j] => i = j
  BY <1>5
<1>7. \A w \in Worker : Free(w)' /\ Len(queue'[w]) <= 1
  BY <1>3 DEF Free
<1>8. Available' \subseteq Worker
  BY <1>1, <1>t DEF Available, ParentTypes
<1>9. Hands'
  BY <1>3, <1>4, <1>6, <1>7, <1>8 DEF Hands
<1>10. started' = 0 /\ Errors' = {}
  <2>1. errors' = <<>> /\ started' = 0
    BY <1>1 DEF Counts
  <2> QED
    BY <2>1 DEF Errors
<1>11. Collected'
  BY <1>10 DEF Collected, Task
<1> QED
  BY <1>9, <1>11

(* All tasks were started and none is active: every worker is available,   *)
(* so no task is out.                                                       *)
LEMMA AllDone ==
    ASSUME TypeOK, Counts, Placed, Hands, Collected, AllTasksDone
    PROVE  Settled'
<1>t. ParentTypes /\ WorkerTypes
  BY Types
<1>1. /\ UNCHANGED <<errors, queue, thread, current, call>>
      /\ started = NTasks /\ Len(available) = Concurrency
  BY Sizes DEF AllTasksDone, Counts
<1>2. Worker \subseteq Available
  <2>1. available \in [1 .. Concurrency -> Worker]
    BY <1>1, <1>t DEF ParentTypes
  <2>2. \A i, j \in 1 .. Concurrency : available[i] = available[j] => i = j
    BY <1>1 DEF Hands
  <2>3. available \in Injection(1 .. Concurrency, Worker)
    BY <2>1, <2>2 DEF Injection, IsInjective
  <2>4. Cardinality(1 .. Concurrency) = Cardinality(Worker) /\ IsFiniteSet(Worker)
    BY Sizes DEF Worker
  <2>5. available \in Surjection(1 .. Concurrency, Worker)
    BY <2>3, <2>4, FS_Injection
  <2>6. \A w \in Worker : \E i \in 1 .. Concurrency : available[i] = w
    BY <2>5 DEF Surjection
  <2> QED
    BY <2>6, <1>1 DEF Available
<1>3. \A w \in Worker : thread[w] \in {"ready", "asleep"} /\ queue[w] = <<>>
  BY <1>2 DEF Hands, Free
<1>4. \A w \in Worker, t \in Task : ~Located(w, t)
  BY <1>3 DEF Located, InQueue, Holds
<1>5. \A t : ~Responding(t) /\ ~Exited(t)
  BY <1>3 DEF Responding, Exited
<1>6. \A t : ~Responded(t)
  <2>1. \A i \in 1 .. Len(responses) : responses[i][1] \in Worker /\ responses[i][1] \notin Available
    BY <1>t, EachResponse DEF Hands
  <2> QED
    BY <2>1, <1>2 DEF Responded
<1>7. \A t \in Task : ~Out(t) /\ t <= started
  BY <1>1, <1>4, <1>5, <1>6 DEF Out, Task
<1>8. Settled
  BY <1>4, <1>7 DEF Settled, Collected
<1>9. \A w \in Worker, t \in Task : Located(w, t)' => Located(w, t)
  BY <1>1 DEF Located, InQueue, Holds
<1> QED
  BY <1>1, <1>8, <1>9, SettledKept

LEMMA CalmStep ==
    ASSUME TypeOK, Counts, Booting, Placed, Armed, Calm, Next, Booting'
    PROVE  Calm'
<1>t. ParentTypes /\ WorkerTypes
  BY Types
<1>i. Task \subseteq Items /\ Stop \notin Task /\ Stop \in Items
  BY DEF Items, Task, Stop
<1> SUFFICES ASSUME interrupts' = 0
             PROVE  /\ Noted'
                    /\ parent' \in {"loop", "starting"} => Hands' /\ Collected'
                    /\ parent' \in AtEnd \cup {"done"} => Settled'
  BY DEF Calm
<1>1. CASE SpawnThread \/ AwaitBootstrap
  <2>1. /\ parent \in {"spawn", "boot"} /\ parent' \in {"spawn", "boot", "loop"}
        /\ parent' = "loop" => AwaitBootstrap
        /\ UNCHANGED <<errors, call>>
    <3>1. CASE SpawnThread
      BY <3>1, ForLoop DEF SpawnThread
    <3>2. CASE AwaitBootstrap
      BY <3>2, ForLoop DEF AwaitBootstrap
    <3> QED
      BY <1>1, <3>1, <3>2
  <2>2. Noted'
    <3>1. errors' = <<>>
      BY <2>1 DEF Counts
    <3>2. Errors' = {} /\ Len(errors') = 0
      BY <3>1 DEF Errors
    <3> QED
      BY <3>2 DEF Noted
  <2>3. parent' = "loop" => Hands' /\ Collected'
    BY <2>1, BootstrapHands
  <2> QED
    BY <2>1, <2>2, <2>3 DEF AtEnd
<1>2. CASE StartTask
  <2>1. /\ interrupts = 0 /\ parent = "loop" /\ parent' = "starting" /\ UNCHANGED <<errors, call>>
    BY <1>2 DEF StartTask
  <2>2. Noted /\ Hands /\ Collected
    BY <2>1 DEF Calm
  <2> QED
    BY <1>2, <2>1, <2>2, <1>t, StartHands, NotedKept DEF AtEnd
<1>3. CASE StartTaskSignal
  <2>1. /\ interrupts = 0 /\ parent = "starting" /\ parent' = "loop"
        /\ UNCHANGED <<errors, started, available, responses, queue, thread, current, call>>
    BY <1>3 DEF StartTaskSignal
  <2>2. Noted /\ Hands /\ Collected
    BY <2>1 DEF Calm
  <2>3. Noted' /\ Hands' /\ Collected'
    BY <2>1, <2>2 DEF Noted, Hands, Collected, Errors, Available, Free, Responding, Responded,
       Exited, Out, Located, InQueue, Holds
  <2> QED
    BY <2>1, <2>3 DEF AtEnd
<1>4. CASE AwaitAnyTask
  <2>1. interrupts = 0 /\ parent = "loop" /\ parent' = "loop"
    BY <1>4 DEF AwaitAnyTask
  <2>2. Noted /\ Hands /\ Collected
    BY <2>1 DEF Calm
  <2> QED
    BY <1>4, <2>1, <2>2, AwaitHands DEF AtEnd
<1>5. CASE AllTasksDone
  <2>1. interrupts = 0 /\ parent = "loop" /\ parent' = "stop" /\ UNCHANGED <<errors, call>>
    BY <1>5 DEF AllTasksDone
  <2>2. Noted /\ Hands /\ Collected
    BY <2>1 DEF Calm
  <2> QED
    BY <1>5, <2>1, <2>2, <1>t, AllDone, NotedKept
<1>6. CASE SetAsyncExc \/ PutWait \/ PutWaitSignal \/ AwaitInterruptedThread \/ Interrupt
  <2>1. interrupts' \in {interrupts, interrupts + 1} /\ interrupts \in Nat
    BY <1>6, <1>t DEF SetAsyncExc, PutWait, PutWaitSignal, AwaitInterruptedThread, Interrupt,
       ParentTypes
  <2>2. interrupts = 0 /\ ~Interrupt
    BY <2>1 DEF Interrupt
  <2> QED
    BY <1>6, <2>2 DEF SetAsyncExc, PutWait, PutWaitSignal, AwaitInterruptedThread, Counts, InHandler
<1>7. CASE PutStop \/ PutStopSignal \/ AwaitStoppedThread \/ Answer
  <2>1. /\ interrupts = 0 /\ parent \in AtEnd /\ parent' \in AtEnd \cup {"done"}
        /\ UNCHANGED <<errors, thread, current, call>>
    <3>1. CASE PutStopSignal
      BY <3>1, ForLoop DEF PutStopSignal, AtEnd
    <3>2. CASE AwaitStoppedThread
      BY <3>2, ForLoop DEF AwaitStoppedThread, AtEnd
    <3>3. CASE PutStop \/ Answer
      BY <3>3 DEF PutStop, Answer, AtEnd
    <3> QED
      BY <1>7, <3>1, <3>2, <3>3
  <2>2. Noted /\ Settled
    BY <2>1 DEF Calm
  <2>3. \A w \in Worker, t \in Task : InQueue(w, t)' => InQueue(w, t)
    <3>1. CASE PutStop
      <4>1. PutAppend(next, Stop) /\ next \in Worker
        BY <3>1, <1>t DEF PutStop, ParentTypes
      <4> QED
        BY <4>1, <1>t, <1>i, PutEffect
    <3>2. CASE ~PutStop
      <4>1. UNCHANGED queue
        BY <1>7, <3>2 DEF PutStopSignal, AwaitStoppedThread, Answer
      <4> QED
        BY <4>1 DEF InQueue
    <3> QED
      BY <3>1, <3>2
  <2>4. \A w \in Worker, t \in Task : Located(w, t)' => Located(w, t)
    BY <2>1, <2>3 DEF Located, Holds
  <2>5. Noted'
    BY <2>1, <2>2, <1>t, NotedKept
  <2>6. Settled'
    BY <2>1, <2>2, <2>4, SettledKept
  <2> QED
    BY <2>1, <2>5, <2>6 DEF AtEnd
<1>8. ASSUME NEW w \in Worker, WorkerStep(w)
      PROVE  /\ Noted'
             /\ parent' \in {"loop", "starting"} => Hands' /\ Collected'
             /\ parent' \in AtEnd \cup {"done"} => Settled'
  <2>1. interrupts = 0 /\ UNCHANGED <<parent, errors, started>>
    BY <1>8, WorkerEffect DEF parentVars
  <2>2. \A t \in Task : call'[t] = call[t] \/ (Holds(w, t) /\ call[t] \in {"new", "running"})
    BY <1>8, CallEffect
  <2>3. Noted'
    BY <2>1, <2>2, <1>t, NotedKept DEF Calm
  <2>4. ASSUME parent \in {"loop", "starting"} PROVE Hands' /\ Collected'
    <3>1. Hands /\ Collected
      BY <2>1, <2>4 DEF Calm
    <3>2. Hands' /\ \A t \in Task : Out(t)' <=> Out(t)
      BY <1>8, <2>1, <2>4, <3>1, WorkerHands
    <3>3. \A t \in Task : ~Out(t) => call'[t] = call[t]
      BY <2>2 DEF Out, Located
    <3> QED
      BY <3>1, <3>2, <3>3, <2>1, <1>t, CollectedKept
  <2>5. ASSUME parent \in AtEnd \cup {"done"} PROVE Settled'
    <3>1. Settled
      BY <2>1, <2>5 DEF Calm
    <3>2. \A t \in Task : call'[t] = call[t]
      BY <2>2, <3>1 DEF Settled, Located
    <3>3. \A v \in Worker, t \in Task : Located(v, t)' => Located(v, t)
      BY <1>8, WorkerEffect
    <3> QED
      BY <2>1, <3>1, <3>2, <3>3, SettledKept
  <2> QED
    BY <2>1, <2>3, <2>4, <2>5
<1> QED
  BY <1>1, <1>2, <1>3, <1>4, <1>5, <1>6, <1>7, <1>8 DEF Next, ParentStep

----------------------------------------------------------------------------
LEMMA Initially == Init => IInv
<1> SUFFICES ASSUME Init PROVE IInv
  OBVIOUS
<1>s. Concurrency \in Nat \ {0} /\ Worker = 1 .. Concurrency /\ Cardinality(Worker) = Concurrency
  BY Sizes DEF Worker
<1>1. TypeOK
  <2>1. ParentTypes
    BY <1>s DEF Init, ParentTypes, Parents
  <2>2. WorkerTypes
    BY <1>s DEF Init, WorkerTypes, Items, Threads, Fates, Booted, Stop
  <2> QED
    BY <2>1, <2>2, Types
<1>2. Counts
  <2>1. Len(available) = Concurrency
    BY <1>s DEF Init
  <2> QED
    BY <2>1, <1>s DEF Init, Counts, InHandler
<1>3. Booting
  BY <1>s DEF Init, Booting
<1>4. \A w \in Worker, t \in Items : ~InQueue(w, t) /\ ~Located(w, t)
  BY DEF Init, InQueue, Holds, Located
<1>5. Placed
  BY <1>4 DEF Init, Placed, Items
<1>6. Armed /\ Joined /\ Answered
  BY <1>4 DEF Init, Armed, Joined, Answered, AtEnd, Items
<1>7. Calm
  <2>1. Errors = {}
    BY DEF Init, Errors
  <2> QED
    BY <2>1 DEF Init, Calm, Noted, AtEnd
<1> QED
  BY <1>1, <1>2, <1>3, <1>5, <1>6, <1>7 DEF IInv

LEMMA Inductive == IInv /\ [Next]_vars => IInv'
<1> SUFFICES ASSUME IInv, [Next]_vars PROVE IInv'
  OBVIOUS
<1>1. CASE Next
  <2>1. TypeOK'
    <3>1. ParentTypes' /\ WorkerTypes'
      BY <1>1, ParentTypesStep, WorkerTypesStep DEF IInv
    <3> QED
      BY <3>1 DEF TypeOK, ParentTypes, WorkerTypes, Parents, Items, Threads, Fates
  <2>2. Counts' /\ Placed' /\ Armed' /\ Joined' /\ Answered'
    BY <1>1, CountsStep, PlacedStep, ArmedStep, JoinedStep, AnsweredStep DEF IInv
  <2>3. Booting'
    BY <1>1, BootingStep DEF IInv
  <2>4. Calm'
    BY <1>1, <2>3, CalmStep DEF IInv
  <2> QED
    BY <2>1, <2>2, <2>3, <2>4 DEF IInv
<1>2. CASE UNCHANGED vars
  <2> USE <1>2 DEF vars, parentVars
  <2>1. TypeOK' /\ Counts' /\ Booting'
    BY DEF IInv, TypeOK, Counts, Booting
  <2>2. Placed'
    BY PlacedKept DEF IInv
  <2>3. Armed' /\ Joined'
    BY DEF IInv, Armed, Joined, InQueue
  <2>4. Answered'
    BY DEF IInv, Answered, Located, InQueue, Holds
  <2>5. Calm'
    BY DEF IInv, Calm, Noted, Settled, Hands, Collected, Errors, Available, Free, Responding,
       Responded, Exited, Out, Located, InQueue, Holds
  <2> QED
    BY <2>1, <2>2, <2>3, <2>4, <2>5 DEF IInv
<1> QED
  BY <1>1, <1>2

LEMMA Always == Spec => []IInv
<1> QED
  BY Initially, Inductive, PTL DEF Spec

----------------------------------------------------------------------------
(* Every variable of RunParallelThreads keeps to its type: the counts stay *)
(* in their ranges and the parent's loops never leave the workers.         *)
THEOREM BackgroundTypes == Spec => []TypeOK
<1>1. IInv => TypeOK
  BY DEF IInv
<1> QED
  BY Always, <1>1, PTL

(* The assertions of _BackgroundThreadTaskManager hold for any number of   *)
(* tasks and workers: StartTask finds an available worker whenever the     *)
(* caller's count lets it be called, each bootstrap response is from a     *)
(* worker still awaited, and none is awaited when the constructor returns. *)
THEOREM ManagerAssertions == Spec => []AssertionsHold
<1>1. IInv => AssertionsHold
  <2> SUFFICES ASSUME IInv PROVE AssertionsHold
    OBVIOUS
  <2>t. TypeOK /\ WorkerTypes
    BY Types DEF IInv
  <2>1. parent = "loop" /\ MayStart => available # <<>>
    BY LastAvailable DEF IInv
  <2>2. parent = "boot" /\ responses # <<>> => Head(responses)[1] \in uninit
    <3>1. responses # <<>> => Head(responses) = responses[1] /\ 1 \in 1 .. Len(responses)
      BY <2>t, Responses
    <3> QED
      BY <3>1 DEF IInv, Booting
  <2>3. parent = "loop" => uninit = {}
    BY DEF IInv, Booting
  <2> QED
    BY <2>1, <2>2, <2>3 DEF AssertionsHold
<1> QED
  BY Always, <1>1, PTL

(* A worker that spins in wait for a KeyboardInterrupt has one to come,    *)
(* provided that no target swallows the one HandleKeyboardInterrupt sets   *)
(* before it sends the request to wait.                                    *)
THEOREM SpinnersAreInterrupted ==
    ASSUME "swallow" \notin Habits
    PROVE  Spec => []SpinnerIsInterrupted
<1>1. IInv => SpinnerIsInterrupted
  BY DEF IInv, Armed, SpinnerIsInterrupted
<1> QED
  BY Always, <1>1, PTL

(* What the caller of RunParallelThreads gets is true for any number of    *)
(* targets, workers and interrupts: results only if every target returned, *)
(* the combined exception only if every target ended, and it names exactly *)
(* those that raised, once each.                                           *)
THEOREM TheAnswerIsTrue == Spec => []AnswerIsTrue
<1>1. IInv => AnswerIsTrue
  <2> SUFFICES ASSUME IInv, outcome \in {"results", "exception"}
               PROVE  AnswerIsTrue
    BY DEF AnswerIsTrue
  <2>1. Noted /\ Settled
    BY DEF IInv, Counts, Calm
  <2>2. errors \in Seq(Task)
    BY DEF IInv, TypeOK
  <2>3. ASSUME NEW t \in Task, call[t] = "failed"
        PROVE  Cardinality({i \in DOMAIN errors : errors[i] = t}) = 1
    <3>1. PICK k \in 1 .. Len(errors) : errors[k] = t
      BY <2>1, <2>3 DEF Settled, Errors
    <3>2. {i \in DOMAIN errors : errors[i] = t} = {k}
      BY <2>1, <2>2, <3>1 DEF Noted
    <3> QED
      BY <3>2, FS_Singleton
  <2>4. ASSUME NEW t \in Task, Cardinality({i \in DOMAIN errors : errors[i] = t}) = 1
        PROVE  call[t] = "failed"
    <3>1. {i \in DOMAIN errors : errors[i] = t} # {}
      BY <2>4, FS_EmptySet
    <3>2. PICK k \in 1 .. Len(errors) : errors[k] = t
      BY <3>1, <2>2
    <3> QED
      BY <3>2, <2>1 DEF Noted, Errors
  <2>5. outcome = "results" => Errors = {}
    <3>1. outcome = "results" => errors = <<>>
      BY DEF IInv, Counts
    <3> QED
      BY <3>1 DEF Errors
  <2> QED
    BY <2>1, <2>3, <2>4, <2>5 DEF AnswerIsTrue, Settled
<1> QED
  BY Always, <1>1, PTL

----------------------------------------------------------------------------
(* The refinement of ParallelCall. *)

(* A running call has a worker that runs it, of its own. *)
LEMMA RunningCalls ==
    ASSUME IInv, NEW w \in Worker, thread[w] = "taken"
    PROVE  Cardinality(Call!Running) < Concurrency
<1> DEFINE Runner(t) == CHOOSE v \in Worker : thread[v] = "running" /\ current[v] = t
           f == [t \in Call!Running |-> Runner(t)]
<1>1. Call!Running = {t \in Task : call[t] = "running"}
  BY DEF Call!Running
<1>2. \A t \in Call!Running : Runner(t) \in Worker /\ thread[Runner(t)] = "running"
                              /\ current[Runner(t)] = t
  BY <1>1 DEF IInv, Placed
<1>3. \A t \in Call!Running : Runner(t) \in Worker \ {w}
  BY <1>2
<1>4. f \in Injection(Call!Running, Worker \ {w})
  <2> HIDE DEF Runner
  <2>1. f \in [Call!Running -> Worker \ {w}]
    BY <1>3
  <2>2. \A s, t \in Call!Running : f[s] = f[t] => s = t
    BY <1>2
  <2> QED
    BY <2>1, <2>2 DEF Injection, IsInjective
<1>5. IsFiniteSet(Worker \ {w}) /\ Cardinality(Worker \ {w}) = Concurrency - 1
  BY Sizes, FS_RemoveElement
<1>6. IsFiniteSet(Call!Running) /\ Cardinality(Call!Running) <= Cardinality(Worker \ {w})
  <2> HIDE DEF f
  <2> QED
    BY <1>4, <1>5, FS_Injection
<1>7. Cardinality(Call!Running) \in Nat
  BY <1>6, FS_CardinalityType
<1> QED
  BY <1>5, <1>6, <1>7, Sizes

(* With its answer, the caller leaves no call running. *)
LEMMA NoneRunning ==
    ASSUME IInv, IInv', MaxInterrupts <= 2, outcome' # "none",
           UNCHANGED <<queue, thread, current, call>>
    PROVE  Call!Running = {}
<1> SUFFICES ASSUME NEW t \in Task, call[t] = "running" PROVE FALSE
  BY DEF Call!Running
<1>1. PICK w \in Worker : thread[w] = "running" /\ current[w] = t
  BY DEF IInv, Placed
<1>2. Located(w, t)' /\ thread'[w] # "dead"
  BY <1>1 DEF Located, Holds
<1> QED
  BY <1>2 DEF IInv, Answered

LEMMA StepRefines ==
    ASSUME IInv, IInv', Next, "exit" \notin Habits, MaxInterrupts <= 2
    PROVE  Call!Next \/ UNCHANGED Call!pvars
<1>t. ParentTypes /\ WorkerTypes
  BY Types DEF IInv
<1>n. interrupts \in Nat
  BY <1>t DEF ParentTypes
<1>1. CASE UNCHANGED <<call, outcome, interrupts>>
  BY <1>1 DEF Call!pvars
<1>2. CASE ParentStep /\ ~Answer
  <2>1. UNCHANGED <<call, outcome, interrupts>>
    BY <1>2 DEF ParentStep, SpawnThread, AwaitBootstrap, StartTask, StartTaskSignal,
       AwaitAnyTask, AllTasksDone, SetAsyncExc, PutWait, PutWaitSignal, AwaitInterruptedThread,
       PutStop, PutStopSignal, AwaitStoppedThread
  <2> QED
    BY <2>1, <1>1
<1>3. CASE Answer
  <2>1. /\ parent = "answer" /\ outcome' # "none"
        /\ outcome' = IF interrupts > 0 THEN "interrupt"
                      ELSE IF errors # <<>> THEN "exception" ELSE "results"
        /\ UNCHANGED <<errors, interrupts, queue, thread, current, call>>
    BY <1>3 DEF Answer
  <2>2. outcome = "none" /\ Call!Running = {}
    BY <2>1, NoneRunning DEF IInv, Counts
  <2>3. CASE interrupts > 0
    <3>1. Call!Answer
      BY <2>1, <2>2, <2>3 DEF Call!Answer
    <3> QED
      BY <3>1 DEF Call!Next
  <2>4. CASE ~(interrupts > 0)
    <3>1. Noted /\ Settled
      BY <2>1, <2>4, <1>n DEF IInv, Calm, AtEnd
    <3>2. CASE errors # <<>>
      <4>1. errors[1] \in Task /\ errors[1] \in Errors
        BY <3>2, <1>t DEF ParentTypes, Errors
      <4>2. call[errors[1]] = "failed"
        BY <4>1, <3>1 DEF Noted
      <4>3. Call!Answer
        BY <2>1, <2>2, <2>4, <3>1, <3>2, <4>1, <4>2 DEF Call!Answer, Settled
      <4> QED
        BY <4>3 DEF Call!Next
    <3>3. CASE errors = <<>>
      <4>1. Errors = {}
        BY <3>3 DEF Errors
      <4>2. Call!Answer
        BY <2>1, <2>2, <2>4, <3>1, <3>3, <4>1 DEF Call!Answer, Settled
      <4> QED
        BY <4>2 DEF Call!Next
    <3> QED
      BY <3>2, <3>3
  <2> QED
    BY <2>3, <2>4
<1>4. CASE Interrupt
  <2>1. /\ interrupts' = interrupts + 1 /\ interrupts' > 0 /\ parent # "done"
        /\ UNCHANGED <<queue, thread, current, call>>
        /\ outcome' = IF parent \in InLoop \cup InHandler THEN outcome ELSE "interrupt"
    BY <1>4, <1>n DEF Interrupt
  <2>2. outcome = "none"
    BY <2>1 DEF IInv, Counts
  <2>3. CASE parent \in InLoop
    <3>1. interrupts = 0
      BY <2>3 DEF IInv, Counts, InLoop
    <3>2. Call!Interrupt
      BY <2>1, <2>2, <2>3, <3>1 DEF Call!Interrupt
    <3> QED
      BY <3>2 DEF Call!Next
  <2>4. CASE parent \in InHandler
    <3>1. interrupts > 0
      BY <2>4 DEF IInv, Counts
    <3> QED
      BY <2>1, <2>4, <3>1 DEF Call!pvars
  <2>5. CASE parent \notin InLoop \cup InHandler
    <3>1. Call!Running = {}
      BY <2>1, <2>5, NoneRunning
    <3>2. Call!InterruptAnswer
      BY <2>1, <2>2, <2>5, <3>1 DEF Call!InterruptAnswer
    <3> QED
      BY <3>2 DEF Call!Next
  <2> QED
    BY <2>3, <2>4, <2>5
<1>5. ASSUME NEW w \in Worker, WorkerStep(w) PROVE Call!Next \/ UNCHANGED Call!pvars
  <2>1. UNCHANGED <<outcome, interrupts>>
    BY <1>5, WorkerEffect DEF IInv, parentVars
  <2>2. CASE UNCHANGED call
    BY <2>1, <2>2, <1>1
  <2>3. thread[w] \in {"taken", "running"} =>
          /\ current[w] \in Task
          /\ thread[w] = "taken" => call[current[w]] = "new"
          /\ thread[w] = "running" => call[current[w]] = "running"
    BY DEF IInv, Placed
  <2>4. CASE RunTask(w)
    <3>1. thread[w] = "taken" /\ call' = [call EXCEPT ![current[w]] = "running"]
      BY <2>4 DEF RunTask
    <3>2. outcome = "none"
      <4>1. Located(w, current[w]) /\ thread[w] # "dead"
        BY <3>1 DEF Located, Holds
      <4> QED
        BY <4>1, <3>1, <2>3 DEF IInv, Answered
    <3>3. Call!Cardinality(Call!Running) < Concurrency
      BY <3>1, RunningCalls DEF Cardinality, Call!Cardinality
    <3>4. Call!Begin(current[w])
      BY <2>1, <2>3, <3>1, <3>2, <3>3 DEF Call!Begin
    <3> QED
      BY <2>3, <3>1, <3>4 DEF Call!Next
  <2>5. CASE EndTask(w) \/ SwallowInTask(w)
    <3>1. /\ thread[w] = "running"
          /\ \E r \in {"ok", "failed"} : call' = [call EXCEPT ![current[w]] = r]
      BY <2>5 DEF EndTask, SwallowInTask
    <3>2. Call!End(current[w])
      BY <2>1, <2>3, <3>1 DEF Call!End
    <3> QED
      BY <2>3, <3>1, <3>2 DEF Call!Next
  <2>6. CASE RaiseInThread(w) /\ thread[w] = "running"
    <3>1. call' = [call EXCEPT ![current[w]] = "cut"] /\ interrupts > 0
      BY <2>6 DEF RaiseInThread, IInv, Armed
    <3>2. Call!Cut(current[w])
      BY <2>1, <2>3, <2>6, <3>1 DEF Call!Cut
    <3> QED
      BY <2>3, <2>6, <3>2 DEF Call!Next
  <2>7. CASE \/ Boot(w) \/ WaitForItem(w) \/ Get(w) \/ Respond(w)
             \/ RaiseInThread(w) /\ thread[w] # "running"
    <3>1. UNCHANGED call
      BY <2>7 DEF Boot, WaitForItem, Get, Respond, RaiseInThread
    <3> QED
      BY <3>1, <2>2
  <2> QED
    BY <1>5, <2>4, <2>5, <2>6, <2>7 DEF WorkerStep, ExitTask
<1> QED
  BY <1>2, <1>3, <1>4, <1>5 DEF Next

(* RunParallelThreads implements ParallelCall, for any number of tasks and *)
(* any concurrency limit: each target is called at most once, never more   *)
(* than the limit at a time, and the caller has its answer only when no    *)
(* call is running.  Two conditions, both of the code: no target leaves    *)
(* through sys.exit, and at most two KeyboardInterrupts reach the parent   *)
(* (with a third it may leave running targets behind).                     *)
THEOREM RunParallelThreadsImplementsParallelCall ==
    ASSUME "exit" \notin Habits, MaxInterrupts <= 2
    PROVE  Spec => ImplementsParallelCall
<1>1. Init => Call!Init
  BY DEF Init, Call!Init
<1>2. IInv /\ IInv' /\ [Next]_vars => [Call!Next]_(Call!pvars)
  <2>1. ASSUME UNCHANGED vars PROVE UNCHANGED Call!pvars
    BY <2>1 DEF vars, parentVars, Call!pvars
  <2> QED
    BY <2>1, StepRefines
<1> QED
  BY <1>1, <1>2, Always, PTL DEF Spec, ImplementsParallelCall, Call!Spec
=============================================================================
