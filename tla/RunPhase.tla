------------------------------ MODULE RunPhase ------------------------------
(***************************************************************************)
(* The stages of one RunBenchmark that an InterruptChecker watches over,   *)
(* DoRunPhase with its iterations and retries, and the SampleCollector the *)
(* samples go through: what RunBenchmark.tla takes as one step.            *)
(*                                                                         *)
(* The main thread, one checker thread for each interruptible VM and the   *)
(* threads of PublishFailedRunSample share a flag per VM, which is read    *)
(* from the provider in one step and written in another.  The samples of   *)
(* one Run are one sample, named for the run_number they carry; what is    *)
(* wanted of the console publishers, the metadata, and the collectors made *)
(* for a single event are left out.  RunBenchmark.tla has the stages that  *)
(* provision and tear down.                                                *)
(***************************************************************************)
EXTENDS Naturals, Sequences, SequencesExt

CONSTANTS
    VMs,         \* the interruptible VMs of spec.vms
    Publishers,  \* how many publishers the collector has
    Settings,    \* the values of the flags, as records
    MaxRuns      \* bound: how many runs fit in run_stage_time

ASSUME PublishersAssumption == Publishers \in Nat
ASSUME MaxRunsAssumption == MaxRuns \in Nat \ {0}
ASSUME SettingsAssumption ==
    \A f \in Settings :
        /\ f.stages \in Seq({"prepare", "run", "cleanup"})
        /\ \A i, j \in DOMAIN f.stages : f.stages[i] = f.stages[j] => i = j
        /\ f.timed \in BOOLEAN          \* run_stage_time > 0
        /\ f.iterations \in 0 .. MaxRuns
        /\ f.retries \in Nat            \* run_stage_retries
        /\ f.publish \in BOOLEAN        \* publish_after_run
        /\ f.failedSamples \in BOOLEAN  \* create_failed_run_samples

Samples == ({"run"} \X (0 .. MaxRuns)) \cup {<<"timing", 0>>, <<"failed", 0>>}
Watchers == {"checker", "report"}

VARIABLES
    flags,      \* the setting of this run
    pc,         \* where the main thread is
    todo,       \* the stages to come, the current one first
    why,        \* what raised the exception that is on its way out, or "none"
    cut,        \* history: the constructor or the last join that was interrupted
    checker,    \* interrupt_checker is not None
    phaseSet,   \* its phase_status
    at,         \* at[w][v]: where the thread of watcher w for VM v is
    answer,     \* answer[w][v]: what the provider told it
    noted,      \* spot_early_termination of each VM
    lost,       \* external: the VMs the cloud has taken back
    seenLost,   \* those a checker thread was told of
    runNumber, failures,
    results,    \* how the Runs so far ended
    pending,    \* collector.samples
    published,  \* collector.published_samples
    added,      \* every sample given to AddSamples
    delivered,  \* external: how often each publisher got each sample
    publisher,  \* the publisher PublishSamples has come to
    ret,        \* where PublishSamples returns to
    failed,     \* how many calls of PublishSamples raised
    substatus, status

main == <<pc, todo, why, cut>>
watch == <<checker, phaseSet, at, answer, noted, lost, seenLost>>
loop == <<runNumber, failures, results>>
collector == <<pending, published, added, delivered, publisher, ret, failed>>
outcome == <<substatus, status>>
vars == <<flags, main, watch, loop, collector, outcome>>

Init ==
    /\ flags \in Settings
    /\ pc = "begin" /\ todo = flags.stages /\ why = "none" /\ cut = {}
    /\ checker = FALSE /\ phaseSet = FALSE
    /\ at = [w \in Watchers |-> [v \in VMs |-> "none"]]
    /\ answer = [w \in Watchers |-> [v \in VMs |-> FALSE]]
    /\ noted = [v \in VMs |-> FALSE] /\ lost = {} /\ seenLost = {}
    /\ runNumber = 0 /\ failures = 0 /\ results = <<>>
    /\ pending = <<>> /\ published = <<>> /\ added = {}
    /\ delivered = [p \in 1 .. Publishers |-> [s \in Samples |-> 0]]
    /\ publisher = 1 /\ ret = "none" /\ failed = 0
    /\ substatus = "none" /\ status = "failed"

----------------------------------------------------------------------------
(* Flow of control. *)
Goto(place) == pc' = place /\ UNCHANGED <<todo, why, cut>>

(* An exception goes to the clause that is next in line; the first is the   *)
(* one that is remembered.                                                  *)
Raise(place, cause) ==
    /\ pc' = place
    /\ why' = IF why = "none" THEN cause ELSE why
    /\ UNCHANGED <<todo, cut>>

(* A KeyboardInterrupt does the same. *)
Interrupt(place, where) ==
    /\ pc' = place
    /\ why' = IF why = "none" THEN "keyboard" ELSE why
    /\ cut' = cut \cup where
    /\ UNCHANGED todo

----------------------------------------------------------------------------
(* External: the cloud takes a VM back. *)
Preempt(v) ==
    /\ v \notin lost
    /\ pc # "exit"
    /\ lost' = lost \cup {v}
    /\ UNCHANGED <<flags, main, checker, phaseSet, at, answer, noted, seenLost,
                   loop, collector, outcome>>

(* CheckInterrupt: while not phase_status.is_set(), and the two early       *)
(* returns of UpdateInterruptibleVmStatus and of the loop.                  *)
TestPhase(v) ==
    /\ at["checker"][v] = "test"
    /\ at' = [at EXCEPT !["checker"][v] = IF phaseSet \/ noted[v] THEN "done" ELSE "query"]
    /\ UNCHANGED <<flags, main, checker, phaseSet, answer, noted, lost, seenLost,
                   loop, collector, outcome>>

(* _UpdateInterruptibleVmStatus...: the provider answers what is true now. *)
Query(w, v) ==
    /\ at[w][v] = "query"
    /\ answer' = [answer EXCEPT ![w][v] = v \in lost]
    /\ at' = [at EXCEPT ![w][v] = "note"]
    /\ seenLost' = IF w = "checker" /\ v \in lost THEN seenLost \cup {v} ELSE seenLost
    /\ UNCHANGED <<flags, main, checker, phaseSet, noted, lost, loop, collector, outcome>>

(* The query raises a RemoteCommandError, which is passed over, or another  *)
(* exception, which ends a checker thread (for the others see ReportRaises). *)
QueryFails(w, v) ==
    /\ at[w][v] = "query"
    /\ \E next \in IF w = "checker" THEN {"test", "done"} ELSE {"done"} :
         at' = [at EXCEPT ![w][v] = next]
    /\ UNCHANGED <<flags, main, checker, phaseSet, answer, noted, lost, seenLost,
                   loop, collector, outcome>>

(* The answer is stored.  A checker thread ends on a TRUE, and otherwise    *)
(* waits for phase_status or the poll interval.                             *)
Note(w, v) ==
    /\ at[w][v] = "note"
    /\ noted' = [noted EXCEPT ![v] = answer[w][v]]
    /\ at' = [at EXCEPT ![w][v] =
                IF w = "report" \/ answer[w][v] THEN "done" ELSE "test"]
    /\ UNCHANGED <<flags, main, checker, phaseSet, answer, lost, seenLost, loop,
                   collector, outcome>>

Ended(w) == \A v \in VMs : at[w][v] \in {"none", "done"}

----------------------------------------------------------------------------
(* The try block: a checker is made for each stage of run_stage. *)
Begin ==
    /\ pc = "begin"
    /\ todo # <<>>
    /\ checker' = TRUE /\ phaseSet' = FALSE
    /\ at' = [at EXCEPT !["checker"] = [v \in VMs |-> "test"]]
    /\ Goto(IF Head(todo) = "run" THEN "run" ELSE "body")
    /\ UNCHANGED <<flags, answer, noted, lost, seenLost, loop, collector, outcome>>

(* The constructor is interrupted with some of its threads started: there is *)
(* no interrupt_checker, and nobody will set the event they wait for.       *)
BeginInterrupted ==
    /\ pc = "begin"
    /\ todo # <<>>
    /\ phaseSet' = FALSE
    /\ \E started \in SUBSET VMs :
         at' = [at EXCEPT !["checker"] = [v \in VMs |-> IF v \in started THEN "test" ELSE "none"]]
    /\ Interrupt("except", {"constructor"})
    /\ UNCHANGED <<flags, checker, answer, noted, lost, seenLost, loop, collector, outcome>>

(* DoPreparePhase or DoCleanupPhase. *)
Body ==
    /\ pc = "body"
    /\ \/ Goto("end")
       \/ Raise("except", Head(todo))
    /\ UNCHANGED <<flags, watch, loop, collector, outcome>>

(* Wrong versions of the next steps: the event is not set before the join;  *)
(* only the loss of every VM fails the stage.                               *)
EndWithoutSet ==
    /\ pc = "end"
    /\ Goto("join")
    /\ UNCHANGED <<flags, watch, loop, collector, outcome>>

RaiseIfAllInterrupted ==
    /\ pc = "join"
    /\ Ended("checker")
    /\ checker' = (\A v \in VMs : noted[v])
    /\ IF \A v \in VMs : noted[v]
       THEN Raise("except", "interrupt")
       ELSE pc' = "begin" /\ todo' = Tail(todo) /\ UNCHANGED <<why, cut>>
    /\ UNCHANGED <<flags, phaseSet, at, answer, noted, lost, seenLost, loop, collector,
                   outcome>>

(* EndCheckInterruptThreadAndRaiseError *)
EndCheckInterruptThread ==
    /\ pc = "end"
    /\ phaseSet' = TRUE
    /\ Goto("join")
    /\ UNCHANGED <<flags, checker, at, answer, noted, lost, seenLost, loop, collector,
                   outcome>>

RaiseIfInterrupted ==
    /\ pc = "join"
    /\ Ended("checker")
    /\ checker' = (\E v \in VMs : noted[v])
    /\ IF \E v \in VMs : noted[v]
       THEN Raise("except", "interrupt")
       ELSE pc' = "begin" /\ todo' = Tail(todo) /\ UNCHANGED <<why, cut>>
    /\ UNCHANGED <<flags, phaseSet, at, answer, noted, lost, seenLost, loop, collector,
                   outcome>>

(* The join is interrupted; the finally clause will join again. *)
JoinInterrupted ==
    /\ pc = "join"
    /\ Interrupt("except", {})
    /\ UNCHANGED <<flags, watch, loop, collector, outcome>>

----------------------------------------------------------------------------
(* SampleCollector *)
Add(s) == pending' = Append(pending, s) /\ added' = added \cup {s}

Deliver(p) ==
    delivered' = [delivered EXCEPT ![p] =
        [s \in Samples |-> @[s] + IF s \in Range(pending) THEN 1 ELSE 0]]

(* PublishSamples is called; it returns at once when there is no sample. *)
CallPublish(back) ==
    /\ ret' = back /\ publisher' = 1
    /\ Goto("publish")

PublishOne ==
    /\ pc = "publish"
    /\ pending # <<>> /\ publisher <= Publishers
    /\ Deliver(publisher)
    /\ publisher' = publisher + 1
    /\ UNCHANGED <<flags, main, watch, loop, pending, published, added, ret, failed,
                   outcome>>

(* A publisher raises, its samples written or not. *)
WhereItRaises == IF ret = "loop" THEN "except" ELSE IF ret = "finally" THEN "finally" ELSE "exit"

(* A wrong version of the next step: the samples are moved first. *)
PublisherRaisesTooLate ==
    /\ pc = "publish"
    /\ pending # <<>> /\ publisher <= Publishers
    /\ published' = published \o pending /\ pending' = <<>>
    /\ failed' = failed + 1
    /\ Raise(WhereItRaises, "publisher")
    /\ UNCHANGED <<flags, watch, loop, added, delivered, publisher, ret, outcome>>

PublisherRaises ==
    /\ pc = "publish"
    /\ pending # <<>> /\ publisher <= Publishers
    /\ Deliver(publisher) \/ UNCHANGED delivered
    /\ failed' = failed + 1
    /\ Raise(WhereItRaises, "publisher")
    /\ UNCHANGED <<flags, watch, loop, pending, published, added, publisher, ret, outcome>>

PublishEnds ==
    /\ pc = "publish"
    /\ pending = <<>> \/ publisher > Publishers
    /\ published' = published \o pending /\ pending' = <<>>
    /\ Goto(ret)
    /\ UNCHANGED <<flags, watch, loop, added, delivered, publisher, ret, failed, outcome>>

----------------------------------------------------------------------------
(* A wrong version of the next step: the failures are added up. *)
RunSucceedsStillCounting ==
    /\ pc = "run"
    /\ results' = Append(results, TRUE)
    /\ Goto("extras")
    /\ UNCHANGED <<flags, watch, runNumber, failures, collector, outcome>>

(* DoRunPhase: one turn of its loop. *)
RunSucceeds ==
    /\ pc = "run"
    /\ failures' = 0
    /\ results' = Append(results, TRUE)
    /\ Goto("extras")
    /\ UNCHANGED <<flags, watch, runNumber, collector, outcome>>

RunFails ==
    /\ pc = "run"
    /\ failures' = failures + 1
    /\ results' = Append(results, FALSE)
    /\ IF failures' > flags.retries THEN Raise("except", "run") ELSE Goto("extras")
    /\ UNCHANGED <<flags, watch, runNumber, collector, outcome>>

(* A KeyboardInterrupt, or a listener of the phase events that raises, is  *)
(* not counted.                                                            *)
RunInterrupted ==
    /\ pc = "run"
    /\ Interrupt("except", {})
    /\ UNCHANGED <<flags, watch, loop, collector, outcome>>

(* The samples taken beside the benchmark's own are added, or raise. *)
AddSamples ==
    /\ pc = "extras"
    /\ \/ /\ Last(results)
          /\ Add(<<"run", runNumber>>)
          /\ Goto("period")
       \/ /\ ~Last(results)
          /\ Goto("period")
          /\ UNCHANGED <<pending, added>>
       \/ /\ Raise("except", "extras")
          /\ UNCHANGED <<pending, added>>
    /\ UNCHANGED <<flags, watch, loop, published, delivered, publisher, ret, failed, outcome>>

(* publish_period may have passed, if there is one. *)
PublishPeriod ==
    /\ pc = "period"
    /\ \/ flags.publish /\ CallPublish("loop")
       \/ Goto("loop") /\ UNCHANGED <<ret, publisher>>
    /\ UNCHANGED <<flags, watch, loop, pending, published, added, delivered, failed, outcome>>

(* _IsRunStageFinished, after run_number has been incremented. *)
IsRunStageFinished ==
    /\ pc = "loop"
    /\ runNumber' = runNumber + 1
    /\ \/ /\ IF flags.timed THEN TRUE ELSE runNumber' >= flags.iterations
          /\ Goto("end")
       \/ /\ IF flags.timed THEN runNumber' < MaxRuns ELSE runNumber' < flags.iterations
          /\ Goto("run")
    /\ UNCHANGED <<flags, watch, failures, results, collector, outcome>>

----------------------------------------------------------------------------
(* The timing and resource samples at the end of the try block. *)
AddFinalSamples ==
    /\ pc = "begin"
    /\ todo = <<>>
    /\ \/ Add(<<"timing", 0>>) /\ Goto("finally")
       \/ Raise("except", "extras") /\ UNCHANGED <<pending, added>>
    /\ UNCHANGED <<flags, watch, loop, published, delivered, publisher, ret, failed, outcome>>

(* The except clause.  PublishFailedRunSample asks about every VM again,    *)
(* while the checker threads of the stage still run.                        *)
Except ==
    /\ pc = "except"
    /\ IF flags.failedSamples
       THEN /\ Goto("report")
            /\ at' = [at EXCEPT !["report"] =
                        [v \in VMs |-> IF noted[v] THEN "done" ELSE "query"]]
       ELSE Goto("finally") /\ UNCHANGED at
    /\ UNCHANGED <<flags, checker, phaseSet, answer, noted, lost, seenLost, loop, collector,
                   outcome>>

PublishFailedRunSample ==
    /\ pc = "report"
    /\ Ended("report")
    /\ substatus' = IF \E v \in VMs : noted[v] THEN "interrupted" ELSE "other"
    /\ Add(<<"failed", 0>>)
    /\ CallPublish("finally")
    /\ UNCHANGED <<flags, watch, loop, published, delivered, failed, status>>

(* A thread of it raises, and RunThreaded does when all of them have ended. *)
ReportRaises ==
    /\ pc = "report"
    /\ \E v \in VMs :
         /\ at["report"][v] = "query"
         /\ \A u \in VMs \ {v} : at["report"][u] = "done"
         /\ at' = [at EXCEPT !["report"][v] = "done"]
    /\ Raise("finally", "report")
    /\ UNCHANGED <<flags, checker, phaseSet, answer, noted, lost, seenLost, loop, collector,
                   outcome>>

(* A wrong version of the next step: only a stage that went well ends its   *)
(* checker.                                                                 *)
FinallyKeepsChecker ==
    /\ pc = "finally"
    /\ Goto("delete")
    /\ UNCHANGED <<flags, watch, loop, collector, outcome>>

(* The finally clause. *)
Finally ==
    /\ pc = "finally"
    /\ phaseSet' = (phaseSet \/ checker)
    /\ Goto(IF checker THEN "finallyJoin" ELSE "delete")
    /\ UNCHANGED <<flags, checker, at, answer, noted, lost, seenLost, loop, collector,
                   outcome>>

FinallyJoin ==
    /\ pc = "finallyJoin"
    /\ Ended("checker")
    /\ Goto("delete")
    /\ UNCHANGED <<flags, watch, loop, collector, outcome>>

(* That join is interrupted: the rest of the clause is left out. *)
FinallyJoinInterrupted ==
    /\ pc = "finallyJoin"
    /\ Interrupt("exit", {"finallyJoin"})
    /\ UNCHANGED <<flags, watch, loop, collector, outcome>>

(* spec.Delete, which may raise, and the publication. *)
FinallyDelete ==
    /\ pc = "delete"
    /\ \/ flags.publish /\ CallPublish("leave")
       \/ ~flags.publish /\ Goto("leave") /\ UNCHANGED <<ret, publisher>>
       \/ Raise("exit", "delete") /\ UNCHANGED <<ret, publisher>>
    /\ UNCHANGED <<flags, watch, loop, pending, published, added, delivered, failed, outcome>>

(* The benchmark_end listeners and Pickle, which may raise. *)
Leave ==
    /\ pc = "leave"
    /\ \/ /\ Goto("exit")
          /\ status' = IF why = "none" THEN "succeeded" ELSE status
       \/ Raise("exit", "leave") /\ UNCHANGED status
    /\ UNCHANGED <<flags, watch, loop, collector, substatus>>

----------------------------------------------------------------------------
CheckerStep(v) ==
    TestPhase(v) \/ Query("checker", v) \/ QueryFails("checker", v) \/ Note("checker", v)
ReportStep(v) == Query("report", v) \/ QueryFails("report", v) \/ Note("report", v)

MainRuns ==
    \/ Begin \/ Body \/ EndCheckInterruptThread \/ RaiseIfInterrupted
    \/ PublishOne \/ PublisherRaises \/ PublishEnds
    \/ RunSucceeds \/ RunFails \/ AddSamples \/ PublishPeriod
    \/ IsRunStageFinished
    \/ AddFinalSamples \/ Except \/ PublishFailedRunSample \/ ReportRaises
    \/ Finally \/ FinallyJoin \/ FinallyDelete \/ Leave

MainInterrupted ==
    BeginInterrupted \/ JoinInterrupted \/ RunInterrupted \/ FinallyJoinInterrupted

Main == MainRuns \/ MainInterrupted

Next ==
    \/ Main
    \/ \E v \in VMs : Preempt(v) \/ CheckerStep(v) \/ ReportStep(v)

(* Threads run when they can, calls return or raise in the end, and a poll  *)
(* interval passes.  No KeyboardInterrupt has to come.                      *)
Fairness ==
    /\ WF_vars(MainRuns)
    /\ \A v \in VMs : WF_vars(CheckerStep(v)) /\ WF_vars(ReportStep(v))

Spec == Init /\ [][Next]_vars /\ Fairness

----------------------------------------------------------------------------
(* The state is what the code can hold: the exception and the places it     *)
(* passes through, at most one thread of each kind per VM, counts in range. *)
TypeOK ==
    /\ flags \in Settings
    /\ pc \in {"begin", "body", "run", "extras", "period", "publish", "loop", "end", "join",
               "except", "report", "finally", "finallyJoin", "delete", "leave", "exit"}
    /\ todo \in Seq({"prepare", "run", "cleanup"})
    /\ pc \in {"body", "run", "extras", "period", "loop", "end", "join"} => todo # <<>>
    /\ why \in {"none", "prepare", "cleanup", "run", "interrupt", "publisher", "keyboard",
                "extras", "report", "delete", "leave"}
    /\ cut \subseteq {"constructor", "finallyJoin"}
    /\ checker \in BOOLEAN /\ phaseSet \in BOOLEAN
    /\ at \in [Watchers -> [VMs -> {"none", "test", "query", "note", "done"}]]
    /\ answer \in [Watchers -> [VMs -> BOOLEAN]]
    /\ noted \in [VMs -> BOOLEAN] /\ lost \subseteq VMs /\ seenLost \subseteq lost
    /\ runNumber \in 0 .. MaxRuns /\ failures \in 0 .. (flags.retries + 1)
    /\ ~flags.timed => runNumber <= 1 \/ runNumber <= flags.iterations
    /\ results \in Seq(BOOLEAN)
    /\ pending \in Seq(added) /\ published \in Seq(added) /\ added \subseteq Samples
    /\ delivered \in [1 .. Publishers -> [Samples -> Nat]]
    /\ publisher \in 1 .. (Publishers + 1)
    /\ ret \in {"none", "loop", "finally", "leave"} /\ failed \in 0 .. 3
    /\ substatus \in {"none", "interrupted", "other"} /\ status \in {"failed", "succeeded"}

(* A run in which a checker thread learned that a VM had been taken back    *)
(* does not succeed, in whichever stage, by whatever order of the thread's  *)
(* write, its end and the stage's.                                          *)
InterruptionFailsRun == seenLost # {} => status # "succeeded"

(* No checker thread is left when the resources are deleted and RunBenchmark *)
(* is left, and none runs into the checker of the next stage.  A second      *)
(* KeyboardInterrupt, in the join of the finally clause, leaves threads that  *)
(* have been told to end; only one in the constructor leaves threads that    *)
(* never will be.                                                           *)
NoThreadOutlives ==
    pc \in {"begin", "delete", "leave", "exit"} =>
        \/ Ended("checker")
        \/ pc = "exit" /\ phaseSet /\ "finallyJoin" \in cut
        \/ pc # "begin" /\ ~checker /\ "constructor" \in cut

(* Delivery of samples: one that was collected is to be published still, or *)
(* every publisher has had it, so that a publisher that raises loses        *)
(* nothing; and a publisher gets one twice only when a publication failed.  *)
SamplesDelivered ==
    /\ \A s \in added : \/ s \in Range(pending)
                        \/ \A p \in 1 .. Publishers : delivered[p][s] > 0
    /\ \A p \in 1 .. Publishers, s \in Samples : delivered[p][s] <= failed + 1

(* The run stage gives up with the first run_stage_retries + 1 failures in  *)
(* a row, and not before.                                                   *)
GaveUpAt(i) ==
    /\ i > flags.retries
    /\ \A j \in (i - flags.retries) .. i : ~results[j]
RetryBudget ==
    /\ \A i \in 1 .. Len(results) - 1 : ~GaveUpAt(i)
    /\ (why = "run") <=> (results # <<>> /\ GaveUpAt(Len(results)))

(* RunBenchmark comes to its end: no join waits for a thread that waits for *)
(* the event, and no thread stays behind but those of a constructor that    *)
(* was interrupted.                                                         *)
Ends == <>(pc = "exit" /\ (Ended("checker") \/ "constructor" \in cut))
=============================================================================
