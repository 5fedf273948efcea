--------------------------- MODULE RunPhaseProofs ---------------------------
(***************************************************************************)
(* The watched stages of RunBenchmark, for any VMs, publishers, flags and  *)
(* number of runs: an interruption that was seen fails the run, no checker *)
(* thread outlives it, samples are delivered and retries counted.          *)
(*                                                                         *)
(* The invariant has four parts: the main thread's control, the watchers'  *)
(* threads, the loop of DoRunPhase and the samples.  The last three use    *)
(* the first and not each other.                                           *)
(***************************************************************************)
EXTENDS RunPhase, SequenceTheorems, TLAPS

Places == {"begin", "body", "run", "extras", "period", "publish", "loop", "end", "join",
           "except", "report", "finally", "finallyJoin", "delete", "leave", "exit"}
Causes == {"none", "prepare", "cleanup", "run", "interrupt", "publisher", "keyboard",
           "extras", "report", "delete", "leave"}
Stages == {"prepare", "run", "cleanup"}

(* The try block, the except clause and the finally clause, each with the   *)
(* publication that is called from it.                                      *)
InLoop == pc \in {"run", "extras", "period", "loop"} \/ (pc = "publish" /\ ret = "loop")
InTry == pc \in {"begin", "body", "end", "join"} \/ InLoop
InExcept == pc \in {"except", "report"} \/ (pc = "publish" /\ ret = "finally")
InFinally ==
    pc \in {"finally", "finallyJoin", "delete", "leave"} \/ (pc = "publish" /\ ret = "leave")

----------------------------------------------------------------------------
(* Control: an exception is on its way out of the except clause and of no   *)
(* place in the try block; each clause publishes, and so fails to, once.    *)
ControlTypes ==
    /\ flags \in Settings /\ pc \in Places /\ todo \in Seq(Stages) /\ why \in Causes
    /\ ret \in {"none", "loop", "finally", "leave"} /\ (pc = "publish" => ret # "none")
    /\ publisher \in 1 .. (Publishers + 1) /\ failed \in Nat
    /\ substatus \in {"none", "interrupted", "other"} /\ status \in {"failed", "succeeded"}
Exceptions ==
    /\ InTry => why = "none" /\ failed = 0
    /\ InExcept => why # "none" /\ failed <= 1
    /\ InFinally => failed <= 2
    /\ failed <= 3
    /\ status = "succeeded" => pc = "exit" /\ why = "none"

(* The stages: the run stage comes once, with run_number 0. *)
StagesToDo ==
    /\ pc \in {"body", "end", "join"} \/ InLoop => todo # <<>>
    /\ pc = "body" => Head(todo) # "run"
    /\ InLoop => Head(todo) = "run"
    /\ \A i, j \in 1 .. Len(todo) : todo[i] = "run" /\ todo[j] = "run" => i = j
    /\ \A i \in 1 .. Len(todo) : todo[i] = "run" /\ (i > 1 \/ pc = "begin") => runNumber = 0
RunNumbers ==
    /\ runNumber \in 0 .. MaxRuns
    /\ flags.timed = FALSE => runNumber <= 1 \/ runNumber <= flags.iterations
    /\ InLoop => /\ runNumber < MaxRuns
                 /\ flags.timed = TRUE \/ runNumber = 0 \/ runNumber < flags.iterations

Control == ControlTypes /\ Exceptions /\ StagesToDo /\ RunNumbers

----------------------------------------------------------------------------
(* The watchers. *)
WatchTypes ==
    /\ at \in [Watchers -> [VMs -> {"none", "test", "query", "note", "done"}]]
    /\ answer \in [Watchers -> [VMs -> BOOLEAN]]
    /\ noted \in [VMs -> BOOLEAN] /\ lost \subseteq VMs /\ seenLost \subseteq lost
    /\ checker \in BOOLEAN /\ phaseSet \in BOOLEAN
    /\ cut \subseteq {"constructor", "finallyJoin"}

(* The finally clause, once the checker has been joined. *)
AtEnd == pc \in {"delete", "leave", "exit"} \/ (pc = "publish" /\ ret = "leave")

(* A thread runs for a checker that is there or that nobody knows of, or    *)
(* for the report.                                                          *)
Threads ==
    /\ checker = FALSE => Ended("checker") \/ "constructor" \in cut
    /\ pc = "begin" => checker = FALSE
    /\ InFinally /\ why = "none" => checker = FALSE
    /\ AtEnd => \/ Ended("checker") \/ "constructor" \in cut
                \/ pc = "exit" /\ phaseSet = TRUE /\ "finallyJoin" \in cut
    /\ pc # "report" => Ended("report")
    /\ pc = "finallyJoin" => phaseSet = TRUE /\ why # "none"
    /\ cut # {} => why # "none"
    /\ "constructor" \in cut => checker = FALSE

(* As long as nothing was raised, only the checker's thread writes the flag *)
(* of a VM, once, and what it saw is on its way to the flag or in it.       *)
Seen ==
    why = "none" =>
        /\ \A v \in VMs : at["checker"][v] \in {"query", "note"} => noted[v] = FALSE
        /\ \A v \in seenLost :
             noted[v] = TRUE \/ (at["checker"][v] = "note" /\ answer["checker"][v] = TRUE)
        /\ pc \in {"begin", "exit"} \/ InFinally => seenLost = {}

Watching == WatchTypes /\ Threads /\ Seen

----------------------------------------------------------------------------
(* DoRunPhase: failures counts the failed runs at the end of results. *)
Counting ==
    /\ results \in Seq(BOOLEAN) /\ failures \in Nat
    /\ failures <= Len(results) /\ failures <= flags.retries + 1
    /\ \A j \in 1 .. Len(results) : j > Len(results) - failures => results[j] = FALSE
    /\ failures < Len(results) => results[Len(results) - failures] = TRUE
    /\ (why = "run") <=> (failures > flags.retries)
    /\ \A i \in 1 .. Len(results) - 1 : ~GaveUpAt(i)

----------------------------------------------------------------------------
(* The samples. *)
SampleTypes ==
    /\ added \subseteq Samples /\ pending \in Seq(added) /\ published \in Seq(added)
    /\ delivered \in [1 .. Publishers -> [Samples -> Nat]]

(* No sample is added twice. *)
Fresh ==
    /\ \A n \in 0 .. MaxRuns : <<"run", n>> \in added =>
         n <= runNumber /\ (pc \in {"begin", "body", "run", "extras", "end", "join"} => n < runNumber)
    /\ <<"timing", 0>> \in added => InFinally \/ pc = "exit"
    /\ <<"failed", 0>> \in added =>
         InFinally \/ pc = "exit" \/ (pc = "publish" /\ ret = "finally")

(* The publishers that this publication has come past have the samples. *)
Past(p) == pc = "publish" /\ p < publisher
Pending == {pending[i] : i \in 1 .. Len(pending)}
Delivered ==
    \A p \in 1 .. Publishers, s \in Samples :
        /\ s \notin added => delivered[p][s] = 0
        /\ s \in added \ Pending => delivered[p][s] > 0
        /\ s \in Pending /\ Past(p) => delivered[p][s] > 0
        /\ s \in Pending => delivered[p][s] <= failed + IF Past(p) THEN 1 ELSE 0
        /\ delivered[p][s] <= failed + 1

Collecting == SampleTypes /\ Fresh /\ Delivered

IInv == Control /\ Watching /\ Counting /\ Collecting

USE PublishersAssumption, MaxRunsAssumption

LEMMA FlagTypes ==
    ASSUME flags \in Settings
    PROVE  /\ flags.stages \in Seq(Stages) /\ flags.timed \in BOOLEAN
           /\ flags.iterations \in 0 .. MaxRuns /\ flags.retries \in Nat
           /\ flags.publish \in BOOLEAN /\ flags.failedSamples \in BOOLEAN
           /\ \A i, j \in 1 .. Len(flags.stages) : flags.stages[i] = flags.stages[j] => i = j
BY SettingsAssumption DEF Stages

----------------------------------------------------------------------------
(* Control is preserved. *)
LEMMA ControlTypesStep == ASSUME Control, Main PROVE ControlTypes'
<1> USE DEF Control, ControlTypes, Places, Causes, Stages, main, watch, loop, collector, outcome
<1>1. CASE Begin \/ Body
  BY <1>1 DEF Begin, Body, Goto, Raise, Exceptions, StagesToDo, InLoop, InTry, InExcept,
     InFinally
<1>2. CASE EndCheckInterruptThread
  BY <1>2 DEF EndCheckInterruptThread, Goto, Exceptions, StagesToDo, InLoop, InTry, InExcept,
     InFinally
<1>3. CASE RaiseIfInterrupted
  <2>1. /\ pc = "join" /\ todo # <<>>
        /\ UNCHANGED <<flags, ret, publisher, failed, substatus, status>>
        /\ \/ pc' = "except" /\ UNCHANGED todo /\ why' \in Causes
           \/ pc' = "begin" /\ todo' = Tail(todo) /\ UNCHANGED why
    BY <1>3 DEF RaiseIfInterrupted, Raise, StagesToDo
  <2> QED
    BY <2>1
<1>4. CASE PublishOne \/ PublisherRaises
  BY <1>4 DEF PublishOne, PublisherRaises, Raise, WhereItRaises, Exceptions, StagesToDo,
     InLoop, InTry, InExcept, InFinally
<1>5. CASE PublishEnds
  BY <1>5 DEF PublishEnds, Goto, Exceptions, StagesToDo, InLoop, InTry, InExcept, InFinally
<1>6. CASE RunSucceeds
  BY <1>6 DEF RunSucceeds, Goto, Exceptions, StagesToDo, InLoop, InTry, InExcept, InFinally
<1>7. CASE RunFails
  BY <1>7 DEF RunFails, Goto, Raise, Exceptions, StagesToDo, InLoop, InTry, InExcept, InFinally
<1>8. CASE MainInterrupted
  BY <1>8 DEF MainInterrupted, BeginInterrupted, JoinInterrupted, RunInterrupted,
     FinallyJoinInterrupted, Interrupt, Exceptions, StagesToDo, InLoop, InTry, InExcept, InFinally
<1>9. CASE AddSamples
  BY <1>9 DEF AddSamples, Goto, Raise, Exceptions, StagesToDo, InLoop, InTry, InExcept,
     InFinally
<1>10. CASE PublishPeriod
  BY <1>10 DEF PublishPeriod, Goto, CallPublish, Exceptions, StagesToDo, InLoop, InTry,
     InExcept, InFinally
<1>11. CASE IsRunStageFinished \/ AddFinalSamples
  BY <1>11 DEF IsRunStageFinished, AddFinalSamples, Goto, Raise, Exceptions, StagesToDo,
     InLoop, InTry, InExcept, InFinally
<1>12. CASE Except \/ PublishFailedRunSample \/ ReportRaises
  BY <1>12 DEF Except, PublishFailedRunSample, ReportRaises, Goto, Raise, CallPublish,
     Exceptions, StagesToDo, InLoop, InTry, InExcept, InFinally
<1>13. CASE Finally \/ FinallyJoin
  BY <1>13 DEF Finally, FinallyJoin, Goto, Exceptions, StagesToDo, InLoop, InTry, InExcept,
     InFinally
<1>14. CASE FinallyDelete \/ Leave
  BY <1>14 DEF FinallyDelete, Leave, Goto, Raise, CallPublish, Exceptions, StagesToDo, InLoop,
     InTry, InExcept, InFinally
<1> QED
  BY <1>1, <1>2, <1>3, <1>4, <1>5, <1>6, <1>7, <1>8, <1>9, <1>10, <1>11, <1>12, <1>13, <1>14
     DEF Main, MainRuns

LEMMA ExceptionsStep == ASSUME Control, Main PROVE Exceptions'
<1> USE DEF Control, Exceptions, InLoop, InTry, InExcept, InFinally, main, watch, loop, collector,
            outcome
<1>1. CASE Begin \/ Body
  BY <1>1 DEF Begin, Body, Goto, Raise, ControlTypes, Places, StagesToDo, Stages
<1>2. CASE EndCheckInterruptThread
  BY <1>2 DEF EndCheckInterruptThread, Goto, ControlTypes, Places, StagesToDo, Stages
<1>3. CASE RaiseIfInterrupted
  BY <1>3 DEF RaiseIfInterrupted, Raise, ControlTypes, Places, StagesToDo, Stages
<1>4. CASE PublishOne \/ PublisherRaises
  BY <1>4 DEF PublishOne, PublisherRaises, Raise, WhereItRaises, ControlTypes, Places,
     StagesToDo, Stages
<1>5. CASE PublishEnds
  BY <1>5 DEF PublishEnds, Goto, ControlTypes, Places, StagesToDo, Stages
<1>6. CASE RunSucceeds
  BY <1>6 DEF RunSucceeds, Goto, ControlTypes, Places, StagesToDo, Stages
<1>7. CASE RunFails
  BY <1>7 DEF RunFails, Goto, Raise, ControlTypes, Places, StagesToDo, Stages
<1>8. CASE MainInterrupted
  BY <1>8 DEF MainInterrupted, BeginInterrupted, JoinInterrupted, RunInterrupted,
     FinallyJoinInterrupted, Interrupt, ControlTypes, Places, StagesToDo, Stages
<1>9. CASE AddSamples
  BY <1>9 DEF AddSamples, Goto, Raise, ControlTypes, Places, StagesToDo, Stages
<1>10. CASE PublishPeriod
  BY <1>10 DEF PublishPeriod, Goto, CallPublish, ControlTypes, Places, StagesToDo, Stages
<1>11. CASE IsRunStageFinished \/ AddFinalSamples
  BY <1>11 DEF IsRunStageFinished, AddFinalSamples, Goto, Raise, ControlTypes, Places,
     StagesToDo, Stages
<1>12. CASE Except \/ PublishFailedRunSample \/ ReportRaises
  BY <1>12 DEF Except, PublishFailedRunSample, ReportRaises, Goto, Raise, CallPublish,
     ControlTypes, Places, StagesToDo, Stages
<1>13. CASE Finally \/ FinallyJoin
  BY <1>13 DEF Finally, FinallyJoin, Goto, ControlTypes, Places, StagesToDo, Stages
<1>14. CASE FinallyDelete \/ Leave
  BY <1>14 DEF FinallyDelete, Leave, Goto, Raise, CallPublish, ControlTypes, Places,
     StagesToDo, Stages
<1> QED
  BY <1>1, <1>2, <1>3, <1>4, <1>5, <1>6, <1>7, <1>8, <1>9, <1>10, <1>11, <1>12, <1>13, <1>14
     DEF Main, MainRuns

LEMMA StagesStep == ASSUME Control, Main PROVE StagesToDo'
<1> USE DEF Control, StagesToDo, InLoop, main, watch, loop, collector, outcome
<1>t. todo \in Seq(Stages) /\ runNumber \in Nat
  BY DEF ControlTypes, RunNumbers
<1>0. CASE RaiseIfInterrupted
  <2>1. CASE todo' = todo /\ pc' = "except"
    BY <2>1, <1>0 DEF RaiseIfInterrupted
  <2>2. CASE todo' = Tail(todo) /\ pc' = "begin"
    <3>1. /\ Len(todo') = Len(todo) - 1
          /\ \A i \in 1 .. Len(todo') : i + 1 \in 1 .. Len(todo) /\ todo'[i] = todo[i + 1]
      BY <1>t, <1>0, <2>2 DEF RaiseIfInterrupted
    <3> QED
      BY <3>1, <1>t, <1>0, <2>2 DEF RaiseIfInterrupted
  <2> QED
    BY <2>1, <2>2, <1>0 DEF RaiseIfInterrupted, Raise
<1>1. CASE Begin
  <2>1. todo[1] = Head(todo) /\ 1 \in 1 .. Len(todo)
    BY <1>t, <1>1 DEF Begin
  <2> QED
    BY <2>1, <1>1 DEF Begin, Goto
<1>2. CASE IsRunStageFinished
  <2>1. todo[1] = "run" /\ 1 \in 1 .. Len(todo)
    BY <1>t, <1>2 DEF IsRunStageFinished
  <2> QED
    BY <2>1, <1>2 DEF IsRunStageFinished, Goto
<1>3. CASE Main /\ ~(RaiseIfInterrupted \/ Begin \/ IsRunStageFinished)
  <2> DEFINE Same == /\ UNCHANGED <<todo, runNumber>> /\ pc' \notin {"begin", "body"}
                     /\ (pc' = "join" => pc = "end") /\ (pc' = "end" => pc = "body")
                     /\ (InLoop' => InLoop)
  <2>1. ASSUME Body \/ EndCheckInterruptThread PROVE Same
    BY <2>1 DEF Body, EndCheckInterruptThread, Goto, Raise
  <2>2. ASSUME PublishOne \/ PublisherRaises \/ PublishEnds PROVE Same
    BY <2>2 DEF PublishOne, PublisherRaises, PublishEnds, WhereItRaises, ControlTypes, Goto,
       Raise
  <2>3. ASSUME RunSucceeds \/ RunFails \/ AddSamples \/ PublishPeriod PROVE Same
    BY <2>3 DEF RunSucceeds, RunFails, AddSamples, PublishPeriod, CallPublish,
       Goto, Raise
  <2>4. ASSUME AddFinalSamples \/ Except \/ PublishFailedRunSample \/ ReportRaises PROVE Same
    BY <2>4 DEF AddFinalSamples, Except, PublishFailedRunSample, ReportRaises, CallPublish,
       Goto, Raise
  <2>5. ASSUME Finally \/ FinallyJoin \/ FinallyDelete \/ Leave PROVE Same
    BY <2>5 DEF Finally, FinallyJoin, FinallyDelete, Leave, CallPublish, Goto, Raise
  <2>6. ASSUME MainInterrupted PROVE Same
    BY <2>6 DEF MainInterrupted, BeginInterrupted, JoinInterrupted, RunInterrupted,
       FinallyJoinInterrupted, Interrupt
  <2>7. Same
    BY <1>3, <2>1, <2>2, <2>3, <2>4, <2>5, <2>6 DEF Main, MainRuns
  <2> QED
    BY <2>7
<1> QED
  BY <1>0, <1>1, <1>2, <1>3

LEMMA RunNumbersStep == ASSUME Control, Main PROVE RunNumbers'
<1> USE DEF Control, RunNumbers, InLoop, main, watch, loop, collector, outcome
<1>f. /\ flags.timed \in BOOLEAN /\ flags.iterations \in 0 .. MaxRuns
      /\ flags \in Settings
  BY FlagTypes DEF ControlTypes
<1>1. CASE Begin \/ Body
  BY <1>1, <1>f DEF Begin, Body, Goto, Raise, StagesToDo, ControlTypes
<1>2. CASE EndCheckInterruptThread
  BY <1>2, <1>f DEF EndCheckInterruptThread, Goto, StagesToDo, ControlTypes
<1>3. CASE RaiseIfInterrupted
  BY <1>3, <1>f DEF RaiseIfInterrupted, Raise, StagesToDo, ControlTypes
<1>4. CASE PublishOne \/ PublisherRaises
  BY <1>4, <1>f DEF PublishOne, PublisherRaises, Raise, WhereItRaises, StagesToDo, ControlTypes
<1>5. CASE PublishEnds
  BY <1>5, <1>f DEF PublishEnds, Goto, StagesToDo, ControlTypes
<1>6. CASE RunSucceeds
  BY <1>6, <1>f DEF RunSucceeds, Goto, StagesToDo, ControlTypes
<1>7. CASE RunFails
  BY <1>7, <1>f DEF RunFails, Goto, Raise, StagesToDo, ControlTypes
<1>8. CASE MainInterrupted
  BY <1>8, <1>f DEF MainInterrupted, BeginInterrupted, JoinInterrupted, RunInterrupted,
     FinallyJoinInterrupted, Interrupt, StagesToDo, ControlTypes
<1>9. CASE AddSamples
  BY <1>9, <1>f DEF AddSamples, Goto, Raise, StagesToDo, ControlTypes
<1>10. CASE PublishPeriod
  BY <1>10, <1>f DEF PublishPeriod, Goto, CallPublish, StagesToDo, ControlTypes
<1>11. CASE IsRunStageFinished \/ AddFinalSamples
  BY <1>11, <1>f DEF IsRunStageFinished, AddFinalSamples, Goto, Raise, StagesToDo, ControlTypes
<1>12. CASE Except \/ PublishFailedRunSample \/ ReportRaises
  BY <1>12, <1>f DEF Except, PublishFailedRunSample, ReportRaises, Goto, Raise, CallPublish,
     StagesToDo, ControlTypes
<1>13. CASE Finally \/ FinallyJoin
  BY <1>13, <1>f DEF Finally, FinallyJoin, Goto, StagesToDo, ControlTypes
<1>14. CASE FinallyDelete \/ Leave
  BY <1>14, <1>f DEF FinallyDelete, Leave, Goto, Raise, CallPublish, StagesToDo, ControlTypes
<1> QED
  BY <1>1, <1>2, <1>3, <1>4, <1>5, <1>6, <1>7, <1>8, <1>9, <1>10, <1>11, <1>12, <1>13, <1>14
     DEF Main, MainRuns

LEMMA ControlKept ==
    ASSUME Control,
           UNCHANGED <<flags, pc, todo, why, ret, publisher, failed, substatus, status, runNumber>>
    PROVE  Control'
BY DEF Control, ControlTypes, Exceptions, StagesToDo, RunNumbers, InLoop, InTry, InExcept,
       InFinally

----------------------------------------------------------------------------
(* The watchers.  A step of the main thread that leaves them alone ends no  *)
(* clause early.                                                            *)
Passes ==
    /\ why' = "none" => why = "none"
    /\ pc' \notin {"begin", "finallyJoin"} /\ pc # "exit" /\ UNCHANGED cut
    /\ why # "none" => why' # "none"
    /\ why' = "none" /\ (pc' = "exit" \/ InFinally') => pc = "begin" \/ InFinally
    /\ AtEnd' => AtEnd \/ Ended("checker")
    /\ pc' # "report" => pc # "report" \/ Ended("report")

Untouching ==
    \/ Body \/ PublishOne \/ PublisherRaises \/ PublishEnds
    \/ RunSucceeds \/ RunFails \/ RunInterrupted \/ AddSamples \/ PublishPeriod
    \/ JoinInterrupted \/ IsRunStageFinished \/ AddFinalSamples \/ PublishFailedRunSample
    \/ FinallyJoin \/ FinallyDelete \/ Leave

LEMMA PassesStep == ASSUME Control, Untouching PROVE Passes /\ UNCHANGED watch
<1> USE DEF Control, Exceptions, Passes, InTry, InLoop, InExcept, InFinally, AtEnd, main, loop,
            collector, outcome
<1>1. CASE Body \/ RunSucceeds \/ RunFails \/ IsRunStageFinished
  BY <1>1 DEF Body, RunSucceeds, RunFails, IsRunStageFinished, Goto, Raise,
     ControlTypes, Stages, StagesToDo
<1>0. CASE RunInterrupted \/ JoinInterrupted
  BY <1>0 DEF RunInterrupted, JoinInterrupted, Interrupt
<1>2. CASE PublishOne \/ PublisherRaises
  BY <1>2 DEF PublishOne, PublisherRaises, WhereItRaises, Raise, ControlTypes
<1>3. CASE PublishEnds
  BY <1>3 DEF PublishEnds, Goto, ControlTypes
<1>4. CASE AddSamples \/ PublishPeriod
  BY <1>4 DEF AddSamples, PublishPeriod, Goto, Raise, CallPublish
<1>5. CASE AddFinalSamples \/ PublishFailedRunSample
  BY <1>5 DEF AddFinalSamples, PublishFailedRunSample, Goto, Raise, CallPublish
<1>6. CASE FinallyJoin \/ FinallyDelete \/ Leave
  BY <1>6 DEF FinallyJoin, FinallyDelete, Leave, Goto, Raise, CallPublish
<1> QED
  BY <1>0, <1>1, <1>2, <1>3, <1>4, <1>5, <1>6 DEF Untouching

LEMMA UntouchingStep == ASSUME Control, Watching, Untouching PROVE Watching'
<1>1. Passes /\ UNCHANGED <<cut, checker, phaseSet, at, answer, noted, lost, seenLost>>
  BY PassesStep DEF watch, Passes
<1>2. WatchTypes'
  BY <1>1 DEF Watching, WatchTypes
<1>3. Ended("checker")' = Ended("checker") /\ Ended("report")' = Ended("report")
  BY <1>1 DEF Ended
<1>4. Threads'
  BY <1>1, <1>3 DEF Watching, Threads, Passes
<1>5. Seen'
  BY <1>1 DEF Watching, Seen, Passes
<1> QED
  BY <1>2, <1>4, <1>5 DEF Watching

(* The places of the threads after one of them has moved. *)
LEMMA OneThread ==
    ASSUME WatchTypes, NEW w \in Watchers, NEW v \in VMs,
           NEW p \in {"none", "test", "query", "note", "done"}, at' = [at EXCEPT ![w][v] = p]
    PROVE  /\ at' \in [Watchers -> [VMs -> {"none", "test", "query", "note", "done"}]]
           /\ at'[w][v] = p
           /\ \A u \in VMs \ {v} : at'[w][u] = at[w][u]
           /\ \A x \in Watchers \ {w}, u \in VMs : at'[x][u] = at[x][u]
BY DEF WatchTypes

(* A thread moves that runs: then so does its watcher, and it does not      *)
(* start another.                                                           *)
LEMMA ThreadMoves ==
    ASSUME Watching, NEW w \in Watchers, NEW v \in VMs,
           NEW p \in {"none", "test", "query", "note", "done"}, at' = [at EXCEPT ![w][v] = p],
           at[w][v] \in {"test", "query", "note"},
           UNCHANGED <<pc, why, ret, checker, cut, phaseSet>>
    PROVE  Threads' /\ ~Ended(w)
<1>1. ~Ended(w)
  BY DEF Ended
<1>2. \A x \in Watchers \ {w} : Ended(x) => Ended(x)'
  BY OneThread DEF Ended, Watching
<1>3. CASE w = "checker"
  BY <1>1, <1>2, <1>3 DEF Watching, Threads, InFinally, AtEnd, Watchers
<1>4. CASE w = "report"
  BY <1>1, <1>2, <1>4 DEF Watching, Threads, InFinally, AtEnd, Watchers
<1> QED
  BY <1>1, <1>3, <1>4 DEF Watchers

LEMMA ThreadsStep ==
    ASSUME Control, Watching, NEW v \in VMs, Preempt(v) \/ CheckerStep(v) \/ ReportStep(v)
    PROVE  Watching'
<1> USE DEF main, collector
<1>u. UNCHANGED <<pc, why, ret, checker, phaseSet, cut>>
  BY DEF Preempt, CheckerStep, ReportStep, TestPhase, Query, QueryFails, Note
<1>f. (InFinally' <=> InFinally) /\ "checker" \in Watchers /\ "report" \in Watchers
  BY <1>u DEF InFinally, Watchers
<1>r. ASSUME NEW w \in Watchers, w = "report", ~Ended(w) PROVE (why' = "none") = FALSE
  <2>1. ~Ended("report")
    BY <1>r
  <2> QED
    BY <2>1, <1>u DEF Watching, Threads, Control, Exceptions, InExcept
<1>c. ASSUME ~Ended("checker"), why = "none"
      PROVE  ~(pc \in {"begin", "exit"} \/ InFinally)
  BY <1>c DEF Watching, Threads, AtEnd
<1>1. CASE Preempt(v)
  <2>1. UNCHANGED <<at, answer, noted, seenLost>> /\ lost' = lost \cup {v}
    BY <1>1 DEF Preempt
  <2>2. WatchTypes'
    BY <2>1, <1>u DEF Watching, WatchTypes
  <2>3. Threads'
    BY <2>1, <1>u, <1>f DEF Watching, Threads, AtEnd, Ended
  <2>4. Seen'
    BY <2>1, <1>u, <1>f DEF Watching, Seen
  <2> QED
    BY <2>2, <2>3, <2>4 DEF Watching
<1>2. CASE TestPhase(v)
  <2>1. PICK p \in {"done", "query"} :
          /\ at' = [at EXCEPT !["checker"][v] = p] /\ (p = "query" => noted[v] = FALSE)
          /\ at["checker"][v] = "test"
    BY <1>2 DEF TestPhase, Watching, WatchTypes
  <2>2. UNCHANGED <<answer, noted, lost, seenLost>>
    BY <1>2 DEF TestPhase
  <2>3. Threads' /\ ~Ended("checker")
    BY <2>1, <1>u, <1>f, ThreadMoves
  <2>4. WatchTypes'
    BY <2>1, <2>2, <1>u, <1>f, OneThread DEF Watching, WatchTypes
  <2>5. at'["checker"][v] = p /\ \A u \in VMs \ {v} : at'["checker"][u] = at["checker"][u]
    BY <2>1, <1>f, OneThread DEF Watching
  <2>6. Seen'
    BY <2>1, <2>2, <2>3, <2>5, <1>u, <1>f, <1>c DEF Watching, Seen, WatchTypes
  <2> QED
    BY <2>3, <2>4, <2>6 DEF Watching
<1>3. CASE \E w \in Watchers : Query(w, v)
  <2>1. PICK w \in Watchers : Query(w, v)
    BY <1>3
  <2>2. /\ at' = [at EXCEPT ![w][v] = "note"] /\ at[w][v] = "query"
        /\ answer' = [answer EXCEPT ![w][v] = v \in lost] /\ UNCHANGED <<noted, lost>>
        /\ seenLost' = IF w = "checker" /\ v \in lost THEN seenLost \cup {v} ELSE seenLost
    BY <2>1 DEF Query
  <2>3. Threads' /\ ~Ended(w)
    BY <2>2, <1>u, ThreadMoves
  <2>4. WatchTypes'
    <3>1. answer' \in [Watchers -> [VMs -> BOOLEAN]]
      BY <2>2 DEF Watching, WatchTypes
    <3>2. at' \in [Watchers -> [VMs -> {"none", "test", "query", "note", "done"}]]
      BY <2>2, OneThread DEF Watching
    <3> QED
      BY <3>1, <3>2, <2>2, <1>u DEF Watching, WatchTypes
  <2>5. ASSUME w = "checker" PROVE Seen'
    <3>1. /\ at'["checker"][v] = "note" /\ answer'["checker"][v] = (v \in lost)
          /\ \A u \in VMs \ {v} : /\ at'["checker"][u] = at["checker"][u]
                                  /\ answer'["checker"][u] = answer["checker"][u]
      BY <2>2, <2>5 DEF Watching, WatchTypes
    <3> SUFFICES ASSUME why' = "none" PROVE Seen'
      BY DEF Seen
    <3>2. why = "none"
      BY <1>u
    <3>3. ~(pc \in {"begin", "exit"} \/ InFinally)
      BY <3>2, <2>3, <2>5, <1>c
    <3>4. v \notin seenLost /\ noted[v] = FALSE
      BY <3>2, <2>2, <2>5 DEF Watching, Seen, WatchTypes
    <3>5. \A u \in VMs : at'["checker"][u] \in {"query", "note"} => noted'[u] = FALSE
      BY <3>1, <3>2, <3>4, <2>2 DEF Watching, Seen
    <3>6. \A u \in seenLost' : noted'[u] = TRUE
              \/ (at'["checker"][u] = "note" /\ answer'["checker"][u] = TRUE)
      BY <3>1, <3>2, <3>4, <2>2 DEF Watching, Seen, WatchTypes
    <3> QED
      BY <3>3, <3>5, <3>6, <1>u, <1>f DEF Seen
  <2>6. ASSUME w = "report" PROVE Seen'
    BY <2>6, <2>3, <1>r DEF Seen
  <2> QED
    BY <2>3, <2>4, <2>5, <2>6 DEF Watching, Watchers
<1>4. CASE \E w \in Watchers : QueryFails(w, v)
  <2>1. PICK w \in Watchers : QueryFails(w, v)
    BY <1>4
  <2>2. PICK p \in {"test", "done"} :
          at' = [at EXCEPT ![w][v] = p] /\ at[w][v] = "query"
    BY <2>1 DEF QueryFails
  <2>3. UNCHANGED <<answer, noted, lost, seenLost>>
    BY <2>1 DEF QueryFails
  <2>4. Threads' /\ ~Ended(w)
    BY <2>2, <1>u, ThreadMoves
  <2>5. WatchTypes'
    BY <2>2, <2>3, <1>u, OneThread DEF Watching, WatchTypes
  <2>6. ASSUME w = "checker" PROVE Seen'
    <3>1. at'["checker"][v] = p /\ \A u \in VMs \ {v} : at'["checker"][u] = at["checker"][u]
      BY <2>2, <2>6, OneThread DEF Watching
    <3> QED
      BY <3>1, <2>2, <2>3, <2>4, <2>6, <1>u, <1>f, <1>c DEF Watching, Seen, WatchTypes
  <2>7. ASSUME w = "report" PROVE Seen'
    BY <2>7, <2>4, <1>r DEF Seen
  <2> QED
    BY <2>4, <2>5, <2>6, <2>7 DEF Watching, Watchers, Seen
<1>5. CASE \E w \in Watchers : Note(w, v)
  <2>1. PICK w \in Watchers : Note(w, v)
    BY <1>5
  <2>2. PICK p \in {"test", "done"} :
          at' = [at EXCEPT ![w][v] = p] /\ at[w][v] = "note"
    BY <2>1 DEF Note
  <2>3. noted' = [noted EXCEPT ![v] = answer[w][v]] /\ UNCHANGED <<answer, lost, seenLost>>
    BY <2>1 DEF Note
  <2>4. Threads' /\ ~Ended(w)
    BY <2>2, <1>u, ThreadMoves
  <2>5. WatchTypes'
    BY <2>2, <2>3, <1>u, OneThread DEF Watching, WatchTypes
  <2>6. ASSUME w = "checker" PROVE Seen'
    <3>1. at'["checker"][v] = p /\ \A u \in VMs \ {v} : at'["checker"][u] = at["checker"][u]
      BY <2>2, <2>6, OneThread DEF Watching
    <3>2. noted'[v] = answer["checker"][v] /\ \A u \in VMs \ {v} : noted'[u] = noted[u]
      BY <2>3, <2>6 DEF Watching, WatchTypes
    <3> QED
      BY <3>1, <3>2, <2>2, <2>3, <2>4, <2>6, <1>u, <1>f, <1>c DEF Watching, Seen, WatchTypes
  <2>7. ASSUME w = "report" PROVE Seen'
    BY <2>7, <2>4, <1>r DEF Seen
  <2> QED
    BY <2>4, <2>5, <2>6, <2>7 DEF Watching, Watchers, Seen
<1> QED
  BY <1>1, <1>2, <1>3, <1>4, <1>5, <1>f DEF CheckerStep, ReportStep

(* The steps of the main thread that start, stop or ask the watchers. *)
LEMMA TouchingStep ==
    ASSUME Control, Watching,
           \/ Begin \/ EndCheckInterruptThread \/ RaiseIfInterrupted
           \/ Except \/ ReportRaises \/ Finally
           \/ BeginInterrupted \/ FinallyJoinInterrupted
    PROVE  Watching'
<1> USE DEF loop, collector, outcome
<1>f. "checker" \in Watchers /\ "report" \in Watchers
  BY DEF Watchers
<1>c. pc \in {"begin", "join"} => why = "none" /\ cut = {}
  BY DEF Control, Exceptions, InTry, Watching, Threads
<1>1. CASE Begin
  <2>1. /\ at' = [at EXCEPT !["checker"] = [v \in VMs |-> "test"]]
        /\ checker' = TRUE /\ phaseSet' = FALSE /\ pc = "begin" /\ pc' \in {"run", "body"}
        /\ UNCHANGED <<why, cut, answer, noted, lost, seenLost, ret>>
    BY <1>1 DEF Begin, Goto
  <2>2. /\ \A v \in VMs : at'["checker"][v] = "test" /\ at'["report"][v] = at["report"][v]
        /\ at' \in [Watchers -> [VMs -> {"none", "test", "query", "note", "done"}]]
    BY <2>1, <1>f DEF Watching, WatchTypes
  <2>3. WatchTypes'
    BY <2>1, <2>2 DEF Watching, WatchTypes
  <2>4. Threads'
    BY <2>1, <2>2, <1>c DEF Watching, Threads, InFinally, AtEnd, Ended
  <2>5. Seen'
    BY <2>1, <2>2 DEF Watching, Seen, InFinally
  <2> QED
    BY <2>3, <2>4, <2>5 DEF Watching
<1>2. CASE EndCheckInterruptThread
  <2>1. /\ phaseSet' = TRUE /\ pc = "end" /\ pc' = "join"
        /\ UNCHANGED <<why, cut, checker, at, answer, noted, lost, seenLost, ret>>
    BY <1>2 DEF EndCheckInterruptThread, Goto
  <2>2. WatchTypes'
    BY <2>1 DEF Watching, WatchTypes
  <2>3. Threads' /\ Seen'
    BY <2>1 DEF Watching, Threads, Seen, InFinally, AtEnd, Ended
  <2> QED
    BY <2>2, <2>3 DEF Watching
<1>3. CASE RaiseIfInterrupted
  <2>1. /\ pc = "join" /\ Ended("checker") /\ checker' \in BOOLEAN
        /\ UNCHANGED <<cut, phaseSet, at, answer, noted, lost, seenLost, ret>>
        /\ \/ pc' = "except" /\ why' # "none"
           \/ /\ pc' = "begin" /\ why' = why /\ checker' = FALSE
              /\ \A v \in VMs : ~noted[v]
    BY <1>3 DEF RaiseIfInterrupted, Raise
  <2>2. WatchTypes'
    BY <2>1 DEF Watching, WatchTypes
  <2>3. Ended("checker")' /\ Ended("report")'
    BY <2>1 DEF Watching, Threads, Ended
  <2>4. Threads'
    BY <2>1, <2>3, <1>c DEF Threads, InFinally, AtEnd
  <2>5. Seen'
    BY <2>1 DEF Watching, Seen, WatchTypes, Ended
  <2> QED
    BY <2>2, <2>4, <2>5 DEF Watching
<1>4. CASE Except
  <2>1. pc = "except" /\ UNCHANGED <<why, cut, checker, phaseSet, answer, noted, lost, seenLost, ret>>
    BY <1>4 DEF Except, Goto
  <2>2. why # "none"
    BY <2>1 DEF Control, Exceptions, InExcept
  <2>3. Ended("report")
    BY <2>1 DEF Watching, Threads
  <2>4. CASE flags.failedSamples
    <3>1. /\ pc' = "report"
          /\ at' = [at EXCEPT !["report"] = [v \in VMs |-> IF noted[v] THEN "done" ELSE "query"]]
      BY <1>4, <2>4 DEF Except, Goto
    <3>2. /\ \A v \in VMs : at'["checker"][v] = at["checker"][v]
          /\ at' \in [Watchers -> [VMs -> {"none", "test", "query", "note", "done"}]]
      BY <3>1, <1>f DEF Watching, WatchTypes
    <3> QED
      BY <3>1, <3>2, <2>1, <2>2 DEF Watching, WatchTypes, Threads, Seen, Ended, InFinally, AtEnd
  <2>5. CASE ~flags.failedSamples
    <3>1. pc' = "finally" /\ UNCHANGED at
      BY <1>4, <2>5 DEF Except, Goto
    <3> QED
      BY <3>1, <2>1, <2>2, <2>3 DEF Watching, WatchTypes, Threads, Seen, Ended, InFinally, AtEnd
  <2> QED
    BY <2>4, <2>5
<1>5. CASE ReportRaises
  <2>1. /\ pc = "report" /\ pc' = "finally" /\ why' # "none"
        /\ UNCHANGED <<cut, checker, phaseSet, answer, noted, lost, seenLost, ret>>
    BY <1>5 DEF ReportRaises, Raise
  <2>2. PICK v \in VMs : /\ \A u \in VMs \ {v} : at["report"][u] = "done"
                         /\ at' = [at EXCEPT !["report"][v] = "done"]
    BY <1>5 DEF ReportRaises
  <2>3. /\ at' \in [Watchers -> [VMs -> {"none", "test", "query", "note", "done"}]]
        /\ \A u \in VMs : at'["report"][u] = "done" /\ at'["checker"][u] = at["checker"][u]
    BY <2>2, <1>f DEF Watching, WatchTypes
  <2> QED
    BY <2>1, <2>3 DEF Watching, WatchTypes, Threads, Seen, Ended, InFinally, AtEnd
<1>6. CASE Finally
  <2>1. /\ pc = "finally" /\ phaseSet' = (phaseSet \/ checker)
        /\ UNCHANGED <<why, cut, checker, at, answer, noted, lost, seenLost, ret>>
        /\ pc' = IF checker THEN "finallyJoin" ELSE "delete"
    BY <1>6 DEF Finally, Goto
  <2>2. WatchTypes'
    BY <2>1 DEF Watching, WatchTypes
  <2>3. Threads' /\ Seen'
    BY <2>1 DEF Watching, WatchTypes, Threads, Seen, InFinally, AtEnd, Ended
  <2> QED
    BY <2>2, <2>3 DEF Watching
<1>7. CASE BeginInterrupted
  <2>1. /\ phaseSet' = FALSE /\ pc = "begin" /\ pc' = "except" /\ why' # "none"
        /\ cut' = cut \cup {"constructor"}
        /\ UNCHANGED <<checker, answer, noted, lost, seenLost, ret>>
    BY <1>7 DEF BeginInterrupted, Interrupt
  <2>2. PICK started \in SUBSET VMs :
          at' = [at EXCEPT !["checker"] = [v \in VMs |-> IF v \in started THEN "test" ELSE "none"]]
    BY <1>7 DEF BeginInterrupted
  <2>3. /\ \A v \in VMs : at'["report"][v] = at["report"][v]
        /\ at' \in [Watchers -> [VMs -> {"none", "test", "query", "note", "done"}]]
    BY <2>2, <1>f DEF Watching, WatchTypes
  <2>4. WatchTypes'
    BY <2>1, <2>3 DEF Watching, WatchTypes
  <2>5. Threads'
    BY <2>1, <2>3 DEF Watching, Threads, InFinally, AtEnd, Ended
  <2>6. Seen'
    BY <2>1 DEF Seen
  <2> QED
    BY <2>4, <2>5, <2>6 DEF Watching
<1>8. CASE FinallyJoinInterrupted
  <2>1. /\ pc = "finallyJoin" /\ pc' = "exit" /\ why' # "none"
        /\ cut' = cut \cup {"finallyJoin"}
        /\ UNCHANGED <<checker, phaseSet, at, answer, noted, lost, seenLost, ret>>
    BY <1>8 DEF FinallyJoinInterrupted, Interrupt, watch
  <2>2. WatchTypes'
    BY <2>1 DEF Watching, WatchTypes
  <2>3. Ended("report")' /\ (Ended("checker") => Ended("checker")')
    BY <2>1 DEF Watching, Threads, Ended
  <2>4. Threads'
    BY <2>1, <2>3 DEF Watching, Threads, InFinally, AtEnd
  <2>5. Seen'
    BY <2>1 DEF Seen
  <2> QED
    BY <2>2, <2>4, <2>5 DEF Watching
<1> QED
  BY <1>1, <1>2, <1>3, <1>4, <1>5, <1>6, <1>7, <1>8

LEMMA WatchingStep == ASSUME Control, Watching, Next PROVE Watching'
BY UntouchingStep, ThreadsStep, TouchingStep DEF Next, Main, MainRuns, MainInterrupted, Untouching

----------------------------------------------------------------------------
(* DoRunPhase.  Elsewhere nothing is counted, and no exception is taken for *)
(* that of a run.                                                           *)
LEMMA NotCounted ==
    ASSUME Control, Main, ~RunSucceeds, ~RunFails
    PROVE  UNCHANGED <<flags, results, failures>> /\ ((why' = "run") <=> (why = "run"))
<1> USE DEF main, watch, loop, collector, outcome
<1>1. ASSUME Begin \/ EndCheckInterruptThread \/ RaiseIfInterrupted
      PROVE  UNCHANGED <<flags, results, failures>> /\ ((why' = "run") <=> (why = "run"))
  BY <1>1 DEF Begin, EndCheckInterruptThread, RaiseIfInterrupted, Goto, Raise
<1>2. ASSUME Body
      PROVE  UNCHANGED <<flags, results, failures>> /\ ((why' = "run") <=> (why = "run"))
  BY <1>2 DEF Body, Goto, Raise, Control, StagesToDo
<1>3. ASSUME PublishOne \/ PublisherRaises \/ PublishEnds
      PROVE  UNCHANGED <<flags, results, failures>> /\ ((why' = "run") <=> (why = "run"))
  BY <1>3 DEF PublishOne, PublisherRaises, PublishEnds, Goto, Raise
<1>7. ASSUME MainInterrupted
      PROVE  UNCHANGED <<flags, results, failures>> /\ ((why' = "run") <=> (why = "run"))
  BY <1>7 DEF MainInterrupted, BeginInterrupted, JoinInterrupted, RunInterrupted,
     FinallyJoinInterrupted, Interrupt
<1>4. ASSUME AddSamples \/ PublishPeriod \/ IsRunStageFinished
      PROVE  UNCHANGED <<flags, results, failures>> /\ ((why' = "run") <=> (why = "run"))
  BY <1>4 DEF AddSamples, PublishPeriod, IsRunStageFinished, CallPublish, Goto,
     Raise
<1>5. ASSUME AddFinalSamples \/ Except \/ PublishFailedRunSample \/ ReportRaises
      PROVE  UNCHANGED <<flags, results, failures>> /\ ((why' = "run") <=> (why = "run"))
  BY <1>5 DEF AddFinalSamples, Except, PublishFailedRunSample, ReportRaises, CallPublish, Goto,
     Raise
<1>6. ASSUME Finally \/ FinallyJoin \/ FinallyDelete \/ Leave
      PROVE  UNCHANGED <<flags, results, failures>> /\ ((why' = "run") <=> (why = "run"))
  BY <1>6 DEF Finally, FinallyJoin, FinallyDelete, Leave, CallPublish, Goto, Raise
<1> QED
  BY <1>1, <1>2, <1>3, <1>4, <1>5, <1>6, <1>7 DEF Main, MainRuns

LEMMA CountingKept ==
    ASSUME Counting, UNCHANGED <<flags, results, failures>>, (why' = "run") <=> (why = "run")
    PROVE  Counting'
BY DEF Counting, GaveUpAt

(* The last run gave up when the failures at the end exceed the retries. *)
LEMMA GaveUpLast ==
    ASSUME Control, Counting
    PROVE  (failures > flags.retries) <=> (results # <<>> /\ GaveUpAt(Len(results)))
<1> DEFINE L == Len(results)
<1>1. /\ L \in Nat /\ flags.retries \in Nat /\ failures \in Nat /\ results \in Seq(BOOLEAN)
      /\ (results # <<>> <=> L > 0)
  BY FlagTypes DEF Counting, Control, ControlTypes
<1>c. /\ failures <= L /\ failures <= flags.retries + 1
      /\ \A j \in 1 .. L : j > L - failures => results[j] = FALSE
      /\ failures < L => results[L - failures] = TRUE
  BY DEF Counting
<1> HIDE DEF L
<1>2. ASSUME failures > flags.retries
      PROVE  results # <<>> /\ GaveUpAt(L)
  <2>1. L > flags.retries /\ failures = flags.retries + 1
    BY <1>1, <1>2, <1>c
  <2>2. \A j \in (L - flags.retries) .. L : j \in 1 .. L /\ j > L - failures
    BY <1>1, <2>1
  <2>3. \A j \in (L - flags.retries) .. L : ~results[j]
    BY <2>2, <1>c
  <2> QED
    BY <1>1, <2>1, <2>3 DEF GaveUpAt
<1>3. ASSUME ~(failures > flags.retries), results # <<>>
      PROVE  ~GaveUpAt(L)
  <2>1. CASE failures < L
    <3>1. L - failures \in (L - flags.retries) .. L /\ results[L - failures] = TRUE
      BY <1>1, <1>3, <2>1, <1>c
    <3> QED
      BY <3>1 DEF GaveUpAt
  <2>2. CASE ~(failures < L)
    BY <1>1, <1>3, <2>2 DEF GaveUpAt
  <2> QED
    BY <2>1, <2>2
<1> QED
  BY <1>1, <1>2, <1>3 DEF L

LEMMA CountingStep == ASSUME Control, Counting, Main PROVE Counting'
<1>1. CASE RunSucceeds \/ RunFails
  <2> DEFINE L == Len(results)
  <2>0. pc = "run" /\ flags' = flags
    BY <1>1 DEF RunSucceeds, RunFails
  <2>1. L \in Nat /\ flags.retries \in Nat /\ failures \in Nat /\ results \in Seq(BOOLEAN)
    BY FlagTypes DEF Counting, Control, ControlTypes
  <2>2. why = "none" /\ failures <= flags.retries
    BY <2>0, <2>1 DEF Control, Exceptions, InTry, InLoop, Counting
  <2>3. PICK ok \in BOOLEAN : /\ results' = Append(results, ok)
                              /\ failures' = IF ok THEN 0 ELSE failures + 1
                              /\ (why' = "run") <=> (failures' > flags.retries)
    <3>1. CASE RunSucceeds
      <4>1. results' = Append(results, TRUE) /\ failures' = 0 /\ why' = why /\ TRUE \in BOOLEAN
        BY <3>1 DEF RunSucceeds, Goto
      <4>2. (why' = "run") <=> (failures' > flags.retries)
        BY <4>1, <2>1, <2>2
      <4> QED
        BY <4>1, <4>2
    <3>2. CASE RunFails
      BY <3>2, <2>1, <2>2 DEF RunFails, Goto, Raise
    <3> QED
      BY <1>1, <3>1, <3>2
  <2>4. /\ results' \in Seq(BOOLEAN) /\ Len(results') = L + 1 /\ results'[L + 1] = ok
        /\ \A i \in 1 .. L : results'[i] = results[i]
    BY <2>1, <2>3
  <2>5. \A i \in 1 .. L : ~GaveUpAt(i)
    <3>1. \A i \in 1 .. L - 1 : ~GaveUpAt(i)
      BY DEF Counting
    <3>2. L # 0 => ~GaveUpAt(L)
      BY GaveUpLast, <2>1, <2>2
    <3>3. \A i \in 1 .. L : i \in 1 .. L - 1 \/ (i = L /\ L # 0)
      BY <2>1
    <3> QED
      BY <3>1, <3>2, <3>3
  <2>6. ASSUME NEW i \in 1 .. L PROVE ~GaveUpAt(i)'
    <3>1. i > flags.retries => \E j \in (i - flags.retries) .. i : results[j]
      BY <2>5 DEF GaveUpAt
    <3>2. \A j \in (i - flags.retries) .. i : i > flags.retries => j \in 1 .. L
      BY <2>1
    <3> QED
      BY <3>1, <3>2, <2>0, <2>1, <2>4 DEF GaveUpAt
  <2>7. failures' \in Nat /\ failures' <= L + 1 /\ failures' <= flags.retries + 1
    BY <2>1, <2>2, <2>3 DEF Counting
  <2>8. \A j \in 1 .. L + 1 : j > L + 1 - failures' => results'[j] = FALSE
    <3>1. CASE ok
      BY <3>1, <2>1, <2>3
    <3>2. CASE ~ok
      BY <3>2, <2>1, <2>3, <2>4 DEF Counting
    <3> QED
      BY <3>1, <3>2
  <2>9. failures' < L + 1 => results'[L + 1 - failures'] = TRUE
    <3>1. CASE ok
      BY <3>1, <2>1, <2>3, <2>4
    <3>2. CASE ~ok
      <4>1. failures < L => L - failures \in 1 .. L /\ results[L - failures] = TRUE
        BY <2>1 DEF Counting
      <4> QED
        BY <3>2, <4>1, <2>1, <2>3, <2>4
    <3> QED
      BY <3>1, <3>2
  <2>10. Len(results') - 1 = L
    BY <2>1, <2>4
  <2>11. \A i \in 1 .. Len(results') - 1 : ~GaveUpAt(i)'
    BY <2>6, <2>10
  <2>12. /\ failures' <= Len(results') /\ failures' <= flags'.retries + 1
         /\ \A j \in 1 .. Len(results') : j > Len(results') - failures' => results'[j] = FALSE
         /\ failures' < Len(results') => results'[Len(results') - failures'] = TRUE
         /\ (why' = "run") <=> (failures' > flags'.retries)
    BY <2>0, <2>3, <2>4, <2>7, <2>8, <2>9
  <2> QED
    BY <2>4, <2>7, <2>11, <2>12 DEF Counting
<1>2. CASE ~RunSucceeds /\ ~RunFails
  BY <1>2, NotCounted, CountingKept
<1> QED
  BY <1>1, <1>2

----------------------------------------------------------------------------
(* The samples.  What is pending is what the sequence holds; a sample is    *)
(* added at its end.                                                        *)
LEMMA PendingIsRange == ASSUME SampleTypes PROVE Range(pending) = Pending
BY DEF SampleTypes, Range, Pending

LEMMA NoneIsPending == ASSUME pending = <<>> PROVE Pending = {}
BY DEF Pending

LEMMA Appended ==
    ASSUME SampleTypes, NEW s, pending' = Append(pending, s)
    PROVE  Pending' = Pending \cup {s}
<1>1. /\ Len(pending') = Len(pending) + 1 /\ pending'[Len(pending) + 1] = s
      /\ Len(pending) \in Nat /\ \A i \in 1 .. Len(pending) : pending'[i] = pending[i]
  BY DEF SampleTypes
<1>2. ASSUME NEW x \in Pending' PROVE x \in Pending \cup {s}
  <2>1. PICK i \in 1 .. Len(pending') : x = pending'[i]
    BY <1>2 DEF Pending
  <2> QED
    BY <2>1, <1>1 DEF Pending
<1>3. ASSUME NEW x \in Pending PROVE x \in Pending'
  <2>1. PICK i \in 1 .. Len(pending) : x = pending[i]
    BY <1>3 DEF Pending
  <2>2. i \in 1 .. Len(pending') /\ x = pending'[i]
    BY <2>1, <1>1
  <2> QED
    BY <2>2 DEF Pending
<1>4. s \in Pending'
  BY <1>1 DEF Pending
<1> QED
  BY <1>2, <1>3, <1>4

(* Between publications, samples may be added that were not there. *)
LEMMA AddStep ==
    ASSUME SampleTypes, Delivered, NEW s \in Samples \ added, Add(s),
           UNCHANGED <<published, delivered, failed>>, failed \in Nat,
           \A p \in 1 .. Publishers : ~Past(p) /\ ~Past(p)'
    PROVE  SampleTypes' /\ Delivered'
<1>1. Pending' = Pending \cup {s} /\ added' = added \cup {s}
  BY Appended DEF Add
<1>2. SampleTypes'
  <2>1. added' \subseteq Samples /\ added \subseteq added' /\ s \in added'
    BY <1>1 DEF SampleTypes
  <2>2. pending \in Seq(added') /\ published \in Seq(added')
    BY <2>1 DEF SampleTypes
  <2> QED
    BY <2>1, <2>2 DEF SampleTypes, Add
<1>3. Pending \subseteq added
  BY DEF SampleTypes, Pending
<1>4. ASSUME NEW p \in 1 .. Publishers, NEW t \in Samples
      PROVE  /\ t \notin added' => delivered'[p][t] = 0
             /\ t \in added' \ Pending' => delivered'[p][t] > 0
             /\ t \in Pending' /\ Past(p)' => delivered'[p][t] > 0
             /\ t \in Pending' => delivered'[p][t] <= failed' + IF Past(p)' THEN 1 ELSE 0
             /\ delivered'[p][t] <= failed' + 1
  <2>1. /\ t \notin added => delivered[p][t] = 0
        /\ t \in added \ Pending => delivered[p][t] > 0
        /\ t \in Pending => delivered[p][t] <= failed
        /\ delivered[p][t] <= failed + 1
    BY DEF Delivered
  <2> QED
    BY <2>1, <1>1, <1>3
<1> QED
  BY <1>2, <1>4 DEF Delivered

(* Elsewhere nothing happens to them. *)
LEMMA SamplesKept ==
    ASSUME SampleTypes, Delivered, UNCHANGED <<pending, added, published, delivered, failed>>,
           \A p \in 1 .. Publishers : ~Past(p) /\ ~Past(p)'
    PROVE  SampleTypes' /\ Delivered'
<1>1. SampleTypes'
  BY DEF SampleTypes
<1>2. Pending' = Pending
  BY DEF Pending
<1> QED
  BY <1>1, <1>2 DEF Delivered

(* A publication, one publisher after the other. *)
LEMMA DeliverEffect ==
    ASSUME SampleTypes, NEW p \in 1 .. Publishers, Deliver(p)
    PROVE  /\ delivered' \in [1 .. Publishers -> [Samples -> Nat]]
           /\ \A t \in Samples :
                delivered'[p][t] = delivered[p][t] + IF t \in Pending THEN 1 ELSE 0
           /\ \A q \in 1 .. Publishers \ {p}, t \in Samples : delivered'[q][t] = delivered[q][t]
<1>1. delivered' = [delivered EXCEPT ![p] =
                      [t \in Samples |-> delivered[p][t] + IF t \in Pending THEN 1 ELSE 0]]
  BY PendingIsRange DEF Deliver, SampleTypes
<1>2. delivered \in [1 .. Publishers -> [Samples -> Nat]]
  BY DEF SampleTypes
<1>3. [t \in Samples |-> delivered[p][t] + IF t \in Pending THEN 1 ELSE 0] \in [Samples -> Nat]
  BY <1>2
<1> QED
  BY <1>1, <1>2, <1>3

LEMMA PublishingStep ==
    ASSUME Control, SampleTypes, Delivered, PublishOne \/ PublisherRaises \/ PublishEnds
    PROVE  SampleTypes' /\ Delivered'
<1> USE DEF main, loop, watch, outcome
<1>t. publisher \in 1 .. (Publishers + 1) /\ failed \in Nat /\ pc = "publish"
  BY DEF Control, ControlTypes, PublishOne, PublisherRaises, PublishEnds
<1>d. ASSUME NEW p \in 1 .. Publishers, NEW t \in Samples
      PROVE  /\ delivered[p][t] \in Nat
             /\ t \notin added => delivered[p][t] = 0
             /\ t \in added \ Pending => delivered[p][t] > 0
             /\ t \in Pending /\ p < publisher => delivered[p][t] > 0
             /\ t \in Pending /\ ~(p < publisher) => delivered[p][t] <= failed
             /\ delivered[p][t] <= failed + 1
  BY <1>t DEF Delivered, Past, SampleTypes
<1>p. Pending \subseteq added
  BY DEF SampleTypes, Pending
<1>1. CASE PublishOne
  <2>1. /\ publisher \in 1 .. Publishers /\ Deliver(publisher) /\ publisher' = publisher + 1
        /\ UNCHANGED <<pc, pending, published, added, failed>>
    BY <1>1, <1>t DEF PublishOne
  <2>2. /\ delivered' \in [1 .. Publishers -> [Samples -> Nat]]
        /\ \A t \in Samples : delivered'[publisher][t]
                                = delivered[publisher][t] + IF t \in Pending THEN 1 ELSE 0
        /\ \A q \in 1 .. Publishers \ {publisher}, t \in Samples :
             delivered'[q][t] = delivered[q][t]
    BY <2>1, DeliverEffect
  <2>3. SampleTypes'
    BY <2>1, <2>2 DEF SampleTypes
  <2>4. Pending' = Pending /\ \A p \in 1 .. Publishers : Past(p)' <=> p < publisher + 1
    BY <2>1, <1>t DEF Pending, Past
  <2>5. ASSUME NEW p \in 1 .. Publishers, NEW t \in Samples
        PROVE  /\ t \notin added => delivered'[p][t] = 0
               /\ t \in added \ Pending => delivered'[p][t] > 0
               /\ t \in Pending /\ p < publisher + 1 => delivered'[p][t] > 0
               /\ t \in Pending => delivered'[p][t] <= failed + IF p < publisher + 1 THEN 1 ELSE 0
               /\ delivered'[p][t] <= failed + 1
    <3>1. CASE p = publisher
      <4>1. delivered'[p][t] = delivered[p][t] + (IF t \in Pending THEN 1 ELSE 0)
        BY <3>1, <2>2
      <4>2. p < publisher + 1 /\ ~(p < publisher)
        BY <3>1, <1>t
      <4>3. CASE t \in Pending
        BY <4>1, <4>2, <4>3, <1>d, <1>t, <1>p
      <4>4. CASE t \notin Pending
        BY <4>1, <4>2, <4>4, <1>d, <1>t
      <4> QED
        BY <4>3, <4>4
    <3>2. CASE p # publisher
      <4>1. delivered'[p][t] = delivered[p][t] /\ (p < publisher + 1 <=> p < publisher)
        BY <3>2, <2>2, <1>t
      <4> QED
        BY <4>1, <1>d, <1>t
    <3> QED
      BY <3>1, <3>2
  <2> QED
    BY <2>1, <2>3, <2>4, <2>5 DEF Delivered
<1>2. CASE PublisherRaises
  <2>1. /\ publisher \in 1 .. Publishers
        /\ Deliver(publisher) \/ UNCHANGED delivered
        /\ failed' = failed + 1 /\ pc' # "publish" /\ UNCHANGED <<pending, published, added>>
    BY <1>2, <1>t DEF PublisherRaises, WhereItRaises, Raise
  <2>2. /\ delivered' \in [1 .. Publishers -> [Samples -> Nat]]
        /\ \A p \in 1 .. Publishers, t \in Samples :
             \/ delivered'[p][t] = delivered[p][t]
             \/ /\ t \in Pending /\ p = publisher
                /\ delivered'[p][t] = delivered[p][t] + 1
    <3>1. CASE Deliver(publisher)
      BY <3>1, <2>1, <1>d, DeliverEffect
    <3>2. CASE UNCHANGED delivered
      BY <3>2 DEF SampleTypes
    <3> QED
      BY <2>1, <3>1, <3>2
  <2>3. SampleTypes'
    BY <2>1, <2>2 DEF SampleTypes
  <2>4. Pending' = Pending /\ \A p \in 1 .. Publishers : ~Past(p)'
    BY <2>1 DEF Pending, Past
  <2>5. ASSUME NEW p \in 1 .. Publishers, NEW t \in Samples
        PROVE  /\ t \notin added => delivered'[p][t] = 0
               /\ t \in added \ Pending => delivered'[p][t] > 0
               /\ delivered'[p][t] <= failed + 1
    <3>1. CASE delivered'[p][t] = delivered[p][t]
      BY <3>1, <1>d
    <3>2. CASE /\ t \in Pending /\ p = publisher
               /\ delivered'[p][t] = delivered[p][t] + 1
      BY <3>2, <1>d, <1>t, <1>p
    <3> QED
      BY <2>2, <3>1, <3>2
  <2>6. ASSUME NEW p \in 1 .. Publishers, NEW t \in Samples
        PROVE  delivered'[p][t] <= failed' + (IF Past(p)' THEN 1 ELSE 0)
    <3>1. delivered'[p][t] \in Nat /\ ~Past(p)'
      BY <2>2, <2>4
    <3> QED
      BY <3>1, <2>1, <2>5, <1>t
  <2>7. ASSUME NEW p \in 1 .. Publishers, NEW t \in Samples
        PROVE  delivered'[p][t] <= failed' + 1
    <3>1. delivered'[p][t] \in Nat
      BY <2>2
    <3> QED
      BY <3>1, <2>1, <2>5, <1>t
  <2> QED
    BY <2>1, <2>3, <2>4, <2>5, <2>6, <2>7 DEF Delivered
<1>3. CASE PublishEnds
  <2>1. /\ pending = <<>> \/ publisher > Publishers
        /\ published' = published \o pending /\ pending' = <<>>
        /\ pc' # "publish" /\ UNCHANGED <<added, delivered, failed>>
    BY <1>3, <1>t DEF PublishEnds, Goto, Control, ControlTypes
  <2>2. SampleTypes'
    BY <2>1 DEF SampleTypes
  <2>3. Pending' = {} /\ \A p \in 1 .. Publishers : ~Past(p)'
    BY <2>1 DEF Pending, Past
  <2>4. ASSUME NEW p \in 1 .. Publishers, NEW t \in added PROVE delivered[p][t] > 0
    BY <2>1, <2>4, <1>d, <1>t, NoneIsPending DEF SampleTypes
  <2> QED
    BY <2>1, <2>2, <2>3, <2>4, <1>d DEF Delivered
<1> QED
  BY <1>1, <1>2, <1>3

(* The other steps that have to do with samples. *)
LEMMA OneSample ==
    ASSUME Control, Fresh, AddSamples \/ AddFinalSamples \/ PublishFailedRunSample
    PROVE  /\ \A p \in 1 .. Publishers : ~Past(p) /\ ~Past(p)'
           /\ UNCHANGED <<published, delivered, failed, runNumber>>
           /\ UNCHANGED <<pending, added>> \/ \E s \in Samples \ added : Add(s)
<1> USE DEF main, watch, loop, outcome, Past
<1>1. CASE AddSamples
  <2>1. /\ pc = "extras" /\ pc' # "publish" /\ UNCHANGED <<published, delivered, failed, runNumber>>
        /\ UNCHANGED <<pending, added>> \/ Add(<<"run", runNumber>>)
    BY <1>1 DEF AddSamples, Goto, Raise
  <2>2. <<"run", runNumber>> \in Samples \ added
    BY <2>1 DEF Fresh, Samples, Control, RunNumbers
  <2> QED
    BY <2>1, <2>2
<1>2. CASE AddFinalSamples
  <2>1. /\ pc = "begin" /\ pc' # "publish" /\ UNCHANGED <<published, delivered, failed, runNumber>>
        /\ UNCHANGED <<pending, added>> \/ Add(<<"timing", 0>>)
    BY <1>2 DEF AddFinalSamples, Goto, Raise
  <2>2. <<"timing", 0>> \in Samples \ added
    BY <2>1 DEF Fresh, Samples, InFinally
  <2> QED
    BY <2>1, <2>2
<1>3. CASE PublishFailedRunSample
  <2>1. /\ pc = "report" /\ publisher' = 1 /\ UNCHANGED <<published, delivered, failed, runNumber>>
        /\ Add(<<"failed", 0>>)
    BY <1>3 DEF PublishFailedRunSample, CallPublish
  <2>2. <<"failed", 0>> \in Samples \ added
    BY <2>1 DEF Fresh, Samples, InFinally
  <2> QED
    BY <2>1, <2>2
<1> QED
  BY <1>1, <1>2, <1>3

LEMMA NoSample ==
    ASSUME Control, Main, ~(PublishOne \/ PublisherRaises \/ PublishEnds),
           ~(AddSamples \/ AddFinalSamples \/ PublishFailedRunSample)
    PROVE  /\ \A p \in 1 .. Publishers : ~Past(p) /\ ~Past(p)'
           /\ UNCHANGED <<pending, added, published, delivered, failed>>
<1> DEFINE Quiet == /\ \A p \in 1 .. Publishers : ~Past(p) /\ ~Past(p)'
                    /\ UNCHANGED <<pending, added, published, delivered, failed>>
<1> USE DEF collector, main, Past
<1>1. ASSUME Begin \/ Body \/ EndCheckInterruptThread \/ RaiseIfInterrupted PROVE Quiet
  BY <1>1 DEF Begin, Body, EndCheckInterruptThread, RaiseIfInterrupted, Goto, Raise
<1>5. ASSUME MainInterrupted PROVE Quiet
  BY <1>5 DEF MainInterrupted, BeginInterrupted, JoinInterrupted, RunInterrupted,
     FinallyJoinInterrupted, Interrupt
<1>2. ASSUME RunSucceeds \/ RunFails \/ IsRunStageFinished PROVE Quiet
  BY <1>2 DEF RunSucceeds, RunFails, IsRunStageFinished, Goto, Raise
<1>3. ASSUME PublishPeriod \/ FinallyDelete PROVE Quiet
  BY <1>3 DEF PublishPeriod, FinallyDelete, CallPublish, Goto, Raise
<1>4. ASSUME Except \/ ReportRaises \/ Finally \/ FinallyJoin \/ Leave PROVE Quiet
  BY <1>4 DEF Except, ReportRaises, Finally, FinallyJoin, Leave, Goto, Raise
<1> QED
  BY <1>1, <1>2, <1>3, <1>4, <1>5 DEF Main, MainRuns

(* Samples are fresh.  The places that a step leads to. *)
Onwards ==
    /\ runNumber' >= runNumber
    /\ pc' \in {"begin", "body", "run", "extras", "end", "join"} =>
         pc \in {"begin", "body", "run", "extras", "end", "join"} \/ runNumber' > runNumber
    /\ InFinally \/ pc = "exit" => InFinally' \/ pc' = "exit"
    /\ pc = "publish" /\ ret = "finally" =>
         InFinally' \/ pc' = "exit" \/ (pc' = "publish" /\ ret' = "finally")

LEMMA OnwardsStep == ASSUME Control, Main PROVE Onwards
<1> USE DEF Onwards, InFinally, main, watch, loop, collector, outcome
<1>t. runNumber \in Nat
  BY DEF Control, RunNumbers
<1>1. CASE Begin \/ Body \/ EndCheckInterruptThread
  BY <1>1, <1>t DEF Begin, Body, EndCheckInterruptThread, Goto, Raise
<1>2. CASE RaiseIfInterrupted
  BY <1>2, <1>t DEF RaiseIfInterrupted, Raise
<1>3. CASE PublishOne \/ PublisherRaises
  BY <1>3, <1>t DEF PublishOne, PublisherRaises, WhereItRaises, Raise, Control, ControlTypes
<1>4. CASE PublishEnds
  BY <1>4, <1>t DEF PublishEnds, Goto, Control, ControlTypes
<1>10. CASE MainInterrupted
  BY <1>10, <1>t DEF MainInterrupted, BeginInterrupted, JoinInterrupted, RunInterrupted,
     FinallyJoinInterrupted, Interrupt
<1>5. CASE RunSucceeds \/ RunFails
  <2>1. pc = "run" /\ pc' \in {"extras", "except"} /\ UNCHANGED runNumber
    BY <1>5 DEF RunSucceeds, RunFails, Goto, Raise
  <2> QED
    BY <2>1, <1>t
<1>6. CASE IsRunStageFinished
  BY <1>6, <1>t DEF IsRunStageFinished, Goto
<1>7. CASE AddSamples \/ PublishPeriod
  BY <1>7, <1>t DEF AddSamples, PublishPeriod, CallPublish, Goto, Raise
<1>8. CASE AddFinalSamples \/ Except \/ PublishFailedRunSample \/ ReportRaises
  BY <1>8, <1>t DEF AddFinalSamples, Except, PublishFailedRunSample, ReportRaises, CallPublish,
     Goto, Raise
<1>9. CASE Finally \/ FinallyJoin \/ FinallyDelete \/ Leave
  BY <1>9, <1>t DEF Finally, FinallyJoin, FinallyDelete, Leave, CallPublish, Goto, Raise
<1> QED
  BY <1>1, <1>2, <1>3, <1>4, <1>5, <1>6, <1>7, <1>8, <1>9, <1>10 DEF Main, MainRuns

LEMMA FreshStep == ASSUME Control, Fresh, Main, RunNumbers' PROVE Fresh'
<1>t. runNumber \in Nat /\ runNumber' \in Nat
  BY DEF Control, RunNumbers
<1>o. Onwards
  BY OnwardsStep
<1>1. CASE UNCHANGED added
  <2>1. ASSUME NEW n \in 0 .. MaxRuns, <<"run", n>> \in added
        PROVE  /\ n <= runNumber'
               /\ pc' \in {"begin", "body", "run", "extras", "end", "join"} => n < runNumber'
    BY <2>1, <1>t, <1>o DEF Fresh, Onwards
  <2> QED
    BY <2>1, <1>1, <1>o DEF Fresh, Onwards
<1>2. CASE AddSamples /\ added' = added \cup {<<"run", runNumber>>}
  <2>1. pc = "extras" /\ UNCHANGED runNumber
    BY <1>2 DEF AddSamples, loop
  <2>2. pc' = "period" \/ UNCHANGED added
    BY <1>2 DEF AddSamples, Goto
  <2>3. CASE pc' = "period"
    <3>1. <<"timing", 0>> \notin added' /\ <<"failed", 0>> \notin added'
      BY <1>2, <2>1 DEF Fresh, InFinally
    <3>2. \A n \in 0 .. MaxRuns : <<"run", n>> \in added' => n <= runNumber
      BY <1>2, <1>t DEF Fresh
    <3> QED
      BY <3>1, <3>2, <2>1, <2>3 DEF Fresh
  <2> QED
    BY <2>2, <2>3, <1>1
<1>3. CASE AddFinalSamples /\ added' = added \cup {<<"timing", 0>>}
  <2>1. pc = "begin" /\ UNCHANGED runNumber
    BY <1>3 DEF AddFinalSamples, loop
  <2>2. pc' = "finally" \/ UNCHANGED added
    BY <1>3 DEF AddFinalSamples, Goto
  <2>3. CASE pc' = "finally"
    BY <1>3, <1>t, <2>1, <2>3 DEF Fresh, InFinally
  <2> QED
    BY <2>2, <2>3, <1>1
<1>4. CASE PublishFailedRunSample
  <2>1. /\ pc = "report" /\ pc' = "publish" /\ ret' = "finally" /\ UNCHANGED runNumber
        /\ added' = added \cup {<<"failed", 0>>}
    BY <1>4 DEF PublishFailedRunSample, CallPublish, Goto, Add, loop
  <2>2. <<"timing", 0>> \notin added
    BY <2>1 DEF Fresh, InFinally
  <2> QED
    BY <2>1, <2>2, <1>t DEF Fresh
<1>5. \/ UNCHANGED added
      \/ AddSamples /\ added' = added \cup {<<"run", runNumber>>}
      \/ AddFinalSamples /\ added' = added \cup {<<"timing", 0>>}
      \/ PublishFailedRunSample
  <2>1. CASE PublishOne \/ PublisherRaises \/ PublishEnds
    BY <2>1 DEF PublishOne, PublisherRaises, PublishEnds
  <2>2. CASE AddSamples \/ AddFinalSamples \/ PublishFailedRunSample
    BY <2>2 DEF AddSamples, AddFinalSamples, Add
  <2> QED
    BY <2>1, <2>2, NoSample
<1> QED
  BY <1>1, <1>2, <1>3, <1>4, <1>5

LEMMA CollectingStep == ASSUME Control, Collecting, Main, RunNumbers' PROVE Collecting'
<1>1. Fresh'
  BY FreshStep DEF Collecting
<1>2. SampleTypes' /\ Delivered'
  <2>1. CASE PublishOne \/ PublisherRaises \/ PublishEnds
    BY <2>1, PublishingStep DEF Collecting
  <2>2. CASE AddSamples \/ AddFinalSamples \/ PublishFailedRunSample
    <3>1. /\ \A p \in 1 .. Publishers : ~Past(p) /\ ~Past(p)'
          /\ UNCHANGED <<published, delivered, failed>>
          /\ UNCHANGED <<pending, added>> \/ \E s \in Samples \ added : Add(s)
          /\ failed \in Nat
      BY <2>2, OneSample DEF Collecting, Control, ControlTypes
    <3>2. CASE UNCHANGED <<pending, added>>
      BY <3>1, <3>2, SamplesKept DEF Collecting
    <3>3. CASE \E s \in Samples \ added : Add(s)
      BY <3>1, <3>3, AddStep DEF Collecting
    <3> QED
      BY <3>1, <3>2, <3>3
  <2>3. CASE ~(PublishOne \/ PublisherRaises \/ PublishEnds)
             /\ ~(AddSamples \/ AddFinalSamples \/ PublishFailedRunSample)
    BY <2>3, NoSample, SamplesKept DEF Collecting
  <2> QED
    BY <2>1, <2>2, <2>3
<1> QED
  BY <1>1, <1>2 DEF Collecting

LEMMA CollectingKept ==
    ASSUME Collecting, UNCHANGED <<pc, ret, runNumber, pending, published, added, delivered,
                                   publisher, failed>>
    PROVE  Collecting'
<1>1. SampleTypes' /\ Fresh'
  BY DEF Collecting, SampleTypes, Fresh, InFinally
<1>2. Pending' = Pending /\ \A p \in 1 .. Publishers : Past(p)' <=> Past(p)
  BY DEF Pending, Past
<1>3. Delivered'
  BY <1>2 DEF Collecting, Delivered
<1> QED
  BY <1>1, <1>3 DEF Collecting

----------------------------------------------------------------------------
(* The whole invariant. *)
LEMMA Initially == Init => IInv
<1> SUFFICES ASSUME Init PROVE IInv
  OBVIOUS
<1> USE DEF Init
<1>f. /\ flags.stages \in Seq(Stages) /\ flags.iterations \in 0 .. MaxRuns
      /\ flags.retries \in Nat /\ flags.timed \in BOOLEAN
      /\ \A i, j \in 1 .. Len(flags.stages) : flags.stages[i] = flags.stages[j] => i = j
  BY FlagTypes
<1>1. ControlTypes
  BY <1>f DEF ControlTypes, Places, Causes
<1>2. Exceptions
  BY DEF Exceptions, InTry, InLoop, InExcept, InFinally
<1>3. StagesToDo
  BY <1>f DEF StagesToDo, InLoop
<1>4. RunNumbers
  BY <1>f DEF RunNumbers, InLoop
<1>5. WatchTypes
  BY DEF WatchTypes
<1>6. Threads /\ Seen
  BY DEF Threads, Seen, Ended, InFinally, AtEnd, Watchers
<1>7. Counting
  BY <1>f DEF Counting
<1>8. SampleTypes
  BY DEF SampleTypes
<1>9. Fresh
  BY DEF Fresh
<1>10. Delivered
  <2>1. Pending = {} /\ added = {}
    BY NoneIsPending
  <2>2. \A p \in 1 .. Publishers, s \in Samples : delivered[p][s] = 0
    OBVIOUS
  <2> QED
    BY <2>1, <2>2 DEF Delivered
<1> QED
  BY <1>1, <1>2, <1>3, <1>4, <1>5, <1>6, <1>7, <1>8, <1>9, <1>10
     DEF IInv, Control, Watching, Collecting

LEMMA Inductive == IInv /\ [Next]_vars => IInv'
<1> SUFFICES ASSUME IInv, [Next]_vars PROVE IInv'
  OBVIOUS
<1>i. Control /\ Watching /\ Counting /\ Collecting
  BY DEF IInv
<1>1. CASE Main
  <2>1. Control'
    BY <1>1, <1>i, ControlTypesStep, ExceptionsStep, StagesStep, RunNumbersStep DEF Control
  <2>2. Watching'
    BY <1>1, <1>i, WatchingStep DEF Next
  <2>3. Counting'
    BY <1>1, <1>i, CountingStep
  <2>4. Collecting'
    BY <1>1, <1>i, <2>1, CollectingStep DEF Control
  <2> QED
    BY <2>1, <2>2, <2>3, <2>4 DEF IInv
<1>2. CASE \E v \in VMs : Preempt(v) \/ CheckerStep(v) \/ ReportStep(v)
  <2>1. UNCHANGED <<flags, pc, todo, why, runNumber, failures, results, pending, published,
                    added, delivered, publisher, ret, failed, substatus, status>>
    BY <1>2 DEF Preempt, CheckerStep, ReportStep, TestPhase, Query, QueryFails, Note, main,
       loop, collector, outcome
  <2>2. Control'
    BY <2>1, <1>i, ControlKept
  <2>3. Watching'
    BY <1>2, <1>i, WatchingStep DEF Next
  <2>4. Counting'
    BY <2>1, <1>i, CountingKept
  <2>5. Collecting'
    BY <2>1, <1>i, CollectingKept
  <2> QED
    BY <2>2, <2>3, <2>4, <2>5 DEF IInv
<1>3. CASE UNCHANGED vars
  <2>1. UNCHANGED <<flags, pc, todo, why, runNumber, failures, results, pending, published,
                    added, delivered, publisher, ret, failed, substatus, status>>
    BY <1>3 DEF vars, main, loop, collector, outcome
  <2>2. UNCHANGED <<cut, checker, phaseSet, at, answer, noted, lost, seenLost>>
    BY <1>3 DEF vars, watch, main
  <2>3. Control'
    BY <2>1, <1>i, ControlKept
  <2>4. WatchTypes'
    BY <2>2, <1>i DEF Watching, WatchTypes
  <2>5. Threads' /\ Seen'
    BY <2>1, <2>2, <1>i DEF Watching, Threads, Seen, Ended, InFinally, AtEnd
  <2>6. Counting'
    BY <2>1, <1>i, CountingKept
  <2>7. Collecting'
    BY <2>1, <1>i, CollectingKept
  <2> QED
    BY <2>3, <2>4, <2>5, <2>6, <2>7 DEF IInv, Watching
<1> QED
  BY <1>1, <1>2, <1>3 DEF Next

LEMMA Always == Spec => []IInv
BY Initially, Inductive, PTL DEF Spec

----------------------------------------------------------------------------
(* The state of RunBenchmark's watched stages is always what the code can   *)
(* hold: run_number within the flags, at most three failed publications.    *)
THEOREM RunPhaseTypes == Spec => []TypeOK
<1>1. ASSUME IInv PROVE TypeOK
  <2>1. Control /\ WatchTypes /\ Counting /\ SampleTypes
    BY <1>1 DEF IInv, Watching, Collecting
  <2>2. flags.timed \in BOOLEAN /\ flags.retries \in Nat
    BY <2>1, FlagTypes DEF Control, ControlTypes
  <2>3. pc \in {"body", "run", "extras", "period", "loop", "end", "join"} => todo # <<>>
    BY <2>1 DEF Control, StagesToDo, InLoop
  <2>4. /\ runNumber \in 0 .. MaxRuns /\ failures \in 0 .. (flags.retries + 1)
        /\ ~flags.timed => runNumber <= 1 \/ runNumber <= flags.iterations
    BY <2>1, <2>2 DEF Control, RunNumbers, Counting
  <2>5. failed \in 0 .. 3
    BY <2>1 DEF Control, ControlTypes, Exceptions
  <2> QED
    BY <2>1, <2>3, <2>4, <2>5
       DEF TypeOK, Control, ControlTypes, Places, Causes, Stages, WatchTypes, Counting, SampleTypes
<1> QED
  BY <1>1, Always, PTL

(* A checker thread that was told that its VM is gone makes the run fail:   *)
(* its write to spot_early_termination is never lost to the end of a stage. *)
THEOREM SeenInterruptionFails == Spec => []InterruptionFailsRun
<1>1. ASSUME IInv PROVE InterruptionFailsRun
  BY <1>1 DEF IInv, Control, Exceptions, Watching, Seen, InterruptionFailsRun
<1> QED
  BY <1>1, Always, PTL

(* No checker thread outlives the stage it was made for, nor RunBenchmark,  *)
(* unless a KeyboardInterrupt came in the InterruptChecker's constructor or *)
(* in the join of the finally clause; and then it has been told to end.     *)
THEOREM ThreadsAreJoined == Spec => []NoThreadOutlives
<1>1. ASSUME IInv PROVE NoThreadOutlives
  <2>1. Threads /\ checker \in BOOLEAN /\ phaseSet \in BOOLEAN
    BY <1>1 DEF IInv, Watching, WatchTypes
  <2>2. (pc = "begin" => cut = {}) /\ ("constructor" \in cut => checker = FALSE)
    BY <1>1 DEF IInv, Control, Exceptions, InTry, Watching, Threads
  <2>3. CASE pc = "begin"
    BY <2>1, <2>2, <2>3 DEF Threads, NoThreadOutlives
  <2>4. CASE pc \in {"delete", "leave", "exit"}
    BY <2>1, <2>2, <2>4 DEF Threads, AtEnd, NoThreadOutlives
  <2> QED
    BY <2>3, <2>4 DEF NoThreadOutlives
<1> QED
  BY <1>1, Always, PTL

(* PublishSamples loses no sample, whichever publisher raises, and repeats  *)
(* one only after a failure.                                                *)
THEOREM NoSampleIsLost == Spec => []SamplesDelivered
<1>1. ASSUME IInv PROVE SamplesDelivered
  <2>1. Range(pending) = Pending /\ added \subseteq Samples /\ Delivered
    BY <1>1, PendingIsRange DEF IInv, Collecting, SampleTypes
  <2> QED
    BY <2>1 DEF Delivered, SamplesDelivered
<1> QED
  BY <1>1, Always, PTL

(* DoRunPhase raises with the first run_stage_retries + 1 failures in a row *)
(* and in no other case.                                                    *)
THEOREM RetriesAreCounted == Spec => []RetryBudget
<1>1. ASSUME IInv PROVE RetryBudget
  BY <1>1, GaveUpLast DEF IInv, Counting, RetryBudget
<1> QED
  BY <1>1, Always, PTL
=============================================================================
