------------------------- MODULE RunBenchmarkProofs -------------------------
(***************************************************************************)
(* What RunBenchmark promises about the pickle and about teardown, for any *)
(* values of --run_stage, any number of invocations and any number of      *)
(* kills; and what the loop around it promises, whose model has variables  *)
(* of its own: RunBenchmarks with its tasks and their retries, for any     *)
(* number of benchmarks, processes, zones and retries.                     *)
(***************************************************************************)
EXTENDS RunBenchmark, RunBenchmarks, FiniteSetTheorems, TLAPS

Held(r) == spec[r].created /\ ~spec[r].deleted

(* Which call a Pickle or a Delete belongs to. *)
Contexts ==
    /\ pc \in {"pickle", "dump"} => ctx \in {"before", "after", "final"}
    /\ pc = "delete" => ctx \in {"phase", "except", "finally"}

(* Up to Provision nothing is created, and Provision itself deletes         *)
(* nothing; a spec is provisioned where the stage was asked for.            *)
Fresh ==
    /\ pc = "start" \/ (pc = "provision" /\ "provision" \in stages)
          \/ (pc \in {"pickle", "dump"} /\ ctx = "before")
       => spec = NewSpec
    /\ pc = "create" => \A r \in Res : ~spec[r].deleted
    /\ pc \in {"start", "create"} \/ (pc \in {"pickle", "dump"} /\ ctx = "before")
       => "provision" \in stages

(* The object knows of what is in the cloud, unless no object was told. *)
ObjectKnows ==
    pc # "idle" => \A r \in Res : cloud[r] => Held(r) \/ r \in unknown

(* So does the pickle, except while Provision runs. *)
PickleKnows ==
    disk.file = "whole" /\ pc # "create" /\ ~(pc = "pickle" /\ ctx = "after")
    => \A r \in Res : cloud[r] => Listed(r) \/ r \in unknown

(* What the pickle lists and the object does not is gone, or is what a new  *)
(* spec found there.                                                        *)
PickleAgrees ==
    pc # "idle" => \A r \in Res :
        Listed(r) => Held(r) \/ ~cloud[r] \/ (r \in unknown /\ "provision" \in stages)

(* Past its Delete, the finally clause has deleted what it had to. *)
PastDelete ==
    /\ \/ pc \in {"publish", "exit"}
       \/ pc \in {"pickle", "dump"} /\ ctx = "final"
    /\ "teardown" \in stages /\ shouldTeardown
    => specDeleted \/ deleteRaised \/ {"try", "join"} \subseteq raised

(* An exception is on its way out if and only if one was raised, and only a *)
(* stage that raised leaves its checker behind.                             *)
Raises ==
    /\ raising <=> raised # {}
    /\ pc = "except" \/ (pc = "delete" /\ ctx = "except") \/ deleteRaised => raising
    /\ checker => "try" \in raised

(* Delete does not get past the service while it is there. *)
ServiceFirst ==
    /\ specDeleted \/ (pc = "delete" /\ at > 1) => ~cloud["service"] \/ "service" \in unknown
    /\ pc \in {"provision", "start", "create", "provisioned", "prepare", "run",
               "cleanup", "decide"}
          \/ (pc \in {"pickle", "dump"} /\ ctx \in {"before", "after"})
       => ~specDeleted

(* SUCCEEDED is set last. *)
Earned == SuccessIsEarned /\ (status = "succeeded" => pc = "idle")

IInv ==
    /\ TypeOK /\ Contexts /\ Fresh /\ ObjectKnows /\ PickleKnows /\ PickleAgrees
    /\ PastDelete /\ Raises /\ ServiceFirst /\ Earned

LEMMA Initially == Init => IInv
<1> SUFFICES ASSUME Init
             PROVE  IInv
  OBVIOUS
<1>1. TypeOK
  <2>1. NewSpec \in [Res -> [created : BOOLEAN, deleted : BOOLEAN]]
    BY Zenon DEF NewSpec, Unmade
  <2>2. disk \in [file : {"none", "empty", "whole"},
                  spec : [Res -> [created : BOOLEAN, deleted : BOOLEAN]]]
    BY <2>1, Zenon DEF Init
  <2>3. cloud \in [Res -> BOOLEAN]
    BY Zenon DEF Init
  <2>4. /\ raising \in BOOLEAN /\ alwaysTeardown \in BOOLEAN
        /\ shouldTeardown \in BOOLEAN /\ specDeleted \in BOOLEAN
        /\ deleteRaised \in BOOLEAN /\ checker \in BOOLEAN
    BY Zenon DEF Init
  <2> QED
    BY <2>1, <2>2, <2>3, <2>4, MaxInvocationsAssumption, MaxCrashesAssumption
       DEF Init, TypeOK
<1>2. Contexts /\ ObjectKnows /\ PickleKnows /\ PickleAgrees /\ PastDelete
  BY DEF Init, Contexts, ObjectKnows, PickleKnows, PickleAgrees, PastDelete
<1>3. Fresh
  BY DEF Init, Fresh
<1>4. Raises /\ ServiceFirst
  BY DEF Init, Raises, ServiceFirst
<1>5. Earned
  BY DEF Init, Earned, SuccessIsEarned
<1> QED
  BY <1>1, <1>2, <1>3, <1>4, <1>5 DEF IInv

LEMMA FlagSet ==
    ASSUME NEW f \in [created : BOOLEAN, deleted : BOOLEAN]
    PROVE  /\ [f EXCEPT !.created = TRUE] \in [created : BOOLEAN, deleted : BOOLEAN]
           /\ [f EXCEPT !.deleted = TRUE] \in [created : BOOLEAN, deleted : BOOLEAN]
OBVIOUS

LEMMA TypePreserved == IInv /\ [Next]_vars => TypeOK'
<1> SUFFICES ASSUME IInv, [Next]_vars
             PROVE  TypeOK'
  OBVIOUS
<1> USE MaxInvocationsAssumption, MaxCrashesAssumption
        DEF IInv, TypeOK, Res, ProvisionOrder, DeleteOrder, progress, given, memory,
            world, Goto, Call, ToExcept, ToFinally, ToExit
<1>1. CASE PickleOpen
  BY <1>1 DEF PickleOpen
<1>2. CASE PickleDump
  <2>1. disk' \in [file : {"none", "empty", "whole"},
                   spec : [Res -> [created : BOOLEAN, deleted : BOOLEAN]]]
    BY <1>2, Zenon DEF PickleDump
  <2>2. raising' \in BOOLEAN
    BY <1>2, Zenon DEF PickleDump, AfterPickle
  <2> QED
    BY <1>2, <2>1, <2>2 DEF PickleDump, AfterPickle
<1>3. CASE PickleRaises
  <2>1. raising' \in BOOLEAN
    BY <1>3, Zenon DEF PickleRaises
  <2>2. raised' \subseteq {"try", "finally", "join"}
    BY <1>3, Zenon DEF PickleRaises
  <2> QED
    BY <1>3, <2>1, <2>2 DEF PickleRaises
<1>4. CASE SkipProvision
  BY <1>4 DEF SkipProvision
<1>5. CASE DoProvisionPhase
  BY <1>5 DEF DoProvisionPhase
<1>6. CASE CreateResource
  <2>1. ProvisionOrder[at] \in Res
    BY <1>6 DEF CreateResource
  <2>2. cloud' \in [Res -> BOOLEAN]
    BY <1>6, <2>1, Zenon DEF CreateResource
  <2>3. spec' \in [Res -> [created : BOOLEAN, deleted : BOOLEAN]]
    <3>1. spec[ProvisionOrder[at]] \in [created : BOOLEAN, deleted : BOOLEAN]
      BY <2>1
    <3>2. [spec[ProvisionOrder[at]] EXCEPT !.created = TRUE]
             \in [created : BOOLEAN, deleted : BOOLEAN]
      BY <3>1, FlagSet
    <3> QED
      BY <1>6, <2>1, <3>2 DEF CreateResource
  <2> QED
    BY <1>6, <2>2, <2>3 DEF CreateResource
<1>7. CASE ProvisionEnds
  BY <1>7 DEF ProvisionEnds
<1>8. CASE ProvisionRaises
  <2>1. cloud' \in [Res -> BOOLEAN]
    <3>1. CASE UNCHANGED cloud
      BY <3>1
    <3>2. CASE /\ at <= Len(ProvisionOrder)
               /\ cloud' = [cloud EXCEPT ![ProvisionOrder[at]] = TRUE]
      <4>1. ProvisionOrder[at] \in Res
        BY <3>2
      <4> QED
        BY <3>2, <4>1, Zenon
    <3> QED
      BY <1>8, <3>1, <3>2 DEF ProvisionRaises
  <2>2. unknown' \subseteq Res
    <3>1. at <= Len(ProvisionOrder) => ProvisionOrder[at] \in Res
      OBVIOUS
    <3> QED
      BY <1>8, <3>1, Zenon DEF ProvisionRaises
  <2>3. raising' \in BOOLEAN
    BY <1>8, Zenon DEF ProvisionRaises
  <2> QED
    BY <1>8, <2>1, <2>2, <2>3 DEF ProvisionRaises
<1>9. CASE PassStage
  BY <1>9 DEF PassStage, AfterStage
<1>10. CASE StageRaises
  <2>1. raising' \in BOOLEAN /\ checker' \in BOOLEAN
    BY <1>10, Zenon DEF StageRaises
  <2> QED
    BY <1>10, <2>1 DEF StageRaises
<1>11. CASE DoTeardownPhase
  BY <1>11 DEF DoTeardownPhase
<1>12. CASE AlreadyDeleted
  BY <1>12 DEF AlreadyDeleted, AfterDelete
<1>13. CASE DeleteResource
  <2>1. DeleteOrder[at] \in Res
    BY <1>13 DEF DeleteResource
  <2>2. cloud' \in [Res -> BOOLEAN]
    BY <1>13, <2>1, Zenon DEF DeleteResource
  <2>3. spec' \in [Res -> [created : BOOLEAN, deleted : BOOLEAN]]
    <3>1. spec[DeleteOrder[at]] \in [created : BOOLEAN, deleted : BOOLEAN]
      BY <2>1
    <3>2. [spec[DeleteOrder[at]] EXCEPT !.deleted = TRUE]
             \in [created : BOOLEAN, deleted : BOOLEAN]
      BY <3>1, FlagSet
    <3> QED
      BY <1>13, <2>1, <3>2 DEF DeleteResource, Gone
  <2> QED
    BY <1>13, <2>2, <2>3 DEF DeleteResource
<1>14. CASE DeleteResourceFails
  <2>1. DeleteOrder[at] \in Res
    BY <1>14 DEF DeleteResourceFails
  <2>2. cloud' \in [Res -> BOOLEAN]
    BY <1>14, <2>1, ZenonT(60) DEF DeleteResourceFails
  <2> QED
    BY <1>14, <2>2 DEF DeleteResourceFails
<1>15. CASE DeleteEnds
  BY <1>15 DEF DeleteEnds, AfterDelete
<1>16. CASE DeleteRaises
  <2>1. raising' \in BOOLEAN /\ deleteRaised' \in BOOLEAN
    BY <1>16, Zenon DEF DeleteRaises
  <2>2. raised' \subseteq {"try", "finally", "join"}
    BY <1>16, Zenon DEF DeleteRaises
  <2> QED
    BY <1>16, <2>1, <2>2 DEF DeleteRaises
<1>17. CASE Except
  BY <1>17 DEF Except
<1>18. CASE ExceptRaises
  BY <1>18 DEF ExceptRaises
<1>19. CASE Finally
  BY <1>19 DEF Finally
<1>20. CASE Publish
  BY <1>20 DEF Publish
<1>21. CASE PublishRaises
  BY <1>21 DEF PublishRaises
<1>22. CASE Exit
  BY <1>22 DEF Exit
<1>23. CASE Crash
  <2>1. unknown' \subseteq Res
    BY <1>23 DEF Crash
  <2> QED
    BY <1>23, <2>1 DEF Crash
<1>24. ASSUME NEW list \in StageLists, Start(list)
      PROVE  TypeOK'
  <2>1. raising' \in BOOLEAN /\ shouldTeardown' \in BOOLEAN
    BY <1>24, Zenon DEF Start
  <2>2. specDeleted' \in BOOLEAN /\ deleteRaised' \in BOOLEAN
    BY <1>24, Zenon DEF Start
  <2>3. spec' \in [Res -> [created : BOOLEAN, deleted : BOOLEAN]]
    <3>1. NewSpec \in [Res -> [created : BOOLEAN, deleted : BOOLEAN]]
      BY Zenon DEF NewSpec, Unmade
    <3>2. disk.spec \in [Res -> [created : BOOLEAN, deleted : BOOLEAN]]
      OBVIOUS
    <3> QED
      BY <1>24, <3>1, <3>2, Zenon DEF Start
  <2>4. checker' \in BOOLEAN /\ unknown' \subseteq Res
    BY <1>24, Zenon DEF Start
  <2> QED
    BY <1>24, <2>1, <2>2, <2>3, <2>4 DEF Start
<1>25. CASE JoinRaises
  BY <1>25 DEF JoinRaises
<1>26. CASE UNCHANGED vars
  BY <1>26 DEF vars
<1> QED
  BY <1>1, <1>2, <1>3, <1>4, <1>5, <1>6, <1>7, <1>8, <1>9, <1>10, <1>11, <1>12, <1>13,
     <1>14, <1>15, <1>16, <1>17, <1>18, <1>19, <1>20, <1>21, <1>22, <1>23, <1>24, <1>25,
     <1>26
     DEF Next, Step

LEMMA ContextsPreserved == IInv /\ [Next]_vars => Contexts'
<1> SUFFICES ASSUME IInv, [Next]_vars
             PROVE  Contexts'
  OBVIOUS
<1> USE DEF IInv, TypeOK, Contexts, Res, ProvisionOrder, DeleteOrder,
            progress, given, memory, world, Goto, Call, ToExcept, ToFinally, ToExit
<1>1. CASE PickleOpen
  BY <1>1 DEF PickleOpen
<1>2. CASE PickleDump
  BY <1>2 DEF PickleDump, AfterPickle
<1>3. CASE PickleRaises
  BY <1>3 DEF PickleRaises
<1>4. CASE SkipProvision
  BY <1>4 DEF SkipProvision
<1>5. CASE DoProvisionPhase
  BY <1>5 DEF DoProvisionPhase
<1>6. CASE CreateResource
  BY <1>6 DEF CreateResource
<1>7. CASE ProvisionEnds
  BY <1>7 DEF ProvisionEnds
<1>8. CASE ProvisionRaises
  BY <1>8 DEF ProvisionRaises
<1>9. CASE PassStage
  BY <1>9 DEF PassStage, AfterStage
<1>10. CASE StageRaises
  BY <1>10 DEF StageRaises
<1>11. CASE DoTeardownPhase
  BY <1>11 DEF DoTeardownPhase
<1>12. CASE AlreadyDeleted
  BY <1>12 DEF AlreadyDeleted, AfterDelete
<1>13. CASE DeleteResource
  BY <1>13 DEF DeleteResource, Gone, Skipped
<1>14. CASE DeleteResourceFails
  BY <1>14 DEF DeleteResourceFails, Skipped
<1>15. CASE DeleteEnds
  BY <1>15 DEF DeleteEnds, AfterDelete
<1>16. CASE DeleteRaises
  BY <1>16 DEF DeleteRaises
<1>17. CASE Except
  BY <1>17 DEF Except
<1>18. CASE ExceptRaises
  BY <1>18 DEF ExceptRaises
<1>19. CASE Finally
  BY <1>19 DEF Finally
<1>20. CASE Publish
  BY <1>20 DEF Publish
<1>21. CASE PublishRaises
  BY <1>21 DEF PublishRaises
<1>22. CASE Exit
  BY <1>22 DEF Exit
<1>23. CASE Crash
  BY <1>23 DEF Crash
<1>24. ASSUME NEW list \in StageLists, Start(list)
      PROVE  Contexts'
  BY <1>24 DEF Start
<1>25. CASE JoinRaises
  BY <1>25 DEF JoinRaises
<1>26. CASE UNCHANGED vars
  BY <1>26 DEF vars
<1> QED
  BY <1>1, <1>2, <1>3, <1>4, <1>5, <1>6, <1>7, <1>8, <1>9, <1>10, <1>11, <1>12, <1>13,
     <1>14, <1>15, <1>16, <1>17, <1>18, <1>19, <1>20, <1>21, <1>22, <1>23, <1>24, <1>25,
     <1>26
     DEF Next, Step

LEMMA FreshPreserved == IInv /\ [Next]_vars => Fresh'
<1> SUFFICES ASSUME IInv, [Next]_vars
             PROVE  Fresh'
  OBVIOUS
<1> USE DEF IInv, TypeOK, Contexts, Fresh, NewSpec, Unmade, Res, ProvisionOrder, DeleteOrder,
            progress, given, memory, world, Goto, Call, ToExcept, ToFinally, ToExit
<1>1. CASE PickleOpen
  BY <1>1 DEF PickleOpen
<1>2. CASE PickleDump
  BY <1>2 DEF PickleDump, AfterPickle
<1>3. CASE PickleRaises
  BY <1>3 DEF PickleRaises
<1>4. CASE SkipProvision
  BY <1>4 DEF SkipProvision
<1>5. CASE DoProvisionPhase
  BY <1>5 DEF DoProvisionPhase
<1>6. CASE CreateResource
  BY <1>6 DEF CreateResource
<1>7. CASE ProvisionEnds
  BY <1>7 DEF ProvisionEnds
<1>8. CASE ProvisionRaises
  BY <1>8 DEF ProvisionRaises
<1>9. CASE PassStage
  BY <1>9 DEF PassStage, AfterStage
<1>10. CASE StageRaises
  BY <1>10 DEF StageRaises
<1>11. CASE DoTeardownPhase
  BY <1>11 DEF DoTeardownPhase
<1>12. CASE AlreadyDeleted
  BY <1>12 DEF AlreadyDeleted, AfterDelete
<1>13. CASE DeleteResource
  BY <1>13 DEF DeleteResource, Gone, Skipped
<1>14. CASE DeleteResourceFails
  BY <1>14 DEF DeleteResourceFails, Skipped
<1>15. CASE DeleteEnds
  BY <1>15 DEF DeleteEnds, AfterDelete
<1>16. CASE DeleteRaises
  BY <1>16 DEF DeleteRaises
<1>17. CASE Except
  BY <1>17 DEF Except
<1>18. CASE ExceptRaises
  BY <1>18 DEF ExceptRaises
<1>19. CASE Finally
  BY <1>19 DEF Finally
<1>20. CASE Publish
  BY <1>20 DEF Publish
<1>21. CASE PublishRaises
  BY <1>21 DEF PublishRaises
<1>22. CASE Exit
  BY <1>22 DEF Exit
<1>23. CASE Crash
  BY <1>23 DEF Crash
<1>24. ASSUME NEW list \in StageLists, Start(list)
      PROVE  Fresh'
  BY <1>24 DEF Start
<1>25. CASE JoinRaises
  BY <1>25 DEF JoinRaises
<1>26. CASE UNCHANGED vars
  BY <1>26 DEF vars
<1> QED
  BY <1>1, <1>2, <1>3, <1>4, <1>5, <1>6, <1>7, <1>8, <1>9, <1>10, <1>11, <1>12, <1>13,
     <1>14, <1>15, <1>16, <1>17, <1>18, <1>19, <1>20, <1>21, <1>22, <1>23, <1>24, <1>25,
     <1>26
     DEF Next, Step

LEMMA ObjectKnowsPreserved == IInv /\ [Next]_vars => ObjectKnows'
<1> SUFFICES ASSUME IInv, [Next]_vars
             PROVE  ObjectKnows'
  OBVIOUS
<1> USE DEF IInv, TypeOK, Contexts, Fresh, ObjectKnows, PickleKnows, Held, Listed, NewSpec, Unmade, Res, ProvisionOrder, DeleteOrder,
            progress, given, memory, world, Goto, Call, ToExcept, ToFinally, ToExit
<1>1. CASE PickleOpen
  BY <1>1 DEF PickleOpen
<1>2. CASE PickleDump
  BY <1>2 DEF PickleDump, AfterPickle
<1>3. CASE PickleRaises
  BY <1>3 DEF PickleRaises
<1>4. CASE SkipProvision
  BY <1>4 DEF SkipProvision
<1>5. CASE DoProvisionPhase
  BY <1>5 DEF DoProvisionPhase
<1>6. CASE CreateResource
  BY <1>6 DEF CreateResource
<1>7. CASE ProvisionEnds
  BY <1>7 DEF ProvisionEnds
<1>8. CASE ProvisionRaises
  BY <1>8 DEF ProvisionRaises
<1>9. CASE PassStage
  BY <1>9 DEF PassStage, AfterStage
<1>10. CASE StageRaises
  BY <1>10 DEF StageRaises
<1>11. CASE DoTeardownPhase
  BY <1>11 DEF DoTeardownPhase
<1>12. CASE AlreadyDeleted
  BY <1>12 DEF AlreadyDeleted, AfterDelete
<1>13. CASE DeleteResource
  BY <1>13 DEF DeleteResource, Gone, Skipped
<1>14. CASE DeleteResourceFails
  BY <1>14 DEF DeleteResourceFails, Skipped
<1>15. CASE DeleteEnds
  BY <1>15 DEF DeleteEnds, AfterDelete
<1>16. CASE DeleteRaises
  BY <1>16 DEF DeleteRaises
<1>17. CASE Except
  BY <1>17 DEF Except
<1>18. CASE ExceptRaises
  BY <1>18 DEF ExceptRaises
<1>19. CASE Finally
  BY <1>19 DEF Finally
<1>20. CASE Publish
  BY <1>20 DEF Publish
<1>21. CASE PublishRaises
  BY <1>21 DEF PublishRaises
<1>22. CASE Exit
  BY <1>22 DEF Exit
<1>23. CASE Crash
  BY <1>23 DEF Crash
<1>24. ASSUME NEW list \in StageLists, Start(list)
      PROVE  ObjectKnows'
  BY <1>24 DEF Start
<1>25. CASE JoinRaises
  BY <1>25 DEF JoinRaises
<1>26. CASE UNCHANGED vars
  BY <1>26 DEF vars
<1> QED
  BY <1>1, <1>2, <1>3, <1>4, <1>5, <1>6, <1>7, <1>8, <1>9, <1>10, <1>11, <1>12, <1>13,
     <1>14, <1>15, <1>16, <1>17, <1>18, <1>19, <1>20, <1>21, <1>22, <1>23, <1>24, <1>25,
     <1>26
     DEF Next, Step

LEMMA PickleKnowsPreserved == IInv /\ [Next]_vars => PickleKnows'
<1> SUFFICES ASSUME IInv, [Next]_vars
             PROVE  PickleKnows'
  OBVIOUS
<1> USE DEF IInv, TypeOK, Contexts, Fresh, ObjectKnows, PickleKnows, Held, Listed, NewSpec, Unmade, Res, ProvisionOrder, DeleteOrder,
            progress, given, memory, world, Goto, Call, ToExcept, ToFinally, ToExit
<1>1. CASE PickleOpen
  BY <1>1 DEF PickleOpen
<1>2. CASE PickleDump
  BY <1>2 DEF PickleDump, AfterPickle
<1>3. CASE PickleRaises
  BY <1>3 DEF PickleRaises
<1>4. CASE SkipProvision
  BY <1>4 DEF SkipProvision
<1>5. CASE DoProvisionPhase
  BY <1>5 DEF DoProvisionPhase
<1>6. CASE CreateResource
  BY <1>6 DEF CreateResource
<1>7. CASE ProvisionEnds
  BY <1>7 DEF ProvisionEnds
<1>8. CASE ProvisionRaises
  BY <1>8 DEF ProvisionRaises
<1>9. CASE PassStage
  BY <1>9 DEF PassStage, AfterStage
<1>10. CASE StageRaises
  BY <1>10 DEF StageRaises
<1>11. CASE DoTeardownPhase
  BY <1>11 DEF DoTeardownPhase
<1>12. CASE AlreadyDeleted
  BY <1>12 DEF AlreadyDeleted, AfterDelete
<1>13. CASE DeleteResource
  BY <1>13 DEF DeleteResource, Gone, Skipped
<1>14. CASE DeleteResourceFails
  BY <1>14 DEF DeleteResourceFails, Skipped
<1>15. CASE DeleteEnds
  BY <1>15 DEF DeleteEnds, AfterDelete
<1>16. CASE DeleteRaises
  BY <1>16 DEF DeleteRaises
<1>17. CASE Except
  BY <1>17 DEF Except
<1>18. CASE ExceptRaises
  BY <1>18 DEF ExceptRaises
<1>19. CASE Finally
  BY <1>19 DEF Finally
<1>20. CASE Publish
  BY <1>20 DEF Publish
<1>21. CASE PublishRaises
  BY <1>21 DEF PublishRaises
<1>22. CASE Exit
  BY <1>22 DEF Exit
<1>23. CASE Crash
  BY <1>23 DEF Crash
<1>24. ASSUME NEW list \in StageLists, Start(list)
      PROVE  PickleKnows'
  BY <1>24 DEF Start
<1>25. CASE JoinRaises
  BY <1>25 DEF JoinRaises
<1>26. CASE UNCHANGED vars
  BY <1>26 DEF vars
<1> QED
  BY <1>1, <1>2, <1>3, <1>4, <1>5, <1>6, <1>7, <1>8, <1>9, <1>10, <1>11, <1>12, <1>13,
     <1>14, <1>15, <1>16, <1>17, <1>18, <1>19, <1>20, <1>21, <1>22, <1>23, <1>24, <1>25,
     <1>26
     DEF Next, Step

LEMMA PickleAgreesPreserved == IInv /\ [Next]_vars => PickleAgrees'
<1> SUFFICES ASSUME IInv, [Next]_vars
             PROVE  PickleAgrees'
  OBVIOUS
<1> USE DEF IInv, TypeOK, Contexts, Fresh, PickleAgrees, Held, Listed, NewSpec, Unmade, Res, ProvisionOrder, DeleteOrder,
            progress, given, memory, world, Goto, Call, ToExcept, ToFinally, ToExit
<1>1. CASE PickleOpen
  BY <1>1 DEF PickleOpen
<1>2. CASE PickleDump
  BY <1>2 DEF PickleDump, AfterPickle
<1>3. CASE PickleRaises
  BY <1>3 DEF PickleRaises
<1>4. CASE SkipProvision
  BY <1>4 DEF SkipProvision
<1>5. CASE DoProvisionPhase
  BY <1>5 DEF DoProvisionPhase
<1>6. CASE CreateResource
  BY <1>6 DEF CreateResource
<1>7. CASE ProvisionEnds
  BY <1>7 DEF ProvisionEnds
<1>8. CASE ProvisionRaises
  BY <1>8 DEF ProvisionRaises
<1>9. CASE PassStage
  BY <1>9 DEF PassStage, AfterStage
<1>10. CASE StageRaises
  BY <1>10 DEF StageRaises
<1>11. CASE DoTeardownPhase
  BY <1>11 DEF DoTeardownPhase
<1>12. CASE AlreadyDeleted
  BY <1>12 DEF AlreadyDeleted, AfterDelete
<1>13. CASE DeleteResource
  BY <1>13 DEF DeleteResource, Gone, Skipped
<1>14. CASE DeleteResourceFails
  BY <1>14 DEF DeleteResourceFails, Skipped
<1>15. CASE DeleteEnds
  BY <1>15 DEF DeleteEnds, AfterDelete
<1>16. CASE DeleteRaises
  BY <1>16 DEF DeleteRaises
<1>17. CASE Except
  BY <1>17 DEF Except
<1>18. CASE ExceptRaises
  BY <1>18 DEF ExceptRaises
<1>19. CASE Finally
  BY <1>19 DEF Finally
<1>20. CASE Publish
  BY <1>20 DEF Publish
<1>21. CASE PublishRaises
  BY <1>21 DEF PublishRaises
<1>22. CASE Exit
  BY <1>22 DEF Exit
<1>23. CASE Crash
  BY <1>23 DEF Crash
<1>24. ASSUME NEW list \in StageLists, Start(list)
      PROVE  PickleAgrees'
  BY <1>24 DEF Start
<1>25. CASE JoinRaises
  BY <1>25 DEF JoinRaises
<1>26. CASE UNCHANGED vars
  BY <1>26 DEF vars
<1> QED
  BY <1>1, <1>2, <1>3, <1>4, <1>5, <1>6, <1>7, <1>8, <1>9, <1>10, <1>11, <1>12, <1>13,
     <1>14, <1>15, <1>16, <1>17, <1>18, <1>19, <1>20, <1>21, <1>22, <1>23, <1>24, <1>25,
     <1>26
     DEF Next, Step

LEMMA PastDeletePreserved == IInv /\ [Next]_vars => PastDelete'
<1> SUFFICES ASSUME IInv, [Next]_vars
             PROVE  PastDelete'
  OBVIOUS
<1> USE DEF IInv, TypeOK, Contexts, PastDelete, Res, ProvisionOrder, DeleteOrder,
            progress, given, memory, world, Goto, Call, ToExcept, ToFinally, ToExit
<1>1. CASE PickleOpen
  BY <1>1 DEF PickleOpen
<1>2. CASE PickleDump
  BY <1>2 DEF PickleDump, AfterPickle
<1>3. CASE PickleRaises
  BY <1>3 DEF PickleRaises
<1>4. CASE SkipProvision
  BY <1>4 DEF SkipProvision
<1>5. CASE DoProvisionPhase
  BY <1>5 DEF DoProvisionPhase
<1>6. CASE CreateResource
  BY <1>6 DEF CreateResource
<1>7. CASE ProvisionEnds
  BY <1>7 DEF ProvisionEnds
<1>8. CASE ProvisionRaises
  BY <1>8 DEF ProvisionRaises
<1>9. CASE PassStage
  BY <1>9 DEF PassStage, AfterStage
<1>10. CASE StageRaises
  BY <1>10 DEF StageRaises
<1>11. CASE DoTeardownPhase
  BY <1>11 DEF DoTeardownPhase
<1>12. CASE AlreadyDeleted
  BY <1>12 DEF AlreadyDeleted, AfterDelete
<1>13. CASE DeleteResource
  BY <1>13 DEF DeleteResource, Gone, Skipped
<1>14. CASE DeleteResourceFails
  BY <1>14 DEF DeleteResourceFails, Skipped
<1>15. CASE DeleteEnds
  BY <1>15 DEF DeleteEnds, AfterDelete
<1>16. CASE DeleteRaises
  BY <1>16 DEF DeleteRaises
<1>17. CASE Except
  BY <1>17 DEF Except
<1>18. CASE ExceptRaises
  BY <1>18 DEF ExceptRaises
<1>19. CASE Finally
  BY <1>19 DEF Finally
<1>20. CASE Publish
  BY <1>20 DEF Publish
<1>21. CASE PublishRaises
  BY <1>21 DEF PublishRaises
<1>22. CASE Exit
  BY <1>22 DEF Exit
<1>23. CASE Crash
  BY <1>23 DEF Crash
<1>24. ASSUME NEW list \in StageLists, Start(list)
      PROVE  PastDelete'
  BY <1>24 DEF Start
<1>25. CASE JoinRaises
  <2>1. checker = TRUE => "try" \in raised
    BY Zenon DEF IInv, Raises
  <2>2. checker = TRUE /\ raised' = raised \cup {"join"}
    BY <1>25 DEF JoinRaises
  <2>3. {"try", "join"} \subseteq raised'
    BY <2>1, <2>2
  <2> QED
    BY <2>3
<1>26. CASE UNCHANGED vars
  BY <1>26 DEF vars
<1> QED
  BY <1>1, <1>2, <1>3, <1>4, <1>5, <1>6, <1>7, <1>8, <1>9, <1>10, <1>11, <1>12, <1>13,
     <1>14, <1>15, <1>16, <1>17, <1>18, <1>19, <1>20, <1>21, <1>22, <1>23, <1>24, <1>25,
     <1>26
     DEF Next, Step

LEMMA RaisesPreserved == IInv /\ [Next]_vars => Raises'
<1> SUFFICES ASSUME IInv, [Next]_vars
             PROVE  Raises'
  OBVIOUS
<1> USE DEF IInv, TypeOK, Contexts, Raises, Res, ProvisionOrder, DeleteOrder,
            progress, given, memory, world, Goto, Call, ToExcept, ToFinally, ToExit
<1>1. CASE PickleOpen
  BY <1>1 DEF PickleOpen
<1>2. CASE PickleDump
  BY <1>2 DEF PickleDump, AfterPickle
<1>3. CASE PickleRaises
  BY <1>3 DEF PickleRaises
<1>4. CASE SkipProvision
  BY <1>4 DEF SkipProvision
<1>5. CASE DoProvisionPhase
  BY <1>5 DEF DoProvisionPhase
<1>6. CASE CreateResource
  BY <1>6 DEF CreateResource
<1>7. CASE ProvisionEnds
  BY <1>7 DEF ProvisionEnds
<1>8. CASE ProvisionRaises
  BY <1>8 DEF ProvisionRaises
<1>9. CASE PassStage
  BY <1>9 DEF PassStage, AfterStage
<1>10. CASE StageRaises
  BY <1>10 DEF StageRaises
<1>11. CASE DoTeardownPhase
  BY <1>11 DEF DoTeardownPhase
<1>12. CASE AlreadyDeleted
  BY <1>12 DEF AlreadyDeleted, AfterDelete
<1>13. CASE DeleteResource
  BY <1>13 DEF DeleteResource, Gone, Skipped
<1>14. CASE DeleteResourceFails
  BY <1>14 DEF DeleteResourceFails, Skipped
<1>15. CASE DeleteEnds
  BY <1>15 DEF DeleteEnds, AfterDelete
<1>16. CASE DeleteRaises
  BY <1>16 DEF DeleteRaises
<1>17. CASE Except
  BY <1>17 DEF Except
<1>18. CASE ExceptRaises
  BY <1>18 DEF ExceptRaises
<1>19. CASE Finally
  BY <1>19 DEF Finally
<1>20. CASE Publish
  BY <1>20 DEF Publish
<1>21. CASE PublishRaises
  BY <1>21 DEF PublishRaises
<1>22. CASE Exit
  BY <1>22 DEF Exit
<1>23. CASE Crash
  BY <1>23 DEF Crash
<1>24. ASSUME NEW list \in StageLists, Start(list)
      PROVE  Raises'
  BY <1>24 DEF Start
<1>25. CASE JoinRaises
  BY <1>25 DEF JoinRaises
<1>26. CASE UNCHANGED vars
  BY <1>26 DEF vars
<1> QED
  BY <1>1, <1>2, <1>3, <1>4, <1>5, <1>6, <1>7, <1>8, <1>9, <1>10, <1>11, <1>12, <1>13,
     <1>14, <1>15, <1>16, <1>17, <1>18, <1>19, <1>20, <1>21, <1>22, <1>23, <1>24, <1>25,
     <1>26
     DEF Next, Step

LEMMA ServiceFirstPreserved == IInv /\ [Next]_vars => ServiceFirst'
<1> SUFFICES ASSUME IInv, [Next]_vars
             PROVE  ServiceFirst'
  OBVIOUS
<1> USE DEF IInv, TypeOK, Contexts, ServiceFirst, Res, ProvisionOrder, DeleteOrder,
            progress, given, memory, world, Goto, Call, ToExcept, ToFinally, ToExit
<1>1. CASE PickleOpen
  BY <1>1 DEF PickleOpen
<1>2. CASE PickleDump
  BY <1>2 DEF PickleDump, AfterPickle
<1>3. CASE PickleRaises
  BY <1>3 DEF PickleRaises
<1>4. CASE SkipProvision
  BY <1>4 DEF SkipProvision
<1>5. CASE DoProvisionPhase
  BY <1>5 DEF DoProvisionPhase
<1>6. CASE CreateResource
  BY <1>6 DEF CreateResource
<1>7. CASE ProvisionEnds
  BY <1>7 DEF ProvisionEnds
<1>8. CASE ProvisionRaises
  BY <1>8 DEF ProvisionRaises
<1>9. CASE PassStage
  BY <1>9 DEF PassStage, AfterStage
<1>10. CASE StageRaises
  BY <1>10 DEF StageRaises
<1>11. CASE DoTeardownPhase
  BY <1>11 DEF DoTeardownPhase
<1>12. CASE AlreadyDeleted
  BY <1>12 DEF AlreadyDeleted, AfterDelete
<1>13. CASE DeleteResource
  <2>1. UNCHANGED <<pc, ctx, specDeleted, unknown>> /\ ~specDeleted /\ pc = "delete"
    BY <1>13 DEF DeleteResource
  <2>2. CASE at = 1
    <3>1. DeleteOrder[at] = "service"
      BY <2>2
    <3>2. CASE Skipped("service")
      <4>1. ~Held("service")
        BY <3>2 DEF Skipped, Held
      <4> QED
        BY <1>13, <2>1, <3>1, <3>2, <4>1 DEF DeleteResource, ObjectKnows
    <3>3. CASE ~Skipped("service")
      <4>1. cloud' = [cloud EXCEPT !["service"] = FALSE]
        BY <1>13, <3>1, <3>3 DEF DeleteResource
      <4> QED
        BY <2>1, <4>1
    <3> QED
      BY <3>2, <3>3
  <2>3. CASE at # 1
    <3>1. ~cloud["service"] \/ "service" \in unknown
      BY <2>1, <2>3
    <3>2. cloud' = cloud \/ cloud' = [cloud EXCEPT ![DeleteOrder[at]] = FALSE]
      BY <1>13 DEF DeleteResource
    <3>3. cloud["service"] = FALSE => cloud'["service"] = FALSE
      BY <3>2
    <3> QED
      BY <2>1, <3>1, <3>3
  <2> QED
    BY <2>2, <2>3
<1>14. CASE DeleteResourceFails
  <2>1. at > 1
    BY <1>14 DEF DeleteResourceFails, Guarded
  <2>2. ~cloud["service"] \/ "service" \in unknown
    BY <1>14, <2>1 DEF DeleteResourceFails
  <2>3. cloud["service"] = FALSE => cloud'["service"] = FALSE
    <3>1. CASE UNCHANGED cloud
      BY <3>1
    <3>2. CASE cloud' = [cloud EXCEPT ![DeleteOrder[at]] = FALSE]
      BY <3>2
    <3> QED
      BY <1>14, <3>1, <3>2 DEF DeleteResourceFails
  <2>4. UNCHANGED <<pc, spec, specDeleted, unknown, ctx>>
    BY <1>14 DEF DeleteResourceFails
  <2> QED
    BY <1>14, <2>1, <2>2, <2>3, <2>4 DEF DeleteResourceFails
<1>15. CASE DeleteEnds
  BY <1>15 DEF DeleteEnds, AfterDelete
<1>16. CASE DeleteRaises
  BY <1>16 DEF DeleteRaises
<1>17. CASE Except
  BY <1>17 DEF Except
<1>18. CASE ExceptRaises
  BY <1>18 DEF ExceptRaises
<1>19. CASE Finally
  BY <1>19 DEF Finally
<1>20. CASE Publish
  BY <1>20 DEF Publish
<1>21. CASE PublishRaises
  BY <1>21 DEF PublishRaises
<1>22. CASE Exit
  BY <1>22 DEF Exit
<1>23. CASE Crash
  BY <1>23 DEF Crash
<1>24. ASSUME NEW list \in StageLists, Start(list)
      PROVE  ServiceFirst'
  BY <1>24 DEF Start
<1>25. CASE JoinRaises
  BY <1>25 DEF JoinRaises
<1>26. CASE UNCHANGED vars
  BY <1>26 DEF vars
<1> QED
  BY <1>1, <1>2, <1>3, <1>4, <1>5, <1>6, <1>7, <1>8, <1>9, <1>10, <1>11, <1>12, <1>13,
     <1>14, <1>15, <1>16, <1>17, <1>18, <1>19, <1>20, <1>21, <1>22, <1>23, <1>24, <1>25,
     <1>26
     DEF Next, Step

LEMMA EarnedPreserved == IInv /\ [Next]_vars => Earned'
<1> SUFFICES ASSUME IInv, [Next]_vars
             PROVE  Earned'
  OBVIOUS
<1> USE DEF IInv, TypeOK, Contexts, PastDelete, Raises, ServiceFirst, Earned, SuccessIsEarned, Res, ProvisionOrder, DeleteOrder,
            progress, given, memory, world, Goto, Call, ToExcept, ToFinally, ToExit
<1>1. CASE PickleOpen
  BY <1>1 DEF PickleOpen
<1>2. CASE PickleDump
  BY <1>2 DEF PickleDump, AfterPickle
<1>3. CASE PickleRaises
  BY <1>3 DEF PickleRaises
<1>4. CASE SkipProvision
  BY <1>4 DEF SkipProvision
<1>5. CASE DoProvisionPhase
  BY <1>5 DEF DoProvisionPhase
<1>6. CASE CreateResource
  BY <1>6 DEF CreateResource
<1>7. CASE ProvisionEnds
  BY <1>7 DEF ProvisionEnds
<1>8. CASE ProvisionRaises
  BY <1>8 DEF ProvisionRaises
<1>9. CASE PassStage
  BY <1>9 DEF PassStage, AfterStage
<1>10. CASE StageRaises
  BY <1>10 DEF StageRaises
<1>11. CASE DoTeardownPhase
  BY <1>11 DEF DoTeardownPhase
<1>12. CASE AlreadyDeleted
  BY <1>12 DEF AlreadyDeleted, AfterDelete
<1>13. CASE DeleteResource
  BY <1>13 DEF DeleteResource, Gone, Skipped
<1>14. CASE DeleteResourceFails
  BY <1>14 DEF DeleteResourceFails, Skipped
<1>15. CASE DeleteEnds
  BY <1>15 DEF DeleteEnds, AfterDelete
<1>16. CASE DeleteRaises
  BY <1>16 DEF DeleteRaises
<1>17. CASE Except
  BY <1>17 DEF Except
<1>18. CASE ExceptRaises
  BY <1>18 DEF ExceptRaises
<1>19. CASE Finally
  BY <1>19 DEF Finally
<1>20. CASE Publish
  BY <1>20 DEF Publish
<1>21. CASE PublishRaises
  BY <1>21 DEF PublishRaises
<1>22. CASE Exit
  BY <1>22 DEF Exit
<1>23. CASE Crash
  BY <1>23 DEF Crash
<1>24. ASSUME NEW list \in StageLists, Start(list)
      PROVE  Earned'
  BY <1>24 DEF Start
<1>25. CASE JoinRaises
  BY <1>25 DEF JoinRaises
<1>26. CASE UNCHANGED vars
  BY <1>26 DEF vars
<1> QED
  BY <1>1, <1>2, <1>3, <1>4, <1>5, <1>6, <1>7, <1>8, <1>9, <1>10, <1>11, <1>12, <1>13,
     <1>14, <1>15, <1>16, <1>17, <1>18, <1>19, <1>20, <1>21, <1>22, <1>23, <1>24, <1>25,
     <1>26
     DEF Next, Step

LEMMA Inductive == IInv /\ [Next]_vars => IInv'
BY TypePreserved, ContextsPreserved, FreshPreserved, ObjectKnowsPreserved,
   PickleKnowsPreserved, PickleAgreesPreserved, PastDeletePreserved, RaisesPreserved,
   ServiceFirstPreserved, EarnedPreserved
   DEF IInv

LEMMA Invariance == Spec => []IInv
<1>1. IInv /\ [Next]_vars => IInv'
  BY Inductive
<1> QED
  BY Initially, <1>1, PTL DEF Spec

(* The variables of RunBenchmark.tla have their types, always. *)
THEOREM BenchmarkTypes == Spec => []TypeOK
<1>1. IInv => TypeOK
  BY DEF IInv
<1> QED
  BY Invariance, <1>1, PTL

(* Between invocations the pickle lists whatever is left in the cloud, but  *)
(* for what no object was told of: a kill inside Provision, a Create that   *)
(* raised half way, what was there when a new spec was made.                *)
THEOREM NothingIsForgotten == Spec => []NothingForgotten
<1>1. IInv => NothingForgotten
  BY DEF IInv, PickleKnows, NothingForgotten
<1> QED
  BY Invariance, <1>1, PTL

(* An invocation told to tear down has run BenchmarkSpec.Delete when it     *)
(* ends, whatever was raised before, unless the join of a failed stage's    *)
(* checker was interrupted.                                                 *)
THEOREM TeardownIsRun == Spec => []TeardownRuns
<1>1. IInv => TeardownRuns
  BY DEF IInv, PastDelete, TeardownRuns
<1> QED
  BY Invariance, <1>1, PTL

(* SUCCEEDED means that nothing was raised, and that the service is gone if *)
(* an object was told of it.                                                *)
THEOREM SuccessIsTrue == Spec => []SuccessIsEarned
<1>1. IInv => SuccessIsEarned
  BY DEF IInv, Earned
<1> QED
  BY Invariance, <1>1, PTL

(* Pickle never drops a resource that is still there, but for the first     *)
(* pickle of a new spec.                                                    *)
THEOREM PickleKeepsWhatIsThere == Spec => PickleDropsOnlyTheGone
<1>1. ASSUME IInv, [Next]_vars
      PROVE  [\A r \in Res : Listed(r) /\ ~Listed(r)' =>
                ~cloud'[r] \/ (r \in unknown /\ "provision" \in stages)]_vars
  <2>1. CASE PickleDump
    BY <1>1, <2>1 DEF PickleDump, IInv, PickleAgrees, Listed, Held
  <2>2. CASE PickleOpen
    BY <1>1, <2>2 DEF PickleOpen, IInv, TypeOK, Listed
  <2>3. CASE UNCHANGED disk
    BY <2>3 DEF Listed
  <2>4. PickleDump \/ PickleOpen \/ UNCHANGED disk
    BY <1>1 DEF Next, Step, vars, world, PickleRaises, SkipProvision,
        DoProvisionPhase, CreateResource, ProvisionEnds, ProvisionRaises, PassStage,
        StageRaises, DoTeardownPhase, AlreadyDeleted, DeleteResource,
        DeleteResourceFails, DeleteEnds, DeleteRaises, Except, ExceptRaises, JoinRaises,
        Finally, Publish, PublishRaises, Exit, Crash, Start
  <2> QED
    BY <2>1, <2>2, <2>3, <2>4
<1> QED
  BY Invariance, <1>1, PTL DEF Spec, PickleDropsOnlyTheGone

----------------------------------------------------------------------------
(* RunBenchmarks, which calls RunBenchmark for every attempt. *)

TaskEnds == {"returned", "raised", "interrupted"}
Running == {"check", "begin", "attempt", "retry"}
TaskPcs == {"pending", "init"} \cup Running \cup TaskEnds
Flags == [zone : Zones \cup {Any}, retries : Nat, smartQuota : BOOLEAN, smartCapacity : BOOLEAN]
Failures == {"quota", "capacity", "known", "fatal"}
Attempts == [zone : Zones, substatus : Failures \cup {"none"}]
Tasks == [pc : TaskPcs, worker : Workers, manager : Managers, maxRunCount : Nat,
          status : {"skipped", "failed", "succeeded"}, substatus : Failures \cup {"none"},
          samples : SUBSET Nat]

LoopTyped ==
    /\ setting \in Setting /\ flags \in [Workers -> Flags]
    /\ task \in [1..N -> Tasks] /\ tour \in [1..N -> Seq(Attempts)]
    /\ fresh \subseteq 1..N

Holding(b) == task[b].pc \in {"init"} \cup Running

(* A worker runs one task at a time. *)
OnePerWorker ==
    \A b, c \in 1..N :
        Holding(b) /\ Holding(c) /\ task[b].worker = task[c].worker => b = c

(* The tour u of the task t of benchmark b, when those in d have samples    *)
(* of their last attempts.                                                  *)
Past(t, u, b, d) ==
    /\ t.pc \in {"pending", "init"} => u = <<>>
    /\ t.pc = "attempt" => t.samples = {} /\ u # <<>> /\ u[Len(u)].substatus = "none"
    /\ t.pc = "retry" => u # <<>> /\ u[Len(u)].substatus = t.substatus
    /\ t.pc # "attempt" => t.samples = IF b \in d THEN {Len(u)} ELSE {}
    /\ t.status = "succeeded" => t.pc = "returned" /\ u # <<>> /\ u[Len(u)].substatus = "none"

(* The zone manager m has looked at the flags f. *)
SmartOne(f) == f.smartQuota \/ f.smartCapacity
Zoned(t, u, f) ==
    t.pc \in Running =>
        /\ f.zone \in Zones /\ t.maxRunCount = 1 + f.retries
        /\ t.pc \in {"attempt", "retry"} => f.zone = u[Len(u)].zone
        /\ SmartOne(f) =>
              /\ t.manager.originalZone \in Zones
              /\ u = <<>> => /\ f.zone = t.manager.originalZone
                             /\ t.manager.zonesTried = {} /\ t.manager.regionsTried = {}
              /\ u # <<>> => u[1].zone = t.manager.originalZone

ZonesOf(u, n) == {u[k].zone : k \in 1..n}
RegionsOf(u, n) == {RegionOf[u[k].zone] : k \in 1..n}
Only(u, n, how) == \A k \in 1..n : u[k].substatus = how

(* The zones and the regions there are to try from the zone o on. *)
Around(o) == (GetZonesInRegion(RegionOf[o]) \cap Supported) \cup {o}
Regions(o) == SupportedRegions \cup {RegionOf[o]}

(* As long as every failure was one of capacity, the zones tried are those  *)
(* of the tour and the next one is another, until there is no other.        *)
ByCapacity(t, u, f) ==
    t.pc \in Running /\ f.smartCapacity /\ Only(u, Len(u) - 1, "capacity") =>
        /\ ZonesOf(u, Len(u)) \subseteq Around(t.manager.originalZone)
        /\ \A i, j \in 1..Len(u) :
              i < j /\ j <= Cardinality(Around(t.manager.originalZone)) => u[i].zone # u[j].zone
        /\ t.pc \in {"attempt", "retry"} /\ Len(u) <= Cardinality(Around(t.manager.originalZone)) =>
              t.manager.zonesTried = ZonesOf(u, Len(u) - 1)
        /\ t.pc \in {"check", "begin"} /\ Only(u, Len(u), "capacity") =>
              /\ f.zone \in Around(t.manager.originalZone)
              /\ Len(u) < Cardinality(Around(t.manager.originalZone)) =>
                    t.manager.zonesTried = ZonesOf(u, Len(u)) /\ f.zone \notin t.manager.zonesTried

(* The regions of the zones tried count as tried. *)
Counted(m) == \A z \in m.zonesTried : RegionOf[z] \in m.regionsTried

(* And of quota, the regions tried are those of the tour. *)
ByQuota(t, u, f) ==
    t.pc \in Running /\ f.smartQuota /\ Only(u, Len(u) - 1, "quota") =>
        /\ \A i, j \in 1..Len(u) :
              i < j /\ j <= Cardinality(Regions(t.manager.originalZone)) =>
                  RegionOf[u[i].zone] # RegionOf[u[j].zone]
        /\ t.pc \in {"attempt", "retry"} /\ Len(u) <= Cardinality(Regions(t.manager.originalZone)) =>
              t.manager.regionsTried = RegionsOf(u, Len(u) - 1) /\ Counted(t.manager)
        /\ t.pc \in {"check", "begin"} /\ Only(u, Len(u), "quota") =>
              \/ Len(u) >= Cardinality(Regions(t.manager.originalZone))
              \/ /\ t.manager.regionsTried = RegionsOf(u, Len(u)) /\ Counted(t.manager)
                 /\ RegionOf[f.zone] \notin t.manager.regionsTried

TaskInv(t, u, b, d, f) ==
    /\ Past(t, u, b, d) /\ Zoned(t, u, f)
    /\ ByCapacity(t, u, f) /\ ByQuota(t, u, f)

LoopInv ==
    /\ LoopTyped /\ OnePerWorker
    /\ \A b \in 1..N :
          TaskInv(task[b], tour[b], b, fresh, flags[task[b].worker])

(* How many tasks may be under way, those that are, and those that have     *)
(* found the event unset.                                                   *)
Slots == IF setting.processes = 0 THEN 1 ELSE setting.processes
Pending(b) == task[b].pc = "pending"
UnderWay == {b \in 1..N : ~Pending(b) /\ b \notin awaited}
Checked == {b \in 1..N : task[b].pc = "begin"}

(* Tasks start in their order, and no more than there are slots. *)
InOrder ==
    /\ awaited \subseteq 1..N /\ \A b \in awaited : task[b].pc \in TaskEnds
    /\ \A b, c \in 1..N : b < c /\ Pending(b) => Pending(c)
    /\ Cardinality(UnderWay) <= Slots

Lateness ==
    /\ teardown \in BOOLEAN /\ late \in Nat
    /\ ~teardown => late = 0
    /\ teardown => late + Cardinality(Checked) < Slots
    /\ teardown => \E b \in 1..N : task[b].pc = "returned" /\ task[b].status = "failed"

(* What the loop has when it publishes. *)
Outcome ==
    /\ loop \in {"tasks", "shutdown", "publish", "done", "raised"} /\ exit \in 0..2
    /\ published \in [1..N -> SUBSET Nat]
    /\ loop \in {"publish", "done"} => \A b \in 1..N : task[b].pc \in TaskEnds
    /\ loop = "done" => \A b \in 1..N : published[b] = task[b].samples
    /\ exit = 0 => loop = "done" /\ \A b \in 1..N : task[b].status = "succeeded"

(* What RunBenchmarks is given: the assumptions on its constants. *)
LEMMA LoopGiven ==
    /\ Supported \subseteq Zones /\ IsFiniteSet(Supported) /\ DOMAIN RegionOf = Zones
    /\ Any \notin Zones /\ N \in Nat \ {0} /\ Workers # {} /\ Settings \subseteq Setting
  BY SupportedAssumption, RegionOfAssumption, AnyAssumption, NAssumption, WorkersAssumption,
     SettingsAssumption

(* What there is to try is finite. *)
LEMMA FiniteChoice ==
    ASSUME NEW o
    PROVE  /\ IsFiniteSet(Around(o)) /\ Cardinality(Around(o)) \in Nat
           /\ IsFiniteSet(Regions(o)) /\ Cardinality(Regions(o)) \in Nat
<1>1. IsFiniteSet(GetZonesInRegion(RegionOf[o]) \cap Supported)
  BY FS_Subset, LoopGiven
<1>2. IsFiniteSet(SupportedRegions)
  <2> DEFINE f == [z \in Supported |-> RegionOf[z]]
  <2>1. f \in Surjection(Supported, SupportedRegions)
    BY DEF Surjection, SupportedRegions
  <2> QED
    BY <2>1, FS_Surjection, LoopGiven
<1>3. IsFiniteSet(Around(o)) /\ IsFiniteSet(Regions(o))
  BY <1>1, <1>2, FS_AddElement DEF Around, Regions
<1> QED
  BY <1>3, FS_CardinalityType

(* n attempts were in no more than n zones, and in no more than n regions. *)
LEMMA FewTried ==
    ASSUME NEW u, NEW n \in Nat
    PROVE  /\ IsFiniteSet(ZonesOf(u, n)) /\ Cardinality(ZonesOf(u, n)) <= n
           /\ IsFiniteSet(RegionsOf(u, n)) /\ Cardinality(RegionsOf(u, n)) <= n
<1>1. IsFiniteSet(1..n) /\ Cardinality(1..n) = n
  BY FS_Interval
<1>2. IsFiniteSet(ZonesOf(u, n)) /\ Cardinality(ZonesOf(u, n)) <= n
  <2> DEFINE f == [k \in 1..n |-> u[k].zone]
  <2>1. f \in Surjection(1..n, ZonesOf(u, n))
    BY DEF Surjection, ZonesOf
  <2> HIDE DEF f
  <2> QED
    BY <1>1, <2>1, FS_Surjection
<1>3. IsFiniteSet(RegionsOf(u, n)) /\ Cardinality(RegionsOf(u, n)) <= n
  <2> DEFINE f == [k \in 1..n |-> RegionOf[u[k].zone]]
  <2>1. f \in Surjection(1..n, RegionsOf(u, n))
    BY DEF Surjection, RegionsOf
  <2> HIDE DEF f
  <2> QED
    BY <1>1, <2>1, FS_Surjection
<1> QED
  BY <1>2, <1>3

(* _ChooseAndSetNewZone: an untried zone, or the first one again. *)
LEMMA ChooseAnswers ==
    ASSUME NEW m \in Managers, m.originalZone \in Zones, NEW z \in Zones,
           NEW possible, possible \subseteq Zones,
           NEW r \in ChooseAndSetNewZone(m, z, possible)
    PROVE  /\ r.manager \in Managers /\ r.zone \in Zones
           /\ r.manager.originalZone = m.originalZone
           /\ r.manager.regionsTried = m.regionsTried
           /\ \/ /\ possible \subseteq m.zonesTried \cup {z}
                 /\ r.manager.zonesTried = {} /\ r.zone = m.originalZone
              \/ /\ r.manager.zonesTried = m.zonesTried \cup {z}
                 /\ r.zone \in possible \ r.manager.zonesTried
<1> DEFINE tried == m.zonesTried \cup {z}
           toTry == possible \ tried
<1>1. tried = m.zonesTried \cup ({z} \ {Any}) /\ tried \in SUBSET Zones
  BY LoopGiven DEF Managers
<1>2. CASE toTry = {}
  <2>1. r = [manager |-> [m EXCEPT !.zonesTried = {}], zone |-> m.originalZone]
    BY <1>1, <1>2 DEF ChooseAndSetNewZone
  <2>2. /\ [m EXCEPT !.zonesTried = {}] \in Managers
        /\ r.manager = [m EXCEPT !.zonesTried = {}] /\ r.zone = m.originalZone
    BY <2>1 DEF Managers
  <2> QED
    BY <1>2, <2>2 DEF Managers
<1>3. CASE toTry # {}
  <2>1. r \in [manager : {[m EXCEPT !.zonesTried = tried]}, zone : toTry]
    BY <1>1, <1>3 DEF ChooseAndSetNewZone
  <2>2. r.manager = [m EXCEPT !.zonesTried = tried] /\ r.zone \in toTry
    BY <2>1
  <2> HIDE DEF tried
  <2>3. [m EXCEPT !.zonesTried = tried] \in Managers
    BY <1>1 DEF Managers
  <2>4. /\ r.manager.originalZone = m.originalZone /\ r.manager.regionsTried = m.regionsTried
        /\ r.manager.zonesTried = tried
    BY <2>2 DEF Managers
  <2> QED
    BY <2>2, <2>3, <2>4 DEF tried
<1> QED
  BY <1>2, <1>3

(* HandleSmartRetries for a failure it has no answer to. *)
LEMMA SameZone ==
    ASSUME NEW m, NEW f \in Flags, NEW how,
           ~(f.smartQuota /\ how = "quota"), ~(f.smartCapacity /\ how = "capacity"),
           NEW r \in HandleSmartRetries(m, f, how)
    PROVE  r.manager = m /\ r.zone = f.zone
  BY DEF HandleSmartRetries

(* For want of capacity: another zone of the region it began in, as long as *)
(* there is one.                                                            *)
LEMMA AnotherZone ==
    ASSUME NEW m \in Managers, m.originalZone \in Zones, NEW f \in Flags,
           f.zone \in Zones, f.smartCapacity,
           NEW r \in HandleSmartRetries(m, f, "capacity")
    PROVE  /\ r.manager \in Managers /\ r.zone \in Zones
           /\ r.manager.originalZone = m.originalZone
           /\ r.manager.regionsTried = m.regionsTried
           /\ r.zone \in Around(m.originalZone)
           /\ ~(Around(m.originalZone) \subseteq m.zonesTried \cup {f.zone, m.originalZone}) =>
                 /\ r.manager.zonesTried = m.zonesTried \cup {f.zone}
                 /\ r.zone \notin r.manager.zonesTried
<1> DEFINE possible == GetZonesInRegion(RegionOf[m.originalZone]) \cap Supported
<1>1. r \in ChooseAndSetNewZone(m, f.zone, possible)
  BY DEF HandleSmartRetries, AssignZoneToSameRegion
<1>2. possible \subseteq Zones /\ Around(m.originalZone) = possible \cup {m.originalZone}
  BY LoopGiven DEF Around
<1> HIDE DEF possible
<1> QED
  BY <1>1, <1>2, ChooseAnswers

(* For want of quota: a zone of another region, as long as there is one. *)
LEMMA AnotherRegion ==
    ASSUME NEW m \in Managers, m.originalZone \in Zones, NEW f \in Flags,
           f.zone \in Zones, f.smartQuota,
           NEW r \in HandleSmartRetries(m, f, "quota")
    PROVE  /\ r.manager \in Managers /\ r.zone \in Zones
           /\ r.manager.originalZone = m.originalZone
           /\ Counted(m) =>
                 \/ SupportedRegions \subseteq m.regionsTried \cup {RegionOf[f.zone]}
                 \/ /\ r.manager.regionsTried = m.regionsTried \cup {RegionOf[f.zone]}
                    /\ Counted(r.manager) /\ RegionOf[r.zone] \notin r.manager.regionsTried
<1> DEFINE tried == m.regionsTried \cup {RegionOf[f.zone]}
           toTry == SupportedRegions \ tried
           m1 == [m EXCEPT !.regionsTried = {}]
           m2 == [m EXCEPT !.regionsTried = tried]
<1>1. r \in AssignZoneToNewRegion(m, f.zone)
  BY DEF HandleSmartRetries
<1>2. tried \in SUBSET {RegionOf[z] : z \in Zones}
  BY DEF Managers
<1>3. CASE toTry = {}
  <2>1. m1 \in Managers /\ m1.originalZone = m.originalZone
    BY DEF Managers
  <2>2. r \in ChooseAndSetNewZone(m1, f.zone, GetZonesInRegion(RegionOf[m.originalZone]))
    BY <1>1, <1>3 DEF AssignZoneToNewRegion
  <2>3. GetZonesInRegion(RegionOf[m.originalZone]) \subseteq Zones
    BY DEF GetZonesInRegion
  <2>4. SupportedRegions \subseteq m.regionsTried \cup {RegionOf[f.zone]}
    BY <1>3
  <2> HIDE DEF m1
  <2> QED
    BY <2>1, <2>2, <2>3, <2>4, ChooseAnswers
<1>4. CASE toTry # {}
  <2>1. m2 \in Managers /\ m2.originalZone = m.originalZone /\ m2.regionsTried = tried
        /\ m2.zonesTried = m.zonesTried
    <3> HIDE DEF tried
    <3> QED
      BY <1>2 DEF Managers
  <2>2. r \in UNION {ChooseAndSetNewZone(m2, f.zone, GetZonesInRegion(g)) : g \in toTry}
    BY <1>1, <1>4 DEF AssignZoneToNewRegion
  <2>3. PICK g \in toTry : r \in ChooseAndSetNewZone(m2, f.zone, GetZonesInRegion(g))
    BY <2>2
  <2>4. GetZonesInRegion(g) \subseteq Zones
    BY DEF GetZonesInRegion
  <2> HIDE DEF m2
  <2>5. /\ r.manager \in Managers /\ r.zone \in Zones
        /\ r.manager.originalZone = m.originalZone /\ r.manager.regionsTried = tried
        /\ \/ GetZonesInRegion(g) \subseteq m.zonesTried \cup {f.zone}
           \/ /\ r.manager.zonesTried = m.zonesTried \cup {f.zone}
              /\ r.zone \in GetZonesInRegion(g)
    BY <2>1, <2>3, <2>4, ChooseAnswers
  <2>6. PICK z \in Zones : z \in GetZonesInRegion(g)
    BY LoopGiven DEF SupportedRegions, GetZonesInRegion
  <2>7. ASSUME Counted(m)
        PROVE  Counted(r.manager) /\ RegionOf[r.zone] \notin tried
    BY <2>5, <2>6, <2>7 DEF GetZonesInRegion, Counted
  <2> QED
    BY <2>5, <2>7
<1> QED
  BY <1>3, <1>4

(* __init__ of the manager. *)
LEMMA ManagerAnswers ==
    ASSUME NEW f \in Flags, NEW r \in CreateManager(f)
    PROVE  /\ r.manager \in Managers /\ r.flags \in Flags /\ r.flags.zone \in Zones
           /\ f.zone # Any => r.flags = f
           /\ r.manager.zonesTried = {} /\ r.manager.regionsTried = {}
           /\ SmartOne(r.flags) => r.manager.originalZone = r.flags.zone
<1> DEFINE c == CheckFlag(f)
<1>1. c \in Flags /\ c.zone = f.zone /\ c.retries = f.retries /\ (f.zone # Any => c = f)
      /\ (f.zone = Any => SmartOne(c))
  BY DEF CheckFlag, Flags, SmartOne
<1> HIDE DEF c
<1>2. ASSUME NEW z \in Zones
      PROVE  [NewManager EXCEPT !.originalZone = z] \in Managers
             /\ [NewManager EXCEPT !.originalZone = z].originalZone = z
             /\ [NewManager EXCEPT !.originalZone = z].zonesTried = {}
             /\ [NewManager EXCEPT !.originalZone = z].regionsTried = {}
  BY DEF NewManager, Managers
<1>3. CASE f.zone = Any
  <2> DEFINE n == IF c.retries < 1 THEN Cardinality(Supported) ELSE c.retries
  <2>1. CreateManager(f) =
          {[manager |-> [NewManager EXCEPT !.originalZone = z],
            flags |-> [c EXCEPT !.zone = z, !.retries = n]] : z \in Supported}
    BY <1>1, <1>3 DEF CreateManager, SetOriginalZoneAndFlag, c, SmartOne
  <2>2. PICK z \in Supported :
          r = [manager |-> [NewManager EXCEPT !.originalZone = z],
               flags |-> [c EXCEPT !.zone = z, !.retries = n]]
    BY <2>1
  <2>3. n \in Nat
    BY <1>1, FS_CardinalityType, LoopGiven DEF Flags
  <2> HIDE DEF n
  <2>4. z \in Zones /\ r.flags \in Flags /\ r.flags.zone = z
        /\ r.manager = [NewManager EXCEPT !.originalZone = z]
    BY <1>1, <2>2, <2>3, LoopGiven DEF Flags
  <2> QED
    BY <1>2, <1>3, <2>4
<1>4. CASE f.zone # Any
  <2>1. f.zone \in Zones /\ c = f
    BY <1>1, <1>4 DEF Flags
  <2>2. CASE SmartOne(f)
    <3>1. r = [manager |-> [NewManager EXCEPT !.originalZone = f.zone], flags |-> f]
      BY <1>4, <2>1, <2>2 DEF CreateManager, SetOriginalZoneAndFlag, c, SmartOne
    <3> QED
      BY <1>2, <2>1, <3>1
  <2>3. CASE ~SmartOne(f)
    <3>1. r = [manager |-> NewManager, flags |-> f]
      BY <1>4, <2>1, <2>3 DEF CreateManager, c, SmartOne
    <3>2. /\ NewManager \in Managers /\ NewManager.zonesTried = {}
          /\ NewManager.regionsTried = {}
      BY DEF NewManager, Managers
    <3> QED
      BY <2>1, <2>3, <3>1, <3>2
  <2> QED
    BY <2>2, <2>3
<1> QED
  BY <1>3, <1>4

(* A tour whose next attempt has begun, and one whose last attempt failed. *)
Begun(u, z) == Append(u, [zone |-> z, substatus |-> "none"])
Failed(u, how) == [u EXCEPT ![Len(u)].substatus = how]

(* Tours that agree on the zones of the first n attempts. *)
LEMMA SameZones ==
    ASSUME NEW u, NEW w, NEW n, \A k \in 1..n : w[k].zone = u[k].zone
    PROVE  ZonesOf(w, n) = ZonesOf(u, n) /\ RegionsOf(w, n) = RegionsOf(u, n)
  BY DEF ZonesOf, RegionsOf

LEMMA OneMore ==
    ASSUME NEW u, NEW n \in Nat
    PROVE  /\ ZonesOf(u, n + 1) = ZonesOf(u, n) \cup {u[n+1].zone}
           /\ RegionsOf(u, n + 1) = RegionsOf(u, n) \cup {RegionOf[u[n+1].zone]}
<1>1. 1..(n + 1) = (1..n) \cup {n + 1}
  OBVIOUS
<1> QED
  BY <1>1 DEF ZonesOf, RegionsOf

(* An attempt begins in the zone of the flags. *)
LEMMA Longer ==
    ASSUME NEW u \in Seq(Attempts), NEW z \in Zones,
           NEW w, w = Begun(u, z)
    PROVE  /\ w \in Seq(Attempts) /\ Len(w) = Len(u) + 1 /\ Len(u) \in Nat /\ w # <<>>
           /\ \A k \in 1..Len(u) : w[k] = u[k]
           /\ w[Len(w)].zone = z /\ w[Len(w)].substatus = "none"
<1> DEFINE x == [zone |-> z, substatus |-> "none"]
<1>1. x \in Attempts /\ x.zone = z /\ x.substatus = "none"
  BY DEF Attempts
<1> HIDE DEF x
<1>2. w = Append(u, x)
  BY DEF x, Begun
<1> QED
  BY <1>1, <1>2

(* It fails. *)
LEMMA Marked ==
    ASSUME NEW u \in Seq(Attempts), u # <<>>, NEW how \in Failures,
           NEW w, w = Failed(u, how)
    PROVE  /\ w \in Seq(Attempts) /\ Len(w) = Len(u) /\ Len(u) \in Nat \ {0} /\ w # <<>>
           /\ \A k \in 1..Len(u) : w[k].zone = u[k].zone
           /\ \A k \in 1..(Len(u) - 1) : w[k] = u[k]
           /\ w[Len(w)].substatus = how
<1>1. Len(u) \in Nat \ {0} /\ u[Len(u)] \in Attempts
  OBVIOUS
<1> DEFINE x == [u[Len(u)] EXCEPT !.substatus = how]
<1>2. x \in Attempts /\ x.zone = u[Len(u)].zone /\ x.substatus = how
  BY <1>1 DEF Attempts
<1>3. w = [u EXCEPT ![Len(u)] = x]
  BY DEF Failed
<1> HIDE DEF x
<1>4. w \in Seq(Attempts) /\ Len(w) = Len(u) /\ w[Len(u)] = x
      /\ \A k \in 1..(Len(u) - 1) : w[k] = u[k]
  BY <1>1, <1>2, <1>3
<1>5. \A k \in 1..Len(u) : w[k].zone = u[k].zone
  BY <1>1, <1>2, <1>4
<1>6. w # <<>>
  BY <1>1, <1>4
<1> QED
  BY <1>1, <1>2, <1>4, <1>5, <1>6

LEMMA BeginCapacity ==
    ASSUME NEW t \in Tasks, NEW v \in Tasks, NEW u \in Seq(Attempts), NEW f \in Flags,
           t.pc = "begin", v.pc = "attempt", v.manager = t.manager, f.zone \in Zones,
           ByCapacity(t, u, f), NEW w, w = Begun(u, f.zone)
    PROVE  ByCapacity(v, w, f)
<1> DEFINE n == Len(u)
           o == t.manager.originalZone
           C == Cardinality(Around(o))
<1>1. /\ Len(w) = n + 1 /\ n \in Nat /\ w[n+1].zone = f.zone
      /\ \A k \in 1..n : w[k] = u[k]
  BY Longer
<1>2. C \in Nat
  BY FiniteChoice
<1>3. ZonesOf(w, n) = ZonesOf(u, n) /\ ZonesOf(w, n + 1) = ZonesOf(u, n) \cup {f.zone}
  <2>1. ZonesOf(w, n) = ZonesOf(u, n)
    BY <1>1, SameZones
  <2>2. ZonesOf(w, n + 1) = ZonesOf(w, n) \cup {w[n+1].zone}
    BY <1>1, OneMore
  <2> QED
    BY <1>1, <2>1, <2>2
<1> SUFFICES ASSUME f.smartCapacity, Only(w, n, "capacity")
             PROVE  /\ ZonesOf(w, n + 1) \subseteq Around(o)
                    /\ \A i, j \in 1..(n + 1) : i < j /\ j <= C => w[i].zone # w[j].zone
                    /\ n + 1 <= C => t.manager.zonesTried = ZonesOf(w, n)
  BY <1>1 DEF ByCapacity
<1>4. Only(u, n, "capacity") /\ Only(u, n - 1, "capacity")
  BY <1>1 DEF Only
<1>5. /\ ZonesOf(u, n) \subseteq Around(o) /\ f.zone \in Around(o)
      /\ \A i, j \in 1..n : i < j /\ j <= C => u[i].zone # u[j].zone
      /\ n < C => t.manager.zonesTried = ZonesOf(u, n) /\ f.zone \notin ZonesOf(u, n)
  BY <1>4 DEF ByCapacity, Running
<1> HIDE DEF n, o, C
<1>6. ASSUME NEW i \in 1..(n + 1), NEW j \in 1..(n + 1), i < j, j <= C
      PROVE  w[i].zone # w[j].zone
  <2>1. CASE j <= n
    BY <1>1, <1>5, <1>6, <2>1
  <2>2. CASE j = n + 1
    <3>1. i \in 1..n /\ u[i].zone \in ZonesOf(u, n)
      BY <1>1, <1>6, <2>2 DEF ZonesOf
    <3> QED
      BY <1>1, <1>2, <1>5, <1>6, <2>2, <3>1
  <2> QED
    BY <1>1, <2>1, <2>2
<1> QED
  BY <1>1, <1>2, <1>3, <1>5, <1>6

LEMMA BeginQuota ==
    ASSUME NEW t \in Tasks, NEW v \in Tasks, NEW u \in Seq(Attempts), NEW f \in Flags,
           t.pc = "begin", v.pc = "attempt", v.manager = t.manager, f.zone \in Zones,
           ByQuota(t, u, f), NEW w, w = Begun(u, f.zone)
    PROVE  ByQuota(v, w, f)
<1> DEFINE n == Len(u)
           o == t.manager.originalZone
           C == Cardinality(Regions(o))
<1>1. /\ Len(w) = n + 1 /\ n \in Nat /\ w[n+1].zone = f.zone
      /\ \A k \in 1..n : w[k] = u[k]
  BY Longer
<1>2. C \in Nat
  BY FiniteChoice
<1>3. RegionsOf(w, n) = RegionsOf(u, n)
  BY <1>1, SameZones
<1> SUFFICES ASSUME f.smartQuota, Only(w, n, "quota")
             PROVE  /\ \A i, j \in 1..(n + 1) :
                          i < j /\ j <= C => RegionOf[w[i].zone] # RegionOf[w[j].zone]
                    /\ n + 1 <= C => t.manager.regionsTried = RegionsOf(w, n) /\ Counted(t.manager)
  BY <1>1 DEF ByQuota
<1>4. Only(u, n, "quota") /\ Only(u, n - 1, "quota")
  BY <1>1 DEF Only
<1>5. /\ \A i, j \in 1..n : i < j /\ j <= C => RegionOf[u[i].zone] # RegionOf[u[j].zone]
      /\ \/ n >= C
         \/ /\ t.manager.regionsTried = RegionsOf(u, n) /\ Counted(t.manager)
            /\ RegionOf[f.zone] \notin RegionsOf(u, n)
  BY <1>4 DEF ByQuota, Running
<1> HIDE DEF n, o, C
<1>6. ASSUME NEW i \in 1..(n + 1), NEW j \in 1..(n + 1), i < j, j <= C
      PROVE  RegionOf[w[i].zone] # RegionOf[w[j].zone]
  <2>1. CASE j <= n
    BY <1>1, <1>5, <1>6, <2>1
  <2>2. CASE j = n + 1
    <3>1. i \in 1..n /\ RegionOf[u[i].zone] \in RegionsOf(u, n)
      BY <1>1, <1>6, <2>2 DEF RegionsOf
    <3> QED
      BY <1>1, <1>2, <1>5, <1>6, <2>2, <3>1
  <2> QED
    BY <1>1, <2>1, <2>2
<1> QED
  BY <1>1, <1>2, <1>3, <1>5, <1>6

LEMMA RetryCapacity ==
    ASSUME NEW t \in Tasks, NEW v \in Tasks, NEW u \in Seq(Attempts), u # <<>>,
           NEW f \in Flags, NEW g \in Flags, t.pc = "retry", v.pc = "check",
           NEW b, NEW d, Past(t, u, b, d), Zoned(t, u, f), ByCapacity(t, u, f),
           NEW r \in HandleSmartRetries(t.manager, f, t.substatus),
           v.manager = r.manager, g.zone = r.zone, g.smartCapacity = f.smartCapacity,
           r.manager.originalZone = t.manager.originalZone
    PROVE  ByCapacity(v, u, g)
<1> DEFINE n == Len(u)
           m == t.manager
           o == t.manager.originalZone
           C == Cardinality(Around(o))
<1>1. n \in Nat \ {0} /\ u[n].substatus = t.substatus /\ f.zone \in Zones /\ f.zone = u[n].zone
  BY DEF Past, Zoned, Running
<1>2. C \in Nat /\ IsFiniteSet(Around(o))
  BY FiniteChoice
<1> SUFFICES ASSUME f.smartCapacity, Only(u, n - 1, "capacity")
             PROVE  /\ ZonesOf(u, n) \subseteq Around(o)
                    /\ \A i, j \in 1..n : i < j /\ j <= C => u[i].zone # u[j].zone
                    /\ Only(u, n, "capacity") =>
                          /\ r.zone \in Around(o)
                          /\ n < C => r.manager.zonesTried = ZonesOf(u, n)
                                      /\ r.zone \notin r.manager.zonesTried
  BY DEF ByCapacity
<1>3. /\ ZonesOf(u, n) \subseteq Around(o)
      /\ \A i, j \in 1..n : i < j /\ j <= C => u[i].zone # u[j].zone
      /\ n <= C => m.zonesTried = ZonesOf(u, n - 1)
  BY DEF ByCapacity, Running
<1>4. m \in Managers /\ o \in Zones /\ u[1].zone = o
  BY DEF Tasks, Zoned, Running, SmartOne
<1>5. ASSUME Only(u, n, "capacity")
      PROVE  /\ r.zone \in Around(o)
             /\ ~(Around(o) \subseteq m.zonesTried \cup {f.zone, o}) =>
                   /\ r.manager.zonesTried = m.zonesTried \cup {f.zone}
                   /\ r.zone \notin r.manager.zonesTried
  <2>1. t.substatus = "capacity"
    BY <1>1, <1>5 DEF Only
  <2> QED
    BY <1>1, <1>4, <2>1, AnotherZone
<1>6. ASSUME n < C
      PROVE  m.zonesTried \cup {f.zone} = ZonesOf(u, n) /\ ~(Around(o) \subseteq ZonesOf(u, n))
             /\ o \in ZonesOf(u, n)
  <2>1. ZonesOf(u, (n - 1) + 1) = ZonesOf(u, n - 1) \cup {u[(n - 1) + 1].zone}
    BY <1>1, OneMore
  <2>2. m.zonesTried \cup {f.zone} = ZonesOf(u, n)
    BY <1>1, <1>2, <1>3, <1>6, <2>1
  <2>3. o \in ZonesOf(u, n)
    BY <1>1, <1>4 DEF ZonesOf
  <2>4. IsFiniteSet(ZonesOf(u, n)) /\ Cardinality(ZonesOf(u, n)) <= n
        /\ Cardinality(ZonesOf(u, n)) \in Nat
    BY <1>1, FewTried, FS_CardinalityType
  <2>5. ~(Around(o) \subseteq ZonesOf(u, n))
    <3>1. ASSUME Around(o) \subseteq ZonesOf(u, n) PROVE C <= Cardinality(ZonesOf(u, n))
      BY <2>4, <3>1, FS_Subset
    <3> HIDE DEF C
    <3> QED
      BY <1>1, <1>2, <1>6, <2>4, <3>1
  <2> QED
    BY <2>2, <2>3, <2>5
<1> HIDE DEF n, o, C, m
<1> QED
  BY <1>3, <1>5, <1>6

LEMMA RetryQuota ==
    ASSUME NEW t \in Tasks, NEW v \in Tasks, NEW u \in Seq(Attempts), u # <<>>,
           NEW f \in Flags, NEW g \in Flags, t.pc = "retry", v.pc = "check",
           NEW b, NEW d, Past(t, u, b, d), Zoned(t, u, f), ByQuota(t, u, f),
           NEW r \in HandleSmartRetries(t.manager, f, t.substatus),
           v.manager = r.manager, g.zone = r.zone, g.smartQuota = f.smartQuota,
           r.manager.originalZone = t.manager.originalZone
    PROVE  ByQuota(v, u, g)
<1> DEFINE n == Len(u)
           m == t.manager
           o == t.manager.originalZone
           C == Cardinality(Regions(o))
<1>1. n \in Nat \ {0} /\ u[n].substatus = t.substatus /\ f.zone \in Zones /\ f.zone = u[n].zone
  BY DEF Past, Zoned, Running
<1>2. C \in Nat /\ IsFiniteSet(Regions(o))
  BY FiniteChoice
<1> SUFFICES ASSUME f.smartQuota, Only(u, n - 1, "quota")
             PROVE  /\ \A i, j \in 1..n :
                          i < j /\ j <= C => RegionOf[u[i].zone] # RegionOf[u[j].zone]
                    /\ Only(u, n, "quota") =>
                          \/ n >= C
                          \/ /\ r.manager.regionsTried = RegionsOf(u, n) /\ Counted(r.manager)
                             /\ RegionOf[r.zone] \notin r.manager.regionsTried
  BY DEF ByQuota
<1>3. /\ \A i, j \in 1..n : i < j /\ j <= C => RegionOf[u[i].zone] # RegionOf[u[j].zone]
      /\ n <= C => m.regionsTried = RegionsOf(u, n - 1) /\ Counted(m)
  BY DEF ByQuota, Running
<1>4. m \in Managers /\ o \in Zones /\ u[1].zone = o
  BY DEF Tasks, Zoned, Running, SmartOne
<1>5. ASSUME Only(u, n, "quota"), Counted(m)
      PROVE  \/ SupportedRegions \subseteq m.regionsTried \cup {RegionOf[f.zone]}
             \/ /\ r.manager.regionsTried = m.regionsTried \cup {RegionOf[f.zone]}
                /\ Counted(r.manager) /\ RegionOf[r.zone] \notin r.manager.regionsTried
  <2>1. t.substatus = "quota"
    BY <1>1, <1>5 DEF Only
  <2> QED
    BY <1>1, <1>4, <1>5, <2>1, AnotherRegion
<1>6. ASSUME n < C
      PROVE  /\ m.regionsTried \cup {RegionOf[f.zone]} = RegionsOf(u, n) /\ Counted(m)
             /\ ~(SupportedRegions \subseteq RegionsOf(u, n))
  <2>1. RegionsOf(u, (n - 1) + 1) = RegionsOf(u, n - 1) \cup {RegionOf[u[(n - 1) + 1].zone]}
    BY <1>1, OneMore
  <2>2. m.regionsTried \cup {RegionOf[f.zone]} = RegionsOf(u, n) /\ Counted(m)
    BY <1>1, <1>2, <1>3, <1>6, <2>1
  <2>3. RegionOf[o] \in RegionsOf(u, n)
    BY <1>1, <1>4 DEF RegionsOf
  <2>4. IsFiniteSet(RegionsOf(u, n)) /\ Cardinality(RegionsOf(u, n)) <= n
        /\ Cardinality(RegionsOf(u, n)) \in Nat
    BY <1>1, FewTried, FS_CardinalityType
  <2>5. ~(Regions(o) \subseteq RegionsOf(u, n))
    <3>1. ASSUME Regions(o) \subseteq RegionsOf(u, n) PROVE C <= Cardinality(RegionsOf(u, n))
      BY <2>4, <3>1, FS_Subset
    <3> HIDE DEF C
    <3> QED
      BY <1>1, <1>2, <1>6, <2>4, <3>1
  <2>6. ~(SupportedRegions \subseteq RegionsOf(u, n))
    BY <2>3, <2>5 DEF Regions
  <2> QED
    BY <2>2, <2>6
<1>7. n < C \/ n >= C
  BY <1>1, <1>2
<1> HIDE DEF n, o, C, m
<1> QED
  BY <1>3, <1>5, <1>6, <1>7

(* The attempt's failure is noted; nothing else changes that the manager    *)
(* will look at.                                                            *)
LEMMA RaisesCapacity ==
    ASSUME NEW t \in Tasks, NEW v \in Tasks, NEW u \in Seq(Attempts), u # <<>>, NEW f \in Flags,
           t.pc = "attempt", v.pc \in {"retry", "returned"}, v.manager = t.manager,
           ByCapacity(t, u, f), NEW how \in Failures,
           NEW w, w = Failed(u, how)
    PROVE  ByCapacity(v, w, f)
<1> DEFINE n == Len(u)
           o == t.manager.originalZone
           C == Cardinality(Around(o))
<1>1. /\ Len(w) = n /\ n \in Nat \ {0} /\ \A k \in 1..n : w[k].zone = u[k].zone
      /\ \A k \in 1..(n - 1) : w[k] = u[k]
  BY Marked
<1>2. ZonesOf(w, n) = ZonesOf(u, n) /\ ZonesOf(w, n - 1) = ZonesOf(u, n - 1)
  <2> HIDE DEF n
  <2>1. ZonesOf(w, n) = ZonesOf(u, n)
    BY <1>1 DEF ZonesOf
  <2>2. \A k \in 1..(n - 1) : w[k].zone = u[k].zone
    BY <1>1
  <2>3. ZonesOf(w, n - 1) = ZonesOf(u, n - 1)
    BY <2>2 DEF ZonesOf
  <2> QED
    BY <2>1, <2>3
<1> SUFFICES ASSUME f.smartCapacity, Only(w, n - 1, "capacity")
             PROVE  /\ ZonesOf(w, n) \subseteq Around(o)
                    /\ \A i, j \in 1..n : i < j /\ j <= C => w[i].zone # w[j].zone
                    /\ n <= C => t.manager.zonesTried = ZonesOf(w, n - 1)
  BY <1>1 DEF ByCapacity
<1>3. Only(u, n - 1, "capacity")
  BY <1>1 DEF Only
<1>4. /\ ZonesOf(u, n) \subseteq Around(o)
      /\ \A i, j \in 1..n : i < j /\ j <= C => u[i].zone # u[j].zone
      /\ n <= C => t.manager.zonesTried = ZonesOf(u, n - 1)
  BY <1>3 DEF ByCapacity, Running
<1> HIDE DEF n, o, C
<1> QED
  BY <1>1, <1>2, <1>4

LEMMA RaisesQuota ==
    ASSUME NEW t \in Tasks, NEW v \in Tasks, NEW u \in Seq(Attempts), u # <<>>, NEW f \in Flags,
           t.pc = "attempt", v.pc \in {"retry", "returned"}, v.manager = t.manager,
           ByQuota(t, u, f), NEW how \in Failures,
           NEW w, w = Failed(u, how)
    PROVE  ByQuota(v, w, f)
<1> DEFINE n == Len(u)
           o == t.manager.originalZone
           C == Cardinality(Regions(o))
<1>1. /\ Len(w) = n /\ n \in Nat \ {0} /\ \A k \in 1..n : w[k].zone = u[k].zone
      /\ \A k \in 1..(n - 1) : w[k] = u[k]
  BY Marked
<1>2. RegionsOf(w, n - 1) = RegionsOf(u, n - 1)
  <2> HIDE DEF n
  <2>1. \A k \in 1..(n - 1) : w[k].zone = u[k].zone
    BY <1>1
  <2> QED
    BY <2>1 DEF RegionsOf
<1> SUFFICES ASSUME f.smartQuota, Only(w, n - 1, "quota")
             PROVE  /\ \A i, j \in 1..n :
                          i < j /\ j <= C => RegionOf[w[i].zone] # RegionOf[w[j].zone]
                    /\ n <= C => t.manager.regionsTried = RegionsOf(w, n - 1) /\ Counted(t.manager)
  BY <1>1 DEF ByQuota
<1>3. Only(u, n - 1, "quota")
  BY <1>1 DEF Only
<1>4. /\ \A i, j \in 1..n : i < j /\ j <= C => RegionOf[u[i].zone] # RegionOf[u[j].zone]
      /\ n <= C => t.manager.regionsTried = RegionsOf(u, n - 1) /\ Counted(t.manager)
  BY <1>3 DEF ByQuota, Running
<1> HIDE DEF n, o, C
<1> QED
  BY <1>1, <1>2, <1>4

(* The steps of a task, as the task, its tour and the flags of its worker   *)
(* see them.  The task is made:                                             *)
LEMMA TaskInvNew ==
    ASSUME NEW f, NEW b
    PROVE  TaskInv(NewTask, <<>>, b, {}, f)
<1>1. NewTask.pc = "pending" /\ NewTask.samples = {} /\ NewTask.status = "skipped"
  BY DEF NewTask
<1> QED
  BY <1>1 DEF TaskInv, Past, Zoned, ByCapacity, ByQuota, Running

(* It starts, finds the event unset, or ends without an attempt. *)
LEMMA TaskInvMoves ==
    ASSUME NEW t \in Tasks, NEW v \in Tasks, NEW u, NEW b, NEW d, NEW f,
           TaskInv(t, u, b, d, f),
           \/ t.pc = "pending" /\ v.pc = "init"
           \/ t.pc = "check" /\ v.pc = "begin"
           \/ t.pc \in {"init", "check", "retry"} /\ v.pc \in TaskEnds,
           v.manager = t.manager, v.maxRunCount = t.maxRunCount, v.status = t.status,
           v.samples = t.samples
    PROVE  TaskInv(v, u, b, d, f)
<1> USE DEF TaskInv
<1>1. v.pc \in {"init", "begin"} \cup TaskEnds /\ t.pc \in {"pending", "init", "check", "retry"}
  OBVIOUS
<1>2. Past(v, u, b, d)
  BY DEF Past, TaskEnds
<1>4. Zoned(v, u, f)
  BY DEF Zoned, Running, TaskEnds
<1>5. ByCapacity(v, u, f)
  BY DEF ByCapacity, Running, TaskEnds
<1>6. ByQuota(v, u, f)
  BY DEF ByQuota, Running, TaskEnds
<1> QED
  BY <1>2, <1>4, <1>5, <1>6

(* It makes its zone manager. *)
LEMMA TaskInvInits ==
    ASSUME NEW t \in Tasks, NEW v \in Tasks, NEW u, NEW b, NEW d,
           NEW f \in Flags, TaskInv(t, u, b, d, f),
           t.pc = "init", v.pc = "check", NEW r \in CreateManager(f),
           v.manager = r.manager, v.maxRunCount = 1 + r.flags.retries, v.status = t.status,
           v.samples = t.samples
    PROVE  TaskInv(v, u, b, d, r.flags)
<1> USE DEF TaskInv
<1> DEFINE g == r.flags
           o == r.manager.originalZone
<1>1. /\ g \in Flags /\ g.zone \in Zones /\ (f.zone # Any => g = f)
      /\ r.manager.zonesTried = {} /\ r.manager.regionsTried = {}
      /\ SmartOne(g) => o = g.zone
  BY ManagerAnswers
<1>2. u = <<>> /\ Len(u) = 0
  BY DEF Past
<1> HIDE DEF g, o
<1>3. Past(v, u, b, d)
  BY <1>2 DEF Past
<1>4. Zoned(v, u, g)
  BY <1>1, <1>2 DEF Zoned, Running, g, o
<1>5. ZonesOf(u, 0) = {} /\ RegionsOf(u, 0) = {}
  BY DEF ZonesOf, RegionsOf
<1>6. ByCapacity(v, u, g)
  <2>1. g.smartCapacity => g.zone \in Around(o)
    BY <1>1 DEF Around, SmartOne
  <2> QED
    BY <1>1, <1>2, <1>5, <2>1 DEF ByCapacity, o
<1>7. ByQuota(v, u, g)
  BY <1>1, <1>2, <1>5 DEF ByQuota, Counted
<1> QED
  BY <1>3, <1>4, <1>6, <1>7 DEF g

(* An attempt begins. *)
LEMMA TaskInvBegins ==
    ASSUME NEW t \in Tasks, NEW v \in Tasks, NEW u \in Seq(Attempts),
           NEW b, NEW d, NEW f \in Flags, TaskInv(t, u, b, d, f),
           t.pc = "begin", v.pc = "attempt", v.manager = t.manager,
           v.maxRunCount = t.maxRunCount, v.status = "skipped", v.samples = {},
           NEW w, w = Begun(u, f.zone)
    PROVE  TaskInv(v, w, b, d, f) /\ w \in Seq(Attempts)
<1> USE DEF TaskInv
<1>1. f.zone \in Zones
  BY DEF Zoned, Running
<1>2. /\ w \in Seq(Attempts) /\ Len(w) = Len(u) + 1 /\ Len(u) \in Nat /\ w # <<>>
      /\ \A k \in 1..Len(u) : w[k] = u[k]
      /\ w[Len(w)].zone = f.zone /\ w[Len(w)].substatus = "none"
  BY <1>1, Longer
<1>3. Past(v, w, b, d)
  BY <1>2 DEF Past
<1>5. u = <<>> \/ Len(u) > 0
  OBVIOUS
<1>6. SmartOne(f) => w[1].zone = t.manager.originalZone
  <2>1. CASE u = <<>>
    BY <1>2, <2>1 DEF Zoned, Running
  <2>2. CASE u # <<>>
    <3>1. 1 \in 1..Len(u)
      BY <2>2
    <3> QED
      BY <1>2, <2>2, <3>1 DEF Zoned, Running
  <2> QED
    BY <2>1, <2>2
<1>7. Zoned(v, w, f)
  BY <1>2, <1>6 DEF Zoned, Running
<1>8. ByCapacity(v, w, f)
  BY <1>1, BeginCapacity
<1>9. ByQuota(v, w, f)
  BY <1>1, BeginQuota
<1> QED
  BY <1>2, <1>3, <1>7, <1>8, <1>9

(* It comes back. *)
LEMMA TaskInvReturns ==
    ASSUME NEW t \in Tasks, NEW v \in Tasks, NEW u \in Seq(Attempts),
           NEW b, NEW d, NEW e, NEW f, TaskInv(t, u, b, d, f),
           t.pc = "attempt", v.pc = "returned",
           v.samples = t.samples \cup (IF b \in e THEN {Len(u)} ELSE {})
    PROVE  TaskInv(v, u, b, e, f)
<1> USE DEF TaskInv
<1>1. Past(v, u, b, e)
  BY DEF Past
<1>2. Zoned(v, u, f) /\ ByCapacity(v, u, f) /\ ByQuota(v, u, f)
  BY DEF Zoned, ByCapacity, ByQuota, Running
<1> QED
  BY <1>1, <1>2

(* It fails, and is t no longer but v. *)
Raised(t, v, u, how, b, e) ==
    /\ t.pc = "attempt" /\ v.pc \in {"retry", "returned"}
    /\ v.pc = "retry" => Len(u) # t.maxRunCount
    /\ v.substatus = how /\ v.status = "failed"
    /\ v.manager = t.manager /\ v.maxRunCount = t.maxRunCount
    /\ v.samples = t.samples \cup (IF b \in e THEN {Len(u)} ELSE {})

LEMMA TaskInvRaises ==
    ASSUME NEW t \in Tasks, NEW v \in Tasks, NEW u \in Seq(Attempts),
           NEW b, NEW d, NEW e, NEW f \in Flags, NEW how \in Failures,
           TaskInv(t, u, b, d, f), Raised(t, v, u, how, b, e)
    PROVE  TaskInv(v, Failed(u, how), b, e, f) /\ Failed(u, how) \in Seq(Attempts)
<1> USE DEF Raised
<1> DEFINE w == Failed(u, how)
<1>1. u # <<>> /\ t.samples = {}
  BY DEF TaskInv, Past
<1>2. /\ w \in Seq(Attempts) /\ Len(w) = Len(u) /\ Len(u) \in Nat \ {0} /\ w # <<>>
      /\ \A i \in 1..Len(u) : w[i].zone = u[i].zone
      /\ w[Len(w)].substatus = how
  BY <1>1, Marked
<1>0. w = Failed(u, how)
  OBVIOUS
<1> HIDE DEF w
<1> USE DEF TaskInv
<1>3. Past(v, w, b, e)
  BY <1>1, <1>2 DEF Past
<1>5. Zoned(v, w, f)
  <2>1. w[1].zone = u[1].zone /\ w[Len(u)].zone = u[Len(u)].zone
    BY <1>2
  <2> QED
    BY <1>1, <1>2, <2>1 DEF Zoned, Running
<1>6. ByCapacity(v, w, f)
  BY <1>0, <1>1, RaisesCapacity
<1>7. ByQuota(v, w, f)
  BY <1>0, <1>1, RaisesQuota
<1> QED
  BY <1>2, <1>3, <1>5, <1>6, <1>7 DEF w

(* What HandleSmartRetries gives back, whatever the failure. *)
LEMMA RetryAnswers ==
    ASSUME NEW t \in Tasks, NEW u, NEW f \in Flags, t.pc = "retry", Zoned(t, u, f),
           NEW r \in HandleSmartRetries(t.manager, f, t.substatus)
    PROVE  /\ r.manager \in Managers /\ r.zone \in Zones
           /\ r.manager.originalZone = t.manager.originalZone
<1>1. t.manager \in Managers /\ f.zone \in Zones
      /\ (SmartOne(f) => t.manager.originalZone \in Zones)
  BY DEF Zoned, Running, Tasks
<1>2. CASE f.smartQuota /\ t.substatus = "quota"
  BY <1>1, <1>2, AnotherRegion DEF SmartOne
<1>3. CASE f.smartCapacity /\ t.substatus = "capacity"
  BY <1>1, <1>3, AnotherZone DEF SmartOne
<1>4. CASE ~(f.smartQuota /\ t.substatus = "quota") /\ ~(f.smartCapacity /\ t.substatus = "capacity")
  BY <1>1, <1>4, SameZone
<1> QED
  BY <1>2, <1>3, <1>4

(* It is to be tried again, perhaps in another zone: r is the answer of the *)
(* manager, g what becomes of the flags.                                    *)
Retried(t, v, f, g, r) ==
    /\ r \in HandleSmartRetries(t.manager, f, t.substatus)
    /\ g.zone = r.zone /\ g.retries = f.retries
    /\ g.smartQuota = f.smartQuota /\ g.smartCapacity = f.smartCapacity
    /\ t.pc = "retry" /\ v.pc = "check" /\ v.manager = r.manager
    /\ v.maxRunCount = t.maxRunCount /\ v.status = t.status /\ v.samples = t.samples

LEMMA TaskInvRetries ==
    ASSUME NEW t \in Tasks, NEW v \in Tasks, NEW u \in Seq(Attempts),
           NEW b, NEW d, NEW f \in Flags, NEW g \in Flags,
           TaskInv(t, u, b, d, f), NEW r, Retried(t, v, f, g, r)
    PROVE  TaskInv(v, u, b, d, g)
<1> USE DEF Retried
<1> USE DEF TaskInv
<1>1. u # <<>>
  BY DEF Past
<1>2. /\ r.manager \in Managers /\ r.zone \in Zones
      /\ r.manager.originalZone = t.manager.originalZone
  BY RetryAnswers
<1>3. Past(v, u, b, d)
  BY DEF Past
<1>4. Zoned(v, u, g)
  BY <1>1, <1>2 DEF Zoned, Running, SmartOne
<1>5. ByCapacity(v, u, g)
  BY <1>1, <1>2, RetryCapacity
<1>6. ByQuota(v, u, g)
  BY <1>1, <1>2, RetryQuota
<1> QED
  BY <1>3, <1>4, <1>5, <1>6

(* A task sees of the others' steps nothing, unless it shares their worker. *)
LEMMA Elsewhere ==
    ASSUME NEW t, NEW u, NEW c, NEW d, NEW e, NEW f, NEW g,
           TaskInv(t, u, c, d, f), c \in d <=> c \in e, t.pc \in Running => g = f
    PROVE  TaskInv(t, u, c, e, g)
<1>1. Past(t, u, c, e)
  BY DEF TaskInv, Past
<1>2. Zoned(t, u, g) /\ ByCapacity(t, u, g) /\ ByQuota(t, u, g)
  BY DEF TaskInv, Zoned, ByCapacity, ByQuota
<1> QED
  BY <1>1, <1>2 DEF TaskInv

(* A task takes a step of its own: the rule for all of them. *)
StepOf(b, v, w, g) ==
    /\ Holding(b) /\ v.worker = task[b].worker
    /\ task' = [task EXCEPT ![b] = v] /\ tour' = [tour EXCEPT ![b] = w]
    /\ flags' = [flags EXCEPT ![task[b].worker] = g]
    /\ fresh' \subseteq 1..N /\ \A c \in (1..N) \ {b} : c \in fresh <=> c \in fresh'
    /\ setting' = setting

LEMMA OneTask ==
    ASSUME LoopInv, NEW b \in 1..N, NEW v \in Tasks, NEW w \in Seq(Attempts),
           NEW g \in Flags, StepOf(b, v, w, g),
           TaskInv(v, w, b, fresh', g)
    PROVE  LoopInv'
<1> USE DEF LoopInv, StepOf
<1>1. /\ task' \in [1..N -> Tasks] /\ task'[b] = v /\ \A c \in (1..N) \ {b} : task'[c] = task[c]
      /\ tour' \in [1..N -> Seq(Attempts)] /\ tour'[b] = w
      /\ \A c \in (1..N) \ {b} : tour'[c] = tour[c]
  BY DEF LoopTyped
<1>2. /\ task[b].worker \in Workers /\ flags' \in [Workers -> Flags]
      /\ flags'[task[b].worker] = g /\ \A x \in Workers \ {task[b].worker} : flags'[x] = flags[x]
  BY DEF LoopTyped, Tasks
<1>3. LoopTyped'
  BY <1>1, <1>2 DEF LoopTyped
<1>4. OnePerWorker'
  BY <1>1 DEF OnePerWorker, Holding
<1>6. ASSUME NEW c \in 1..N
      PROVE  TaskInv(task'[c], tour'[c], c, fresh', flags'[task'[c].worker])
  <2>1. CASE c = b
    BY <1>1, <1>2, <2>1
  <2>2. CASE c # b
    <3>1. TaskInv(task[c], tour[c], c, fresh, flags[task[c].worker])
      OBVIOUS
    <3>2. task[c].worker \in Workers
      BY DEF LoopTyped, Tasks
    <3>3. task[c].pc \in Running => flags'[task[c].worker] = flags[task[c].worker]
      BY <1>2, <2>2, <3>2 DEF OnePerWorker, Holding
    <3>4. c \in fresh <=> c \in fresh'
      BY <2>2
    <3>5. TaskInv(task[c], tour[c], c, fresh', flags'[task[c].worker])
      BY <3>1, <3>3, <3>4, Elsewhere
    <3> QED
      BY <1>1, <2>2, <3>5
  <2> QED
    BY <2>1, <2>2
<1> QED
  BY <1>3, <1>4, <1>6

LEMMA Own ==
    ASSUME LoopInv, NEW b \in 1..N
    PROVE  /\ task[b] \in Tasks /\ tour[b] \in Seq(Attempts)
           /\ task[b].worker \in Workers /\ flags[task[b].worker] \in Flags
           /\ TaskInv(task[b], tour[b], b, fresh, flags[task[b].worker])
           /\ tour = [tour EXCEPT ![b] = tour[b]]
           /\ flags = [flags EXCEPT ![task[b].worker] = flags[task[b].worker]]
           /\ fresh \subseteq 1..N
<1>1. task[b] \in Tasks /\ task[b].worker \in Workers
  BY DEF LoopInv, LoopTyped, Tasks
<1> QED
  BY <1>1 DEF LoopInv, LoopTyped

LEMMA OnlyTask ==
    ASSUME LoopInv, NEW b \in 1..N, NEW v \in Tasks, Holding(b), v.worker = task[b].worker,
           task' = [task EXCEPT ![b] = v], UNCHANGED <<setting, flags, tour, fresh>>,
           TaskInv(v, tour[b], b, fresh, flags[task[b].worker])
    PROVE  LoopInv'
<1>1. /\ tour[b] \in Seq(Attempts) /\ flags[task[b].worker] \in Flags
      /\ fresh \subseteq 1..N
  BY Own
<1>2. /\ tour' = [tour EXCEPT ![b] = tour[b]]
      /\ flags' = [flags EXCEPT ![task[b].worker] = flags[task[b].worker]]
      /\ fresh' = fresh
  BY Own
<1>3. StepOf(b, v, tour[b], flags[task[b].worker])
  BY <1>1, <1>2 DEF StepOf
<1> QED
  BY <1>1, <1>2, <1>3, OneTask

(* The record t at another place. *)
Passes(v, t, p) ==
    /\ v.pc = p /\ v.worker = t.worker /\ v.manager = t.manager /\ v.maxRunCount = t.maxRunCount
    /\ v.status = t.status /\ v.substatus = t.substatus /\ v.samples = t.samples

LEMMA Passing ==
    ASSUME NEW t \in Tasks, NEW p \in TaskPcs
    PROVE  [t EXCEPT !.pc = p] \in Tasks /\ Passes([t EXCEPT !.pc = p], t, p)
  BY DEF Tasks, Passes

LEMMA StartTaskKeeps ==
    ASSUME LoopInv, NEW b \in 1..N, NEW x \in Workers, StartTask(b, x)
    PROVE  LoopInv'
<1> USE DEF LoopInv
<1> DEFINE v == [task[b] EXCEPT !.pc = "init", !.worker = x]
<1>1. /\ task[b].pc = "pending" /\ UNCHANGED <<setting, flags, tour, fresh>>
      /\ ~ \E c \in 1..N : Active(c) /\ task[c].worker = x
  BY DEF StartTask, Benchmarks
<1>2. task' = [task EXCEPT ![b] = v]
  BY DEF StartTask
<1>3. /\ v \in Tasks /\ v.pc = "init" /\ v.worker = x /\ v.manager = task[b].manager
      /\ v.maxRunCount = task[b].maxRunCount /\ v.status = task[b].status
      /\ v.samples = task[b].samples
  BY Own DEF Tasks, TaskPcs
<1> HIDE DEF v
<1>4. task' \in [1..N -> Tasks] /\ task'[b] = v /\ \A c \in (1..N) \ {b} : task'[c] = task[c]
  BY <1>2, <1>3 DEF LoopTyped
<1>5. LoopTyped'
  BY <1>1, <1>4 DEF LoopTyped
<1>6. \A c \in 1..N : Holding(c) => task[c].worker # x
  BY <1>1 DEF Holding, Active, Ended, Running
<1>7. OnePerWorker'
  BY <1>3, <1>4, <1>6 DEF OnePerWorker, Holding
<1>8. TaskInv(v, tour[b], b, fresh, flags[x])
  <2>1. TaskInv(task[b], tour[b], b, fresh, flags[x])
    BY <1>1, Own, Elsewhere DEF Running
  <2> QED
    BY <1>1, <1>3, <2>1, Own, TaskInvMoves
<1>9. ASSUME NEW c \in 1..N
      PROVE  TaskInv(task'[c], tour'[c], c, fresh', flags'[task'[c].worker])
  BY <1>1, <1>3, <1>4, <1>8
<1> QED
  BY <1>1, <1>5, <1>7, <1>9

LEMMA InitTaskKeeps ==
    ASSUME LoopInv, NEW b \in 1..N, InitTask(b)
    PROVE  LoopInv'
<1>1. /\ task[b].pc = "init" /\ Holding(b) /\ UNCHANGED <<setting, tour, fresh>>
  BY DEF InitTask, Holding
<1>2. PICK r \in CreateManager(flags[task[b].worker]) :
        /\ flags' = [flags EXCEPT ![task[b].worker] = r.flags]
        /\ task' = [task EXCEPT ![b].pc = "check", ![b].manager = r.manager,
                                ![b].maxRunCount = 1 + r.flags.retries]
  BY DEF InitTask
<1> DEFINE m == r.manager
           n == 1 + r.flags.retries
           v == [task[b] EXCEPT !.pc = "check", !.manager = m, !.maxRunCount = n]
<1>3. m \in Managers /\ r.flags \in Flags /\ n \in Nat
  BY Own, ManagerAnswers DEF Flags
<1>4. task' = [task EXCEPT ![b] = v] /\ flags' = [flags EXCEPT ![task[b].worker] = r.flags]
  BY <1>2
<1>5. /\ v \in Tasks /\ v.pc = "check" /\ v.worker = task[b].worker /\ v.manager = m
      /\ v.maxRunCount = n /\ v.status = task[b].status /\ v.samples = task[b].samples
  <2> HIDE DEF m, n
  <2> QED
    BY <1>3, Own DEF Tasks, TaskPcs, Running
<1> HIDE DEF v
<1>6. TaskInv(v, tour[b], b, fresh, r.flags)
  BY <1>1, <1>5, Own, TaskInvInits
<1> QED
  <2>1. StepOf(b, v, tour[b], r.flags)
    BY <1>1, <1>4, <1>5, Own DEF StepOf
  <2> QED
    BY <1>1, <1>3, <1>5, <1>6, <2>1, Own, OneTask

LEMMA MoveKeeps ==
    ASSUME LoopInv, NEW b \in 1..N, CheckEvent(b) \/ TaskRaises(b)
    PROVE  LoopInv'
<1>1. Holding(b) /\ UNCHANGED <<setting, flags, tour, fresh>>
  BY DEF CheckEvent, TaskRaises, Holding, Running
<1>2. PICK p \in TaskPcs :
        /\ task' = [task EXCEPT ![b].pc = p]
        /\ \/ task[b].pc = "check" /\ p = "begin"
           \/ task[b].pc \in {"init", "check", "retry"} /\ p \in TaskEnds
  <2>1. CASE CheckEvent(b)
    BY <2>1 DEF CheckEvent, Running, TaskPcs, TaskEnds
  <2>2. CASE TaskRaises(b)
    BY <2>2 DEF TaskRaises, Running, TaskPcs, TaskEnds
  <2> QED
    BY <2>1, <2>2
<1> DEFINE v == [task[b] EXCEPT !.pc = p]
<1>3. task' = [task EXCEPT ![b] = v]
  BY <1>2
<1>4. v \in Tasks /\ Passes(v, task[b], p)
  BY Own, Passing
<1> HIDE DEF v
<1>5. TaskInv(v, tour[b], b, fresh, flags[task[b].worker])
  BY <1>2, <1>4, Own, TaskInvMoves DEF Passes
<1> QED
  BY <1>1, <1>3, <1>4, <1>5, OnlyTask DEF Passes

LEMMA BeginAttemptKeeps ==
    ASSUME LoopInv, NEW b \in 1..N, BeginAttempt(b)
    PROVE  LoopInv'
<1> DEFINE v == [task[b] EXCEPT !.pc = "attempt", !.status = "skipped", !.substatus = "none",
                                !.samples = {}]
           w == Begun(tour[b], flags[task[b].worker].zone)
<1>1. /\ task[b].pc = "begin" /\ Holding(b) /\ UNCHANGED <<setting, flags, fresh>>
      /\ task' = [task EXCEPT ![b] = v]
  BY DEF BeginAttempt, Holding, Running
<1>2. tour' = [tour EXCEPT ![b] = w]
  BY Own DEF BeginAttempt, NewAttempt, Begun
<1>3. /\ v \in Tasks /\ v.pc = "attempt" /\ v.worker = task[b].worker
      /\ v.manager = task[b].manager /\ v.maxRunCount = task[b].maxRunCount
      /\ v.status = "skipped" /\ v.samples = {}
  BY Own DEF Tasks, TaskPcs, Running
<1> HIDE DEF v, w
<1>4. TaskInv(v, w, b, fresh, flags[task[b].worker]) /\ w \in Seq(Attempts)
  BY <1>1, <1>3, Own, TaskInvBegins DEF w
<1> QED
  <2>1. StepOf(b, v, w, flags[task[b].worker])
    BY <1>1, <1>2, <1>3, Own DEF StepOf
  <2> QED
    BY <1>1, <1>3, <1>4, <2>1, Own, OneTask

LEMMA AttemptReturnsKeeps ==
    ASSUME LoopInv, NEW b \in 1..N, AttemptReturns(b)
    PROVE  LoopInv'
<1>1. task[b].pc = "attempt" /\ Holding(b) /\ UNCHANGED <<setting, flags, tour>>
  BY DEF AttemptReturns, Holding, Running
<1>2. PICK s \in {"succeeded", "skipped"}, c \in BOOLEAN :
          /\ task' = [task EXCEPT ![b].pc = "returned", ![b].status = s,
                                  ![b].samples = @ \cup Collected(b, c)]
          /\ fresh' = IF c THEN fresh \cup {b} ELSE fresh \ {b}
  BY DEF AttemptReturns
<1> DEFINE kept == task[b].samples \cup (IF b \in fresh' THEN {Len(tour[b])} ELSE {})
           v == [task[b] EXCEPT !.pc = "returned", !.status = s, !.samples = kept]
<1>3. /\ fresh' \subseteq 1..N /\ \A x \in (1..N) \ {b} : x \in fresh <=> x \in fresh'
      /\ c <=> b \in fresh'
  BY <1>2, Own
<1>4. kept = task[b].samples \cup Collected(b, c) /\ kept \in SUBSET Nat
  BY <1>3, Own DEF Collected, Last, Tasks
<1>6. task' = [task EXCEPT ![b] = v]
  BY <1>2, <1>4
<1>7. /\ v \in Tasks /\ v.pc = "returned" /\ v.worker = task[b].worker /\ v.samples = kept
  <2> HIDE DEF kept
  <2> QED
    BY <1>4, Own DEF Tasks, TaskPcs, TaskEnds
<1> HIDE DEF v
<1>9. TaskInv(v, tour[b], b, fresh', flags[task[b].worker])
  BY <1>1, <1>7, Own, TaskInvReturns
<1> QED
  <2>1. StepOf(b, v, tour[b], flags[task[b].worker])
    BY <1>1, <1>3, <1>6, <1>7, Own DEF StepOf
  <2> QED
    BY <1>7, <1>9, <2>1, Own, OneTask

(* The way an attempt raises. *)
RaisesWith(b, how, interrupt, c) ==
    /\ tour' = [tour EXCEPT ![b][Last(b)].substatus = how]
    /\ fresh' = IF c THEN fresh \cup {b} ELSE fresh \ {b}
    /\ teardown' = (teardown \/ interrupt \/ setting.stopOnFailure)
    /\ task' = [task EXCEPT
          ![b].status = "failed", ![b].substatus = how,
          ![b].samples = @ \cup Collected(b, c),
          ![b].pc = IF /\ ~interrupt /\ ~setting.stopOnFailure
                       /\ how \in RetrySubstatuses
                       /\ Last(b) # task[b].maxRunCount
                    THEN "retry" ELSE "returned"]

LEMMA AttemptRaisesWith ==
    ASSUME NEW b, AttemptRaises(b)
    PROVE  \E how \in Failures, interrupt \in BOOLEAN, c \in BOOLEAN :
              RaisesWith(b, how, interrupt, c)
<1>1. Substatuses = Failures
  BY DEF Substatuses, Failures
<1> QED
  BY <1>1, Zenon DEF AttemptRaises, RaisesWith

LEMMA AttemptRaisesKeeps ==
    ASSUME LoopInv, NEW b \in 1..N, AttemptRaises(b)
    PROVE  LoopInv'
<1>1. task[b].pc = "attempt" /\ Holding(b) /\ UNCHANGED <<setting, flags>>
  BY DEF AttemptRaises, Holding, Running
<1>2. PICK how \in Failures, interrupt \in BOOLEAN, c \in BOOLEAN : RaisesWith(b, how, interrupt, c)
  BY AttemptRaisesWith
<1> DEFINE p == IF /\ ~interrupt /\ ~setting.stopOnFailure
                   /\ how \in RetrySubstatuses
                   /\ Last(b) # task[b].maxRunCount
                THEN "retry" ELSE "returned"
           kept == task[b].samples \cup (IF b \in fresh' THEN {Len(tour[b])} ELSE {})
           v == [task[b] EXCEPT !.status = "failed", !.substatus = how, !.samples = kept, !.pc = p]
           w == Failed(tour[b], how)
<1>3. /\ fresh' \subseteq 1..N /\ \A x \in (1..N) \ {b} : x \in fresh <=> x \in fresh'
      /\ c <=> b \in fresh'
  BY <1>2, Own DEF RaisesWith
<1>4. kept = task[b].samples \cup Collected(b, c) /\ kept \in SUBSET Nat
  BY <1>3, Own DEF Collected, Last, Tasks
<1>6. task' = [task EXCEPT ![b] = v]
  BY <1>2, <1>4 DEF RaisesWith
<1>7. /\ v \in Tasks /\ v.pc = p /\ v.worker = task[b].worker /\ v.samples = kept
      /\ v.status = "failed" /\ v.substatus = how /\ v.manager = task[b].manager
      /\ v.maxRunCount = task[b].maxRunCount
  <2>1. p \in TaskPcs
    BY DEF TaskPcs, Running, TaskEnds
  <2> HIDE DEF kept, p
  <2> QED
    BY <1>4, <2>1, Own DEF Tasks
<1>9. tour' = [tour EXCEPT ![b] = w]
  BY <1>2 DEF RaisesWith, Failed, Last
<1>10. p \in {"retry", "returned"} /\ (p = "retry" => Len(tour[b]) # task[b].maxRunCount)
  BY DEF Last
<1> HIDE DEF p
<1> HIDE DEF v
<1>11. TaskInv(v, w, b, fresh', flags[task[b].worker]) /\ w \in Seq(Attempts)
  <2> DEFINE f == flags[task[b].worker]
  <2>1. /\ task[b] \in Tasks /\ tour[b] \in Seq(Attempts) /\ f \in Flags
        /\ TaskInv(task[b], tour[b], b, fresh, f)
    BY Own
  <2>2. Raised(task[b], v, tour[b], how, b, fresh')
    BY <1>1, <1>7, <1>10 DEF Raised
  <2> HIDE DEF f
  <2>3. TaskInv(v, w, b, fresh', f) /\ w \in Seq(Attempts)
    BY <1>7, <2>1, <2>2, TaskInvRaises
  <2> QED
    BY <2>3 DEF f
<1> HIDE DEF w
<1> QED
  <2>1. StepOf(b, v, w, flags[task[b].worker])
    BY <1>1, <1>3, <1>6, <1>7, <1>9, Own DEF StepOf
  <2> QED
    BY <1>7, <1>11, <2>1, Own, OneTask

LEMMA RetryKeeps ==
    ASSUME LoopInv, NEW b \in 1..N, Retry(b)
    PROVE  LoopInv'
<1> DEFINE f == flags[task[b].worker]
<1>1. /\ task[b].pc = "retry" /\ Holding(b) /\ UNCHANGED <<setting, tour, fresh>>
  BY DEF Retry, Holding, Running
<1>2. PICK r \in HandleSmartRetries(task[b].manager, f, task[b].substatus) :
          /\ flags' = [flags EXCEPT ![task[b].worker].zone = r.zone]
          /\ task' = [task EXCEPT ![b].pc = "check", ![b].manager = r.manager]
  BY DEF Retry
<1> DEFINE m == r.manager
           z == r.zone
           g == [f EXCEPT !.zone = z]
           v == [task[b] EXCEPT !.pc = "check", !.manager = m]
<1>3. m \in Managers /\ z \in Zones
  BY <1>1, Own, RetryAnswers DEF TaskInv
<1>4. task' = [task EXCEPT ![b] = v] /\ flags' = [flags EXCEPT ![task[b].worker] = g]
  BY <1>2
<1>5. /\ g \in Flags /\ g.zone = z /\ g.retries = f.retries /\ g.smartQuota = f.smartQuota
      /\ g.smartCapacity = f.smartCapacity
  <2> HIDE DEF z
  <2> QED
    BY <1>3, Own DEF Flags
<1>6. /\ v \in Tasks /\ v.pc = "check" /\ v.worker = task[b].worker /\ v.manager = m
      /\ v.maxRunCount = task[b].maxRunCount /\ v.status = task[b].status
      /\ v.samples = task[b].samples
  <2> HIDE DEF m
  <2> QED
    BY <1>3, Own DEF Tasks, TaskPcs, Running
<1> HIDE DEF v, g
<1>7. TaskInv(v, tour[b], b, fresh, g)
  <2>1. /\ task[b] \in Tasks /\ tour[b] \in Seq(Attempts) /\ f \in Flags
        /\ TaskInv(task[b], tour[b], b, fresh, f)
    BY Own
  <2>2. Retried(task[b], v, f, g, r)
    BY <1>1, <1>5, <1>6 DEF Retried
  <2> HIDE DEF f
  <2> QED
    BY <1>5, <1>6, <2>1, <2>2, TaskInvRetries
<1> QED
  <2>1. StepOf(b, v, tour[b], g)
    BY <1>1, <1>4, <1>6, Own DEF StepOf
  <2> QED
    BY <1>1, <1>5, <1>6, <1>7, <2>1, Own, OneTask

LEMMA LoopInitially ==
    ASSUME LoopInit
    PROVE  LoopInv
<1> USE DEF LoopInit
<1> DEFINE f == [zone |-> setting.zone, retries |-> setting.retries,
                 smartQuota |-> setting.smartQuota, smartCapacity |-> setting.smartCapacity]
<1>1. /\ setting \in Setting
      /\ flags = [x \in Workers |-> f]
  BY LoopGiven
<1>2. f \in Flags
  BY <1>1 DEF Setting, Flags
<1> HIDE DEF f
<1>3. NewTask \in Tasks /\ NewTask.pc = "pending"
  <2>1. (CHOOSE x \in Workers : TRUE) \in Workers
    BY LoopGiven
  <2>2. NewManager \in Managers
    BY DEF NewManager, Managers
  <2> QED
    BY <2>1, <2>2 DEF NewTask, Tasks, TaskPcs
<1>4. LoopTyped
  BY <1>1, <1>2, <1>3 DEF LoopTyped, Benchmarks
<1>5. OnePerWorker
  BY <1>3 DEF OnePerWorker, Holding, Running, Benchmarks
<1>7. ASSUME NEW b \in 1..N
      PROVE  TaskInv(task[b], tour[b], b, fresh, flags[task[b].worker])
  BY TaskInvNew DEF Benchmarks
<1> QED
  BY <1>4, <1>5, <1>7 DEF LoopInv

(* A step of the task of b, and of the loop itself. *)
TaskActs(b) ==
    \/ InitTask(b) \/ CheckEvent(b) \/ BeginAttempt(b)
    \/ AttemptReturns(b) \/ AttemptRaises(b) \/ Retry(b) \/ TaskRaises(b)
LoopActs ==
    \/ \E b \in 1..N : Await(b)
    \/ Shutdown \/ Collect \/ PublishSamples \/ PublishSamplesRaises

LEMMA Kinds ==
    LoopNext <=> \/ \E b \in 1..N : (\E x \in Workers : StartTask(b, x)) \/ TaskActs(b)
                 \/ LoopActs
  BY DEF LoopNext, TaskActs, LoopActs, Benchmarks

LEMMA LoopActsLeave ==
    ASSUME LoopActs \/ UNCHANGED loopVars
    PROVE  UNCHANGED <<setting, flags, teardown, task, tour, fresh, late>>
<1>1. UNCHANGED work
  BY DEF LoopActs, Await, Shutdown, Collect, PublishSamples, PublishSamplesRaises, loopVars
<1> QED
  BY <1>1 DEF work

LEMMA LoopNextKeeps ==
    ASSUME LoopInv, [LoopNext]_loopVars
    PROVE  LoopInv'
<1>1. ASSUME NEW b \in 1..N, TaskActs(b) PROVE LoopInv'
  BY <1>1, InitTaskKeeps, MoveKeeps, BeginAttemptKeeps, AttemptReturnsKeeps, AttemptRaisesKeeps,
     RetryKeeps DEF TaskActs
<1>2. ASSUME LoopActs \/ UNCHANGED loopVars PROVE LoopInv'
  <2>1. UNCHANGED <<setting, flags, task, tour, fresh>>
    BY <1>2, LoopActsLeave
  <2> QED
    BY <2>1 DEF LoopInv, LoopTyped, OnePerWorker, Holding
<1> QED
  BY <1>1, <1>2, StartTaskKeeps, Kinds

(* What the step of a task does to the places of the tasks. *)
LEMMA TaskActsPlaces ==
    ASSUME LoopInv, NEW b \in 1..N, TaskActs(b)
    PROVE  /\ Holding(b) /\ task'[b].pc \in Running \cup TaskEnds
           /\ \A c \in (1..N) \ {b} : task'[c] = task[c]
           /\ UNCHANGED <<setting, loop, awaited, published, exit>>
<1>1. task \in [1..N -> Tasks] /\ task[b] \in Tasks
  BY DEF LoopInv, LoopTyped
<1> USE DEF Holding, Running, TaskEnds
<1>2. CASE InitTask(b)
  BY <1>1, <1>2 DEF InitTask, main, Tasks
<1>3. CASE CheckEvent(b)
  BY <1>1, <1>3 DEF CheckEvent, main, Tasks
<1>4. CASE BeginAttempt(b)
  BY <1>1, <1>4 DEF BeginAttempt, main, Tasks
<1>5. CASE AttemptReturns(b)
  BY <1>1, <1>5 DEF AttemptReturns, main, Tasks
<1>6. CASE AttemptRaises(b)
  BY <1>1, <1>6 DEF AttemptRaises, main, Tasks
<1>7. CASE Retry(b)
  BY <1>1, <1>7 DEF Retry, main, Tasks
<1>8. CASE TaskRaises(b)
  BY <1>1, <1>8 DEF TaskRaises, main, Tasks
<1> QED
  BY <1>2, <1>3, <1>4, <1>5, <1>6, <1>7, <1>8 DEF TaskActs

LEMMA StartTaskPlaces ==
    ASSUME LoopInv, NEW b \in 1..N, NEW x \in Workers, StartTask(b, x)
    PROVE  /\ task[b].pc = "pending" /\ task'[b].pc = "init" /\ loop = "tasks"
           /\ task'[b].status = task[b].status
           /\ \A c \in (1..N) \ {b} : task'[c] = task[c]
           /\ UNCHANGED <<setting, teardown, late, loop, awaited, published, exit>>
<1>1. task \in [1..N -> Tasks] /\ task[b] \in Tasks
  BY DEF LoopInv, LoopTyped
<1> QED
  BY <1>1 DEF StartTask, main, Tasks

LEMMA SlotsExist ==
    ASSUME LoopInv
    PROVE  Slots \in Nat \ {0}
<1>1. setting.processes \in Nat
  BY DEF LoopInv, LoopTyped, Setting
<1> QED
  BY <1>1 DEF Slots

LEMMA FiniteTasks ==
    ASSUME NEW S, S \subseteq 1..N
    PROVE  IsFiniteSet(S) /\ Cardinality(S) \in Nat
<1>1. IsFiniteSet(1..N)
  BY FS_Interval, LoopGiven
<1> QED
  BY <1>1, FS_Subset, FS_CardinalityType

LEMMA StartTaskInOrder ==
    ASSUME LoopInv, InOrder, NEW b \in 1..N, NEW x \in Workers, StartTask(b, x)
    PROVE  InOrder'
<1> USE DEF InOrder
<1>1. /\ task[b].pc = "pending" /\ task'[b].pc = "init"
      /\ \A c \in (1..N) \ {b} : task'[c] = task[c]
      /\ UNCHANGED <<setting, awaited>>
  BY StartTaskPlaces
<1>2. /\ \A c \in 1..(b-1) : task[c].pc # "pending"
      /\ Cardinality({c \in 1..(b-1) : c \notin awaited}) < Slots
  BY DEF StartTask, Series, Slots
<1>3. N \in Nat /\ b \in Nat
  BY LoopGiven
<1>4. UnderWay = {c \in 1..(b-1) : c \notin awaited}
  BY <1>1, <1>2, <1>3 DEF UnderWay, Pending
<1>5. b \notin awaited
  BY <1>1 DEF TaskEnds
<1>6. UnderWay' = UnderWay \cup {b}
  BY <1>1, <1>5 DEF UnderWay, Pending
<1>7. Cardinality(UnderWay') <= Slots
  <2>1. IsFiniteSet(UnderWay) /\ Cardinality(UnderWay) \in Nat
    BY FiniteTasks DEF UnderWay
  <2>2. Cardinality(UnderWay \cup {b}) <= Cardinality(UnderWay) + 1
        /\ Cardinality(UnderWay \cup {b}) \in Nat
    <3>1. UnderWay \cup {b} \subseteq 1..N
      BY DEF UnderWay
    <3> QED
      BY <2>1, <3>1, FiniteTasks, FS_AddElement
  <2> QED
    BY <1>2, <1>4, <1>6, <2>1, <2>2, SlotsExist
<1>8. Slots' = Slots
  BY <1>1 DEF Slots
<1>9. \A c \in awaited' : task'[c].pc \in TaskEnds
  BY <1>1, <1>5
<1>10. \A c, d \in 1..N : c < d /\ task'[c].pc = "pending" => task'[d].pc = "pending"
  BY <1>1, <1>2, <1>3 DEF Pending
<1> QED
  BY <1>1, <1>7, <1>8, <1>9, <1>10 DEF Pending

LEMMA TaskActsInOrder ==
    ASSUME LoopInv, InOrder, NEW b \in 1..N, TaskActs(b)
    PROVE  InOrder'
<1> USE DEF InOrder
<1>1. /\ Holding(b) /\ task'[b].pc \in Running \cup TaskEnds
      /\ \A c \in (1..N) \ {b} : task'[c] = task[c]
      /\ UNCHANGED <<setting, awaited>>
  BY TaskActsPlaces
<1>2. \A c \in 1..N : task'[c].pc = "pending" <=> task[c].pc = "pending"
  BY <1>1 DEF Holding, Running, TaskEnds
<1>3. UnderWay' = UnderWay /\ Slots' = Slots
  BY <1>1, <1>2 DEF UnderWay, Slots, Pending
<1>4. \A c \in awaited' : task'[c].pc \in TaskEnds
  BY <1>1 DEF Holding, Running, TaskEnds
<1> QED
  BY <1>1, <1>2, <1>3, <1>4 DEF Pending

LEMMA LoopActsInOrder ==
    ASSUME LoopInv, InOrder, LoopActs \/ UNCHANGED loopVars
    PROVE  InOrder'
<1> USE DEF InOrder
<1>1. UNCHANGED <<setting, task>>
  BY LoopActsLeave
<1>2. /\ awaited' \subseteq 1..N /\ awaited \subseteq awaited'
      /\ \A b \in awaited' : task[b].pc \in TaskEnds
  <2>1. CASE UNCHANGED awaited
    BY <2>1
  <2>2. CASE \E b \in 1..N : Await(b)
    BY <2>2 DEF Await, Ended, TaskEnds
  <2>3. UNCHANGED awaited \/ \E b \in 1..N : Await(b)
    BY DEF LoopActs, Shutdown, Collect, PublishSamples, PublishSamplesRaises, loopVars,
           main
  <2> QED
    BY <2>1, <2>2, <2>3
<1>3. UnderWay' \subseteq UnderWay /\ Slots' = Slots
  BY <1>1, <1>2 DEF UnderWay, Slots, Pending
<1>4. Cardinality(UnderWay') <= Cardinality(UnderWay) /\ Cardinality(UnderWay') \in Nat
      /\ Cardinality(UnderWay) \in Nat
  <2>1. UnderWay \subseteq 1..N /\ UnderWay' \subseteq 1..N
    BY DEF UnderWay
  <2> QED
    BY <1>3, <2>1, FiniteTasks, FS_Subset
<1>5. Cardinality(UnderWay') <= Slots'
  BY <1>3, <1>4, SlotsExist
<1> QED
  BY <1>1, <1>2, <1>5 DEF Pending

LEMMA InOrderKeeps ==
    ASSUME LoopInv, InOrder, [LoopNext]_loopVars
    PROVE  InOrder'
  BY StartTaskInOrder, TaskActsInOrder, LoopActsInOrder, Kinds

(* The task that set the event, and every other one that has ended, stays   *)
(* as it is.                                                                *)
LEMMA SetterStays ==
    ASSUME LoopInv, [LoopNext]_loopVars, NEW c \in 1..N, task[c].pc \in TaskEnds
    PROVE  task'[c] = task[c]
<1>1. ASSUME NEW b \in 1..N, TaskActs(b) PROVE task'[c] = task[c]
  BY <1>1, TaskActsPlaces DEF Holding, Running, TaskEnds
<1>2. ASSUME NEW b \in 1..N, NEW x \in Workers, StartTask(b, x) PROVE task'[c] = task[c]
  BY <1>2, StartTaskPlaces DEF TaskEnds
<1>3. ASSUME LoopActs \/ UNCHANGED loopVars PROVE task'[c] = task[c]
  BY <1>3, LoopActsLeave
<1> QED
  BY <1>1, <1>2, <1>3, Kinds

(* Steps that leave the event and the count alone, and check nothing while  *)
(* it is set.                                                               *)
LEMMA QuietSteps ==
    ASSUME LoopInv, Lateness, [LoopNext]_loopVars, UNCHANGED <<setting, teardown, late>>,
           teardown => Checked' = Checked
    PROVE  Lateness'
<1> USE DEF Lateness
<1>1. teardown => \E c \in 1..N : task'[c].pc = "returned" /\ task'[c].status = "failed"
  BY SetterStays DEF TaskEnds
<1>2. Slots' = Slots
  BY DEF Slots
<1> QED
  BY <1>1, <1>2

LEMMA BeginAttemptLateness ==
    ASSUME LoopInv, Lateness, NEW b \in 1..N, BeginAttempt(b)
    PROVE  Lateness'
<1> USE DEF Lateness
<1>1. /\ task[b].pc = "begin" /\ UNCHANGED <<setting, teardown>>
      /\ late' = IF teardown THEN late + 1 ELSE late
  BY DEF BeginAttempt
<1>2. TaskActs(b) /\ [LoopNext]_loopVars
  BY Kinds DEF TaskActs
<1>3. \A c \in (1..N) \ {b} : task'[c] = task[c]
  BY <1>2, TaskActsPlaces
<1>4. task'[b].pc = "attempt"
  BY DEF BeginAttempt, LoopInv, LoopTyped, Tasks
<1>5. teardown => \E c \in 1..N : task'[c].pc = "returned" /\ task'[c].status = "failed"
  BY <1>2, SetterStays DEF TaskEnds
<1>6. Slots' = Slots
  BY <1>1 DEF Slots
<1>7. Checked' = Checked \ {b} /\ b \in Checked
  BY <1>1, <1>3, <1>4 DEF Checked
<1>8. Cardinality(Checked') = Cardinality(Checked) - 1 /\ Cardinality(Checked) \in Nat
  <2>1. IsFiniteSet(Checked) /\ Cardinality(Checked) \in Nat
    BY FiniteTasks DEF Checked
  <2> QED
    BY <1>7, <2>1, FS_RemoveElement
<1>9. late' + Cardinality(Checked') = late + Cardinality(Checked) \/ ~teardown
  BY <1>1, <1>8
<1> QED
  BY <1>1, <1>5, <1>6, <1>9

LEMMA AttemptRaisesLateness ==
    ASSUME LoopInv, InOrder, Lateness, NEW b \in 1..N, AttemptRaises(b)
    PROVE  Lateness'
<1> USE DEF Lateness
<1>1. task[b].pc = "attempt" /\ UNCHANGED <<setting, late>>
  BY DEF AttemptRaises
<1>2. TaskActs(b) /\ [LoopNext]_loopVars
  BY Kinds DEF TaskActs
<1>3. \A c \in (1..N) \ {b} : task'[c] = task[c]
  BY <1>2, TaskActsPlaces
<1>4. /\ task'[b].pc \in {"retry", "returned"} /\ task'[b].status = "failed"
      /\ teardown' \in BOOLEAN /\ (teardown => teardown')
      /\ teardown' /\ ~teardown => task'[b].pc = "returned"
  <2>1. task \in [1..N -> Tasks] /\ task[b] \in Tasks /\ setting.stopOnFailure \in BOOLEAN
    BY DEF LoopInv, LoopTyped, Setting
  <2>2. PICK how \in Failures, interrupt \in BOOLEAN, c \in BOOLEAN : RaisesWith(b, how, interrupt, c)
    BY AttemptRaisesWith
  <2>3. /\ task'[b].pc = IF /\ ~interrupt /\ ~setting.stopOnFailure
                            /\ how \in RetrySubstatuses
                            /\ Last(b) # task[b].maxRunCount
                         THEN "retry" ELSE "returned"
        /\ task'[b].status = "failed"
    BY <2>1, <2>2 DEF RaisesWith, Tasks
  <2>4. teardown' <=> teardown \/ interrupt \/ setting.stopOnFailure
    BY <2>2 DEF RaisesWith
  <2>5. teardown' \in BOOLEAN
    BY <2>2 DEF RaisesWith
  <2> QED
    BY <2>3, <2>4, <2>5
<1>5. teardown' => \E c \in 1..N : task'[c].pc = "returned" /\ task'[c].status = "failed"
  BY <1>2, <1>4, SetterStays DEF TaskEnds
<1>6. Slots' = Slots
  BY <1>1 DEF Slots
<1>7. Checked' = Checked
  BY <1>1, <1>3, <1>4 DEF Checked
<1>8. Cardinality(Checked) < Slots
  <2>1. b \notin awaited
    BY <1>1 DEF InOrder, TaskEnds
  <2>2. b \in UnderWay /\ b \notin Checked /\ Checked \subseteq UnderWay
    BY <1>1, <2>1 DEF UnderWay, Checked, Pending, InOrder, TaskEnds
  <2>3. IsFiniteSet(UnderWay) /\ Cardinality(UnderWay) \in Nat /\ Cardinality(Checked) \in Nat
    BY FiniteTasks DEF UnderWay, Checked
  <2>4. Checked \subseteq UnderWay \ {b} /\ IsFiniteSet(UnderWay \ {b})
        /\ Cardinality(UnderWay \ {b}) = Cardinality(UnderWay) - 1
    BY <2>2, <2>3, FS_RemoveElement
  <2>5. Cardinality(Checked) <= Cardinality(UnderWay \ {b})
    BY <2>4, FS_Subset
  <2> QED
    BY <2>3, <2>4, <2>5, SlotsExist DEF InOrder
<1>9. ~teardown => late' = 0
  BY <1>1
<1>10. teardown' => late' + Cardinality(Checked') < Slots'
  <2>1. Cardinality(Checked) \in Nat
    BY FiniteTasks DEF Checked
  <2> QED
    BY <1>1, <1>6, <1>7, <1>8, <2>1
<1> QED
  BY <1>1, <1>4, <1>5, <1>10

LEMMA LatenessKeeps ==
    ASSUME LoopInv, InOrder, Lateness, [LoopNext]_loopVars
    PROVE  Lateness'
<1>1. ASSUME NEW b \in 1..N, TaskActs(b), ~BeginAttempt(b), ~AttemptRaises(b)
      PROVE  Lateness'
  <2>1. UNCHANGED <<setting, teardown, late>>
    BY <1>1 DEF TaskActs, InitTask, CheckEvent, AttemptReturns, Retry,
                TaskRaises
  <2>2. task[b].pc # "begin" /\ (teardown => task'[b].pc # "begin")
    <3>1. task \in [1..N -> Tasks] /\ task[b] \in Tasks
      BY DEF LoopInv, LoopTyped
    <3>2. CASE CheckEvent(b)
      BY <3>1, <3>2 DEF CheckEvent, Tasks
    <3>3. CASE InitTask(b)
      BY <3>1, <3>3 DEF InitTask, Tasks
    <3>4. CASE AttemptReturns(b)
      BY <3>1, <3>4 DEF AttemptReturns, Tasks
    <3>5. CASE Retry(b)
      BY <3>1, <3>5 DEF Retry, Tasks
    <3>6. CASE TaskRaises(b)
      BY <3>1, <3>6 DEF TaskRaises, Tasks
    <3> QED
      BY <1>1, <3>2, <3>3, <3>4, <3>5, <3>6 DEF TaskActs
  <2>3. \A c \in (1..N) \ {b} : task'[c] = task[c]
    BY <1>1, TaskActsPlaces
  <2>4. teardown => Checked' = Checked
    BY <2>2, <2>3 DEF Checked
  <2> QED
    BY <2>1, <2>4, QuietSteps
<1>2. ASSUME NEW b \in 1..N, NEW x \in Workers, StartTask(b, x) PROVE Lateness'
  <2>1. /\ UNCHANGED <<setting, teardown, late>> /\ task[b].pc = "pending" /\ task'[b].pc = "init"
        /\ \A c \in (1..N) \ {b} : task'[c] = task[c]
    BY <1>2, StartTaskPlaces
  <2>2. Checked' = Checked
    BY <2>1 DEF Checked
  <2> QED
    BY <2>1, <2>2, QuietSteps
<1>3. ASSUME LoopActs \/ UNCHANGED loopVars PROVE Lateness'
  <2>1. UNCHANGED <<setting, teardown, late, task>>
    BY <1>3, LoopActsLeave
  <2>2. Checked' = Checked
    BY <2>1 DEF Checked
  <2> QED
    BY <2>1, <2>2, QuietSteps
<1> QED
  BY <1>1, <1>2, <1>3, BeginAttemptLateness, AttemptRaisesLateness, Kinds

LEMMA OutcomeKeeps ==
    ASSUME LoopInv, InOrder, Outcome, [LoopNext]_loopVars
    PROVE  Outcome'
<1> USE DEF Outcome
<1>1. ASSUME NEW b \in 1..N, TaskActs(b) PROVE Outcome'
  <2>1. Holding(b) /\ UNCHANGED <<loop, published, exit>>
    BY <1>1, TaskActsPlaces
  <2>2. loop \notin {"publish", "done"}
    BY <2>1 DEF Holding, Running, TaskEnds
  <2> QED
    BY <2>1, <2>2
<1>2. ASSUME NEW b \in 1..N, NEW x \in Workers, StartTask(b, x) PROVE Outcome'
  <2>1. loop = "tasks" /\ UNCHANGED <<loop, published, exit>>
    BY <1>2, StartTaskPlaces
  <2> QED
    BY <2>1
<1>3. ASSUME LoopActs \/ UNCHANGED loopVars PROVE Outcome'
  <2>1. UNCHANGED task
    BY <1>3, LoopActsLeave
  <2>2. CASE \E b \in 1..N : Await(b)
    BY <2>1, <2>2 DEF Await
  <2>3. CASE Shutdown \/ PublishSamplesRaises
    BY <2>1, <2>3 DEF Shutdown, PublishSamplesRaises
  <2>4. CASE Collect
    BY <2>1, <2>4 DEF Collect, InOrder, Benchmarks
  <2>5. CASE PublishSamples
    <3>1. /\ loop = "publish" /\ loop' = "done"
          /\ published' = [b \in 1..N |-> task[b].samples]
          /\ exit' = IF \A b \in 1..N : task[b].status = "succeeded" THEN 0 ELSE 1
      BY <2>5 DEF PublishSamples, Benchmarks
    <3>2. \A b \in 1..N : task[b].samples \in SUBSET Nat
      BY DEF LoopInv, LoopTyped, Tasks
    <3> QED
      BY <2>1, <3>1, <3>2
  <2>6. CASE UNCHANGED loopVars
    BY <2>1, <2>6 DEF loopVars, main
  <2> QED
    BY <1>3, <2>2, <2>3, <2>4, <2>5, <2>6 DEF LoopActs
<1> QED
  BY <1>1, <1>2, <1>3, Kinds

LEMMA LoopBegins ==
    ASSUME LoopInit
    PROVE  LoopInv /\ InOrder /\ Lateness /\ Outcome
<1>1. LoopInv
  BY LoopInitially
<1> USE DEF LoopInit, Benchmarks
<1>2. \A b \in 1..N : task[b].pc = "pending"
  BY DEF NewTask
<1>3. InOrder
  <2>1. UnderWay = {}
    BY <1>2 DEF UnderWay, Pending
  <2> QED
    BY <1>1, <1>2, <2>1, SlotsExist, FS_EmptySet DEF InOrder, Pending
<1>4. Lateness
  BY DEF Lateness
<1>5. Outcome
  BY DEF Outcome
<1> QED
  BY <1>1, <1>3, <1>4, <1>5

LEMMA LoopAlways ==
    LoopSpec => [](LoopInv /\ InOrder /\ Lateness /\ Outcome)
<1> DEFINE Inv == LoopInv /\ InOrder /\ Lateness /\ Outcome
<1>1. LoopInit => Inv
  BY LoopBegins
<1>2. Inv /\ [LoopNext]_loopVars => Inv'
  BY LoopNextKeeps, InOrderKeeps, LatenessKeeps, OutcomeKeeps
<1> HIDE DEF Inv
<1>3. LoopSpec => []Inv
  BY <1>1, <1>2, PTL DEF LoopSpec
<1> QED
  BY <1>3, PTL DEF Inv

(* The values of the model of RunBenchmarks are in range; in particular     *)
(* every attempt was made in a zone of the cloud, not in 'any'.             *)
THEOREM LoopTypes ==
    LoopSpec => []LoopTypeOK
<1>1. LoopInv /\ InOrder /\ Lateness /\ Outcome => LoopTypeOK
  BY DEF LoopInv, LoopTyped, InOrder, Lateness, Outcome, LoopTypeOK, Benchmarks, Flags, Tasks,
         Attempts, TaskPcs, Running, TaskEnds, Failures, Ended, Substatuses
<1> QED
  BY <1>1, LoopAlways, PTL

(* After _TEARDOWN_EVENT is set, fewer attempts begin than processes run    *)
(* tasks, for any number of benchmarks and of processes: each of the others *)
(* had already found the event unset.                                       *)
THEOREM FewStartLate ==
    LoopSpec => []LateStartsBounded
<1>1. LoopInv /\ Lateness => LateStartsBounded
  <2> SUFFICES ASSUME LoopInv, Lateness PROVE late < Slots
    BY DEF LateStartsBounded, Series, Slots
  <2>1. Slots \in Nat \ {0}
    BY SlotsExist
  <2>2. Cardinality(Checked) \in Nat
    BY FiniteTasks DEF Checked
  <2> QED
    BY <2>1, <2>2 DEF Lateness
<1> QED
  BY <1>1, LoopAlways, PTL

(* RunBenchmarks publishes what the last attempts collected and nothing of  *)
(* earlier ones, and answers 0 only if every last attempt went well and     *)
(* nothing had asked for the stop: for any number of benchmarks and of      *)
(* processes, any flags, and failures and retries in any order.             *)
THEOREM PublishedIsTrue ==
    LoopSpec => []ResultsAreTrue
<1>1. LoopInv /\ Lateness /\ Outcome => ResultsAreTrue
  <2> SUFFICES ASSUME LoopInv, Lateness, Outcome PROVE ResultsAreTrue
    OBVIOUS
  <2>1. \A b \in 1..N : Past(task[b], tour[b], b, fresh)
    BY DEF LoopInv, TaskInv
  <2>2. ASSUME loop = "done", NEW b \in 1..N
        PROVE  published[b] = IF b \in fresh THEN {Len(tour[b])} ELSE {}
    BY <2>1, <2>2 DEF Outcome, Past, TaskEnds
  <2>3. ASSUME exit = 0, NEW b \in 1..N
        PROVE  /\ tour[b] # <<>> /\ tour[b][Len(tour[b])].substatus = "none"
               /\ task[b].status = "succeeded"
    BY <2>1, <2>3 DEF Outcome, Past
  <2>4. exit = 0 => ~teardown
    BY <2>3 DEF Lateness
  <2> QED
    BY <2>2, <2>3, <2>4 DEF ResultsAreTrue, Benchmarks, Last
<1> QED
  BY <1>1, LoopAlways, PTL

(* A smart retry repeats no zone, or no region, before it has been through  *)
(* those that there are, and for want of capacity it stays in its region:   *)
(* for any zones and regions, any number of retries, and flags that earlier *)
(* tasks of the worker have changed.                                        *)
THEOREM AlternativesGoFirst ==
    LoopSpec => []AlternativesFirst
<1>1. LoopInv => AlternativesFirst
  <2> SUFFICES ASSUME LoopInv,
                      NEW b \in 1..N, Active(b), Len(tour[b]) > 0
               PROVE  /\ flags[task[b].worker].smartCapacity /\ OnlyFailed(b, "capacity") =>
                            /\ \A i, j \in 1..Len(tour[b]) :
                                  i < j /\ j <= Cardinality(HomeZones(b)) =>
                                      tour[b][i].zone # tour[b][j].zone
                            /\ \A n \in 1..Len(tour[b]) : tour[b][n].zone \in HomeZones(b)
                      /\ flags[task[b].worker].smartQuota /\ OnlyFailed(b, "quota") =>
                            \A i, j \in 1..Len(tour[b]) :
                                i < j /\ j <= Cardinality(SupportedRegions
                                                               \cup {HomeRegion(b)}) =>
                                    RegionOf[tour[b][i].zone] # RegionOf[tour[b][j].zone]
    BY DEF AlternativesFirst, Benchmarks, Last
  <2> DEFINE t == task[b]
             u == tour[b]
             f == flags[task[b].worker]
             o == task[b].manager.originalZone
  <2>1. Past(t, u, b, fresh) /\ ByCapacity(t, u, f) /\ ByQuota(t, u, f) /\ t \in Tasks
    BY DEF LoopInv, LoopTyped, TaskInv
  <2>2. t.pc \in Running
    BY <2>1 DEF Active, Ended, Past, Tasks, TaskPcs, TaskEnds
  <2>3. HomeZones(b) = Around(o) /\ SupportedRegions \cup {HomeRegion(b)} = Regions(o)
    BY DEF HomeZones, HomeRegion, Around, Regions
  <2>4. \A how : OnlyFailed(b, how) => Only(u, Len(u) - 1, how)
    BY DEF OnlyFailed, Only, Last
  <2>5. ASSUME f.smartCapacity, Only(u, Len(u) - 1, "capacity")
        PROVE  /\ \A i, j \in 1..Len(u) :
                     i < j /\ j <= Cardinality(Around(o)) => u[i].zone # u[j].zone
               /\ \A n \in 1..Len(u) : u[n].zone \in Around(o)
    BY <2>1, <2>2, <2>5 DEF ByCapacity, ZonesOf
  <2>6. ASSUME f.smartQuota, Only(u, Len(u) - 1, "quota")
        PROVE  \A i, j \in 1..Len(u) :
                  i < j /\ j <= Cardinality(Regions(o)) => RegionOf[u[i].zone] # RegionOf[u[j].zone]
    BY <2>1, <2>2, <2>6 DEF ByQuota
  <2> QED
    BY <2>3, <2>4, <2>5, <2>6
<1> QED
  BY <1>1, LoopAlways, PTL

=============================================================================
