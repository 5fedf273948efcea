---------------------------- MODULE RunBenchmark ----------------------------
(***************************************************************************)
(* RunBenchmark of pkb.py with the phases it runs, BenchmarkSpec.Provision *)
(* and Delete, and the pickle that carries a spec from one invocation of   *)
(* PKB to the next.                                                        *)
(*                                                                         *)
(* Three resources stand for the many: a network and a VM, whose failure   *)
(* to be deleted is logged and passed over, and a service, whose failure   *)
(* aborts BenchmarkSpec.Delete.  Each keeps the flags that Resource.tla is *)
(* about.                                                                  *)
(*                                                                         *)
(* Anything that calls out may raise, and the process may be killed        *)
(* between any two steps.  Steps guarded by a flag of the user's that have *)
(* no effect on this state (publishing) are taken whether it is set or     *)
(* not: an unset flag is a step that goes well.  A KeyboardInterrupt is    *)
(* one of the exceptions of the calls it can arrive in; the instants       *)
(* between two calls of the finally clause are left out.                   *)
(*                                                                         *)
(* PKB is started on the same run_uri as often as the user likes, and      *)
(* RunBenchmarkTask starts a benchmark again with a copy of the new spec:  *)
(* to the pickle and the cloud both are the same.  Resources have the      *)
(* run_uri in their names, so that what a new spec creates is what an      *)
(* earlier one may have left.                                              *)
(***************************************************************************)
EXTENDS Naturals, Sequences

CONSTANTS
    StageLists,      \* the values of --run_stage, as sets of stages
    MaxInvocations,  \* bound: how often RunBenchmark is started on this run_uri
    MaxCrashes       \* bound: how often it is killed

ASSUME StageListsAssumption ==
    StageLists \subseteq SUBSET {"provision", "prepare", "run", "cleanup", "teardown"}
ASSUME MaxInvocationsAssumption == MaxInvocations \in Nat
ASSUME MaxCrashesAssumption == MaxCrashes \in Nat

Res == {"network", "vm", "service"}
ProvisionOrder == <<"network", "vm", "service">>
DeleteOrder == <<"service", "vm", "network">>
Guarded == {"vm", "network"}        \* Delete passes over their exceptions

Unmade == [created |-> FALSE, deleted |-> FALSE]
NewSpec == [r \in Res |-> Unmade]

VARIABLES
    pc,              \* where the process is; "idle" when there is none
    ctx,             \* which call of Pickle or of Delete it is in
    at,              \* position in ProvisionOrder or DeleteOrder
    raising,         \* an exception is on its way out
    stages,          \* FLAGS.run_stage
    alwaysTeardown,  \* FLAGS.always_teardown_on_exception
    shouldTeardown,  \* should_teardown
    checker,         \* interrupt_checker is not None
    spec,            \* the flags of each resource of the spec
    specDeleted,     \* spec.deleted
    deleteRaised,    \* some spec.Delete of this invocation raised
    raised,          \* the clauses this invocation raised an exception in
    status,          \* spec.status
    disk,            \* the pickled spec
    cloud,           \* external: which resources exist
    unknown,         \* history: those that are there and no object was told of
    invocations, crashes

progress == <<pc, ctx, at, raising>>
given == <<stages, alwaysTeardown>>
memory == <<spec, specDeleted, deleteRaised, raised, status, shouldTeardown, checker>>
world == <<disk, cloud, unknown, invocations, crashes>>
vars == <<progress, given, memory, world>>

Init ==
    /\ pc = "idle" /\ ctx = "none" /\ at = 1 /\ raising = FALSE
    /\ stages = {} /\ alwaysTeardown = FALSE /\ shouldTeardown = TRUE
    /\ spec = NewSpec /\ specDeleted = FALSE /\ deleteRaised = FALSE
    /\ raised = {}
    /\ status = "skipped"
    /\ disk = [file |-> "none", spec |-> NewSpec]
    /\ cloud = [r \in Res |-> FALSE]
    /\ checker = FALSE
    /\ unknown = {}
    /\ invocations = 0 /\ crashes = 0

----------------------------------------------------------------------------
(* Flow of control. *)

Goto(place) == pc' = place /\ ctx' = "none" /\ at' = 1 /\ UNCHANGED raising
Call(place, from) == pc' = place /\ ctx' = from /\ at' = 1 /\ UNCHANGED raising

(* An exception inside the try block reaches its except clause. *)
ToExcept ==
    /\ pc' = "except" /\ ctx' = "none" /\ at' = 1
    /\ raising' = TRUE

(* One inside the except clause goes on to the finally clause, *)
(* and one inside the finally clause leaves RunBenchmark.      *)
ToFinally ==
    /\ pc' = "finally" /\ ctx' = "none" /\ at' = 1
    /\ raising' = TRUE
ToExit ==
    /\ pc' = "exit" /\ ctx' = "none" /\ at' = 1
    /\ raising' = TRUE

----------------------------------------------------------------------------
(* An invocation starts: GetBenchmarkSpec, then RunBenchmark up to the first *)
(* stage.  PROVISION makes a new spec, whatever the pickle holds, and that   *)
(* spec knows nothing of what is there; anything else needs the pickle and   *)
(* fails at once without it.                                                 *)
Start(list) ==
    /\ pc = "idle"
    /\ invocations < MaxInvocations
    /\ invocations' = invocations + 1
    /\ IF "provision" \in list
       THEN spec' = NewSpec
       ELSE disk.file = "whole" /\ spec' = disk.spec
    /\ unknown' = {r \in Res : cloud[r] /\ (spec'[r].created => spec'[r].deleted)}
    /\ stages' = list
    /\ alwaysTeardown' \in BOOLEAN
    /\ shouldTeardown' = TRUE
    /\ checker' = FALSE
    /\ specDeleted' = FALSE
    /\ deleteRaised' = FALSE
    /\ raised' = {}
    /\ status' = "failed"
    /\ raising' = FALSE
    /\ pc' = "provision" /\ ctx' = "none" /\ at' = 1
    /\ UNCHANGED <<disk, cloud, crashes>>

----------------------------------------------------------------------------
(* Pickle: the file is emptied when it is opened, and then written. *)
AfterPickle ==
    \/ ctx = "before" /\ Goto("start")
    \/ ctx = "after" /\ raising /\ ToExcept
    \/ ctx = "after" /\ ~raising /\ Goto("provisioned")
    \/ ctx = "final" /\ Goto("exit")

PickleOpen ==
    /\ pc = "pickle"
    /\ disk' = [disk EXCEPT !.file = "empty"]
    /\ pc' = "dump"
    /\ UNCHANGED <<ctx, at, raising, given, memory, cloud, unknown,
                   invocations, crashes>>

PickleDump ==
    /\ pc = "dump"
    /\ disk' = [file |-> "whole", spec |-> spec]
    /\ AfterPickle
    /\ UNCHANGED <<given, memory, cloud, unknown, invocations, crashes>>

(* pickle.dump raises: an object that cannot be pickled, a full disk. *)
PickleRaises ==
    /\ pc = "dump"
    /\ \/ ctx # "final" /\ ToExcept /\ raised' = raised \cup {"try"}
       \/ ctx = "final" /\ ToExit /\ raised' = raised \cup {"finally"}
    /\ UNCHANGED <<given, spec, specDeleted, deleteRaised, status, shouldTeardown, checker,
                   world>>

----------------------------------------------------------------------------
(* DoProvisionPhase *)

SkipProvision ==
    /\ pc = "provision"
    /\ "provision" \notin stages
    /\ Goto("prepare")
    /\ UNCHANGED <<given, memory, world>>

(* ConstructResources and CheckPrerequisites go well. *)
DoProvisionPhase ==
    /\ pc = "provision"
    /\ "provision" \in stages
    /\ Call("pickle", "before")
    /\ UNCHANGED <<given, memory, world>>

(* Provision creates the next resource, or has created them all. *)
CreateResource ==
    /\ pc = "create"
    /\ at <= Len(ProvisionOrder)
    /\ cloud' = [cloud EXCEPT ![ProvisionOrder[at]] = TRUE]
    /\ spec' = [spec EXCEPT ![ProvisionOrder[at]].created = TRUE]
    /\ unknown' = unknown \ {ProvisionOrder[at]}
    /\ at' = at + 1
    /\ UNCHANGED <<pc, ctx, raising, given, specDeleted, deleteRaised, raised, status,
                   shouldTeardown, checker, disk, invocations, crashes>>

ProvisionEnds ==
    /\ pc = "create"
    /\ at > Len(ProvisionOrder)
    /\ Call("pickle", "after")
    /\ UNCHANGED <<given, memory, world>>

(* A wrong version of the next step: the second Pickle is not in a finally  *)
(* clause.                                                                  *)
ProvisionRaisesUnpickled ==
    /\ pc = "create"
    /\ ToExcept
    /\ raised' = raised \cup {"try"}
    /\ UNCHANGED <<given, spec, specDeleted, deleteRaised, status, shouldTeardown, checker, world>>

(* Provision raises: in a Create, before or after _Create took effect, or   *)
(* between two.  The finally clause pickles the spec all the same.          *)
ProvisionRaises ==
    /\ pc = "create"
    /\ pc' = "pickle" /\ ctx' = "after" /\ at' = 1 /\ raising' = TRUE
    /\ raised' = raised \cup {"try"}
    /\ \/ UNCHANGED <<cloud, unknown>>
       \/ /\ at <= Len(ProvisionOrder)
          /\ cloud' = [cloud EXCEPT ![ProvisionOrder[at]] = TRUE]
          /\ unknown' = unknown \cup {ProvisionOrder[at]}
    /\ UNCHANGED <<given, spec, specDeleted, deleteRaised, status, shouldTeardown, checker,
                   disk, invocations, crashes>>

----------------------------------------------------------------------------
(* The benchmark_start listeners, the end of DoProvisionPhase,              *)
(* DoPreparePhase, DoRunPhase and DoCleanupPhase with the InterruptChecker  *)
(* of each, and the samples taken last in the try block: run or skipped.    *)
AfterStage ==
    [start |-> "create", provisioned |-> "prepare", prepare |-> "run",
     run |-> "cleanup", cleanup |-> "decide", samples |-> "finally"]

PassStage ==
    /\ pc \in DOMAIN AfterStage
    /\ Goto(AfterStage[pc])
    /\ UNCHANGED <<given, memory, world>>

(* One of them raises, or _SetRestoreSpec, ConstructResources or            *)
(* CheckPrerequisites at the start, or ShouldTeardown.  A checked stage     *)
(* leaves its InterruptChecker behind, unless that could not be made.       *)
StageRaises ==
    /\ \/ pc \in {"provision", "start", "provisioned", "samples"}
       \/ pc \in stages \cap {"prepare", "run", "cleanup"}
       \/ pc = "decide" /\ "teardown" \in stages
    /\ checker' \in (IF pc \in {"prepare", "run", "cleanup"} THEN BOOLEAN ELSE {FALSE})
    /\ ToExcept
    /\ raised' = raised \cup {"try"}
    /\ UNCHANGED <<given, spec, specDeleted, deleteRaised, status, shouldTeardown, world>>

(* The teardown stage: ShouldTeardown looks at the samples first. *)
DoTeardownPhase ==
    /\ pc = "decide"
    /\ IF "teardown" \in stages
       THEN /\ shouldTeardown' \in BOOLEAN
            /\ IF shouldTeardown' THEN Call("delete", "phase") ELSE Goto("samples")
       ELSE Goto("samples") /\ UNCHANGED shouldTeardown
    /\ UNCHANGED <<given, spec, specDeleted, deleteRaised, raised, status, checker, world>>

----------------------------------------------------------------------------
(* BenchmarkSpec.Delete *)
AfterDelete ==
    \/ ctx = "phase" /\ Goto("samples")
    \/ ctx = "except" /\ Goto("finally")
    \/ ctx = "finally" /\ Goto("publish")

AlreadyDeleted ==
    /\ pc = "delete"
    /\ specDeleted
    /\ AfterDelete
    /\ UNCHANGED <<given, memory, world>>

Gone(r) == [spec EXCEPT ![r].deleted = TRUE]
Skipped(r) == ~spec[r].created \/ spec[r].deleted

(* Delete of one resource returns, having done something or not. *)
DeleteResource ==
    /\ pc = "delete"
    /\ ~specDeleted
    /\ at <= Len(DeleteOrder)
    /\ LET r == DeleteOrder[at]
       IN  /\ spec' = Gone(r)
           /\ cloud' = IF Skipped(r) THEN cloud ELSE [cloud EXCEPT ![r] = FALSE]
    /\ at' = at + 1
    /\ UNCHANGED <<pc, ctx, raising, given, specDeleted, deleteRaised, raised, status,
                   shouldTeardown, checker, disk, unknown, invocations, crashes>>

(* A wrong version of the next step: what could not be deleted is marked    *)
(* as deleted.                                                              *)
DeleteResourceFailsUnnoticed ==
    /\ pc = "delete"
    /\ ~specDeleted
    /\ at <= Len(DeleteOrder)
    /\ DeleteOrder[at] \in Guarded
    /\ spec' = Gone(DeleteOrder[at])
    /\ at' = at + 1
    /\ UNCHANGED <<pc, ctx, raising, given, specDeleted, deleteRaised, raised, status,
                   shouldTeardown, checker, world>>

(* It raises, and the exception is logged and passed over. *)
DeleteResourceFails ==
    /\ pc = "delete"
    /\ ~specDeleted
    /\ at <= Len(DeleteOrder)
    /\ LET r == DeleteOrder[at]
       IN  /\ r \in Guarded
           /\ \/ UNCHANGED cloud
              \/ ~Skipped(r) /\ cloud' = [cloud EXCEPT ![r] = FALSE]
    /\ at' = at + 1
    /\ UNCHANGED <<pc, ctx, raising, given, memory, disk, unknown,
                   invocations, crashes>>

DeleteEnds ==
    /\ pc = "delete"
    /\ ~specDeleted
    /\ at > Len(DeleteOrder)
    /\ specDeleted' = TRUE
    /\ AfterDelete
    /\ UNCHANGED <<given, spec, deleteRaised, raised, status, shouldTeardown, checker, world>>

(* An exception, or a KeyboardInterrupt anywhere, gets out of Delete. *)
DeleteRaises ==
    /\ pc = "delete"
    /\ ~specDeleted
    /\ \/ ctx = "phase" /\ ToExcept /\ raised' = raised \cup {"try"}
       \/ ctx = "except" /\ ToFinally /\ UNCHANGED raised
       \/ ctx = "finally" /\ ToExit /\ raised' = raised \cup {"finally"}
    /\ deleteRaised' = TRUE
    /\ UNCHANGED <<given, spec, specDeleted, status, shouldTeardown, checker, world>>

----------------------------------------------------------------------------
(* Wrong versions of the next steps: the exception is not raised again; the  *)
(* finally clause publishes first.                                          *)
ExceptSwallows ==
    /\ pc = "except"
    /\ pc' = "finally" /\ ctx' = "none" /\ at' = 1 /\ raising' = FALSE
    /\ UNCHANGED <<given, memory, world>>

FinallyPublishes ==
    /\ pc = "finally"
    /\ Goto("publish")
    /\ UNCHANGED <<given, memory, world>>

(* The except clause: the failed-run sample, the benchmark's cleanup, and   *)
(* teardown if it is wanted and not to come in the finally clause.          *)
Except ==
    /\ pc = "except"
    /\ IF alwaysTeardown /\ "teardown" \notin stages
       THEN Call("delete", "except") ELSE Goto("finally")
    /\ UNCHANGED <<given, memory, world>>

(* PublishFailedRunSample or DoCleanupPhase raises. *)
ExceptRaises ==
    /\ pc = "except"
    /\ ToFinally
    /\ UNCHANGED <<given, memory, world>>

(* The finally clause: a KeyboardInterrupt leaves the join of a checker's   *)
(* threads, and the clause; or it returns, if there is one.                 *)
JoinRaises ==
    /\ pc = "finally"
    /\ checker
    /\ ToExit
    /\ raised' = raised \cup {"join"}
    /\ UNCHANGED <<given, spec, specDeleted, deleteRaised, status, shouldTeardown, checker,
                   world>>

Finally ==
    /\ pc = "finally"
    /\ IF "teardown" \in stages /\ shouldTeardown
       THEN Call("delete", "finally") ELSE Goto("publish")
    /\ UNCHANGED <<given, memory, world>>

Publish ==
    /\ pc = "publish"
    /\ Call("pickle", "final")
    /\ UNCHANGED <<given, memory, world>>

(* PublishSamples or a listener of benchmark_end raises. *)
PublishRaises ==
    /\ pc = "publish"
    /\ ToExit
    /\ raised' = raised \cup {"finally"}
    /\ UNCHANGED <<given, spec, specDeleted, deleteRaised, status, shouldTeardown, checker,
                   world>>

(* RunBenchmark returns or raises; the process ends. *)
Exit ==
    /\ pc = "exit"
    /\ status' = IF raising THEN status ELSE "succeeded"
    /\ Goto("idle")
    /\ UNCHANGED <<given, spec, specDeleted, deleteRaised, raised, shouldTeardown, checker, world>>

Listed(r) == disk.spec[r].created /\ ~disk.spec[r].deleted

(* The process is killed: inside Provision, with what has been created      *)
(* since the spec was pickled.                                              *)
Crash ==
    /\ pc # "idle"
    /\ crashes < MaxCrashes
    /\ crashes' = crashes + 1
    /\ unknown' = unknown \cup
          IF pc = "create" \/ (pc = "pickle" /\ ctx = "after")
          THEN {r \in Res : cloud[r] /\ ~Listed(r)} ELSE {}
    /\ status' = "killed"
    /\ Goto("idle")
    /\ UNCHANGED <<given, spec, specDeleted, deleteRaised, raised, shouldTeardown, checker,
                   disk, cloud, invocations>>

Step ==
    \/ PickleOpen \/ PickleDump \/ PickleRaises
    \/ SkipProvision \/ DoProvisionPhase \/ CreateResource \/ ProvisionEnds
    \/ ProvisionRaises \/ PassStage \/ StageRaises \/ DoTeardownPhase
    \/ AlreadyDeleted \/ DeleteResource \/ DeleteResourceFails \/ DeleteEnds
    \/ DeleteRaises \/ Except \/ ExceptRaises \/ JoinRaises \/ Finally \/ Publish
    \/ PublishRaises \/ Exit

Next == Step \/ Crash \/ \E list \in StageLists : Start(list)

Spec == Init /\ [][Next]_vars

----------------------------------------------------------------------------
(* Types. *)
TypeOK ==
    /\ pc \in {"idle", "provision", "start", "create", "provisioned", "prepare",
              "run", "cleanup", "decide", "samples", "pickle", "dump", "delete", "except", "finally", "publish", "exit"}
    /\ ctx \in {"none", "before", "after", "final", "phase", "except", "finally"}
    /\ at \in 1 .. 4
    /\ raising \in BOOLEAN
    /\ stages \in StageLists \cup {{}}
    /\ alwaysTeardown \in BOOLEAN /\ shouldTeardown \in BOOLEAN
    /\ spec \in [Res -> [created : BOOLEAN, deleted : BOOLEAN]]
    /\ specDeleted \in BOOLEAN /\ deleteRaised \in BOOLEAN
    /\ raised \subseteq {"try", "finally", "join"} /\ checker \in BOOLEAN
    /\ status \in {"skipped", "failed", "succeeded", "killed"}
    /\ disk \in [file : {"none", "empty", "whole"},
                 spec : [Res -> [created : BOOLEAN, deleted : BOOLEAN]]]
    /\ cloud \in [Res -> BOOLEAN]
    /\ unknown \subseteq Res
    /\ invocations \in 0 .. MaxInvocations /\ crashes \in 0 .. MaxCrashes

(* Nothing is forgotten between invocations: whatever stage raised and      *)
(* wherever PKB was killed, each resource left in the cloud is on the       *)
(* pickle as created and not deleted, so that a later teardown will delete  *)
(* it, or belongs to those no object was told of: its Create raised after   *)
(* _Create took effect, PKB was killed before Provision was pickled, or it  *)
(* was there when a new spec was made on the same run_uri.                  *)
NothingForgotten ==
    pc = "idle" /\ disk.file = "whole" =>
        \A r \in Res : cloud[r] => Listed(r) \/ r \in unknown

(* "Deleting resources should happen first so any errors with publishing    *)
(* don't prevent teardown": an invocation told to tear down that ends by    *)
(* itself has run BenchmarkSpec.Delete to its end, or Delete itself raised, *)
(* or a stage had failed and a KeyboardInterrupt came in the join of its    *)
(* checker's threads.                                                       *)
TeardownRuns ==
    pc = "exit" /\ "teardown" \in stages /\ shouldTeardown =>
        specDeleted \/ deleteRaised \/ {"try", "join"} \subseteq raised

(* A benchmark is marked SUCCEEDED only if nothing in RunBenchmark raised,  *)
(* and then, if it was to tear down, the service is gone unless no object   *)
(* was told of it.                                                          *)
SuccessIsEarned ==
    status = "succeeded" =>
        /\ raised = {}
        /\ "teardown" \in stages /\ shouldTeardown => ~cloud["service"] \/ "service" \in unknown

(* Pickle never drops a resource that is still there and that the spec it   *)
(* writes was told of: from one pickle to the next, "created and not        *)
(* deleted" is lost only when the resource is gone, even if Delete passed   *)
(* over the exception of its deletion, or when a new spec takes the file    *)
(* over.                                                                    *)
PickleDropsOnlyTheGone ==
    [][\A r \in Res : Listed(r) /\ ~Listed(r)' =>
          ~cloud'[r] \/ (r \in unknown /\ "provision" \in stages)]_vars
=============================================================================
