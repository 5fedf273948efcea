------------------------------ MODULE Resource ------------------------------
(***************************************************************************)
(* The life of one BaseResource (resource.py) and of the thing it stands   *)
(* for in the cloud.                                                       *)
(*                                                                         *)
(* The object's methods Create, Delete, Restore and Freeze are broken at   *)
(* every call they make to the provider's hooks (_Create, _Exists, ...).   *)
(* Between two such calls the cloud may move on by itself and an exception *)
(* may end the method: the hook's own, a Retry that gives up, or a         *)
(* KeyboardInterrupt.  The hooks are external and are modelled by what     *)
(* resource.py expects of them.                                            *)
(*                                                                         *)
(* The caller is BenchmarkSpec: it calls Create once, then Delete, and     *)
(* Delete again if the first one raised; with --freeze it pickles itself   *)
(* before Delete, and a later run with --restore starts from that pickle.  *)
(***************************************************************************)
EXTENDS Naturals

CONSTANTS
    MaxTries,      \* bound: attempts before the deadline of a Retry passes
    MaxRuns        \* bound: runs of the program, each restored from the last

ASSUME MaxTriesAssumption == MaxTries \in Nat \ {0}
ASSUME MaxRunsAssumption == MaxRuns \in Nat \ {0}

(* The object's settings, and which optional hooks its class has. *)
Config == [userManaged : BOOLEAN, freezeRestore : BOOLEAN,
           createOnRestoreError : BOOLEAN, deleteOnFreezeError : BOOLEAN,
           hasExists : BOOLEAN, hasIsDeleting : BOOLEAN]

(* The flags as pickled, and whether there is a pickle. *)
NoPickle == [created |-> FALSE, deleted |-> FALSE, restored |-> FALSE, saved |-> FALSE]

VARIABLES
    config,        \* the settings, fixed when the object is made
    created,       \* self.created
    deleted,       \* self.deleted
    restored,      \* self.restored
    pc,            \* the hook the current method is about to call
    tries,         \* attempts made by the Retry it is in
    polls,         \* attempts made by WaitUntilDeleted, a Retry inside a Retry
    cloud,         \* external: the state of the underlying resource
    deps,          \* external: its dependencies exist
    stage,         \* what the caller has done with the object
    answer,        \* how its last call ended
    pickle,        \* the flags in the pickle that --freeze has written
    runs,          \* the runs of the program so far
    freezing,      \* this run was given --freeze
    revived        \* this run's object was unpickled with deleted = True

flags == <<created, deleted, restored>>
caller == <<stage, answer, pickle, runs, freezing, revived>>
vars == <<config, flags, pc, tries, polls, cloud, deps, caller>>

(* __init__ *)
Init ==
    /\ config \in Config
    /\ created = config.userManaged
    /\ deleted = config.userManaged
    /\ restored = FALSE
    /\ pc = "idle"
    /\ tries = 0
    /\ polls = 0
    /\ cloud = IF config.userManaged THEN "present" ELSE "absent"
    /\ deps = FALSE
    /\ stage = "new"
    /\ answer = "none"
    /\ pickle = NoPickle
    /\ runs = 1
    /\ freezing \in BOOLEAN
    /\ revived = FALSE

----------------------------------------------------------------------------
(* Wrong versions of some steps, to show that the properties notice them.   *)

(* _DeleteResource trusts _Delete and does not ask _Exists. *)
CheckDeletedTrusting ==
    /\ pc = "checkDeleted"
    /\ deleted' = TRUE
    /\ pc' = "deleteDeps"
    /\ tries' = 0
    /\ UNCHANGED <<config, polls, created, restored, cloud, deps, caller>>

(* The dependencies are deleted before the resource. *)
PreDeleteWithDependencies ==
    /\ pc = "preDelete"
    /\ deps' = FALSE
    /\ tries' = 0
    /\ IF deleted \/ ~created
       THEN deleted' = TRUE /\ pc' = "deleteDeps"
       ELSE pc' = "delete" /\ UNCHANGED deleted
    /\ UNCHANGED <<config, polls, created, restored, cloud, caller>>

(* WaitUntilDeleted polls without a deadline. *)
StillDeletingForEver ==
    /\ pc = "waitDeleted"
    /\ cloud = "leaving" /\ config.hasIsDeleting
    /\ UNCHANGED vars

----------------------------------------------------------------------------
(* Shared steps. *)

(* The method returns to the caller. *)
Return(how) ==
    /\ pc' = "idle"
    /\ answer' = how
    /\ tries' = 0
    /\ UNCHANGED <<stage, pickle, runs, freezing, revived>>

(* A retryable exception: vm_util.Retry tries again until its deadline or   *)
(* its limit, then raises an error that no Retry around it catches.         *)
Retry(again) ==
    IF tries < MaxTries
    THEN pc' = again /\ tries' = tries + 1 /\ UNCHANGED caller
    ELSE Return("raised")

(* _Exists, when the class has it.  A resource that is still coming is not  *)
(* listed yet, one that is leaving still is.                                *)
ExistsAnswers(b) ==
    /\ config.hasExists
    /\ b <=> cloud \in {"present", "leaving"}

----------------------------------------------------------------------------
(* Create(restore) *)

(* The caller restores in a run that started from a pickle. *)
Create ==
    /\ pc = "idle"
    /\ stage = "new"
    /\ stage' = "created"
    /\ IF config.userManaged
       THEN pc' = "idle" /\ answer' = "ok"
       ELSE /\ answer' = "none"
            /\ pc' = IF runs > 1 /\ config.freezeRestore
                     THEN "restore" ELSE "createDeps"
    /\ UNCHANGED <<config, polls, flags, tries, cloud, deps, pickle, runs,
                   freezing, revived>>

(* _Restore works only on a resource that is there. *)
RestoreSucceeds ==
    /\ pc = "restore"
    /\ cloud = "present"
    /\ restored' = TRUE
    /\ pc' = "restoreTimeout"
    /\ UNCHANGED <<config, polls, created, deleted, tries, cloud, deps, caller>>

(* RestoreError: creation instead, or out. *)
RestoreFails ==
    /\ pc = "restore"
    /\ IF config.createOnRestoreError
       THEN pc' = "createDeps" /\ UNCHANGED <<tries, caller>>
       ELSE Return("raised")
    /\ UNCHANGED <<config, polls, flags, cloud, deps>>

(* UpdateTimeout, after _Restore or _Freeze; the method returns. *)
UpdateTimeout ==
    /\ pc \in {"restoreTimeout", "freezeTimeout"}
    /\ Return("ok")
    /\ UNCHANGED <<config, polls, flags, cloud, deps>>

(* _CreateDependencies, and the test that opens _CreateResource. *)
CreateDependencies ==
    /\ pc = "createDeps"
    /\ deps' = TRUE
    /\ pc' = IF created THEN "waitReady" ELSE "create"
    /\ UNCHANGED <<config, polls, flags, tries, cloud, caller>>

(* _Create: the cloud has the resource, will have it, or has refused in a   *)
(* way that only _Exists tells.  A resource of the same name is kept.       *)
CreateHook ==
    /\ pc = "create"
    /\ cloud' \in IF cloud = "absent" THEN {"absent", "coming", "present"}
                  ELSE {cloud}
    /\ pc' = "checkCreated"
    /\ UNCHANGED <<config, polls, flags, tries, deps, caller>>

(* _Create, or _WaitUntilRunning, raises RetryableCreationError. *)
CreateRetries ==
    /\ pc \in {"create", "waitRunning"}
    /\ Retry("create")
    /\ UNCHANGED <<config, polls, flags, cloud, deps>>

(* A wrong version of the next step: _Exists is not asked. *)
CheckCreatedTrusting ==
    /\ pc = "checkCreated"
    /\ pc' = "waitRunning"
    /\ UNCHANGED <<config, polls, flags, tries, cloud, deps, caller>>

CheckCreated ==
    /\ pc = "checkCreated"
    /\ \/ /\ ~config.hasExists \/ ExistsAnswers(TRUE)
          /\ pc' = "waitRunning"
          /\ UNCHANGED <<tries, caller>>
       \/ ExistsAnswers(FALSE) /\ Retry("create")
    /\ UNCHANGED <<config, polls, flags, cloud, deps>>

(* _WaitUntilRunning returns: only now does the object count as created. *)
WaitUntilRunning ==
    /\ pc = "waitRunning"
    /\ created' = TRUE
    /\ pc' = "waitReady"
    /\ tries' = 0
    /\ UNCHANGED <<config, polls, deleted, restored, cloud, deps, caller>>

(* WaitUntilReady: _IsReady answers, as the cloud pleases.  Not yet: its    *)
(* Retry sleeps and asks again, until READY_TIMEOUT.                        *)
NotReady ==
    /\ pc = "waitReady"
    /\ Retry("waitReady")
    /\ UNCHANGED <<config, polls, flags, cloud, deps>>

WaitUntilReady ==
    /\ pc = "waitReady"
    /\ pc' = "postCreate"
    /\ tries' = 0
    /\ UNCHANGED <<config, polls, flags, cloud, deps, caller>>

PostCreate ==
    /\ pc = "postCreate"
    /\ Return("ok")
    /\ UNCHANGED <<config, polls, flags, cloud, deps>>

----------------------------------------------------------------------------
(* Delete(freeze).  With --freeze, BenchmarkSpec.Freeze has just pickled    *)
(* the object as it is.                                                     *)
Delete ==
    /\ pc = "idle"
    /\ \/ stage = "created" /\ stage' = "deleted"
       \/ stage = "deleted" /\ answer = "raised" /\ stage' = "deletedAgain"
    /\ pickle' = IF freezing
                 THEN [created |-> created, deleted |-> deleted,
                       restored |-> restored, saved |-> TRUE]
                 ELSE pickle
    /\ IF config.userManaged
       THEN pc' = "idle" /\ answer' = "ok"
       ELSE /\ answer' = "none"
            /\ pc' = IF freezing /\ config.freezeRestore THEN "freeze" ELSE "preDelete"
    /\ UNCHANGED <<config, polls, flags, tries, cloud, deps, runs, freezing,
                   revived>>

FreezeSucceeds ==
    /\ pc = "freeze"
    /\ restored' = FALSE
    /\ pc' = "freezeTimeout"
    /\ UNCHANGED <<config, polls, created, deleted, tries, cloud, deps, caller>>

(* FreezeError: deletion instead, or out. *)
FreezeFails ==
    /\ pc = "freeze"
    /\ IF config.deleteOnFreezeError
       THEN pc' = "preDelete" /\ UNCHANGED <<tries, caller>>
       ELSE Return("raised")
    /\ UNCHANGED <<config, polls, flags, cloud, deps>>

(* _PreDelete, and the test that opens _DeleteResource: an object that was  *)
(* never created, or is deleted already, goes straight to deleted = True.   *)
PreDelete ==
    /\ pc = "preDelete"
    /\ tries' = 0
    /\ IF deleted \/ ~created
       THEN deleted' = TRUE /\ pc' = "deleteDeps"
       ELSE pc' = "delete" /\ UNCHANGED deleted
    /\ UNCHANGED <<config, polls, created, restored, cloud, deps, caller>>

(* _Delete: done, under way, or refused in a way that only _Exists tells.   *)
DeleteHook ==
    /\ pc = "delete"
    /\ cloud' \in IF cloud = "absent" THEN {"absent"}
                  ELSE {"absent", "leaving", cloud}
    /\ pc' = "waitDeleted"
    /\ UNCHANGED <<config, polls, flags, tries, deps, caller>>

(* WaitUntilDeleted: _IsDeleting is true.  The inner Retry polls until its  *)
(* own deadline; what it raises then is not retried by the outer one.       *)
StillDeleting ==
    /\ pc = "waitDeleted"
    /\ cloud = "leaving" /\ config.hasIsDeleting
    /\ IF polls < MaxTries
       THEN polls' = polls + 1 /\ UNCHANGED <<pc, tries, caller>>
       ELSE polls' = 0 /\ Return("raised")
    /\ UNCHANGED <<config, flags, cloud, deps>>

(* WaitUntilDeleted: _IsDeleting is false, or the class does not have it. *)
WaitUntilDeleted ==
    /\ pc = "waitDeleted"
    /\ cloud # "leaving" \/ ~config.hasIsDeleting
    /\ pc' = "checkDeleted"
    /\ polls' = 0
    /\ UNCHANGED <<config, flags, tries, cloud, deps, caller>>

CheckDeleted ==
    /\ pc = "checkDeleted"
    /\ \/ /\ ~config.hasExists \/ ExistsAnswers(FALSE)
          /\ deleted' = TRUE
          /\ pc' = "deleteDeps"
          /\ tries' = 0
          /\ UNCHANGED caller
       \/ ExistsAnswers(TRUE) /\ Retry("delete") /\ UNCHANGED deleted
    /\ UNCHANGED <<config, polls, created, restored, cloud, deps>>

DeleteDependencies ==
    /\ pc = "deleteDeps"
    /\ deps' = FALSE
    /\ Return("ok")
    /\ UNCHANGED <<config, polls, flags, cloud>>

----------------------------------------------------------------------------
(* An exception leaves the method where it is. *)
RaiseOut ==
    /\ pc # "idle"
    /\ Return("raised")
    /\ polls' = 0
    /\ UNCHANGED <<config, flags, cloud, deps>>

(* The cloud finishes what it was asked for, or drops a creation. *)
CloudMoves ==
    /\ \/ cloud = "coming" /\ cloud' \in {"present", "absent"}
       \/ cloud = "leaving" /\ cloud' = "absent"
    /\ UNCHANGED <<config, polls, flags, pc, tries, deps, caller>>

(* A frozen resource disappears between two runs, say when it expires. *)
CloudExpires ==
    /\ pc = "idle"
    /\ stage = "new"
    /\ cloud = "present" /\ ~config.userManaged
    /\ cloud' = "absent"
    /\ UNCHANGED <<config, polls, flags, pc, tries, deps, caller>>

(* A new run with --restore: _InitializeFromSpec copies the pickled object. *)
RestoreRun ==
    /\ pc = "idle"
    /\ stage \in {"deleted", "deletedAgain"}
    /\ pickle.saved /\ config.freezeRestore
    /\ runs < MaxRuns
    /\ runs' = runs + 1
    /\ created' = pickle.created
    /\ deleted' = pickle.deleted
    /\ restored' = pickle.restored
    /\ stage' = "new"
    /\ answer' = "none"
    /\ freezing' \in BOOLEAN
    /\ revived' = pickle.deleted
    /\ UNCHANGED <<config, polls, pc, tries, cloud, deps, pickle>>

CreateStep ==
    \/ Create \/ RestoreSucceeds \/ RestoreFails \/ UpdateTimeout
    \/ CreateDependencies \/ CreateHook \/ CreateRetries \/ CheckCreated
    \/ WaitUntilRunning \/ NotReady \/ WaitUntilReady \/ PostCreate

DeleteStep ==
    \/ Delete \/ FreezeSucceeds \/ FreezeFails \/ PreDelete \/ DeleteHook
    \/ StillDeleting \/ WaitUntilDeleted \/ CheckDeleted \/ DeleteDependencies

Next == CreateStep \/ DeleteStep \/ RaiseOut \/ CloudMoves \/ CloudExpires \/ RestoreRun

(* A method that can go on does.  Nothing is assumed of the cloud: it may   *)
(* leave what it has begun as it is for ever.                               *)
Fairness == WF_vars(pc # "idle" /\ (CreateStep \/ DeleteStep))

Spec == Init /\ [][Next]_vars /\ Fairness

----------------------------------------------------------------------------
(* Types. *)
TypeOK ==
    /\ config \in Config
    /\ created \in BOOLEAN /\ deleted \in BOOLEAN /\ restored \in BOOLEAN
    /\ pc \in {"idle", "restore", "restoreTimeout", "createDeps", "create",
              "checkCreated", "waitRunning", "waitReady", "postCreate",
              "freeze", "freezeTimeout", "preDelete", "delete", "waitDeleted",
              "checkDeleted", "deleteDeps"}
    /\ tries \in 0 .. MaxTries /\ polls \in 0 .. MaxTries
    /\ cloud \in {"absent", "coming", "present", "leaving"}
    /\ deps \in BOOLEAN
    /\ stage \in {"new", "created", "deleted", "deletedAgain"}
    /\ answer \in {"none", "ok", "raised"}
    /\ pickle \in [created : BOOLEAN, deleted : BOOLEAN, restored : BOOLEAN,
                   saved : BOOLEAN]
    /\ runs \in 1 .. MaxRuns
    /\ freezing \in BOOLEAN /\ revived \in BOOLEAN

(* The classes for which resource.py can know: PKB makes the resource, and  *)
(* _Exists tells whether it is there.                                       *)
Checkable == config.hasExists /\ ~config.userManaged

(* "Reliably deletes the underlying resource": a resource that was created  *)
(* and is marked deleted is gone, however often _Delete was ignored, raised *)
(* or was still under way when it returned, and however many calls it took. *)
(* Objects unpickled as deleted are left out: Create does not clear         *)
(* self.deleted, so a restored one that is created again is never deleted.  *)
ReliableDelete == Checkable /\ ~revived /\ created /\ deleted => cloud = "absent"

(* A created resource never outlives its dependencies: they are deleted     *)
(* only after the resource is known to be gone.                             *)
DependenciesOutlive == Checkable /\ ~revived /\ created /\ cloud # "absent" => deps

(* Create and Delete always come back, whatever the cloud does: every Retry *)
(* ends, in success or at its deadline, and so does the one inside another: *)
(* a resource that stays half deleted, or never gets ready, holds up its    *)
(* caller only until then.                                                  *)
CallsReturn == pc # "idle" ~> pc = "idle"

(* When Create has returned the resource is there, however _Create was      *)
(* ignored or late.  An object restored from a pickle is left out: it says  *)
(* created already, so that create_on_restore_error creates nothing.        *)
CreateProvides ==
    Checkable /\ runs = 1 /\ stage = "created" /\ answer = "ok" => cloud = "present"
=============================================================================
