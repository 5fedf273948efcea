--------------------------- MODULE ResourceProofs ---------------------------
(***************************************************************************)
(* BaseResource.Delete is reliable and keeps to the order of dependencies, *)
(* for any number of attempts and of runs; Create provides the resource.   *)
(*                                                                         *)
(* Two families of resources follow, whose models have variables of their  *)
(* own: the static VMs, whose _Delete puts them back in their pool, and    *)
(* the network and the VMs of the OCI provider.                            *)
(***************************************************************************)
EXTENDS Resource, StaticVmPool, OciProvider, FiniteSetTheorems, TLAPS

CreatePc == {"restore", "restoreTimeout", "createDeps", "create", "checkCreated",
             "waitRunning", "waitReady", "postCreate"}
DeletePc == {"freeze", "freezeTimeout", "preDelete", "delete", "waitDeleted",
             "checkDeleted", "deleteDeps"}

(* What the place in the method says of the flags. *)
Control ==
    /\ pc \in CreatePc => stage = "created" /\ ~config.userManaged
    /\ pc \in DeletePc => stage \in {"deleted", "deletedAgain"} /\ ~config.userManaged
    /\ pc \in {"create", "checkCreated", "waitRunning"} => ~created
    /\ pc \in {"create", "checkCreated", "waitRunning", "waitReady", "postCreate"} => deps
    /\ pc \in {"delete", "waitDeleted", "checkDeleted"} => created /\ ~deleted
    /\ pc = "deleteDeps" => deleted
    /\ stage \in {"new", "created"} /\ ~config.userManaged /\ ~revived => ~deleted

(* Within a run the flags are only ever set, so a pickle never claims more  *)
(* than the object, and an object unpickled as deleted stays so.            *)
History ==
    /\ pickle.created => created
    /\ revived => pickle.deleted /\ deleted

(* A created resource has been listed by the cloud. *)
Listed ==
    Checkable /\ (created \/ pc = "waitRunning") => cloud # "coming"

Flow == Control /\ History /\ Listed

(* In the first run nothing was ever created or deleted before Create: its  *)
(* object is not created yet and the cloud is not removing the resource, so *)
(* what _Exists lists when it is asked is there to stay.                    *)
FirstCreate ==
    /\ pc # "idle" => answer = "none"
    /\ pc \in {"restore", "restoreTimeout"} => runs > 1
    /\ runs = 1 /\ ~config.userManaged /\ (stage = "new" \/ pc = "createDeps") => ~created
    /\ runs = 1 /\ stage \in {"new", "created"} => cloud # "leaving"
    /\ Checkable /\ runs = 1 /\ pc \in {"waitRunning", "waitReady", "postCreate"}
         => cloud = "present"

IInv == TypeOK /\ Flow /\ ReliableDelete /\ DependenciesOutlive /\ FirstCreate /\ CreateProvides

LEMMA Initially == Init => IInv
<1> SUFFICES ASSUME Init
             PROVE  IInv
  OBVIOUS
<1> USE MaxTriesAssumption, MaxRunsAssumption DEF Init, NoPickle
<1>1. TypeOK
  <2>1. created \in BOOLEAN /\ deleted \in BOOLEAN
    BY DEF Config
  <2>2. pickle \in [created : BOOLEAN, deleted : BOOLEAN, restored : BOOLEAN,
                   saved : BOOLEAN]
    BY Zenon
  <2>3. restored \in BOOLEAN /\ deps \in BOOLEAN /\ revived \in BOOLEAN
    BY Zenon
  <2> QED
    BY <2>1, <2>2, <2>3 DEF TypeOK
<1>2. Flow
  BY DEF Flow, Control, History, Listed, Checkable, CreatePc, DeletePc
<1>3. ReliableDelete /\ DependenciesOutlive
  BY DEF ReliableDelete, DependenciesOutlive, Checkable
<1>4. FirstCreate /\ CreateProvides
  BY DEF FirstCreate, CreateProvides, Checkable
<1> QED
  BY <1>1, <1>2, <1>3, <1>4 DEF IInv

LEMMA TypePreserved == IInv /\ [Next]_vars => TypeOK'
<1> SUFFICES ASSUME IInv, [Next]_vars
             PROVE  TypeOK'
  OBVIOUS
<1> USE MaxTriesAssumption, MaxRunsAssumption
        DEF IInv, TypeOK, Flow, flags, caller, Return, Retry
<1>1. CASE Create
  BY <1>1 DEF Create
<1>2. CASE RestoreSucceeds
  BY <1>2 DEF RestoreSucceeds
<1>3. CASE RestoreFails
  BY <1>3 DEF RestoreFails
<1>4. CASE UpdateTimeout
  BY <1>4 DEF UpdateTimeout
<1>5. CASE CreateDependencies
  BY <1>5 DEF CreateDependencies
<1>6. CASE CreateHook
  BY <1>6 DEF CreateHook
<1>7. CASE CreateRetries
  BY <1>7 DEF CreateRetries
<1>8. CASE CheckCreated
  <2>1. CASE pc' = "waitRunning" /\ UNCHANGED <<tries, caller>>
    BY <1>8, <2>1 DEF CheckCreated
  <2>2. CASE Retry("create")
    BY <1>8, <2>2 DEF CheckCreated
  <2> QED
    BY <1>8, <2>1, <2>2 DEF CheckCreated
<1>9. CASE WaitUntilRunning
  BY <1>9 DEF WaitUntilRunning
<1>10. CASE WaitUntilReady
  BY <1>10 DEF WaitUntilReady
<1>11. CASE PostCreate
  BY <1>11 DEF PostCreate
<1>12. CASE Delete
  BY <1>12 DEF Delete
<1>13. CASE FreezeSucceeds
  <2>1. restored' \in BOOLEAN
    BY <1>13, Zenon DEF FreezeSucceeds
  <2> QED
    BY <1>13, <2>1 DEF FreezeSucceeds
<1>14. CASE FreezeFails
  BY <1>14 DEF FreezeFails
<1>15. CASE PreDelete
  <2>1. deleted' \in BOOLEAN
    BY <1>15, Zenon DEF PreDelete
  <2> QED
    BY <1>15, <2>1 DEF PreDelete
<1>16. CASE DeleteHook
  BY <1>16 DEF DeleteHook
<1>17. CASE WaitUntilDeleted
  BY <1>17 DEF WaitUntilDeleted
<1>18. CASE CheckDeleted
  <2>1. deleted' \in BOOLEAN
    BY <1>18, Zenon DEF CheckDeleted
  <2>2. CASE Retry("delete") /\ UNCHANGED deleted
    BY <1>18, <2>1, <2>2 DEF CheckDeleted
  <2>3. CASE pc' = "deleteDeps" /\ tries' = 0 /\ UNCHANGED caller
    BY <1>18, <2>1, <2>3 DEF CheckDeleted
  <2> QED
    BY <1>18, <2>2, <2>3 DEF CheckDeleted
<1>19. CASE DeleteDependencies
  <2>1. deps' \in BOOLEAN
    BY <1>19, Zenon DEF DeleteDependencies
  <2> QED
    BY <1>19, <2>1 DEF DeleteDependencies
<1>20. CASE RaiseOut
  BY <1>20 DEF RaiseOut
<1>21. CASE CloudMoves
  BY <1>21 DEF CloudMoves
<1>22. CASE CloudExpires
  BY <1>22 DEF CloudExpires
<1>23. CASE RestoreRun
  BY <1>23 DEF RestoreRun
<1>24. CASE UNCHANGED vars
  BY <1>24 DEF vars
<1>25. CASE NotReady
  BY <1>25 DEF NotReady
<1>26. CASE StillDeleting
  BY <1>26 DEF StillDeleting
<1> QED
  BY <1>1, <1>2, <1>3, <1>4, <1>5, <1>6, <1>7, <1>8, <1>9, <1>10, <1>11, <1>12, <1>13, <1>14,
     <1>15, <1>16, <1>17, <1>18, <1>19, <1>20, <1>21, <1>22, <1>23, <1>24, <1>25, <1>26
     DEF Next, CreateStep, DeleteStep

LEMMA FlowPreserved == IInv /\ [Next]_vars => Flow'
<1> SUFFICES ASSUME IInv, [Next]_vars
             PROVE  Flow'
  OBVIOUS
<1> USE MaxTriesAssumption, MaxRunsAssumption
        DEF IInv, TypeOK, Config, Flow, Control, History, Listed, Checkable,
            CreatePc, DeletePc, flags, caller, Return, Retry, ExistsAnswers
<1>1. CASE Create
  BY <1>1 DEF Create
<1>2. CASE RestoreSucceeds
  BY <1>2 DEF RestoreSucceeds
<1>3. CASE RestoreFails
  BY <1>3 DEF RestoreFails
<1>4. CASE UpdateTimeout
  BY <1>4 DEF UpdateTimeout
<1>5. CASE CreateDependencies
  BY <1>5 DEF CreateDependencies
<1>6. CASE CreateHook
  BY <1>6 DEF CreateHook
<1>7. CASE CreateRetries
  BY <1>7 DEF CreateRetries
<1>8. CASE CheckCreated
  BY <1>8 DEF CheckCreated
<1>9. CASE WaitUntilRunning
  BY <1>9 DEF WaitUntilRunning
<1>10. CASE WaitUntilReady
  BY <1>10 DEF WaitUntilReady
<1>11. CASE PostCreate
  BY <1>11 DEF PostCreate
<1>12. CASE Delete
  BY <1>12 DEF Delete
<1>13. CASE FreezeSucceeds
  BY <1>13 DEF FreezeSucceeds
<1>14. CASE FreezeFails
  BY <1>14 DEF FreezeFails
<1>15. CASE PreDelete
  BY <1>15 DEF PreDelete
<1>16. CASE DeleteHook
  BY <1>16 DEF DeleteHook
<1>17. CASE WaitUntilDeleted
  BY <1>17 DEF WaitUntilDeleted
<1>18. CASE CheckDeleted
  BY <1>18 DEF CheckDeleted
<1>19. CASE DeleteDependencies
  BY <1>19 DEF DeleteDependencies
<1>20. CASE RaiseOut
  BY <1>20 DEF RaiseOut
<1>21. CASE CloudMoves
  BY <1>21 DEF CloudMoves
<1>22. CASE CloudExpires
  BY <1>22 DEF CloudExpires
<1>23. CASE RestoreRun
  BY <1>23 DEF RestoreRun
<1>24. CASE UNCHANGED vars
  BY <1>24 DEF vars
<1>25. CASE NotReady
  BY <1>25 DEF NotReady
<1>26. CASE StillDeleting
  BY <1>26 DEF StillDeleting
<1> QED
  BY <1>1, <1>2, <1>3, <1>4, <1>5, <1>6, <1>7, <1>8, <1>9, <1>10, <1>11, <1>12, <1>13, <1>14,
     <1>15, <1>16, <1>17, <1>18, <1>19, <1>20, <1>21, <1>22, <1>23, <1>24, <1>25, <1>26
     DEF Next, CreateStep, DeleteStep

LEMMA DeletePreserved == IInv /\ [Next]_vars => ReliableDelete' /\ DependenciesOutlive'
<1> SUFFICES ASSUME IInv, [Next]_vars
             PROVE  ReliableDelete' /\ DependenciesOutlive'
  OBVIOUS
<1> USE MaxTriesAssumption, MaxRunsAssumption
        DEF IInv, TypeOK, Config, Flow, Control, History, Listed, Checkable,
            CreatePc, DeletePc, ReliableDelete, DependenciesOutlive, flags, caller, Return, Retry, ExistsAnswers
<1>1. CASE Create
  BY <1>1 DEF Create
<1>2. CASE RestoreSucceeds
  BY <1>2 DEF RestoreSucceeds
<1>3. CASE RestoreFails
  BY <1>3 DEF RestoreFails
<1>4. CASE UpdateTimeout
  BY <1>4 DEF UpdateTimeout
<1>5. CASE CreateDependencies
  BY <1>5 DEF CreateDependencies
<1>6. CASE CreateHook
  BY <1>6 DEF CreateHook
<1>7. CASE CreateRetries
  BY <1>7 DEF CreateRetries
<1>8. CASE CheckCreated
  BY <1>8 DEF CheckCreated
<1>9. CASE WaitUntilRunning
  BY <1>9 DEF WaitUntilRunning
<1>10. CASE WaitUntilReady
  BY <1>10 DEF WaitUntilReady
<1>11. CASE PostCreate
  BY <1>11 DEF PostCreate
<1>12. CASE Delete
  BY <1>12 DEF Delete
<1>13. CASE FreezeSucceeds
  BY <1>13 DEF FreezeSucceeds
<1>14. CASE FreezeFails
  BY <1>14 DEF FreezeFails
<1>15. CASE PreDelete
  BY <1>15 DEF PreDelete
<1>16. CASE DeleteHook
  BY <1>16 DEF DeleteHook
<1>17. CASE WaitUntilDeleted
  BY <1>17 DEF WaitUntilDeleted
<1>18. CASE CheckDeleted
  BY <1>18 DEF CheckDeleted
<1>19. CASE DeleteDependencies
  BY <1>19 DEF DeleteDependencies
<1>20. CASE RaiseOut
  BY <1>20 DEF RaiseOut
<1>21. CASE CloudMoves
  BY <1>21 DEF CloudMoves
<1>22. CASE CloudExpires
  BY <1>22 DEF CloudExpires
<1>23. CASE RestoreRun
  BY <1>23 DEF RestoreRun
<1>24. CASE UNCHANGED vars
  BY <1>24 DEF vars
<1>25. CASE NotReady
  BY <1>25 DEF NotReady
<1>26. CASE StillDeleting
  BY <1>26 DEF StillDeleting
<1> QED
  BY <1>1, <1>2, <1>3, <1>4, <1>5, <1>6, <1>7, <1>8, <1>9, <1>10, <1>11, <1>12, <1>13, <1>14,
     <1>15, <1>16, <1>17, <1>18, <1>19, <1>20, <1>21, <1>22, <1>23, <1>24, <1>25, <1>26
     DEF Next, CreateStep, DeleteStep

LEMMA CreatePreserved == IInv /\ [Next]_vars => FirstCreate' /\ CreateProvides'
<1> SUFFICES ASSUME IInv, [Next]_vars
             PROVE  FirstCreate' /\ CreateProvides'
  OBVIOUS
<1> USE DEF IInv, TypeOK, Config, Flow, Control, Checkable, FirstCreate, CreateProvides,
            CreatePc, DeletePc, flags, caller, Return, Retry, ExistsAnswers
<1>1. CASE Create
  BY <1>1 DEF Create
<1>2. CASE RestoreSucceeds \/ RestoreFails \/ UpdateTimeout
  BY <1>2 DEF RestoreSucceeds, RestoreFails, UpdateTimeout
<1>3. CASE CreateDependencies \/ CreateHook
  BY <1>3 DEF CreateDependencies, CreateHook
<1>4. CASE CreateRetries
  BY <1>4 DEF CreateRetries
<1>5. CASE CheckCreated
  BY <1>5 DEF CheckCreated
<1>6. CASE WaitUntilRunning \/ NotReady \/ WaitUntilReady \/ PostCreate
  BY <1>6 DEF WaitUntilRunning, NotReady, WaitUntilReady, PostCreate
<1>7. CASE Delete
  BY <1>7 DEF Delete
<1>8. CASE FreezeSucceeds \/ FreezeFails \/ PreDelete
  BY <1>8 DEF FreezeSucceeds, FreezeFails, PreDelete
<1>9. CASE DeleteHook \/ StillDeleting \/ WaitUntilDeleted
  BY <1>9 DEF DeleteHook, StillDeleting, WaitUntilDeleted
<1>10. CASE CheckDeleted
  BY <1>10 DEF CheckDeleted
<1>11. CASE DeleteDependencies \/ RaiseOut
  BY <1>11 DEF DeleteDependencies, RaiseOut
<1>12. CASE CloudMoves \/ CloudExpires
  BY <1>12 DEF CloudMoves, CloudExpires
<1>13. CASE RestoreRun
  BY <1>13 DEF RestoreRun
<1>14. CASE UNCHANGED vars
  BY <1>14 DEF vars
<1> QED
  BY <1>1, <1>2, <1>3, <1>4, <1>5, <1>6, <1>7, <1>8, <1>9, <1>10, <1>11, <1>12, <1>13, <1>14
     DEF Next, CreateStep, DeleteStep

LEMMA Inductive == Spec => []IInv
<1>1. IInv /\ [Next]_vars => IInv'
  BY TypePreserved, FlowPreserved, DeletePreserved, CreatePreserved DEF IInv
<1> QED
  BY Initially, <1>1, PTL DEF Spec

(* Type correctness: no Retry of a resource's methods exceeds its bound and *)
(* no method is left at a place it does not have.                           *)
THEOREM ResourceTypes == Spec => []TypeOK
BY Inductive, PTL DEF IInv

(* A resource that was created and is marked deleted is gone. *)
THEOREM DeleteIsReliable == Spec => []ReliableDelete
BY Inductive, PTL DEF IInv

(* A created resource never outlives its dependencies. *)
THEOREM DependenciesGoLast == Spec => []DependenciesOutlive
BY Inductive, PTL DEF IInv

(* When Create has returned in a run that restores nothing, the resource is *)
(* there, however often _Create was ignored, late or tried again.           *)
THEOREM CreateIsReliable == Spec => []CreateProvides
BY Inductive, PTL DEF IInv

----------------------------------------------------------------------------
(* The pool of static VMs, whose VMs are such resources. *)

(* Nothing more is expected of the VM: it is back, or a failure kept it, or *)
(* it was given out for a second time.                                      *)
Settled(v) == v \in Range(pool) \/ v \in strays \/ uses[v] >= 2

(* One list at a time holds the VMs of the benchmark. *)
Lists ==
    /\ at = "construct" => vms = <<>> /\ ~specDeleted
    /\ at # "construct" => built = <<>>

Taken ==
    \A v \in StaticVMs :
        v \in Range(built) \/ v \in Range(vms)
            => v \in createdVms /\ v \in fromPool /\ uses[v] >= 1

(* The flags of a VM in the pool: it was never taken, or is deleted. *)
Flagged ==
    \A v \in StaticVMs :
        v \in Range(pool) /\ v \in createdVms => v \in deletedVms \/ thread[v] = "mark"

NotYetUsed ==
    at = "construct" =>
        \A v \in StaticVMs : v \in Range(built) \/ uses[v] < benchmarks

Threads ==
    \A v \in StaticVMs :
        /\ thread[v] # "none" => v \in Range(vms)
        /\ at = "threads" /\ v \in Range(vms) => thread[v] # "none"
        /\ thread[v] \in {"mark", "done"} => Settled(v)

DeletedOnes == \A v \in StaticVMs : v \in deletedVms => uses[v] >= 1 /\ Settled(v)

SpecDeletedOnes == specDeleted => \A v \in StaticVMs : v \in Range(vms) => Settled(v)

PoolInv ==
    /\ PoolTypeOK /\ Lists /\ Taken /\ Flagged /\ NotYetUsed /\ Threads
    /\ DeletedOnes /\ SpecDeletedOnes /\ NoVmTwice /\ Accounted

(* What becomes of the range of a list without repetitions. *)
LEMMA EmptyList == Range(<<>>) = {} /\ IsInjective(<<>>)
  BY DEF Range, IsInjective

LEMMA PopLeft ==
    ASSUME NEW S, NEW s \in Seq(S), s # <<>>, IsInjective(s)
    PROVE  /\ Head(s) \in S /\ Tail(s) \in Seq(S) /\ IsInjective(Tail(s))
           /\ Range(Tail(s)) = Range(s) \ {Head(s)} /\ Head(s) \in Range(s)
<1>1. /\ Len(s) \in Nat \ {0} /\ Head(s) = s[1] /\ Tail(s) \in Seq(S)
      /\ DOMAIN s = 1 .. Len(s) /\ DOMAIN Tail(s) = 1 .. Len(s) - 1
      /\ \A i \in 1 .. Len(s) - 1 : Tail(s)[i] = s[i + 1]
  OBVIOUS
<1>2. IsInjective(Tail(s))
  BY <1>1 DEF IsInjective
<1>3. ASSUME NEW x \in Range(Tail(s)) PROVE x \in Range(s) \ {Head(s)}
  BY <1>1 DEF IsInjective, Range
<1>4. ASSUME NEW x \in Range(s), x # Head(s) PROVE x \in Range(Tail(s))
  <2>1. PICK i \in 1 .. Len(s) : x = s[i]
    BY <1>1 DEF Range
  <2>2. i - 1 \in 1 .. Len(s) - 1 /\ Tail(s)[i - 1] = x
    BY <1>1, <1>4, <2>1
  <2> QED
    BY <1>1, <2>2 DEF Range
<1>5. Head(s) \in Range(s) /\ Head(s) \in S
  BY <1>1 DEF Range
<1> QED
  BY <1>1, <1>2, <1>3, <1>4, <1>5

LEMMA AppendNew ==
    ASSUME NEW S, NEW s \in Seq(S), NEW x \in S, IsInjective(s), x \notin Range(s)
    PROVE  /\ Append(s, x) \in Seq(S) /\ IsInjective(Append(s, x))
           /\ Range(Append(s, x)) = Range(s) \cup {x}
<1>1. /\ Len(s) \in Nat /\ Append(s, x) \in Seq(S)
      /\ DOMAIN s = 1 .. Len(s) /\ DOMAIN Append(s, x) = 1 .. Len(s) + 1
      /\ Append(s, x)[Len(s) + 1] = x /\ \A i \in 1 .. Len(s) : Append(s, x)[i] = s[i]
  OBVIOUS
<1>2. \A i \in 1 .. Len(s) : s[i] # x
  BY <1>1 DEF Range
<1>3. IsInjective(Append(s, x))
  BY <1>1, <1>2 DEF IsInjective
<1>4. ASSUME NEW y \in Range(Append(s, x)) PROVE y \in Range(s) \cup {x}
  BY <1>1 DEF Range
<1>5. ASSUME NEW y \in Range(s) PROVE y \in Range(Append(s, x))
  BY <1>1 DEF Range
<1>6. x \in Range(Append(s, x))
  BY <1>1 DEF Range
<1> QED
  BY <1>1, <1>3, <1>4, <1>5, <1>6

LEMMA AppendLeft ==
    ASSUME NEW S, NEW s \in Seq(S), NEW x \in S, IsInjective(s), x \notin Range(s)
    PROVE  /\ <<x>> \o s \in Seq(S) /\ IsInjective(<<x>> \o s)
           /\ Range(<<x>> \o s) = Range(s) \cup {x}
<1>1. /\ Len(s) \in Nat /\ <<x>> \o s \in Seq(S)
      /\ DOMAIN s = 1 .. Len(s) /\ DOMAIN (<<x>> \o s) = 1 .. Len(s) + 1
      /\ (<<x>> \o s)[1] = x /\ \A i \in 2 .. Len(s) + 1 : (<<x>> \o s)[i] = s[i - 1]
  OBVIOUS
<1>2. \A i \in 1 .. Len(s) : s[i] # x
  BY <1>1 DEF Range
<1>3. IsInjective(<<x>> \o s)
  BY <1>1, <1>2 DEF IsInjective
<1>4. ASSUME NEW y \in Range(<<x>> \o s) PROVE y \in Range(s) \cup {x}
  BY <1>1 DEF Range
<1>5. ASSUME NEW y \in Range(s) PROVE y \in Range(<<x>> \o s)
  <2>1. PICK i \in 1 .. Len(s) : y = s[i]
    BY <1>1 DEF Range
  <2>2. i + 1 \in 1 .. Len(s) + 1 /\ (<<x>> \o s)[i + 1] = y
    BY <1>1, <2>1
  <2> QED
    BY <1>1, <2>2 DEF Range
<1>6. x \in Range(<<x>> \o s)
  BY <1>1 DEF Range
<1> QED
  BY <1>1, <1>3, <1>4, <1>5, <1>6

(* The file's VMs, each once: the list that the pool begins with. *)
LEMMA FileOrder ==
    ASSUME IsFiniteSet(StaticVMs), NEW s \in SetToSeqs(StaticVMs)
    PROVE  s \in Seq(StaticVMs) /\ IsInjective(s) /\ Range(s) = StaticVMs
<1> DEFINE n == Cardinality(StaticVMs)
<1>1. Cardinality(StaticVMs) = n /\ n \in Nat
  <2>1. Cardinality(StaticVMs) = n
    BY DEF Cardinality, Cardinality
  <2> QED
    BY <2>1, FS_CardinalityType
<1> HIDE DEF n
<1>2. s \in [1 .. n -> StaticVMs] /\ \A i, j \in 1 .. n : i # j => s[i] # s[j]
  BY <1>1 DEF SetToSeqs
<1>3. s \in Seq(StaticVMs)
  BY <1>1, <1>2
<1>4. IsInjective(s)
  BY <1>2 DEF IsInjective
<1>5. ASSUME NEW v \in StaticVMs, v \notin Range(s) PROVE FALSE
  <2>1. IsFiniteSet(1 .. n) /\ Cardinality(1 .. n) = n
    BY <1>1, FS_Interval
  <2>2. IsFiniteSet(StaticVMs \ {v}) /\ Cardinality(StaticVMs \ {v}) = n - 1
    BY FS_RemoveElement DEF n
  <2>3. s \in [1 .. n -> StaticVMs \ {v}]
    BY <1>2, <1>5 DEF Range
  <2>4. \E i, j \in 1 .. n : i # j /\ s[i] = s[j]
    BY <1>1, <2>1, <2>2, <2>3, FS_PigeonHole
  <2> QED
    BY <1>2, <2>4
<1>6. Range(s) \subseteq StaticVMs
  BY <1>2 DEF Range
<1> QED
  BY <1>3, <1>4, <1>5, <1>6

LEMMA PoolInitially ==
    ASSUME PoolInit
    PROVE  PoolInv
<1> USE StaticVMsAssumption, MaxVmsAssumption, MaxBenchmarksAssumption DEF PoolInit
<1>1. pool \in Seq(StaticVMs) /\ IsInjective(pool) /\ Range(pool) = StaticVMs
  BY FileOrder
<1>2. PoolTypeOK
  <2>1. built \in Seq(StaticVMs) /\ vms \in Seq(StaticVMs) /\ wanted \in 0 .. MaxVms
    OBVIOUS
  <2>2. benchmarks \in 0 .. MaxBenchmarks /\ uses \in [StaticVMs -> 0 .. benchmarks]
    OBVIOUS
  <2>3. specDeleted \in BOOLEAN /\ lastCall \in BOOLEAN
    OBVIOUS
  <2> QED
    BY <1>1, <2>1, <2>2, <2>3 DEF PoolTypeOK
<1>3. Lists /\ Taken /\ Flagged /\ NotYetUsed
  BY EmptyList DEF Lists, Taken, Flagged, NotYetUsed
<1>4. Threads /\ DeletedOnes /\ SpecDeletedOnes
  BY DEF Threads, DeletedOnes, SpecDeletedOnes
<1>5. NoVmTwice /\ Accounted
  BY <1>1, EmptyList DEF NoVmTwice, Accounted
<1> QED
  BY <1>2, <1>3, <1>4, <1>5 DEF PoolInv

(* A list the benchmark has holds VMs. *)
LEMMA Members ==
    ASSUME PoolTypeOK
    PROVE  /\ Range(pool) \subseteq StaticVMs /\ Range(vms) \subseteq StaticVMs
           /\ Range(built) \subseteq StaticVMs
  BY DEF PoolTypeOK, Range

LEMMA StartKeeps ==
    ASSUME PoolInv, NEW n \in 0 .. MaxVms, Start(n)
    PROVE  PoolInv'
<1> USE MaxBenchmarksAssumption, MaxVmsAssumption DEF PoolInv
<1>a. /\ at = "idle" /\ at' = "construct" /\ built' = <<>> /\ vms' = <<>> /\ wanted' = n
      /\ ~specDeleted' /\ specDeleted' \in BOOLEAN /\ lastCall' \in BOOLEAN
      /\ benchmarks < MaxBenchmarks /\ benchmarks' = benchmarks + 1
      /\ UNCHANGED <<pool, createdVms, deletedVms, fromPool, thread, uses, strays>>
  BY DEF Start, flagsOf
<1>t. /\ benchmarks \in 0 .. MaxBenchmarks /\ uses \in [StaticVMs -> 0 .. benchmarks]
      /\ \A v \in StaticVMs : thread[v] = "none"
  BY <1>a DEF PoolTypeOK
<1>1. benchmarks' \in 0 .. MaxBenchmarks /\ uses' \in [StaticVMs -> 0 .. benchmarks']
  BY <1>a, <1>t
<1>2. PoolTypeOK'
  BY <1>a, <1>t, <1>1 DEF PoolTypeOK
<1>3. Lists' /\ Taken' /\ Flagged' /\ NotYetUsed'
  BY <1>a, <1>t, EmptyList DEF Lists, Taken, Flagged, NotYetUsed
<1>4. Threads' /\ DeletedOnes' /\ SpecDeletedOnes'
  BY <1>a, <1>t DEF Threads, DeletedOnes, SpecDeletedOnes, Settled
<1>5. NoVmTwice' /\ Accounted'
  BY <1>a, EmptyList DEF NoVmTwice, Accounted
<1> QED
  BY <1>2, <1>3, <1>4, <1>5

LEMMA TakeKeeps ==
    ASSUME PoolInv, GetStaticVirtualMachine
    PROVE  PoolInv'
<1> USE MaxVmsAssumption DEF PoolInv
<1> DEFINE h == Head(pool)
<1>a. /\ at = "construct" /\ wanted > 0 /\ pool # <<>> /\ pool' = Tail(pool)
      /\ createdVms' = createdVms \cup {h} /\ fromPool' = fromPool \cup {h}
      /\ built' = Append(built, h) /\ uses' = [uses EXCEPT ![h] = uses[h] + 1]
      /\ wanted' = wanted - 1
      /\ UNCHANGED <<deletedVms, at, vms, specDeleted, thread, lastCall, strays, benchmarks>>
  BY DEF GetStaticVirtualMachine
<1> HIDE DEF h
<1>1. /\ h \in StaticVMs /\ h \in Range(pool) /\ pool' \in Seq(StaticVMs)
      /\ IsInjective(pool') /\ Range(pool') = Range(pool) \ {h}
  <2>1. pool \in Seq(StaticVMs) /\ IsInjective(pool)
    BY DEF PoolTypeOK, NoVmTwice
  <2> QED
    BY <2>1, <1>a, PopLeft DEF h
<1>2. h \notin Range(built)
  BY <1>1 DEF NoVmTwice
<1>3. /\ built' \in Seq(StaticVMs) /\ IsInjective(built')
      /\ Range(built') = Range(built) \cup {h}
  <2>1. built \in Seq(StaticVMs) /\ IsInjective(built)
    BY DEF PoolTypeOK, NoVmTwice
  <2> QED
    BY <2>1, <1>a, <1>1, <1>2, AppendNew
<1>4. /\ benchmarks \in Nat /\ uses \in [StaticVMs -> 0 .. benchmarks] /\ uses[h] < benchmarks
  BY <1>a, <1>1, <1>2 DEF PoolTypeOK, NotYetUsed
<1>5. /\ uses' \in [StaticVMs -> 0 .. benchmarks] /\ uses'[h] = uses[h] + 1
      /\ \A v \in StaticVMs \ {h} : uses'[v] = uses[v]
      /\ \A v \in StaticVMs : uses[v] \in Nat
  BY <1>a, <1>1, <1>4
<1>6. PoolTypeOK'
  <2>1. wanted' \in 0 .. MaxVms
    BY <1>a DEF PoolTypeOK
  <2> QED
    BY <2>1, <1>a, <1>1, <1>3, <1>5 DEF PoolTypeOK
<1>7. Lists' /\ Flagged'
  BY <1>a, <1>1 DEF Lists, Flagged
<1>8. Taken' /\ NotYetUsed'
  BY <1>a, <1>1, <1>3, <1>5, EmptyList DEF Lists, Taken, NotYetUsed
<1>9. \A v \in StaticVMs : thread[v] = "none"
  BY <1>a DEF PoolTypeOK
<1>10. Threads'
  BY <1>a, <1>9, EmptyList DEF Threads, Lists
<1>11. DeletedOnes' /\ SpecDeletedOnes'
  BY <1>a, <1>1, <1>5 DEF DeletedOnes, SpecDeletedOnes, Settled, Lists
<1>12. NoVmTwice'
  BY <1>a, <1>1, <1>3 DEF NoVmTwice
<1>13. Accounted'
  BY <1>a, <1>1, <1>3, <1>5 DEF Accounted
<1> QED
  BY <1>6, <1>7, <1>8, <1>10, <1>11, <1>12, <1>13

LEMMA NoStaticVmKeeps ==
    ASSUME PoolInv, NoStaticVm
    PROVE  PoolInv'
<1> USE MaxVmsAssumption DEF PoolInv
<1>a. /\ at = "construct" /\ wanted > 0
      /\ UNCHANGED <<pool, createdVms, deletedVms, fromPool, vms, specDeleted, thread, uses,
                     benchmarks>>
      /\ \/ wanted' = wanted - 1 /\ UNCHANGED <<at, built, strays, lastCall>>
         \/ /\ strays' = strays \cup Range(built) /\ at' = "delete" /\ lastCall' = TRUE
            /\ built' = <<>> /\ wanted' = 0
  BY DEF NoStaticVm, flagsOf
<1>t. /\ wanted \in 0 .. MaxVms /\ \A v \in StaticVMs : thread[v] = "none"
      /\ Range(built) \subseteq StaticVMs
  BY <1>a, Members DEF PoolTypeOK
<1>1. CASE wanted' = wanted - 1 /\ UNCHANGED <<at, built, strays, lastCall>>
  <2>1. wanted' \in 0 .. MaxVms
    BY <1>1, <1>a, <1>t
  <2>2. PoolTypeOK'
    BY <2>1, <1>1, <1>a DEF PoolTypeOK
  <2>3. Lists' /\ Taken' /\ Flagged' /\ NotYetUsed'
    BY <1>1, <1>a DEF Lists, Taken, Flagged, NotYetUsed
  <2>4. Threads' /\ DeletedOnes' /\ SpecDeletedOnes'
    BY <1>1, <1>a DEF Threads, DeletedOnes, SpecDeletedOnes, Settled
  <2>5. NoVmTwice' /\ Accounted'
    BY <1>1, <1>a DEF NoVmTwice, Accounted
  <2> QED
    BY <2>2, <2>3, <2>4, <2>5
<1>2. CASE /\ strays' = strays \cup Range(built) /\ at' = "delete" /\ lastCall' = TRUE
           /\ built' = <<>> /\ wanted' = 0
  <2>1. wanted' \in 0 .. MaxVms /\ strays' \subseteq StaticVMs
    BY <1>2, <1>t DEF PoolTypeOK
  <2>2. PoolTypeOK'
    BY <2>1, <1>2, <1>a, <1>t DEF PoolTypeOK
  <2>3. Lists' /\ Taken' /\ Flagged' /\ NotYetUsed'
    BY <1>2, <1>a, EmptyList DEF Lists, Taken, Flagged, NotYetUsed
  <2>4. Threads' /\ DeletedOnes' /\ SpecDeletedOnes'
    BY <1>2, <1>a, <1>t DEF Threads, DeletedOnes, SpecDeletedOnes, Settled
  <2>5. NoVmTwice' /\ Accounted'
    BY <1>2, <1>a, EmptyList DEF NoVmTwice, Accounted, Lists
  <2> QED
    BY <2>2, <2>3, <2>4, <2>5
<1> QED
  BY <1>a, <1>1, <1>2

LEMMA ConstructEndsKeeps ==
    ASSUME PoolInv, ConstructEnds
    PROVE  PoolInv'
<1> USE DEF PoolInv
<1>a. /\ at = "construct" /\ at' = "use" /\ vms' = built /\ built' = <<>>
      /\ UNCHANGED <<pool, createdVms, deletedVms, fromPool, wanted, specDeleted, thread,
                     lastCall, uses, strays, benchmarks>>
  BY DEF ConstructEnds, flagsOf, history
<1>t. /\ ~specDeleted /\ \A v \in StaticVMs : thread[v] = "none"
  BY <1>a DEF PoolTypeOK, Lists
<1>1. PoolTypeOK'
  BY <1>a DEF PoolTypeOK
<1>2. Lists' /\ Taken' /\ Flagged' /\ NotYetUsed'
  BY <1>a, EmptyList DEF Lists, Taken, Flagged, NotYetUsed
<1>3. Threads' /\ DeletedOnes' /\ SpecDeletedOnes'
  BY <1>a, <1>t DEF Threads, DeletedOnes, SpecDeletedOnes, Settled
<1>4. NoVmTwice' /\ Accounted'
  BY <1>a, EmptyList DEF NoVmTwice, Accounted, Lists
<1> QED
  BY <1>1, <1>2, <1>3, <1>4

LEMMA UseKeeps ==
    ASSUME PoolInv, Use
    PROVE  PoolInv'
<1> USE DEF PoolInv
<1>a. /\ at = "use" /\ at' \in {"delete", "idle"} /\ lastCall' \in BOOLEAN
      /\ UNCHANGED <<pool, createdVms, deletedVms, fromPool, wanted, built, vms, specDeleted,
                     thread, uses, benchmarks>>
      /\ strays' = strays \/ strays' = strays \cup Range(vms)
      /\ at' = "idle" => strays' = strays \cup Range(vms)
  <2>1. lastCall \in BOOLEAN
    BY DEF PoolTypeOK
  <2> QED
    BY <2>1 DEF Use, flagsOf
<1>t. /\ built = <<>> /\ \A v \in StaticVMs : thread[v] = "none"
  BY <1>a DEF PoolTypeOK, Lists
<1>1. PoolTypeOK'
  <2>1. strays' \subseteq StaticVMs
    BY <1>a, Members DEF PoolTypeOK
  <2> QED
    BY <2>1, <1>a, <1>t DEF PoolTypeOK
<1>2. Lists' /\ Taken' /\ Flagged' /\ NotYetUsed'
  BY <1>a DEF Lists, Taken, Flagged, NotYetUsed
<1>3. Threads' /\ DeletedOnes' /\ SpecDeletedOnes'
  BY <1>a, <1>t DEF Threads, DeletedOnes, SpecDeletedOnes, Settled
<1>4. NoVmTwice' /\ Accounted'
  BY <1>a, <1>t, EmptyList DEF NoVmTwice, Accounted
<1> QED
  BY <1>1, <1>2, <1>3, <1>4

(* _Delete of a VM, or what stands for it when the flags say that it was    *)
(* done: the pool grows by the VM or not at all, and the VM is settled.     *)
LEMMA GivenBack ==
    ASSUME PoolInv, at # "construct", NEW v \in StaticVMs, v \in Range(vms),
           thread[v] # "mark",
           IF v \in createdVms \ deletedVms /\ v \in fromPool
           THEN PutBack(v) ELSE UNCHANGED pool
    PROVE  /\ pool' \in Seq(StaticVMs) /\ IsInjective(pool')
           /\ Range(pool') = Range(pool)
                \/ Range(pool') = Range(pool) \cup {v}
           /\ v \in Range(pool') \/ v \in strays \/ uses[v] >= 2
           /\ built = <<>> /\ uses[v] >= 1
<1> USE DEF PoolInv
<1>1. /\ pool \in Seq(StaticVMs) /\ IsInjective(pool) /\ built = <<>>
      /\ v \in createdVms /\ v \in fromPool /\ uses[v] >= 1
  BY DEF PoolTypeOK, NoVmTwice, Lists, Taken
<1>2. CASE v \in deletedVms
  BY <1>1, <1>2 DEF DeletedOnes, Settled
<1>3. CASE v \notin deletedVms
  <2>1. pool' = <<v>> \o pool
    BY <1>1, <1>3 DEF PutBack
  <2>2. v \notin Range(pool)
    BY <1>1, <1>3 DEF Flagged
  <2> QED
    BY <1>1, <2>1, <2>2, AppendLeft
<1> QED
  BY <1>2, <1>3

LEMMA RejectCpuKeeps ==
    ASSUME PoolInv, NEW v \in StaticVMs, RejectCpu(v)
    PROVE  PoolInv'
<1> USE DEF PoolInv
<1>a. /\ at = "use" /\ v \in Range(vms) /\ at' = "delete" /\ lastCall' = TRUE
      /\ deletedVms' = deletedVms \cup {v}
      /\ UNCHANGED <<createdVms, fromPool, wanted, built, vms, specDeleted, thread, uses,
                     strays, benchmarks>>
      /\ IF v \in createdVms \ deletedVms /\ v \in fromPool
         THEN PutBack(v) ELSE UNCHANGED pool
  BY DEF RejectCpu, history
<1>t. \A w \in StaticVMs : thread[w] = "none"
  BY <1>a DEF PoolTypeOK
<1>1. /\ pool' \in Seq(StaticVMs) /\ IsInjective(pool')
      /\ Range(pool) \subseteq Range(pool')
      /\ Range(pool') \subseteq Range(pool) \cup {v}
      /\ v \in Range(pool') \/ v \in strays \/ uses[v] >= 2
      /\ built = <<>> /\ uses[v] >= 1
  BY <1>a, <1>t, GivenBack
<1>2. PoolTypeOK'
  BY <1>a, <1>t, <1>1 DEF PoolTypeOK
<1>3. Lists' /\ Taken' /\ Flagged' /\ NotYetUsed'
  BY <1>a, <1>1 DEF Lists, Taken, Flagged, NotYetUsed
<1>4. Threads' /\ DeletedOnes' /\ SpecDeletedOnes'
  BY <1>a, <1>t, <1>1 DEF Threads, DeletedOnes, SpecDeletedOnes, Settled
<1>5. NoVmTwice' /\ Accounted'
  BY <1>a, <1>1, EmptyList DEF NoVmTwice, Accounted
<1> QED
  BY <1>2, <1>3, <1>4, <1>5

LEMMA SpecDeleteKeeps ==
    ASSUME PoolInv, SpecDelete
    PROVE  PoolInv'
<1> USE DEF PoolInv
<1>a. /\ at = "delete"
      /\ UNCHANGED <<pool, createdVms, deletedVms, fromPool, wanted, built, vms, specDeleted,
                     uses, benchmarks>>
      /\ \/ specDeleted /\ at' = "idle" /\ UNCHANGED <<thread, strays, lastCall>>
         \/ /\ thread' = [v \in StaticVMs |->
                            IF v \in Range(vms) THEN "cleanup" ELSE "none"]
            /\ at' = "threads" /\ UNCHANGED <<strays, lastCall>>
         \/ DeleteRaises /\ UNCHANGED thread
  BY DEF SpecDelete, flagsOf
<1>t. /\ built = <<>> /\ lastCall \in BOOLEAN /\ \A v \in StaticVMs : thread[v] = "none"
  BY <1>a DEF PoolTypeOK, Lists
<1>1. CASE specDeleted /\ at' = "idle" /\ UNCHANGED <<thread, strays, lastCall>>
  <2>1. PoolTypeOK'
    BY <1>1, <1>a, <1>t DEF PoolTypeOK
  <2>2. Lists' /\ Taken' /\ Flagged' /\ NotYetUsed'
    BY <1>1, <1>a DEF Lists, Taken, Flagged, NotYetUsed
  <2>3. Threads' /\ DeletedOnes' /\ SpecDeletedOnes'
    BY <1>1, <1>a, <1>t DEF Threads, DeletedOnes, SpecDeletedOnes, Settled
  <2>4. NoVmTwice' /\ Accounted'
    BY <1>1, <1>a, <1>t, EmptyList
    DEF NoVmTwice, Accounted, SpecDeletedOnes, Settled
  <2> QED
    BY <2>1, <2>2, <2>3, <2>4
<1>2. CASE /\ thread' = [v \in StaticVMs |->
                            IF v \in Range(vms) THEN "cleanup" ELSE "none"]
           /\ at' = "threads" /\ UNCHANGED <<strays, lastCall>>
  <2>1. PoolTypeOK'
    BY <1>2, <1>a DEF PoolTypeOK
  <2>2. Lists' /\ Taken' /\ NotYetUsed'
    BY <1>2, <1>a DEF Lists, Taken, NotYetUsed
  <2>3. Flagged'
    BY <1>2, <1>a, <1>t DEF Flagged
  <2>4. Threads' /\ DeletedOnes' /\ SpecDeletedOnes'
    BY <1>2, <1>a DEF Threads, DeletedOnes, SpecDeletedOnes, Settled
  <2>5. NoVmTwice' /\ Accounted'
    BY <1>2, <1>a DEF NoVmTwice, Accounted
  <2> QED
    BY <2>1, <2>2, <2>3, <2>4, <2>5
<1>3. CASE DeleteRaises /\ UNCHANGED thread
  <2>1. /\ at' \in {"idle", "delete"} /\ lastCall' \in BOOLEAN /\ strays \subseteq strays'
        /\ strays' \subseteq StaticVMs
        /\ at' = "idle" => strays' = strays \cup (Range(vms) \ Range(pool))
    BY <1>3, <1>t, Members DEF DeleteRaises, PoolTypeOK
  <2>2. PoolTypeOK'
    BY <1>3, <2>1, <1>a, <1>t DEF PoolTypeOK
  <2>3. Lists' /\ Taken' /\ Flagged' /\ NotYetUsed'
    BY <1>3, <2>1, <1>a DEF Lists, Taken, Flagged, NotYetUsed
  <2>4. Threads' /\ DeletedOnes' /\ SpecDeletedOnes'
    BY <1>3, <2>1, <1>a, <1>t DEF Threads, DeletedOnes, SpecDeletedOnes, Settled
  <2>5. NoVmTwice' /\ Accounted'
    BY <1>3, <2>1, <1>a, <1>t, EmptyList DEF NoVmTwice, Accounted
  <2> QED
    BY <2>2, <2>3, <2>4, <2>5
<1> QED
  BY <1>a, <1>1, <1>2, <1>3

(* A thread of the teardown moves on: the other threads stay. *)
LEMMA OneThread ==
    ASSUME PoolInv, NEW v \in StaticVMs, NEW here, NEW there \in {"delete", "mark", "done"},
           thread[v] = here, here # "none", thread' = [thread EXCEPT ![v] = there]
    PROVE  /\ at = "threads" /\ v \in Range(vms) /\ uses[v] >= 1
           /\ thread' \in [StaticVMs -> {"none", "cleanup", "delete", "mark", "done"}]
           /\ thread'[v] = there /\ \A w \in StaticVMs \ {v} : thread'[w] = thread[w]
  BY DEF PoolInv, PoolTypeOK, Threads, Taken

LEMMA CleanupKeeps ==
    ASSUME PoolInv, NEW v \in StaticVMs, Cleanup(v)
    PROVE  PoolInv'
<1> USE DEF PoolInv
<1>0. PICK there \in {"delete", "done"} :
        /\ thread[v] = "cleanup" /\ thread' = [thread EXCEPT ![v] = there]
        /\ UNCHANGED <<pool, createdVms, deletedVms, fromPool, at, wanted, built, vms,
                       specDeleted, lastCall, uses, benchmarks>>
        /\ there = "delete" => strays' = strays
        /\ there = "done" => strays' = strays \cup ({v} \ Range(pool))
  BY DEF Cleanup, flagsOf
<1>1. /\ at = "threads" /\ v \in Range(vms)
      /\ thread' \in [StaticVMs -> {"none", "cleanup", "delete", "mark", "done"}]
      /\ thread'[v] = there /\ \A w \in StaticVMs \ {v} : thread'[w] = thread[w]
  BY <1>0, OneThread
<1>2. /\ strays' \subseteq StaticVMs /\ strays \subseteq strays'
      /\ there = "done" => v \in Range(pool) \/ v \in strays'
  BY <1>0 DEF PoolTypeOK
<1>3. PoolTypeOK'
  BY <1>0, <1>1, <1>2 DEF PoolTypeOK
<1>4. Lists' /\ Taken' /\ NotYetUsed'
  BY <1>0 DEF Lists, Taken, NotYetUsed
<1>5. Flagged'
  BY <1>0, <1>1 DEF Flagged
<1>6. Threads'
  BY <1>0, <1>1, <1>2 DEF Threads, Settled
<1>7. DeletedOnes' /\ SpecDeletedOnes'
  BY <1>0, <1>2 DEF DeletedOnes, SpecDeletedOnes, Settled
<1>8. NoVmTwice' /\ Accounted'
  BY <1>0, <1>2 DEF NoVmTwice, Accounted
<1> QED
  BY <1>3, <1>4, <1>5, <1>6, <1>7, <1>8

LEMMA DeleteResourceKeeps ==
    ASSUME PoolInv, NEW v \in StaticVMs, DeleteResource(v)
    PROVE  PoolInv'
<1> USE DEF PoolInv
<1>a. /\ thread[v] = "delete" /\ thread' = [thread EXCEPT ![v] = "mark"]
      /\ UNCHANGED <<createdVms, deletedVms, fromPool, at, wanted, built, vms, specDeleted,
                     lastCall, uses, strays, benchmarks>>
      /\ IF v \in createdVms \ deletedVms /\ v \in fromPool
         THEN PutBack(v) ELSE UNCHANGED pool
  BY DEF DeleteResource, flagsOf, history
<1>1. /\ at = "threads" /\ v \in Range(vms)
      /\ thread' \in [StaticVMs -> {"none", "cleanup", "delete", "mark", "done"}]
      /\ thread'[v] = "mark" /\ \A w \in StaticVMs \ {v} : thread'[w] = thread[w]
  BY <1>a, OneThread
<1>2. /\ pool' \in Seq(StaticVMs) /\ IsInjective(pool')
      /\ Range(pool) \subseteq Range(pool')
      /\ Range(pool') \subseteq Range(pool) \cup {v}
      /\ v \in Range(pool') \/ v \in strays \/ uses[v] >= 2
      /\ built = <<>>
  BY <1>a, <1>1, GivenBack
<1>3. PoolTypeOK'
  BY <1>a, <1>1, <1>2 DEF PoolTypeOK
<1>4. Lists' /\ Taken' /\ NotYetUsed'
  BY <1>a DEF Lists, Taken, NotYetUsed
<1>5. Flagged'
  BY <1>a, <1>1, <1>2 DEF Flagged
<1>6. Threads'
  BY <1>a, <1>1, <1>2 DEF Threads, Settled
<1>7. DeletedOnes' /\ SpecDeletedOnes'
  BY <1>a, <1>2 DEF DeletedOnes, SpecDeletedOnes, Settled
<1>8. NoVmTwice' /\ Accounted'
  BY <1>a, <1>2, EmptyList DEF NoVmTwice, Accounted
<1> QED
  BY <1>3, <1>4, <1>5, <1>6, <1>7, <1>8

LEMMA MarkKeeps ==
    ASSUME PoolInv, NEW v \in StaticVMs, Mark(v)
    PROVE  PoolInv'
<1> USE DEF PoolInv
<1>a. /\ thread[v] = "mark" /\ thread' = [thread EXCEPT ![v] = "done"]
      /\ deletedVms' = deletedVms \cup {v}
      /\ UNCHANGED <<pool, createdVms, fromPool, at, wanted, built, vms, specDeleted,
                     lastCall, uses, strays, benchmarks>>
  BY DEF Mark, history
<1>1. /\ at = "threads" /\ v \in Range(vms) /\ uses[v] >= 1 /\ Settled(v)
      /\ thread' \in [StaticVMs -> {"none", "cleanup", "delete", "mark", "done"}]
      /\ thread'[v] = "done" /\ \A w \in StaticVMs \ {v} : thread'[w] = thread[w]
  <2>1. Settled(v)
    BY <1>a DEF Threads
  <2> QED
    BY <2>1, <1>a, OneThread
<1>2. PoolTypeOK'
  BY <1>a, <1>1 DEF PoolTypeOK
<1>3. Lists' /\ Taken' /\ NotYetUsed'
  BY <1>a DEF Lists, Taken, NotYetUsed
<1>4. Flagged'
  BY <1>a, <1>1 DEF Flagged
<1>5. Threads'
  BY <1>a, <1>1 DEF Threads, Settled
<1>6. DeletedOnes' /\ SpecDeletedOnes'
  BY <1>a, <1>1 DEF DeletedOnes, SpecDeletedOnes, Settled
<1>7. NoVmTwice' /\ Accounted'
  BY <1>a DEF NoVmTwice, Accounted
<1> QED
  BY <1>2, <1>3, <1>4, <1>5, <1>6, <1>7

LEMMA DeleteEndsKeeps ==
    ASSUME PoolInv, DeleteEnds
    PROVE  PoolInv'
<1> USE DEF PoolInv
<1>a. /\ at = "threads" /\ \A v \in StaticVMs : thread[v] \in {"none", "done"}
      /\ thread' = [v \in StaticVMs |-> "none"]
      /\ UNCHANGED <<pool, createdVms, deletedVms, fromPool, wanted, built, vms, uses,
                     benchmarks>>
      /\ \/ /\ specDeleted' = TRUE /\ at' \in {"idle", "delete"}
            /\ lastCall' = TRUE /\ UNCHANGED strays
         \/ DeleteRaises /\ UNCHANGED specDeleted
  BY DEF DeleteEnds, flagsOf
<1>1. \A v \in StaticVMs : v \in Range(vms) => Settled(v)
  BY <1>a DEF Threads
<1>2. /\ at' \in {"idle", "delete"} /\ strays \subseteq strays' /\ strays' \subseteq StaticVMs
      /\ lastCall' \in BOOLEAN /\ specDeleted' \in BOOLEAN
      /\ built = <<>> /\ built' = <<>>
  BY <1>a, Members DEF DeleteRaises, PoolTypeOK, Lists
<1>3. PoolTypeOK'
  BY <1>a, <1>2 DEF PoolTypeOK
<1>4. Lists' /\ Taken' /\ NotYetUsed'
  BY <1>a, <1>2 DEF Lists, Taken, NotYetUsed
<1>5. Flagged'
  BY <1>a DEF Flagged
<1>6. Threads' /\ DeletedOnes' /\ SpecDeletedOnes'
  BY <1>a, <1>1, <1>2 DEF Threads, DeletedOnes, SpecDeletedOnes, Settled
<1>7. NoVmTwice' /\ Accounted'
  BY <1>a, <1>1, <1>2, EmptyList DEF NoVmTwice, Accounted, Settled
<1> QED
  BY <1>3, <1>4, <1>5, <1>6, <1>7

LEMMA PoolAlways ==
    PoolSpec => []PoolInv
<1>1. PoolInit => PoolInv
  BY PoolInitially
<1>2. PoolInv /\ [PoolNext]_poolVars => PoolInv'
  <2> SUFFICES ASSUME PoolInv, [PoolNext]_poolVars
               PROVE  PoolInv'
    OBVIOUS
  <2>1. CASE PoolNext
    BY <2>1, StartKeeps, TakeKeeps, NoStaticVmKeeps, ConstructEndsKeeps, UseKeeps, RejectCpuKeeps,
       SpecDeleteKeeps, CleanupKeeps, DeleteResourceKeeps, MarkKeeps, DeleteEndsKeeps
    DEF PoolNext
  <2>2. CASE UNCHANGED poolVars
    BY <2>2 DEF poolVars, flagsOf, benchmark, history, PoolInv, PoolTypeOK,
       Lists, Taken, Flagged, NotYetUsed, Threads, DeletedOnes, SpecDeletedOnes, Settled,
       NoVmTwice, Accounted
  <2> QED
    BY <2>1, <2>2
<1> QED
  BY <1>1, <1>2, PTL DEF PoolSpec

(* The values of the pool's model are in range: in particular the threads   *)
(* of DeleteVm exist only while RunThreaded does.                           *)
THEOREM PoolTypes ==
    PoolSpec => []PoolTypeOK
<1>1. PoolInv => PoolTypeOK
  BY DEF PoolInv
<1> QED
  BY <1>1, PoolAlways, PTL

(* No static VM is in the pool twice, or in it while a benchmark that took  *)
(* it is constructed, for any number of VMs and of benchmarks, and however  *)
(* often spec.Delete is called.                                             *)
THEOREM VmsAreGivenOnce ==
    PoolSpec => []NoVmTwice
<1>1. PoolInv => NoVmTwice
  BY DEF PoolInv
<1> QED
  BY <1>1, PoolAlways, PTL

(* A static VM that nobody has was kept by a failure or by a teardown that  *)
(* was left out, or was given out a second time.                            *)
THEOREM VmsAreAccountedFor ==
    PoolSpec => []Accounted
<1>1. PoolInv => Accounted
  BY DEF PoolInv
<1> QED
  BY <1>1, PoolAlways, PTL

----------------------------------------------------------------------------
(* The network and the VMs of the OCI provider, which are such resources. *)

Ports == {"ssh", "icmp"} \cup {Port[v] : v \in VMs}
InstStates == {"none", "PROVISIONING", "RUNNING", "TERMINATING", "TERMINATED"}
NetRecords == [at : 1..6, waiting : BOOLEAN, tries : 1..MaxNetTries,
               created : BOOLEAN, deleted : BOOLEAN,
               vcn : 0..MaxNetTries, subnet : 0..MaxNetTries, gateway : 0..MaxNetTries]
CloudRecords == [vcns : SUBSET (1..MaxNetTries), subnets : SUBSET (1..MaxNetTries),
                 gateways : SUBSET (1..MaxNetTries), rules : SUBSET Ports]
VmRecords == [pc : {"launch", "poll", "address", "allow", "write", "boot", "up", "failed",
                    "mismatch", "delete", "pollDeleted", "check", "ended"},
              status : InstStates, created : BOOLEAN, deleted : BOOLEAN,
              boots : 1..(MaxBoots + 1), read : SUBSET Ports]

(* What holds of the object r of a VM whose instance is in state i, in the  *)
(* phase p.  Its status is never ahead of the cloud; an object that is to   *)
(* be launched has not been polled; only a deletion in the teardown marks   *)
(* an object that was not created.                                          *)
Lifecycle(p, r, i) ==
    /\ r.status = "TERMINATED" => i = "TERMINATED"
    /\ r.created => r.status # "none" /\ i # "none"
    /\ r.created /\ r.deleted => i = "TERMINATED"
    /\ p \in {"network", "boot"} /\ ~r.created => ~r.deleted
    /\ r.pc = "launch" /\ ~r.created => r.status = "none"
    /\ r.pc \in {"poll", "address"} => ~r.created /\ i # "none"
    /\ r.pc = "address" => r.status = "RUNNING"
    /\ r.pc \in {"allow", "write", "boot", "up", "mismatch", "pollDeleted", "check"} => r.created
    /\ r.pc \in {"pollDeleted", "check"} => ~r.deleted
    /\ p = "boot" /\ r.pc # "failed" => r.boots <= MaxBoots
    /\ p = "network" => r = NewVm

(* The command of OciNetwork.Create is done in this try, and waited for or  *)
(* about to be.                                                             *)
Done(n, k) == n.at > k \/ (n.at = k /\ n.waiting)

(* The objects that net names are in the cloud c. *)
Built(p, n, c) ==
    /\ p \in {"network", "boot"} /\ n.created => n.vcn \in c.vcns
    /\ p = "network" => /\ Done(n, 1) => n.created
                        /\ Done(n, 2) => n.subnet \in c.subnets
                        /\ Done(n, 3) => n.gateway \in c.gateways
    /\ p = "boot" => n.created /\ n.subnet \in c.subnets /\ n.gateway \in c.gateways

OciTyped ==
    /\ phase \in {"network", "boot", "delete", "netdelete", "done"}
    /\ net \in NetRecords /\ ociCloud \in CloudRecords
    /\ vm \in [VMs -> VmRecords] /\ inst \in [VMs -> InstStates]
    /\ teardowns \in 0..MaxTeardowns
    /\ phase \in {"network", "boot"} => teardowns = 0

OciInv ==
    /\ OciTyped /\ Built(phase, net, ociCloud)
    /\ \A v \in VMs : Lifecycle(phase, vm[v], inst[v])

(* The security list c.rules, the objects m of the VMs and the history g of *)
(* Create's rules, f of refused and o of overlapping updates.  Two VMs that *)
(* are about to write overlap; one that is about to write has read what     *)
(* Create left, and the port of every VM that was served before it read;    *)
(* the port of a VM that waits for its boot, or is up, is open.  Both leave *)
(* out the VMs that were refused or overlap with one for another port.      *)
Excused(v, f, o) == v \in f \/ \E w \in o[v] : Port[w] # Port[v]

ListHolds(p, c, m, g, f, o) ==
    /\ g \subseteq {"ssh", "icmp"} /\ f \subseteq VMs /\ o \in [VMs -> SUBSET VMs]
    /\ p = "network" => c.rules \subseteq {"ssh", "icmp"}
    /\ g \subseteq c.rules
    /\ \A w \in VMs : m[w].pc = "write" => g \subseteq m[w].read
    /\ \A v, w \in VMs : v # w /\ m[v].pc = "write" /\ m[w].pc = "write" => w \in o[v]
    /\ \A v, w \in VMs : m[v].pc \in {"boot", "up"} /\ m[w].pc = "write"
          => Port[v] \in m[w].read \/ w \in o[v] \/ Excused(v, f, o)
    /\ \A v \in VMs : m[v].pc \in {"boot", "up"} => Port[v] \in c.rules \/ Excused(v, f, o)

ListInv == ListHolds(phase, ociCloud, vm, granted, refused, overlapped)

LEMMA OciInvMeans ==
    ASSUME OciInv, ListInv
    PROVE  OciTypeOK /\ DeletedMeansGone /\ NetworkServes
<1> USE DEF OciInv
<1>1. OciTypeOK
  <2>1. Len(CreateSteps) + 1 = 6
    BY DEF CreateSteps
  <2>2. granted \subseteq {"ssh", "icmp"} /\ refused \subseteq VMs /\ overlapped \in [VMs -> SUBSET VMs]
    BY DEF ListInv, ListHolds
  <2> QED
    BY <2>1, <2>2 DEF OciTyped, NetRecords, CloudRecords, VmRecords, InstStates, Ports, OciTypeOK
<1>2. DeletedMeansGone
  BY DEF DeletedMeansGone, Lifecycle
<1>3. NetworkServes
  BY DEF ListInv, ListHolds, Excused, MayBeLost, NetworkServes, Built
<1> QED
  BY <1>1, <1>2, <1>3

LEMMA Bounds ==
    MaxNetTries \in Nat \ {0} /\ MaxBoots \in Nat \ {0} /\ MaxTeardowns \in Nat \ {0}
  BY BoundsAssumption

LEMMA OciInitially ==
    ASSUME OciInit
    PROVE  OciInv /\ ListInv
<1> USE Bounds DEF OciInit
<1>1. net \in NetRecords
  BY DEF NetRecords
<1>2. ociCloud \in CloudRecords
  BY DEF CloudRecords
<1>3. NewVm \in VmRecords
  BY DEF VmRecords, InstStates, NewVm
<1>4. OciTyped
  BY <1>1, <1>2, <1>3 DEF OciTyped, InstStates
<1>5. Built(phase, net, ociCloud)
  BY DEF Built, Done
<1>6. ListInv
  BY DEF ListInv, ListHolds, NewVm
<1>7. \A v \in VMs : Lifecycle(phase, vm[v], inst[v])
  BY DEF Lifecycle, NewVm
<1> QED
  BY <1>4, <1>5, <1>6, <1>7 DEF OciInv

(* A thread changes the object of its VM and what the instance is in. *)
LEMMA OneVm ==
    ASSUME OciInv, NEW v \in VMs, NEW r \in VmRecords, NEW i \in InstStates,
           vm' = [vm EXCEPT ![v] = r], inst' = [inst EXCEPT ![v] = i],
           UNCHANGED <<phase, net, teardowns>>,
           ociCloud' \in CloudRecords, Built(phase, net, ociCloud'),
           Lifecycle(phase, r, i)
    PROVE  OciInv'
<1> USE DEF OciInv
<1>1. /\ vm' \in [VMs -> VmRecords] /\ vm'[v] = r /\ \A w \in VMs \ {v} : vm'[w] = vm[w]
      /\ inst' \in [VMs -> InstStates] /\ inst'[v] = i /\ \A w \in VMs \ {v} : inst'[w] = inst[w]
  BY DEF OciTyped
<1>2. OciTyped'
  BY <1>1 DEF OciTyped
<1>3. ASSUME NEW w \in VMs PROVE Lifecycle(phase', vm'[w], inst'[w])
  BY <1>1
<1> QED
  BY <1>2, <1>3

(* The cloud does not change, nor does the instance. *)
LEMMA OneObject ==
    ASSUME OciInv, NEW v \in VMs, NEW r \in VmRecords, vm' = [vm EXCEPT ![v] = r],
           UNCHANGED <<phase, net, ociCloud, inst, teardowns>>, Lifecycle(phase, r, inst[v])
    PROVE  OciInv'
<1>1. inst[v] \in InstStates /\ inst' = [inst EXCEPT ![v] = inst[v]]
  BY DEF OciInv, OciTyped
<1>2. ociCloud' \in CloudRecords /\ Built(phase, net, ociCloud')
  BY DEF OciInv, OciTyped
<1> QED
  BY <1>1, <1>2, OneVm

VmPlaces == {"launch", "poll", "address", "allow", "write", "boot", "up", "failed", "mismatch",
             "delete", "pollDeleted", "check", "ended"}

(* The object r is o at another place. *)
Goes(r, o, p) ==
    /\ r.pc = p /\ r.status = o.status /\ r.created = o.created /\ r.deleted = o.deleted
    /\ r.boots = o.boots /\ r.read = o.read

(* The object a thread starts from, and the one it leaves when it only      *)
(* moves on.                                                                *)
LEMMA Object ==
    ASSUME OciInv, NEW v \in VMs
    PROVE  /\ vm[v] \in VmRecords /\ Lifecycle(phase, vm[v], inst[v]) /\ inst[v] \in InstStates
           /\ vm[v].created \in BOOLEAN /\ vm[v].deleted \in BOOLEAN /\ vm[v].pc \in VmPlaces
  BY DEF OciInv, OciTyped, VmRecords, VmPlaces

LEMMA Moved ==
    ASSUME NEW o \in VmRecords, NEW p \in VmPlaces
    PROVE  [o EXCEPT !.pc = p] \in VmRecords /\ Goes([o EXCEPT !.pc = p], o, p)
  BY DEF VmRecords, VmPlaces, Goes

LEMMA Went ==
    ASSUME OciInv, NEW v \in VMs, NEW p \in VmPlaces, Go(v, p)
    PROVE  \E r \in VmRecords : vm' = [vm EXCEPT ![v] = r] /\ Goes(r, vm[v], p)
<1> DEFINE r == [vm[v] EXCEPT !.pc = p]
<1>1. vm' = [vm EXCEPT ![v] = r]
  BY DEF Go
<1>2. r \in VmRecords /\ Goes(r, vm[v], p)
  BY Object, Moved
<1> HIDE DEF r
<1> QED
  BY <1>1, <1>2

LEMMA LaunchKeeps == ASSUME OciInv, NEW v \in VMs, Launch(v) PROVE OciInv'
<1>1. /\ phase = "boot" /\ vm[v].pc = "launch" /\ UNCHANGED <<phase, net, ociCloud, teardowns>>
      /\ Lifecycle(phase, vm[v], inst[v])
  BY Object DEF Launch, At
<1>2. CASE vm[v].created
  <2>1. PICK r \in VmRecords : vm' = [vm EXCEPT ![v] = r] /\ Goes(r, vm[v], "allow")
    BY <1>2, Went DEF Launch, VmPlaces
  <2>2. UNCHANGED inst
    BY <1>2 DEF Launch
  <2>3. Lifecycle(phase, r, inst[v])
    BY <1>1, <1>2, <2>1 DEF Lifecycle, Goes
  <2> QED
    BY <1>1, <2>1, <2>2, <2>3, OneObject
<1>3. CASE ~vm[v].created
  <2>1. PICK r \in VmRecords : vm' = [vm EXCEPT ![v] = r] /\ Goes(r, vm[v], "poll")
    BY <1>3, Went DEF Launch, VmPlaces
  <2>2. inst' = [inst EXCEPT ![v] = "PROVISIONING"]
    BY <1>3 DEF Launch
  <2>3. Lifecycle(phase, r, "PROVISIONING")
    BY <1>1, <1>3, <2>1 DEF Lifecycle, Goes
  <2>4. ociCloud' \in CloudRecords /\ Built(phase, net, ociCloud') /\ "PROVISIONING" \in InstStates
    BY <1>1 DEF OciInv, OciTyped, InstStates
  <2> QED
    BY <1>1, <2>1, <2>2, <2>3, <2>4, OneVm
<1> QED
  BY <1>2, <1>3

LEMMA PollRunningKeeps == ASSUME OciInv, NEW v \in VMs, PollRunning(v) PROVE OciInv'
<1> DEFINE p == IF inst[v] = "RUNNING" THEN "address" ELSE "poll"
           r == [vm[v] EXCEPT !.status = inst[v], !.pc = p]
<1>1. /\ phase = "boot" /\ vm[v].pc = "poll"
      /\ UNCHANGED <<phase, net, ociCloud, inst, teardowns>>
      /\ vm[v] \in VmRecords /\ inst[v] \in InstStates /\ Lifecycle(phase, vm[v], inst[v])
  BY Object DEF PollRunning, At
<1>2. vm' = [vm EXCEPT ![v] = r]
  BY DEF PollRunning
<1>3. /\ r \in VmRecords /\ r.pc = p /\ r.status = inst[v] /\ r.created = vm[v].created
      /\ r.deleted = vm[v].deleted /\ r.boots = vm[v].boots
  BY <1>1 DEF VmRecords
<1> HIDE DEF r
<1>4. Lifecycle(phase, r, inst[v])
  BY <1>1, <1>3 DEF Lifecycle
<1> QED
  BY <1>1, <1>2, <1>3, <1>4, OneObject

LEMMA GetPublicIPKeeps == ASSUME OciInv, NEW v \in VMs, GetPublicIP(v) PROVE OciInv'
<1> DEFINE r == [vm[v] EXCEPT !.created = TRUE, !.pc = "allow"]
<1>1. /\ phase = "boot" /\ vm[v].pc = "address"
      /\ UNCHANGED <<phase, net, ociCloud, inst, teardowns>>
      /\ vm[v] \in VmRecords /\ Lifecycle(phase, vm[v], inst[v])
  BY Object DEF GetPublicIP, At
<1>2. vm' = [vm EXCEPT ![v] = r]
  BY DEF GetPublicIP
<1>3. /\ r \in VmRecords /\ r.pc = "allow" /\ r.status = vm[v].status /\ r.created = TRUE
      /\ r.deleted = vm[v].deleted /\ r.boots = vm[v].boots
  BY <1>1 DEF VmRecords
<1> HIDE DEF r
<1>4. Lifecycle(phase, r, inst[v])
  BY <1>1, <1>3 DEF Lifecycle
<1> QED
  BY <1>1, <1>2, <1>3, <1>4, OneObject

LEMMA ReadRulesKeeps == ASSUME OciInv, NEW v \in VMs, ReadRules(v) PROVE OciInv'
<1> DEFINE r == [vm[v] EXCEPT !.read = ociCloud.rules, !.pc = "write"]
<1>1. /\ phase = "boot" /\ vm[v].pc = "allow"
      /\ UNCHANGED <<phase, net, ociCloud, inst, teardowns>>
      /\ vm[v] \in VmRecords /\ Lifecycle(phase, vm[v], inst[v])
  BY Object DEF ReadRules, At
<1>2. vm' = [vm EXCEPT ![v] = r]
  BY DEF ReadRules
<1>3. ociCloud.rules \in SUBSET Ports
  BY <1>1 DEF OciInv, OciTyped, CloudRecords
<1>4. /\ r \in VmRecords /\ r.pc = "write" /\ r.status = vm[v].status
      /\ r.created = vm[v].created /\ r.deleted = vm[v].deleted /\ r.boots = vm[v].boots
      /\ r.read = ociCloud.rules
  BY <1>1, <1>3 DEF VmRecords
<1> HIDE DEF r
<1>5. Lifecycle(phase, r, inst[v])
  BY <1>1, <1>3, <1>4 DEF Lifecycle
<1> QED
  BY <1>1, <1>2, <1>4, <1>5, OneObject

(* An update changes nothing but the list. *)
LEMMA UpdateBuilds ==
    ASSUME OciInv, NEW v \in VMs
    PROVE  /\ Updated(v) \in CloudRecords /\ Built(phase, net, Updated(v))
           /\ Updated(v).rules = vm[v].read \cup {Port[v]}
<1>1. /\ ociCloud \in CloudRecords /\ vm[v].read \in SUBSET Ports /\ Port[v] \in Ports
  BY DEF OciInv, OciTyped, VmRecords, Ports
<1>2. /\ Updated(v) \in CloudRecords /\ Updated(v).vcns = ociCloud.vcns
      /\ Updated(v).subnets = ociCloud.subnets /\ Updated(v).gateways = ociCloud.gateways
      /\ Updated(v).rules = vm[v].read \cup {Port[v]}
  BY <1>1 DEF CloudRecords, Updated
<1> QED
  BY <1>2 DEF OciInv, Built

LEMMA WriteRulesKeeps == ASSUME OciInv, NEW v \in VMs, WriteRules(v) PROVE OciInv'
<1>1. /\ phase = "boot" /\ vm[v].pc = "write" /\ ociCloud' \in {ociCloud, Updated(v)}
      /\ UNCHANGED <<phase, net, inst, teardowns>>
      /\ vm[v] \in VmRecords /\ Lifecycle(phase, vm[v], inst[v])
  BY Object DEF WriteRules, At
<1>2. PICK r \in VmRecords : vm' = [vm EXCEPT ![v] = r] /\ Goes(r, vm[v], "boot")
  BY Went DEF WriteRules, VmPlaces
<1>3. Lifecycle(phase, r, inst[v])
  BY <1>1, <1>2 DEF Lifecycle, Goes
<1>4. ociCloud' \in CloudRecords /\ Built(phase, net, ociCloud')
  BY <1>1, UpdateBuilds DEF OciInv, OciTyped
<1>5. inst[v] \in InstStates /\ inst' = [inst EXCEPT ![v] = inst[v]]
  BY <1>1 DEF OciInv, OciTyped
<1> QED
  BY <1>1, <1>2, <1>3, <1>4, <1>5, OneVm

LEMMA BootKeeps == ASSUME OciInv, NEW v \in VMs, Boot(v) PROVE OciInv'
<1>1. /\ phase = "boot" /\ vm[v].pc = "boot"
      /\ UNCHANGED <<phase, net, ociCloud, inst, teardowns>> /\ Lifecycle(phase, vm[v], inst[v])
  BY Object DEF Boot, At
<1>2. PICK p \in {"up", "mismatch"} : Go(v, p)
  BY DEF Boot
<1>3. PICK r \in VmRecords : vm' = [vm EXCEPT ![v] = r] /\ Goes(r, vm[v], p)
  BY <1>2, Went DEF VmPlaces
<1>4. Lifecycle(phase, r, inst[v])
  BY <1>1, <1>3 DEF Lifecycle, Goes
<1> QED
  BY <1>1, <1>3, <1>4, OneObject

LEMMA BootRaisesKeeps == ASSUME OciInv, NEW v \in VMs, BootRaises(v) PROVE OciInv'
<1>1. /\ phase = "boot" /\ UNCHANGED <<phase, net, teardowns>>
      /\ ociCloud' \in {ociCloud, Updated(v)} /\ Lifecycle(phase, vm[v], inst[v])
  BY Object DEF BootRaises
<1>2. PICK r \in VmRecords : vm' = [vm EXCEPT ![v] = r] /\ Goes(r, vm[v], "failed")
  BY Went DEF BootRaises, VmPlaces
<1>5. ociCloud' \in CloudRecords /\ Built(phase, net, ociCloud')
  BY <1>1, UpdateBuilds DEF OciInv, OciTyped
<1>3. CASE UNCHANGED inst
  <2>1. Lifecycle(phase, r, inst[v])
    BY <1>1, <1>2 DEF Lifecycle, Goes
  <2>2. inst[v] \in InstStates /\ inst' = [inst EXCEPT ![v] = inst[v]]
    BY <1>3 DEF OciInv, OciTyped
  <2> QED
    BY <1>1, <1>2, <1>5, <2>1, <2>2, OneVm
<1>4. CASE /\ vm[v].pc = "launch" /\ ~vm[v].created
           /\ inst' = [inst EXCEPT ![v] = "PROVISIONING"]
  <2>1. Lifecycle(phase, r, "PROVISIONING")
    BY <1>1, <1>2, <1>4 DEF Lifecycle, Goes
  <2>2. "PROVISIONING" \in InstStates
    BY DEF InstStates
  <2> QED
    BY <1>1, <1>2, <1>4, <1>5, <2>1, <2>2, OneVm
<1> QED
  BY <1>3, <1>4 DEF BootRaises

(* The end of Delete, whatever it ended with. *)
LEMMA AfterDeleteKeeps ==
    ASSUME OciInv, NEW v \in VMs, NEW mark \in BOOLEAN,
           Deleting(v), AfterDelete(v, mark),
           UNCHANGED <<phase, net, ociCloud, inst, teardowns>>,
           mark /\ vm[v].created => inst[v] = "TERMINATED",
           mark /\ ~vm[v].created => phase = "delete",
           ~mark => ~vm[v].deleted
    PROVE  OciInv'
<1> USE Bounds
<1> DEFINE o == vm[v]
           p == IF phase = "boot" THEN IF mark /\ o.boots < MaxBoots THEN "launch" ELSE "failed"
                                  ELSE "ended"
           b == IF phase = "boot" /\ mark THEN o.boots + 1 ELSE o.boots
           r == [o EXCEPT !.deleted = mark, !.boots = b, !.pc = p]
<1>1. o \in VmRecords /\ Lifecycle(phase, o, inst[v]) /\ phase \in {"boot", "delete"}
  BY Object DEF Deleting
<1>2. vm' = [vm EXCEPT ![v] = r]
  BY DEF AfterDelete
<1>3. o.boots \in 1 .. MaxBoots + 1 /\ (phase = "boot" => o.boots <= MaxBoots)
  <2>1. phase = "boot" => o.pc # "failed"
    BY DEF Deleting
  <2> QED
    BY <1>1, <2>1 DEF VmRecords, Lifecycle
<1>4. b \in 1 .. MaxBoots + 1 /\ (phase = "boot" /\ p # "failed" => b <= MaxBoots)
  BY <1>3
<1>5. /\ r \in VmRecords /\ r.pc = p /\ r.status = o.status /\ r.created = o.created
      /\ r.deleted = mark /\ r.boots = b /\ o.created \in BOOLEAN
  BY <1>1, <1>4 DEF VmRecords
<1>6. p \in {"launch", "failed", "ended"} /\ (p = "launch" => phase = "boot" /\ mark)
  OBVIOUS
<1> HIDE DEF r, p, b
<1>7. Lifecycle(phase, r, inst[v])
  BY <1>1, <1>4, <1>5, <1>6 DEF Lifecycle
<1> QED
  BY <1>2, <1>5, <1>7, OneObject

LEMMA TerminateKeeps ==
    ASSUME OciInv, NEW v \in VMs, Terminate(v)
    PROVE  OciInv'
<1>1. /\ Deleting(v) /\ vm[v].pc \in {"mismatch", "delete"}
      /\ UNCHANGED <<phase, net, ociCloud, teardowns>> /\ Lifecycle(phase, vm[v], inst[v])
      /\ inst[v] \in InstStates
  BY Object DEF Terminate
<1>2. CASE vm[v].deleted \/ ~vm[v].created
  <2>1. AfterDelete(v, TRUE) /\ UNCHANGED inst
    BY <1>2 DEF Terminate
  <2>2. vm[v].created => inst[v] = "TERMINATED"
    BY <1>1, <1>2 DEF Lifecycle
  <2>3. ~vm[v].created => phase = "delete"
    BY <1>1 DEF Lifecycle, Deleting
  <2> QED
    BY <1>1, <2>1, <2>2, <2>3, AfterDeleteKeeps
<1>3. CASE ~(vm[v].deleted \/ ~vm[v].created) /\ vm[v].status = "RUNNING"
  <2> DEFINE i == IF inst[v] = "TERMINATED" THEN inst[v] ELSE "TERMINATING"
  <2>1. Go(v, "pollDeleted") /\ inst' = [inst EXCEPT ![v] = i]
    BY <1>3 DEF Terminate
  <2>2. PICK r \in VmRecords : vm' = [vm EXCEPT ![v] = r] /\ Goes(r, vm[v], "pollDeleted")
    BY <2>1, Went DEF VmPlaces
  <2>3. i \in {"TERMINATED", "TERMINATING"} /\ i \in InstStates
    BY DEF InstStates
  <2> HIDE DEF i
  <2>4. Lifecycle(phase, r, i)
    BY <1>1, <1>3, <2>2, <2>3 DEF Lifecycle, Goes, Deleting
  <2>5. ociCloud' \in CloudRecords /\ Built(phase, net, ociCloud')
    BY <1>1 DEF OciInv, OciTyped
  <2> QED
    BY <1>1, <2>1, <2>2, <2>3, <2>4, <2>5, OneVm
<1>4. CASE ~(vm[v].deleted \/ ~vm[v].created) /\ vm[v].status # "RUNNING"
  <2>1. Go(v, "check") /\ UNCHANGED inst
    BY <1>4 DEF Terminate
  <2>2. PICK r \in VmRecords : vm' = [vm EXCEPT ![v] = r] /\ Goes(r, vm[v], "check")
    BY <2>1, Went DEF VmPlaces
  <2>3. Lifecycle(phase, r, inst[v])
    BY <1>1, <1>4, <2>2 DEF Lifecycle, Goes, Deleting
  <2> QED
    BY <1>1, <2>1, <2>2, <2>3, OneObject
<1> QED
  BY <1>2, <1>3, <1>4

LEMMA PollDeletedKeeps == ASSUME OciInv, NEW v \in VMs, PollDeleted(v) PROVE OciInv'
<1> DEFINE p == IF inst[v] = "TERMINATED" THEN "check" ELSE "pollDeleted"
           r == [vm[v] EXCEPT !.status = inst[v], !.pc = p]
<1>1. /\ phase \in {"boot", "delete"} /\ vm[v].pc = "pollDeleted"
      /\ UNCHANGED <<phase, net, ociCloud, inst, teardowns>>
      /\ vm[v] \in VmRecords /\ inst[v] \in InstStates /\ Lifecycle(phase, vm[v], inst[v])
  BY Object DEF PollDeleted, Deleting
<1>2. vm' = [vm EXCEPT ![v] = r]
  BY DEF PollDeleted
<1>3. /\ r \in VmRecords /\ r.pc = p /\ r.status = inst[v] /\ r.created = vm[v].created
      /\ r.deleted = vm[v].deleted /\ r.boots = vm[v].boots
  BY <1>1 DEF VmRecords
<1> HIDE DEF r
<1>4. Lifecycle(phase, r, inst[v])
  BY <1>1, <1>3 DEF Lifecycle
<1> QED
  BY <1>1, <1>2, <1>3, <1>4, OneObject

LEMMA CheckVmDeletedKeeps ==
    ASSUME OciInv, NEW v \in VMs, CheckVmDeleted(v)
    PROVE  OciInv'
<1>1. /\ Deleting(v) /\ vm[v].pc = "check" /\ vm[v].status \in {"none", "TERMINATED"}
      /\ AfterDelete(v, TRUE) /\ UNCHANGED <<phase, net, ociCloud, inst, teardowns>>
      /\ Lifecycle(phase, vm[v], inst[v])
  BY Object DEF CheckVmDeleted, Exists
<1>2. vm[v].created /\ inst[v] = "TERMINATED"
  BY <1>1 DEF Lifecycle
<1> QED
  BY <1>1, <1>2, AfterDeleteKeeps

LEMMA DeleteVmRaisesKeeps ==
    ASSUME OciInv, NEW v \in VMs, DeleteVmRaises(v)
    PROVE  OciInv'
<1>1. /\ Deleting(v) /\ vm[v].deleted \in BOOLEAN
      /\ AfterDelete(v, vm[v].deleted) /\ UNCHANGED <<phase, net, ociCloud, inst, teardowns>>
      /\ Lifecycle(phase, vm[v], inst[v])
  BY Object DEF DeleteVmRaises
<1>2. /\ vm[v].deleted /\ vm[v].created => inst[v] = "TERMINATED"
      /\ vm[v].deleted /\ ~vm[v].created => phase = "delete"
  BY <1>1 DEF Lifecycle, Deleting
<1> QED
  BY <1>1, <1>2, AfterDeleteKeeps

LEMMA OciMovesKeeps == ASSUME OciInv, NEW v \in VMs, OciMoves(v) PROVE OciInv'
<1>1. /\ UNCHANGED <<phase, net, ociCloud, vm, teardowns>>
      /\ vm[v] \in VmRecords /\ Lifecycle(phase, vm[v], inst[v])
  BY Object DEF OciMoves
<1>2. PICK i \in {"RUNNING", "TERMINATED"} :
        /\ inst' = [inst EXCEPT ![v] = i]
        /\ inst[v] = (IF i = "RUNNING" THEN "PROVISIONING" ELSE "TERMINATING")
  BY DEF OciMoves
<1>3. Lifecycle(phase, vm[v], i)
  BY <1>1, <1>2 DEF Lifecycle
<1>4. /\ i \in InstStates /\ vm' = [vm EXCEPT ![v] = vm[v]]
      /\ ociCloud' \in CloudRecords /\ Built(phase, net, ociCloud')
  BY <1>1 DEF OciInv, OciTyped, InstStates
<1> QED
  BY <1>1, <1>2, <1>3, <1>4, OneVm

LEMMA TearDownKeeps ==
    ASSUME OciInv, TearDown, teardowns < MaxTeardowns,
           net' \in NetRecords, ociCloud' \in CloudRecords, UNCHANGED inst
    PROVE  OciInv'
<1> USE Bounds
<1>1. /\ phase' = "delete" /\ teardowns' = teardowns + 1
      /\ vm' = [v \in VMs |-> [vm[v] EXCEPT !.pc = "delete"]]
  BY DEF TearDown
<1>2. ASSUME NEW v \in VMs
      PROVE  vm'[v] \in VmRecords /\ Lifecycle(phase', vm'[v], inst'[v])
  <2>1. vm'[v] \in VmRecords /\ Goes(vm'[v], vm[v], "delete")
    BY <1>1, Object, Moved DEF VmPlaces
  <2> QED
    BY <1>1, <2>1, Object DEF Lifecycle, Goes
<1>3. vm' \in [VMs -> VmRecords]
  BY <1>1, <1>2
<1>4. OciTyped'
  BY <1>1, <1>3 DEF OciInv, OciTyped
<1>5. Built(phase', net', ociCloud')
  BY <1>1 DEF Built
<1> QED
  BY <1>2, <1>4, <1>5 DEF OciInv

LEMMA StepNames ==
    /\ Len(CreateSteps) = 5
    /\ CreateSteps[1] = "vcn" /\ CreateSteps[2] = "subnet" /\ CreateSteps[3] = "gateway"
    /\ CreateSteps[4] = "ssh" /\ CreateSteps[5] = "icmp"
  BY DEF CreateSteps

LEMMA NetFields ==
    ASSUME OciInv
    PROVE  /\ net \in NetRecords /\ net.at \in 1 .. 6 /\ net.waiting \in BOOLEAN
           /\ net.created \in BOOLEAN /\ net.tries \in 1 .. MaxNetTries
           /\ ociCloud \in CloudRecords
  BY DEF OciInv, OciTyped, NetRecords

(* A command of OciNetwork.Create only adds to the cloud. *)
LEMMA EffectAdds ==
    ASSUME OciInv, Creating
    PROVE  /\ Effect \in CloudRecords
           /\ ociCloud.vcns \subseteq Effect.vcns
           /\ ociCloud.subnets \subseteq Effect.subnets
           /\ ociCloud.gateways \subseteq Effect.gateways
           /\ ociCloud.rules \subseteq Effect.rules
           /\ Effect.rules \subseteq ociCloud.rules \cup {"ssh", "icmp"}
           /\ net.at = 1 /\ ~net.created => net.tries \in Effect.vcns
           /\ net.at = 2 => net.tries \in Effect.subnets
           /\ net.at = 3 => net.tries \in Effect.gateways
<1>1. net.at \in 1 .. 5 /\ net.tries \in 1 .. MaxNetTries /\ ociCloud \in CloudRecords
  BY NetFields, StepNames DEF Creating
<1>2. CASE net.at = 1
  <2>1. Effect = IF net.created THEN ociCloud
                     ELSE [ociCloud EXCEPT !.vcns = ociCloud.vcns \cup {net.tries}]
    BY <1>2, StepNames DEF Effect, Step
  <2> QED
    BY <1>1, <1>2, <2>1 DEF CloudRecords
<1>3. CASE net.at = 2
  <2>1. Effect = [ociCloud EXCEPT !.subnets = ociCloud.subnets \cup {net.tries}]
    BY <1>3, StepNames DEF Effect, Step
  <2> QED
    BY <1>1, <1>3, <2>1 DEF CloudRecords
<1>4. CASE net.at = 3
  <2>1. Effect = [ociCloud EXCEPT !.gateways = ociCloud.gateways \cup {net.tries}]
    BY <1>4, StepNames DEF Effect, Step
  <2> QED
    BY <1>1, <1>4, <2>1 DEF CloudRecords
<1>5. CASE net.at = 4
  <2>1. Effect = [ociCloud EXCEPT !.rules = ociCloud.rules \cup {"ssh"}]
    BY <1>5, StepNames DEF Effect, Step
  <2> QED
    BY <1>1, <1>5, <2>1 DEF CloudRecords, Ports
<1>6. CASE net.at = 5
  <2>1. Effect = [ociCloud EXCEPT !.rules = ociCloud.rules \cup {"icmp"}]
    BY <1>6, StepNames DEF Effect, Step
  <2> QED
    BY <1>1, <1>6, <2>1 DEF CloudRecords, Ports
<1> QED
  BY <1>1, <1>2, <1>3, <1>4, <1>5, <1>6

(* What is noted of its answer. *)
LEMMA NotedIds ==
    ASSUME OciInv, Creating
    PROVE  /\ Noted \in NetRecords /\ Noted.at = net.at
           /\ Noted.created <=> (net.created \/ net.at = 1)
           /\ Noted.vcn = (IF net.at = 1 /\ ~net.created THEN net.tries ELSE net.vcn)
           /\ Noted.subnet = (IF net.at = 2 THEN net.tries ELSE net.subnet)
           /\ Noted.gateway = (IF net.at = 3 THEN net.tries ELSE net.gateway)
<1> USE Bounds
<1>1. /\ net.at \in 1 .. 5 /\ net \in NetRecords /\ net.created \in BOOLEAN
  BY NetFields, StepNames DEF Creating
<1>t. PICK t \in 0 .. MaxNetTries : t = net.tries
  BY NetFields
<1>2. CASE net.at = 1 /\ ~net.created
  <2>1. Noted = [net EXCEPT !.created = TRUE, !.vcn = t]
    BY <1>2, <1>t, StepNames DEF Noted, Step
  <2>2. Noted \in NetRecords
    BY <1>1, <2>1 DEF NetRecords
  <2>3. /\ Noted.created = TRUE /\ Noted.vcn = t /\ Noted.at = net.at
        /\ Noted.subnet = net.subnet /\ Noted.gateway = net.gateway
    BY <1>1, <2>1 DEF NetRecords
  <2> QED
    BY <1>2, <1>t, <2>2, <2>3
<1>3. CASE net.at = 2
  <2>1. Noted = [net EXCEPT !.subnet = t]
    BY <1>3, <1>t, StepNames DEF Noted, Step
  <2>2. Noted \in NetRecords
    BY <1>1, <2>1 DEF NetRecords
  <2>3. /\ Noted.created = net.created /\ Noted.vcn = net.vcn /\ Noted.at = net.at
        /\ Noted.subnet = t /\ Noted.gateway = net.gateway
    BY <1>1, <2>1 DEF NetRecords
  <2> QED
    BY <1>1, <1>3, <1>t, <2>2, <2>3
<1>4. CASE net.at = 3
  <2>1. Noted = [net EXCEPT !.gateway = t]
    BY <1>4, <1>t, StepNames DEF Noted, Step
  <2>2. Noted \in NetRecords
    BY <1>1, <2>1 DEF NetRecords
  <2>3. /\ Noted.created = net.created /\ Noted.vcn = net.vcn /\ Noted.at = net.at
        /\ Noted.subnet = net.subnet /\ Noted.gateway = t
    BY <1>1, <2>1 DEF NetRecords
  <2> QED
    BY <1>1, <1>4, <1>t, <2>2, <2>3
<1>5. CASE net.at \in {4, 5} \/ (net.at = 1 /\ net.created)
  <2>1. Noted = net
    BY <1>5, StepNames DEF Noted, Step
  <2> QED
    BY <1>1, <1>5, <2>1
<1> QED
  BY <1>1, <1>2, <1>3, <1>4, <1>5

(* The VMs wait while the network is made. *)
LEMMA NetworkOnly ==
    ASSUME OciInv, phase = "network", phase' = "network", UNCHANGED <<vm, inst, teardowns>>,
           net' \in NetRecords, ociCloud' \in CloudRecords, Built(phase', net', ociCloud')
    PROVE  OciInv'
  BY DEF OciInv, OciTyped

LEMMA NetCommandKeeps ==
    ASSUME OciInv, NetCommand
    PROVE  OciInv'
<1>1. /\ Creating /\ phase = "network" /\ phase' = "network" /\ ~net.waiting
      /\ net' = [Noted EXCEPT !.waiting = TRUE]
      /\ ociCloud' = Effect \/ (net.at \in {4, 5} /\ UNCHANGED ociCloud)
      /\ UNCHANGED <<vm, inst, teardowns>> /\ net.at \in 1 .. 5 /\ net.created \in BOOLEAN
      /\ ociCloud \in CloudRecords
  BY NetFields, StepNames DEF NetCommand, Creating, Step
<1>2. /\ net' \in NetRecords /\ net'.at = net.at /\ net'.waiting = TRUE
      /\ net'.created <=> (net.created \/ net.at = 1)
      /\ net'.vcn = (IF net.at = 1 /\ ~net.created THEN net.tries ELSE net.vcn)
      /\ net'.subnet = (IF net.at = 2 THEN net.tries ELSE net.subnet)
      /\ net'.gateway = (IF net.at = 3 THEN net.tries ELSE net.gateway)
  <2> DEFINE o == Noted
  <2>1. /\ o \in NetRecords /\ o.at = net.at
        /\ o.created <=> (net.created \/ net.at = 1)
        /\ o.vcn = (IF net.at = 1 /\ ~net.created THEN net.tries ELSE net.vcn)
        /\ o.subnet = (IF net.at = 2 THEN net.tries ELSE net.subnet)
        /\ o.gateway = (IF net.at = 3 THEN net.tries ELSE net.gateway)
    BY <1>1, NotedIds
  <2>2. net' = [o EXCEPT !.waiting = TRUE]
    BY <1>1
  <2> HIDE DEF o
  <2>3. net' \in NetRecords
    BY <2>1, <2>2 DEF NetRecords
  <2>4. /\ net'.at = o.at /\ net'.waiting = TRUE /\ net'.created = o.created
        /\ net'.vcn = o.vcn /\ net'.subnet = o.subnet /\ net'.gateway = o.gateway
    BY <2>1, <2>2 DEF NetRecords
  <2> QED
    BY <2>1, <2>3, <2>4
<1>3. Built(phase, net, ociCloud)
  BY DEF OciInv
<1>4. ociCloud' \in CloudRecords /\ Built(phase', net', ociCloud')
  BY <1>1, <1>2, <1>3, EffectAdds DEF Built, Done
<1> QED
  BY <1>1, <1>2, <1>4, NetworkOnly

LEMMA NetWaitKeeps == ASSUME OciInv, NetWait PROVE OciInv'
<1>1. /\ phase = "network" /\ net.at \in 1 .. 5 /\ net.waiting
      /\ net' = [net EXCEPT !.waiting = FALSE, !.at = net.at + 1]
      /\ phase' = (IF net.at = 5 THEN "boot" ELSE "network")
      /\ UNCHANGED <<ociCloud, vm, inst, teardowns>>
      /\ net \in NetRecords /\ ociCloud \in CloudRecords
  BY NetFields, StepNames DEF NetWait, Creating
<1>2. /\ net' \in NetRecords /\ net'.at = net.at + 1 /\ net'.waiting = FALSE
      /\ net'.created = net.created /\ net'.vcn = net.vcn /\ net'.subnet = net.subnet
      /\ net'.gateway = net.gateway
  <2>1. PICK a \in 1 .. 6 : a = net.at + 1
    BY <1>1
  <2>2. net' = [net EXCEPT !.waiting = FALSE, !.at = a]
    BY <1>1, <2>1
  <2>3. net' \in NetRecords
    BY <1>1, <2>2 DEF NetRecords
  <2>4. /\ net'.at = a /\ net'.waiting = FALSE /\ net'.created = net.created
        /\ net'.vcn = net.vcn /\ net'.subnet = net.subnet /\ net'.gateway = net.gateway
    BY <1>1, <2>2 DEF NetRecords
  <2> QED
    BY <2>1, <2>3, <2>4
<1>3. Built(phase, net, ociCloud)
  BY DEF OciInv
<1>4. Built(phase', net', ociCloud')
  BY <1>1, <1>2, <1>3 DEF Built, Done
<1>5. CASE net.at = 5
  <2>1. ASSUME NEW v \in VMs PROVE Lifecycle(phase', vm'[v], inst'[v])
    <3>1. vm[v] = NewVm /\ Lifecycle(phase, vm[v], inst[v])
      BY <1>1 DEF OciInv, Lifecycle
    <3>2. /\ NewVm.pc = "launch" /\ NewVm.status = "none" /\ NewVm.created = FALSE
          /\ NewVm.deleted = FALSE /\ NewVm.boots = 1
      BY DEF NewVm
    <3> QED
      BY Bounds, <1>1, <1>5, <3>1, <3>2 DEF Lifecycle
  <2>2. OciTyped'
    BY <1>1, <1>2, <1>5 DEF OciInv, OciTyped
  <2> QED
    BY <1>4, <2>1, <2>2 DEF OciInv
<1>6. CASE net.at # 5
  BY <1>1, <1>2, <1>4, <1>6, NetworkOnly
<1> QED
  BY <1>5, <1>6

LEMMA NetRaisesKeeps ==
    ASSUME OciInv, NetRaises
    PROVE  OciInv'
<1> USE Bounds
<1>1. /\ Creating /\ phase = "network" /\ teardowns = 0 /\ UNCHANGED inst
      /\ net \in NetRecords /\ net.tries \in 1 .. MaxNetTries /\ Built(phase, net, ociCloud)
      /\ ociCloud \in CloudRecords
  BY NetFields DEF NetRaises, Creating, OciInv, OciTyped
<1>2. /\ ociCloud' \in CloudRecords /\ ociCloud.vcns \subseteq ociCloud'.vcns
      /\ ociCloud.subnets \subseteq ociCloud'.subnets
      /\ ociCloud.gateways \subseteq ociCloud'.gateways
      /\ ociCloud.rules \subseteq ociCloud'.rules
  <2>1. UNCHANGED ociCloud \/ ociCloud' = Effect
    BY DEF NetRaises
  <2> QED
    BY <2>1, <1>1, EffectAdds
<1>3. CASE /\ net.tries < MaxNetTries
           /\ net' = [net EXCEPT !.at = 1, !.waiting = FALSE, !.tries = net.tries + 1]
           /\ UNCHANGED <<phase, vm, teardowns>>
  <2>1. /\ net' \in NetRecords /\ net'.at = 1 /\ net'.waiting = FALSE
        /\ net'.created = net.created /\ net'.vcn = net.vcn
    <3>1. PICK t \in 1 .. MaxNetTries : t = net.tries + 1
      BY <1>1, <1>3
    <3>0. PICK a \in 1 .. 6 : a = 1
      OBVIOUS
    <3>2. net' = [net EXCEPT !.at = a, !.waiting = FALSE, !.tries = t]
      BY <1>3, <3>0, <3>1
    <3>3. net' \in NetRecords
      BY <1>1, <3>2 DEF NetRecords
    <3>4. /\ net'.at = a /\ net'.waiting = FALSE /\ net'.created = net.created
          /\ net'.vcn = net.vcn
      BY <1>1, <3>2 DEF NetRecords
    <3> QED
      BY <3>0, <3>3, <3>4
  <2>2. Built(phase', net', ociCloud')
    BY <1>1, <1>2, <1>3, <2>1 DEF Built, Done
  <2> QED
    BY <1>1, <1>2, <1>3, <2>1, <2>2, NetworkOnly
<1>4. CASE TearDown /\ UNCHANGED net
  BY <1>1, <1>2, <1>4, TearDownKeeps
<1> QED
  BY <1>3, <1>4 DEF NetRaises

LEMMA StartTeardownKeeps ==
    ASSUME OciInv, StartTeardown
    PROVE  OciInv'
<1>1. TearDown /\ UNCHANGED <<net, ociCloud, inst>> /\ teardowns = 0
  BY DEF StartTeardown, OciInv, OciTyped
<1>2. net' \in NetRecords /\ ociCloud' \in CloudRecords
  BY <1>1 DEF OciInv, OciTyped
<1> QED
  BY Bounds, <1>1, <1>2, TearDownKeeps

LEMMA SecondTeardownKeeps ==
    ASSUME OciInv, SecondTeardown
    PROVE  OciInv'
<1>1. TearDown /\ UNCHANGED <<net, ociCloud, inst>> /\ teardowns < MaxTeardowns
  BY DEF SecondTeardown
<1>2. net' \in NetRecords /\ ociCloud' \in CloudRecords
  BY <1>1 DEF OciInv, OciTyped
<1> QED
  BY <1>1, <1>2, TearDownKeeps

(* The phases after the deletion of the VMs say nothing of the network. *)
LEMMA LastPhases ==
    ASSUME OciInv, phase \in {"delete", "netdelete"}, phase' \in {"netdelete", "done"},
           net' \in NetRecords, ociCloud' \in CloudRecords, UNCHANGED <<vm, inst, teardowns>>
    PROVE  OciInv'
<1>1. OciTyped'
  BY DEF OciInv, OciTyped
<1>2. Built(phase', net', ociCloud')
  BY DEF Built
<1>3. ASSUME NEW v \in VMs PROVE Lifecycle(phase', vm'[v], inst'[v])
  BY Object DEF Lifecycle
<1> QED
  BY <1>1, <1>2, <1>3 DEF OciInv

LEMMA VmsEndedKeeps == ASSUME OciInv, VmsEnded PROVE OciInv'
<1>1. /\ phase = "delete" /\ phase' = "netdelete" /\ UNCHANGED <<net, ociCloud, vm, inst, teardowns>>
  BY DEF VmsEnded
<1>2. net' \in NetRecords /\ ociCloud' \in CloudRecords
  BY <1>1 DEF OciInv, OciTyped
<1> QED
  BY <1>1, <1>2, LastPhases

LEMMA NetDeleteKeeps == ASSUME OciInv, NetDelete PROVE OciInv'
<1>1. /\ phase = "netdelete" /\ phase' = "done" /\ UNCHANGED <<vm, inst, teardowns>>
      /\ net' = [net EXCEPT !.deleted = TRUE]
      /\ net \in NetRecords /\ ociCloud \in CloudRecords
  BY NetFields DEF NetDelete
<1>2. PICK ok \in SUBSET {"gateway", "subnet", "vcn"} :
        ociCloud' = [ociCloud EXCEPT
                       !.gateways = IF "gateway" \in ok THEN ociCloud.gateways \ {net.gateway}
                                                        ELSE ociCloud.gateways,
                       !.subnets = IF "subnet" \in ok THEN ociCloud.subnets \ {net.subnet}
                                                      ELSE ociCloud.subnets,
                       !.vcns = IF "vcn" \in ok THEN ociCloud.vcns \ {net.vcn}
                                                ELSE ociCloud.vcns]
  BY DEF NetDelete
<1>3. net' \in NetRecords
  BY <1>1 DEF NetRecords
<1>4. ociCloud' \in CloudRecords
  BY <1>1, <1>2 DEF CloudRecords
<1> QED
  BY <1>1, <1>3, <1>4, LastPhases

LEMMA OciNextKeeps ==
    ASSUME OciInv, [OciNext]_ociVars
    PROVE  OciInv'
<1>1. ASSUME NEW v \in VMs,
             VmThread(v) \/ BootRaises(v) \/ DeleteVmRaises(v) \/ OciMoves(v)
      PROVE  OciInv'
  BY <1>1, LaunchKeeps, PollRunningKeeps, GetPublicIPKeeps, ReadRulesKeeps, WriteRulesKeeps,
     BootKeeps, BootRaisesKeeps, TerminateKeeps, PollDeletedKeeps, CheckVmDeletedKeeps,
     DeleteVmRaisesKeeps, OciMovesKeeps
  DEF VmThread
<1>2. CASE UNCHANGED ociVars
  <2>1. UNCHANGED <<phase, net, ociCloud, vm, inst, teardowns>>
    BY <1>2 DEF ociVars
  <2>2. OciTyped' /\ Built(phase', net', ociCloud')
    BY <2>1 DEF OciInv, OciTyped
  <2>3. ASSUME NEW v \in VMs PROVE Lifecycle(phase', vm'[v], inst'[v])
    BY <2>1, Object
  <2> QED
    BY <2>2, <2>3 DEF OciInv
<1> QED
  BY <1>1, <1>2, NetCommandKeeps, NetWaitKeeps, NetRaisesKeeps, StartTeardownKeeps, VmsEndedKeeps,
     NetDeleteKeeps, SecondTeardownKeeps
  DEF OciNext

(* No VM is about to write, waits for its boot or is up while the network   *)
(* is made.                                                                 *)
LEMMA NotYet ==
    ASSUME OciInv, phase = "network", NEW v \in VMs
    PROVE  vm[v].pc \notin {"write", "boot", "up"}
  BY DEF OciInv, Lifecycle, NewVm

(* A thread that leaves the list and its history alone comes to no place    *)
(* that the invariant speaks of, or from the boot to the end of it.         *)
LEMMA ListUntouched ==
    ASSUME ListInv, NEW v \in VMs, vm \in [VMs -> VmRecords],
           \A w \in VMs \ {v} : vm'[w] = vm[w],
           vm'[v].pc \notin {"write", "boot", "up"} \/ (vm[v].pc = "boot" /\ vm'[v].pc = "up"),
           UNCHANGED <<phase, ociCloud, listHistory>>
    PROVE  ListInv'
  BY DEF ListInv, ListHolds, Excused, listHistory

LEMMA ReadListKeeps ==
    ASSUME OciInv, ListInv, NEW v \in VMs, ReadRules(v)
    PROVE  ListInv'
<1>1. /\ vm \in [VMs -> VmRecords] /\ phase = "boot" /\ vm[v].pc = "allow"
      /\ UNCHANGED <<phase, ociCloud, granted, refused>>
  BY DEF ReadRules, At, OciInv, OciTyped
<1>2. /\ \A w \in VMs \ {v} : vm'[w] = vm[w]
      /\ vm'[v].pc = "write" /\ vm'[v].read = ociCloud.rules
  BY <1>1 DEF ReadRules, VmRecords
<1>3. Writers = {w \in VMs : vm[w].pc = "write"}
  BY <1>1 DEF Writers, At
<1>4. /\ overlapped' \in [VMs -> SUBSET VMs] /\ overlapped'[v] = Writers
      /\ \A w \in VMs \ {v} : overlapped'[w] = IF w \in Writers THEN overlapped[w] \cup {v}
                                                              ELSE overlapped[w]
  BY <1>3 DEF ReadRules, ListInv, ListHolds
<1>5. ASSUME NEW u \in VMs \ {v} PROVE Excused(u, refused, overlapped) => Excused(u, refused', overlapped')
  BY <1>1, <1>4 DEF Excused
<1> QED
  BY <1>1, <1>2, <1>3, <1>4, <1>5 DEF ListInv, ListHolds

LEMMA WriteListKeeps ==
    ASSUME OciInv, ListInv, NEW v \in VMs, vm[v].pc = "write", phase = "boot",
           ociCloud' = Updated(v) \/ UNCHANGED ociCloud,
           NEW p \in {"boot", "failed"}, Go(v, p),
           p = "boot" => \/ ociCloud' = Updated(v) /\ refused' = refused \ {v}
                         \/ refused' = refused \cup {v},
           p = "failed" => UNCHANGED refused,
           UNCHANGED <<phase, granted, overlapped>>
    PROVE  ListInv'
<1>1. /\ vm \in [VMs -> VmRecords] /\ \A w \in VMs \ {v} : vm'[w] = vm[w]
      /\ vm'[v].pc = p
  BY DEF Go, OciInv, OciTyped, VmRecords
<1>2. Updated(v).rules = vm[v].read \cup {Port[v]}
  BY UpdateBuilds
<1>3. ASSUME NEW u \in VMs \ {v} PROVE Excused(u, refused, overlapped) => Excused(u, refused', overlapped')
  BY DEF Excused
<1>4. /\ granted \subseteq ociCloud'.rules
      /\ p = "boot" => Port[v] \in ociCloud'.rules \/ Excused(v, refused', overlapped')
  BY <1>2 DEF ListInv, ListHolds, Excused
<1>5. ASSUME NEW u \in VMs \ {v}, vm[u].pc \in {"boot", "up"}
      PROVE  Port[u] \in ociCloud'.rules \/ Excused(u, refused', overlapped')
  <2>1. CASE Excused(u, refused, overlapped)
    BY <1>3, <2>1
  <2>2. CASE ~Excused(u, refused, overlapped)
    <3>1. Port[u] \in ociCloud.rules /\ (Port[u] \in vm[v].read \/ v \in overlapped[u])
      BY <1>5, <2>2 DEF ListInv, ListHolds
    <3>2. v \in overlapped[u] => Port[u] = Port[v]
      BY <2>2 DEF Excused
    <3> QED
      BY <1>2, <3>1, <3>2
  <2> QED
    BY <2>1, <2>2
<1>6. refused' \subseteq VMs
  BY DEF ListInv, ListHolds
<1> QED
  BY <1>1, <1>3, <1>4, <1>5, <1>6 DEF ListInv, ListHolds

(* A teardown finds no VM at a place that the invariant speaks of. *)
LEMMA TearDownList ==
    ASSUME OciInv, ListInv, TearDown, UNCHANGED listHistory, ociCloud.rules \subseteq ociCloud'.rules
    PROVE  ListInv'
<1>1. \A v \in VMs : vm'[v].pc = "delete"
  BY DEF TearDown, OciInv, OciTyped, VmRecords
<1>2. phase' = "delete"
  BY DEF TearDown
<1> QED
  BY <1>1, <1>2 DEF ListInv, ListHolds, listHistory

LEMMA ListKeeps ==
    ASSUME OciInv, ListInv, [OciNext]_ociVars
    PROVE  ListInv'
<1>t. vm \in [VMs -> VmRecords] /\ ociCloud \in CloudRecords
  BY DEF OciInv, OciTyped
<1>1. ASSUME NEW v \in VMs, VmThread(v) PROVE ListInv'
  <2>1. CASE WriteRules(v)
    <3>1. /\ vm[v].pc = "write" /\ phase = "boot" /\ Go(v, "boot")
          /\ UNCHANGED <<phase, granted, overlapped>>
          /\ \/ ociCloud' = Updated(v) /\ refused' = refused \ {v}
             \/ UNCHANGED ociCloud /\ refused' = refused \cup {v}
      BY <2>1 DEF WriteRules, At
    <3> QED
      BY <3>1, WriteListKeeps
  <2>2. CASE Boot(v)
    <3>1. /\ UNCHANGED <<phase, ociCloud, listHistory>> /\ vm[v].pc = "boot"
          /\ \A w \in VMs \ {v} : vm'[w] = vm[w]
          /\ vm'[v].pc \in {"up", "mismatch"}
      BY <2>2, <1>t DEF Boot, Go, At, VmRecords
    <3> QED
      BY <3>1, <1>t, ListUntouched
  <2>3. CASE Launch(v) \/ PollRunning(v) \/ GetPublicIP(v)
    <3>1. /\ UNCHANGED <<phase, ociCloud, listHistory>> /\ \A w \in VMs \ {v} : vm'[w] = vm[w]
          /\ vm'[v].pc \in {"allow", "poll", "address"}
      BY <2>3, <1>t DEF Launch, PollRunning, GetPublicIP, Go, VmRecords
    <3> QED
      BY <3>1, <1>t, ListUntouched
  <2>4. CASE Terminate(v) \/ PollDeleted(v) \/ CheckVmDeleted(v)
    <3>1. /\ UNCHANGED <<phase, ociCloud, listHistory>> /\ \A w \in VMs \ {v} : vm'[w] = vm[w]
          /\ vm'[v].pc \in {"launch", "failed", "ended", "pollDeleted", "check"}
      BY <2>4, <1>t DEF Terminate, PollDeleted, CheckVmDeleted, AfterDelete, Go, VmRecords
    <3> QED
      BY <3>1, <1>t, ListUntouched
  <2> QED
    BY <1>1, <2>1, <2>2, <2>3, <2>4, ReadListKeeps DEF VmThread
<1>2. ASSUME NEW v \in VMs, BootRaises(v) PROVE ListInv'
  <2>1. /\ UNCHANGED <<phase, listHistory>> /\ Go(v, "failed") /\ phase = "boot"
        /\ \/ UNCHANGED ociCloud
           \/ vm[v].pc = "write" /\ ociCloud' = Updated(v)
    BY <1>2 DEF BootRaises
  <2>2. CASE UNCHANGED ociCloud
    <3>1. /\ \A w \in VMs \ {v} : vm'[w] = vm[w]
          /\ vm'[v].pc = "failed"
      BY <2>1, <1>t DEF Go, VmRecords
    <3> QED
      BY <2>1, <2>2, <3>1, <1>t, ListUntouched
  <2>3. CASE vm[v].pc = "write" /\ ociCloud' = Updated(v)
    BY <2>1, <2>3, WriteListKeeps DEF listHistory
  <2> QED
    BY <2>1, <2>2, <2>3
<1>3. ASSUME NEW v \in VMs, DeleteVmRaises(v) PROVE ListInv'
  <2>1. /\ UNCHANGED <<phase, ociCloud, listHistory>> /\ \A w \in VMs \ {v} : vm'[w] = vm[w]
        /\ vm'[v].pc \in {"launch", "failed", "ended"}
    BY <1>3, <1>t DEF DeleteVmRaises, AfterDelete, VmRecords
  <2> QED
    BY <2>1, <1>t, ListUntouched
<1>4. CASE NetCommand \/ NetRaises
  <2>1. /\ Creating /\ phase = "network" /\ UNCHANGED listHistory
        /\ UNCHANGED ociCloud \/ ociCloud' = Effect
        /\ UNCHANGED <<phase, vm>> \/ TearDown
    BY <1>4 DEF NetCommand, NetRaises, Creating
  <2>2. /\ ociCloud.rules \subseteq ociCloud'.rules
        /\ ociCloud'.rules \subseteq ociCloud.rules \cup {"ssh", "icmp"}
    BY <2>1, EffectAdds
  <2>3. CASE UNCHANGED <<phase, vm>>
    BY <2>1, <2>2, <2>3, NotYet DEF ListInv, ListHolds, listHistory
  <2> QED
    BY <2>1, <2>2, <2>3, TearDownList
<1>5. CASE NetWait
  <2>1. /\ phase = "network" /\ UNCHANGED <<ociCloud, vm, refused, overlapped>>
        /\ phase' = "network" \/ phase' = "boot"
        /\ granted' = granted \/ granted' = ociCloud.rules
    BY <1>5 DEF NetWait, Creating
  <2>2. \A v \in VMs : vm[v].pc \notin {"write", "boot", "up"}
    BY <2>1, NotYet
  <2> QED
    BY <2>1, <2>2 DEF ListInv, ListHolds
<1>6. CASE StartTeardown \/ SecondTeardown
  BY <1>6, TearDownList DEF StartTeardown, SecondTeardown
<1>7. CASE NetDelete
  <2>1. UNCHANGED <<vm, listHistory>> /\ ociCloud'.rules = ociCloud.rules /\ phase' = "done"
    BY <1>7, <1>t DEF NetDelete, CloudRecords
  <2> QED
    BY <2>1 DEF ListInv, ListHolds, Excused, listHistory
<1>8. CASE VmsEnded \/ UNCHANGED ociVars \/ \E v \in VMs : OciMoves(v)
  <2>1. UNCHANGED <<vm, ociCloud, listHistory>> /\ (UNCHANGED phase \/ phase' = "netdelete")
    BY <1>8 DEF VmsEnded, ociVars, OciMoves
  <2> QED
    BY <2>1 DEF ListInv, ListHolds, Excused, listHistory
<1> QED
  BY <1>1, <1>2, <1>3, <1>4, <1>5, <1>6, <1>7, <1>8 DEF OciNext

LEMMA OciAlways ==
    OciSpec => [](OciInv /\ ListInv)
<1>1. OciInit => OciInv /\ ListInv
  BY OciInitially
<1>2. OciInv /\ ListInv /\ [OciNext]_ociVars => OciInv' /\ ListInv'
  BY OciNextKeeps, ListKeeps
<1> QED
  BY <1>1, <1>2, PTL DEF OciSpec

(* The values of the OCI provider's model are in range: CreateAndBootOnce   *)
(* boots no more often than it may, and a try of Create has its number.     *)
THEOREM OciTypes ==
    OciSpec => []OciTypeOK
<1>1. OciInv /\ ListInv => OciTypeOK
  BY OciInvMeans
<1> QED
  BY <1>1, OciAlways, PTL

(* The instance of a VM that was created and says deleted is terminated,    *)
(* for any number of VMs, of launches and of teardowns: the status that     *)
(* _Exists asks is the one of the last poll, and never ahead of the cloud.  *)
THEOREM DeletedVmsAreGone ==
    OciSpec => []DeletedMeansGone
<1>1. OciInv /\ ListInv => DeletedMeansGone
  BY OciInvMeans
<1> QED
  BY <1>1, OciAlways, PTL

(* The network is whole when VMs boot in it, however often its Create began *)
(* again, and keeps the rules that Create left; and for any number of VMs   *)
(* and any ports, a VM finds its port open unless its update was refused or *)
(* overlaps with that of a VM for another port.                             *)
THEOREM TheNetworkServes ==
    OciSpec => []NetworkServes
<1>1. OciInv /\ ListInv => NetworkServes
  BY OciInvMeans
<1> QED
  BY <1>1, OciAlways, PTL

=============================================================================
