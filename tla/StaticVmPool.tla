---------------------------- MODULE StaticVmPool ----------------------------
(***************************************************************************)
(* The pool of static VMs that the benchmarks of one process share, one    *)
(* benchmark after the other: StaticVirtualMachine.vm_pool, the part of    *)
(* ConstructVirtualMachines that takes from it, and the part of            *)
(* BenchmarkSpec.Delete, with a thread for each VM, that gives back.       *)
(*                                                                         *)
(* The objects outlive the benchmark, and so do the created and deleted    *)
(* flags that they have as resources.  VMs that had to be made in the      *)
(* cloud because the pool was empty are not followed further.              *)
(***************************************************************************)
EXTENDS Naturals, Sequences, SequencesExt, FiniteSets

CONSTANTS
    StaticVMs,      \* the VMs of --static_vm_file
    MaxVms,         \* bound: the largest vm_count of a benchmark
    MaxBenchmarks   \* bound: how many benchmarks the process runs

ASSUME StaticVMsAssumption == IsFiniteSet(StaticVMs)
ASSUME MaxVmsAssumption == MaxVms \in Nat
ASSUME MaxBenchmarksAssumption == MaxBenchmarks \in Nat

VARIABLES
    pool,         \* vm_pool
    createdVms, deletedVms, fromPool,   \* the sets of VMs that have the flag
    at,           \* where the benchmark is
    wanted,       \* the VMs still to be constructed
    built,        \* vms of ConstructVirtualMachineGroup
    vms,          \* spec.vms
    specDeleted,  \* spec.deleted
    thread,       \* thread[v]: the DeleteVm thread of v
    lastCall,     \* this is the Delete of the finally clause
    uses,         \* how often each VM was taken
    strays,       \* VMs that an exception, or a skipped teardown, kept out of the pool
    benchmarks

flagsOf == <<createdVms, deletedVms, fromPool>>
benchmark == <<at, wanted, built, vms, specDeleted, thread, lastCall>>
history == <<uses, strays, benchmarks>>
poolVars == <<pool, flagsOf, benchmark, history>>

(* ReadStaticVirtualMachineFile appends the VMs in the order of the file. *)
PoolInit ==
    /\ pool \in SetToSeqs(StaticVMs)
    /\ createdVms = {} /\ deletedVms = {} /\ fromPool = {}
    /\ at = "idle" /\ wanted = 0 /\ built = <<>> /\ vms = <<>>
    /\ specDeleted = FALSE /\ lastCall = FALSE
    /\ thread = [v \in StaticVMs |-> "none"]
    /\ uses = [v \in StaticVMs |-> 0] /\ strays = {} /\ benchmarks = 0

----------------------------------------------------------------------------
(* Construction *)
Start(n) ==
    /\ at = "idle"
    /\ benchmarks < MaxBenchmarks
    /\ benchmarks' = benchmarks + 1
    /\ at' = "construct" /\ wanted' = n /\ built' = <<>> /\ vms' = <<>>
    /\ specDeleted' = FALSE /\ lastCall' = FALSE
    /\ UNCHANGED <<pool, flagsOf, thread, uses, strays>>

(* A wrong version of the next step: the VM is not created. *)
TakeUncreated ==
    /\ at = "construct"
    /\ wanted > 0 /\ pool # <<>>
    /\ pool' = Tail(pool)
    /\ fromPool' = fromPool \cup {Head(pool)}
    /\ built' = Append(built, Head(pool))
    /\ uses' = [uses EXCEPT ![Head(pool)] = @ + 1]
    /\ wanted' = wanted - 1
    /\ UNCHANGED <<createdVms, deletedVms, at, vms, specDeleted, thread, lastCall, strays, benchmarks>>

(* _CreateVirtualMachine finds a static VM: popleft and Create, under the   *)
(* lock.  Its _Create does nothing, and Create nothing more when it is done *)
(* again.                                                                   *)
GetStaticVirtualMachine ==
    /\ at = "construct"
    /\ wanted > 0 /\ pool # <<>>
    /\ pool' = Tail(pool)
    /\ createdVms' = createdVms \cup {Head(pool)}
    /\ fromPool' = fromPool \cup {Head(pool)}
    /\ built' = Append(built, Head(pool))
    /\ uses' = [uses EXCEPT ![Head(pool)] = @ + 1]
    /\ wanted' = wanted - 1
    /\ UNCHANGED <<deletedVms, at, vms, specDeleted, thread, lastCall, strays, benchmarks>>

(* It makes a VM of the cloud, or the cloud has no such class: what the     *)
(* group had been given is in no list of the spec then.                     *)
NoStaticVm ==
    /\ at = "construct"
    /\ wanted > 0 /\ pool = <<>>
    /\ \/ wanted' = wanted - 1 /\ UNCHANGED <<at, built, strays, lastCall>>
       \/ /\ strays' = strays \cup Range(built)
          /\ at' = "delete" /\ lastCall' = TRUE
          /\ built' = <<>> /\ wanted' = 0
    /\ UNCHANGED <<pool, flagsOf, vms, specDeleted, thread, uses, benchmarks>>

ConstructEnds ==
    /\ at = "construct"
    /\ wanted = 0
    /\ vms' = built /\ built' = <<>>
    /\ at' = "use"
    /\ UNCHANGED <<pool, flagsOf, wanted, specDeleted, thread, lastCall, history>>

----------------------------------------------------------------------------
(* The stages are over: the teardown phase begins, an exception goes to the *)
(* finally clause, or there is no teardown in this invocation.              *)
Use ==
    /\ at = "use"
    /\ \/ \E final \in BOOLEAN : at' = "delete" /\ lastCall' = final /\ UNCHANGED strays
       \/ at' = "idle" /\ strays' = strays \cup Range(vms) /\ UNCHANGED lastCall
    /\ UNCHANGED <<pool, flagsOf, wanted, built, vms, specDeleted, thread, uses, benchmarks>>

PutBack(v) == pool' = <<v>> \o pool

(* CreateAndBoot finds the wrong CPU: the VM is deleted, which puts it back *)
(* in the pool, and then an exception ends the benchmark.                   *)
RejectCpu(v) ==
    /\ at = "use"
    /\ v \in Range(vms)
    /\ IF v \in createdVms \ deletedVms /\ v \in fromPool THEN PutBack(v) ELSE UNCHANGED pool
    /\ deletedVms' = deletedVms \cup {v}
    /\ at' = "delete" /\ lastCall' = TRUE
    /\ UNCHANGED <<createdVms, fromPool, wanted, built, vms, specDeleted, thread, history>>

(* spec.Delete: what is done before the VMs may raise; a second call finds  *)
(* the spec deleted, or has it to do again.                                 *)
DeleteRaises ==
    /\ strays' = IF lastCall THEN strays \cup (Range(vms) \ Range(pool)) ELSE strays
    /\ at' = IF lastCall THEN "idle" ELSE "delete"
    /\ lastCall' = TRUE

SpecDelete ==
    /\ at = "delete"
    /\ \/ /\ specDeleted
          /\ at' = "idle"
          /\ UNCHANGED <<thread, strays, lastCall>>
       \/ /\ ~specDeleted
          /\ thread' = [v \in StaticVMs |-> IF v \in Range(vms) THEN "cleanup" ELSE "none"]
          /\ at' = "threads"
          /\ UNCHANGED <<strays, lastCall>>
       \/ ~specDeleted /\ DeleteRaises /\ UNCHANGED thread
    /\ UNCHANGED <<pool, flagsOf, wanted, built, vms, specDeleted, uses, benchmarks>>

(* DeleteVm and Resource.Delete: PackageCleanup, GetResourceMetadata or     *)
(* _PreDelete raises, or they go well.                                      *)
Cleanup(v) ==
    /\ thread[v] = "cleanup"
    /\ \/ thread' = [thread EXCEPT ![v] = "delete"] /\ UNCHANGED strays
       \/ /\ thread' = [thread EXCEPT ![v] = "done"]
          /\ strays' = strays \cup ({v} \ Range(pool))
    /\ UNCHANGED <<pool, flagsOf, at, wanted, built, vms, specDeleted, lastCall, uses,
                   benchmarks>>

(* A wrong version of the next step: the VM goes back every time. *)
DeleteResourceAgain(v) ==
    /\ thread[v] = "delete"
    /\ IF v \in fromPool THEN PutBack(v) ELSE UNCHANGED pool
    /\ thread' = [thread EXCEPT ![v] = "mark"]
    /\ UNCHANGED <<flagsOf, at, wanted, built, vms, specDeleted, lastCall, history>>

(* _DeleteResource, and _Delete if it comes to that. *)
DeleteResource(v) ==
    /\ thread[v] = "delete"
    /\ IF v \in createdVms \ deletedVms /\ v \in fromPool THEN PutBack(v) ELSE UNCHANGED pool
    /\ thread' = [thread EXCEPT ![v] = "mark"]
    /\ UNCHANGED <<flagsOf, at, wanted, built, vms, specDeleted, lastCall, history>>

Mark(v) ==
    /\ thread[v] = "mark"
    /\ deletedVms' = deletedVms \cup {v}
    /\ thread' = [thread EXCEPT ![v] = "done"]
    /\ UNCHANGED <<pool, createdVms, fromPool, at, wanted, built, vms, specDeleted, lastCall,
                   history>>

(* RunThreaded returns or raises, which is passed over; what comes after    *)
(* the VMs may raise.                                                       *)
DeleteEnds ==
    /\ at = "threads"
    /\ \A v \in StaticVMs : thread[v] \in {"none", "done"}
    /\ thread' = [v \in StaticVMs |-> "none"]
    /\ \/ /\ specDeleted' = TRUE
          /\ at' = IF lastCall THEN "idle" ELSE "delete"
          /\ lastCall' = TRUE
          /\ UNCHANGED strays
       \/ DeleteRaises /\ UNCHANGED specDeleted
    /\ UNCHANGED <<pool, flagsOf, wanted, built, vms, uses, benchmarks>>

----------------------------------------------------------------------------
PoolNext ==
    \/ \E n \in 0 .. MaxVms : Start(n)
    \/ GetStaticVirtualMachine \/ NoStaticVm \/ ConstructEnds \/ Use
    \/ SpecDelete \/ DeleteEnds
    \/ \E v \in StaticVMs : RejectCpu(v) \/ Cleanup(v) \/ DeleteResource(v) \/ Mark(v)

PoolSpec == PoolInit /\ [][PoolNext]_poolVars

----------------------------------------------------------------------------
(* The values are in range: threads exist while RunThreaded does, and no VM *)
(* was taken more often than there were benchmarks.                         *)
PoolTypeOK ==
    /\ pool \in Seq(StaticVMs) /\ built \in Seq(StaticVMs) /\ vms \in Seq(StaticVMs)
    /\ createdVms \subseteq StaticVMs /\ deletedVms \subseteq StaticVMs /\ fromPool \subseteq StaticVMs
    /\ at \in {"idle", "construct", "use", "delete", "threads"}
    /\ wanted \in 0 .. MaxVms
    /\ specDeleted \in BOOLEAN /\ lastCall \in BOOLEAN
    /\ thread \in [StaticVMs -> {"none", "cleanup", "delete", "mark", "done"}]
    /\ at # "threads" => \A v \in StaticVMs : thread[v] = "none"
    /\ benchmarks \in 0 .. MaxBenchmarks /\ strays \subseteq StaticVMs
    /\ uses \in [StaticVMs -> 0 .. benchmarks]

(* No VM is given to one benchmark twice: it is in the pool at most once,   *)
(* however often spec.Delete is called for it, and not in the pool while a  *)
(* spec that has it is being constructed.                                   *)
NoVmTwice ==
    /\ IsInjective(pool) /\ IsInjective(built) /\ IsInjective(vms)
    /\ Range(pool) \cap Range(built) = {}

(* A VM that is in nobody's hands was kept by a failure, or by a teardown   *)
(* that was not made, or has been given out before: its deleted flag is     *)
(* never reset, so the second benchmark that has it does not return it.     *)
Accounted ==
    \A v \in StaticVMs :
        \/ v \in Range(pool)
        \/ v \in strays
        \/ uses[v] >= 2
        \/ at # "idle" /\ v \in Range(built) \cup Range(vms)
=============================================================================
