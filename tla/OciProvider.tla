----------------------------- MODULE OciProvider ----------------------------
(***************************************************************************)
(* The OCI provider under BenchmarkSpec.Provision and Delete: a network    *)
(* with its VCN, subnet, internet gateway and security list, and VMs that  *)
(* are created and booted by one thread each, torn down together, and once *)
(* more by a second run that has their pickle.                             *)
(*                                                                         *)
(* The provider keeps the lifecycle state of its last poll; the cloud      *)
(* moves on without it.  Commands that create or delete are sent with      *)
(* raise_on_failure False and read back by polling: a refused creation is  *)
(* an exception, a refused deletion goes unnoticed.  So does a refused     *)
(* update of the security list: its answer is dropped.  The route table,   *)
(* which one command of Create sets and nobody reads, and an existing VCN  *)
(* (use_vcn False) are not modelled.                                       *)
(***************************************************************************)
EXTENDS Naturals, FiniteSets, Sequences

CONSTANTS
    VMs,
    Port,          \* the port each VM opens for itself
    MaxNetTries,   \* bound: tries of OciNetwork.Create before its deadline
    MaxBoots,      \* 1 + required_cpu_version_retries
    MaxTeardowns   \* bound: calls of BenchmarkSpec.Delete

ASSUME VMsAssumption == IsFiniteSet(VMs)
ASSUME PortAssumption == DOMAIN Port = VMs
ASSUME BoundsAssumption == {MaxNetTries, MaxBoots, MaxTeardowns} \subseteq Nat \ {0}

VARIABLES
    phase,         \* of the benchmark: network, boot, delete, netdelete, done
    net,           \* OciNetwork and its OciVcn, and the step its Create is at
    ociCloud,      \* external: the live VCNs, subnets and gateways, the rules
    vm,            \* the OciVirtualMachine objects and where their threads are
    inst,          \* external: the state of each instance
    teardowns,     \* calls of BenchmarkSpec.Delete
    granted,       \* history: the security list as Create has left it
    refused,       \* history: the VMs whose last update of it was refused
    overlapped     \* history: per VM, whose read or write of the list came
                   \* between its own last read and write, or the reverse

listHistory == <<granted, refused, overlapped>>
ociVars == <<phase, net, ociCloud, vm, inst, teardowns, listHistory>>

(* The commands of OciNetwork.Create that change the cloud. *)
CreateSteps == <<"vcn", "subnet", "gateway", "ssh", "icmp">>

NewVm == [pc |-> "launch", status |-> "none", created |-> FALSE, deleted |-> FALSE,
          boots |-> 1, read |-> {}]

OciInit ==
    /\ phase = "network"
    /\ net = [at |-> 1, waiting |-> FALSE, tries |-> 1, created |-> FALSE,
              deleted |-> FALSE, vcn |-> 0, subnet |-> 0, gateway |-> 0]
    /\ ociCloud = [vcns |-> {}, subnets |-> {}, gateways |-> {}, rules |-> {}]
    /\ vm = [v \in VMs |-> NewVm]
    /\ inst = [v \in VMs |-> "none"]
    /\ teardowns = 0
    /\ granted = {} /\ refused = {}
    /\ overlapped = [v \in VMs |-> {}]

----------------------------------------------------------------------------
(* BenchmarkSpec.Delete is called. *)
TearDown ==
    /\ phase' = "delete" /\ teardowns' = teardowns + 1
    /\ vm' = [v \in VMs |-> [vm[v] EXCEPT !.pc = "delete"]]

(* OciNetwork.Create, under Retry. *)

Step == CreateSteps[net.at]
Creating == phase = "network" /\ net.at <= Len(CreateSteps)

(* The resource flag keeps the VCN from being created twice; nothing keeps  *)
(* the subnet or the gateway from it.  A try has its own number for an id.  *)
Effect ==
    CASE Step = "vcn" -> IF net.created THEN ociCloud
                                        ELSE [ociCloud EXCEPT !.vcns = @ \cup {net.tries}]
      [] Step = "subnet" -> [ociCloud EXCEPT !.subnets = @ \cup {net.tries}]
      [] Step = "gateway" -> [ociCloud EXCEPT !.gateways = @ \cup {net.tries}]
      [] OTHER -> [ociCloud EXCEPT !.rules = @ \cup {Step}]

(* What is read back of the answer. *)
Noted ==
    CASE Step = "vcn" -> IF net.created THEN net
                                        ELSE [net EXCEPT !.created = TRUE, !.vcn = net.tries]
      [] Step = "subnet" -> [net EXCEPT !.subnet = net.tries]
      [] Step = "gateway" -> [net EXCEPT !.gateway = net.tries]
      [] OTHER -> net

(* The answer to an update of the security list is dropped, so that Create  *)
(* goes on when it was refused; a refused creation raises.                  *)
NetCommand ==
    /\ Creating /\ ~net.waiting
    /\ \/ ociCloud' = Effect
       \/ Step \in {"ssh", "icmp"} /\ UNCHANGED ociCloud
    /\ net' = [Noted EXCEPT !.waiting = TRUE]
    /\ UNCHANGED <<phase, vm, inst, teardowns, listHistory>>

(* The wait that follows each command; after the last one Create returns. *)
NetWait ==
    /\ Creating /\ net.waiting
    /\ net' = [net EXCEPT !.waiting = FALSE, !.at = @ + 1]
    /\ IF net.at = Len(CreateSteps)
       THEN phase' = "boot" /\ granted' = ociCloud.rules
       ELSE UNCHANGED <<phase, granted>>
    /\ UNCHANGED <<ociCloud, vm, inst, teardowns, refused, overlapped>>

(* A refused command, one whose answer is lost, or a wait that gives up     *)
(* (those for the gateway, the route table and the security list look once):*)
(* Create starts over, or its deadline has passed and Provision fails.      *)
NetRaises ==
    /\ Creating
    /\ \/ /\ net.tries < MaxNetTries
          /\ net' = [net EXCEPT !.at = 1, !.waiting = FALSE, !.tries = @ + 1]
          /\ UNCHANGED <<phase, vm, teardowns>>
       \/ TearDown /\ UNCHANGED net
    /\ UNCHANGED ociCloud \/ (~net.waiting /\ ociCloud' = Effect)
    /\ UNCHANGED <<inst, listHistory>>

----------------------------------------------------------------------------
(* CreateAndBoot, in a thread for each VM. *)

At(v, where) == phase = "boot" /\ vm[v].pc = where
Go(v, where) == vm' = [vm EXCEPT ![v].pc = where]

(* _CreateResource does nothing for an object that says it is created. *)
Launch(v) ==
    /\ At(v, "launch")
    /\ IF vm[v].created
       THEN Go(v, "allow") /\ UNCHANGED inst
       ELSE Go(v, "poll") /\ inst' = [inst EXCEPT ![v] = "PROVISIONING"]
    /\ UNCHANGED <<phase, net, ociCloud, teardowns, listHistory>>

(* _WaitForInstanceStatus(["RUNNING"]), one poll; then the addresses, and    *)
(* _Exists asks the status just read.                                        *)
PollRunning(v) ==
    /\ At(v, "poll")
    /\ vm' = [vm EXCEPT ![v].status = inst[v],
                        ![v].pc = IF inst[v] = "RUNNING" THEN "address" ELSE "poll"]
    /\ UNCHANGED <<phase, net, ociCloud, inst, teardowns, listHistory>>

GetPublicIP(v) ==
    /\ At(v, "address")
    /\ vm' = [vm EXCEPT ![v].created = TRUE, ![v].pc = "allow"]
    /\ UNCHANGED <<phase, net, ociCloud, inst, teardowns, listHistory>>

(* AllowRemoteAccessPorts: AddSecurityListIngressRule reads the list that    *)
(* all VMs share, and then writes all of it.                                 *)
Writers == {w \in VMs : At(w, "write")}

ReadRules(v) ==
    /\ At(v, "allow")
    /\ vm' = [vm EXCEPT ![v].read = ociCloud.rules, ![v].pc = "write"]
    /\ overlapped' = [w \in VMs |-> IF w = v THEN Writers
                                    ELSE IF w \in Writers THEN overlapped[w] \cup {v}
                                    ELSE overlapped[w]]
    /\ UNCHANGED <<phase, net, ociCloud, inst, teardowns, granted, refused>>

(* A wrong version of the next one: the list is replaced by the new rule.    *)
OwnRule(v) == [ociCloud EXCEPT !.rules = {Port[v]}]

Updated(v) == [ociCloud EXCEPT !.rules = vm[v].read \cup {Port[v]}]

(* The update is taken, or refused without anybody knowing. *)
WriteRules(v) ==
    /\ At(v, "write")
    /\ \/ ociCloud' = Updated(v) /\ refused' = refused \ {v}
       \/ UNCHANGED ociCloud /\ refused' = refused \cup {v}
    /\ Go(v, "boot")
    /\ UNCHANGED <<phase, net, inst, teardowns, granted, overlapped>>

(* WaitForBootCompletion needs a machine that answers; then the CPU version  *)
(* is right, or the VM is deleted to be created anew.                        *)
Boot(v) ==
    /\ At(v, "boot")
    /\ inst[v] = "RUNNING"
    /\ Go(v, "up") \/ Go(v, "mismatch")
    /\ UNCHANGED <<phase, net, ociCloud, inst, teardowns, listHistory>>

(* Whatever a thread calls may raise; the launch and the update with or      *)
(* without their effect.                                                     *)
BootRaises(v) ==
    /\ phase = "boot"
    /\ vm[v].pc \in {"launch", "poll", "address", "allow", "write", "boot"}
    /\ Go(v, "failed")
    /\ \/ UNCHANGED <<inst, ociCloud>>
       \/ /\ vm[v].pc = "launch" /\ ~vm[v].created
          /\ inst' = [inst EXCEPT ![v] = "PROVISIONING"]
          /\ UNCHANGED ociCloud
       \/ vm[v].pc = "write" /\ ociCloud' = Updated(v) /\ UNCHANGED inst
    /\ UNCHANGED <<phase, net, teardowns, listHistory>>

----------------------------------------------------------------------------
(* OciVirtualMachine.Delete, from the mismatch of CreateAndBootOnce or from  *)
(* the thread that DeleteVm has for the VM in the teardown.                  *)

Deleting(v) == \/ phase = "boot" /\ vm[v].pc \in {"mismatch", "pollDeleted", "check"}
               \/ phase = "delete" /\ vm[v].pc \in {"delete", "pollDeleted", "check"}

(* Delete is over: CreateAndBootOnce tries again while it may, and the last  *)
(* time and in the teardown that is the end.                                 *)
AfterDelete(v, mark) ==
    vm' = [vm EXCEPT ![v].deleted = mark,
                     ![v].boots = IF phase = "boot" /\ mark THEN @ + 1 ELSE @,
                     ![v].pc = IF phase = "boot"
                               THEN IF mark /\ vm[v].boots < MaxBoots THEN "launch"
                                                                      ELSE "failed"
                               ELSE "ended"]

(* _DeleteResource skips what was not created or is deleted; _Delete         *)
(* terminates only what the last poll saw running.                           *)
Terminate(v) ==
    /\ Deleting(v) /\ vm[v].pc \in {"mismatch", "delete"}
    /\ IF vm[v].deleted \/ ~vm[v].created
       THEN AfterDelete(v, TRUE) /\ UNCHANGED inst
       ELSE IF vm[v].status = "RUNNING"
       THEN /\ inst' = [inst EXCEPT ![v] = IF @ = "TERMINATED" THEN @ ELSE "TERMINATING"]
            /\ Go(v, "pollDeleted")
       ELSE Go(v, "check") /\ UNCHANGED inst
    /\ UNCHANGED <<phase, net, ociCloud, teardowns, listHistory>>

(* A wrong version of the next one: the status is taken for granted. *)
PollDeletedOnce(v) ==
    /\ Deleting(v) /\ vm[v].pc = "pollDeleted"
    /\ vm' = [vm EXCEPT ![v].status = "TERMINATED", ![v].pc = "check"]
    /\ UNCHANGED <<phase, net, ociCloud, inst, teardowns, listHistory>>

(* _WaitForInstanceStatus(["TERMINATED"]), one poll. *)
PollDeleted(v) ==
    /\ Deleting(v) /\ vm[v].pc = "pollDeleted"
    /\ vm' = [vm EXCEPT ![v].status = inst[v],
                        ![v].pc = IF inst[v] = "TERMINATED" THEN "check" ELSE "pollDeleted"]
    /\ UNCHANGED <<phase, net, ociCloud, inst, teardowns, listHistory>>

(* _Exists, from the cached status. *)
Exists(v) == vm[v].status \notin {"none", "TERMINATED"}

CheckVmDeleted(v) ==
    /\ Deleting(v) /\ vm[v].pc = "check"
    /\ ~Exists(v)
    /\ AfterDelete(v, TRUE)
    /\ UNCHANGED <<phase, net, ociCloud, inst, teardowns, listHistory>>

(* The command or the wait gives up, or _DeleteResource has called _Delete    *)
(* and _Exists for an hour: the exception is logged and passed over.          *)
DeleteVmRaises(v) ==
    /\ Deleting(v)
    /\ vm[v].pc = "check" => Exists(v)
    /\ AfterDelete(v, vm[v].deleted)
    /\ UNCHANGED <<phase, net, ociCloud, inst, teardowns, listHistory>>

----------------------------------------------------------------------------
(* BenchmarkSpec.Delete: the VMs, then the network. *)

StartTeardown ==
    /\ phase = "boot"
    /\ \A v \in VMs : vm[v].pc \in {"up", "failed"}
    /\ TearDown
    /\ UNCHANGED <<net, ociCloud, inst, listHistory>>

VmsEnded ==
    /\ phase = "delete"
    /\ \A v \in VMs : vm[v].pc = "ended"
    /\ phase' = "netdelete"
    /\ UNCHANGED <<net, ociCloud, vm, inst, teardowns, listHistory>>

(* What the cloud may do: it refuses to delete what is in use, and it may    *)
(* refuse anyway (external).                                                 *)
Living == \E v \in VMs : inst[v] \notin {"none", "TERMINATED"}

(* OciNetwork.Delete: the gateway, the subnet and the VCN, none of them      *)
(* waited for, and the VCN's flag says deleted whatever the answer was.      *)
NetDelete ==
    /\ phase = "netdelete"
    /\ \E ok \in SUBSET {"gateway", "subnet", "vcn"} :
          LET gateways == IF "gateway" \in ok THEN ociCloud.gateways \ {net.gateway}
                                              ELSE ociCloud.gateways
              subnets == IF "subnet" \in ok THEN ociCloud.subnets \ {net.subnet}
                                            ELSE ociCloud.subnets
          IN  /\ Living => "subnet" \notin ok
              /\ "vcn" \in ok => /\ gateways = {} /\ subnets = {}
                                 /\ net.created /\ ~net.deleted
                                 /\ net.vcn \in ociCloud.vcns
              /\ ociCloud' = [ociCloud EXCEPT !.gateways = gateways, !.subnets = subnets,
                                            !.vcns = IF "vcn" \in ok THEN @ \ {net.vcn} ELSE @]
    /\ net' = [net EXCEPT !.deleted = TRUE]
    /\ phase' = "done"
    /\ UNCHANGED <<vm, inst, teardowns, listHistory>>

(* A second run with the pickle of the first. *)
SecondTeardown ==
    /\ phase = "done" /\ teardowns < MaxTeardowns
    /\ TearDown
    /\ UNCHANGED <<net, ociCloud, inst, listHistory>>

(* The cloud gets on with it (external). *)
OciMoves(v) ==
    /\ \/ inst[v] = "PROVISIONING" /\ inst' = [inst EXCEPT ![v] = "RUNNING"]
       \/ inst[v] = "TERMINATING" /\ inst' = [inst EXCEPT ![v] = "TERMINATED"]
    /\ UNCHANGED <<phase, net, ociCloud, vm, teardowns, listHistory>>

VmThread(v) ==
    \/ Launch(v) \/ PollRunning(v) \/ GetPublicIP(v)
    \/ ReadRules(v) \/ WriteRules(v) \/ Boot(v)
    \/ Terminate(v) \/ PollDeleted(v) \/ CheckVmDeleted(v)

OciNext ==
    \/ NetCommand \/ NetWait \/ NetRaises
    \/ \E v \in VMs : VmThread(v) \/ BootRaises(v) \/ DeleteVmRaises(v) \/ OciMoves(v)
    \/ StartTeardown \/ VmsEnded \/ NetDelete \/ SecondTeardown

OciSpec == OciInit /\ [][OciNext]_ociVars

----------------------------------------------------------------------------
OciTypeOK ==
    /\ phase \in {"network", "boot", "delete", "netdelete", "done"}
    /\ net \in [at : 1..(Len(CreateSteps) + 1), waiting : BOOLEAN, tries : 1..MaxNetTries,
                created : BOOLEAN, deleted : BOOLEAN,
                vcn : 0..MaxNetTries, subnet : 0..MaxNetTries, gateway : 0..MaxNetTries]
    /\ ociCloud \in [vcns : SUBSET (1..MaxNetTries), subnets : SUBSET (1..MaxNetTries),
                     gateways : SUBSET (1..MaxNetTries),
                     rules : SUBSET ({"ssh", "icmp"} \cup {Port[v] : v \in VMs})]
    /\ vm \in [VMs -> [pc : {"launch", "poll", "address", "allow", "write", "boot", "up",
                             "failed", "mismatch", "delete", "pollDeleted", "check", "ended"},
                       status : {"none", "PROVISIONING", "RUNNING", "TERMINATING", "TERMINATED"},
                       created : BOOLEAN, deleted : BOOLEAN, boots : 1..(MaxBoots + 1),
                       read : SUBSET ({"ssh", "icmp"} \cup {Port[v] : v \in VMs})]]
    /\ inst \in [VMs -> {"none", "PROVISIONING", "RUNNING", "TERMINATING", "TERMINATED"}]
    /\ teardowns \in 0..MaxTeardowns
    /\ granted \subseteq {"ssh", "icmp"} /\ refused \subseteq VMs
    /\ overlapped \in [VMs -> SUBSET VMs]

(* Once the object of a VM that was created says deleted, its instance is    *)
(* gone: the cached status lags behind the cloud but never runs ahead of it, *)
(* so a delete that was cut short and tried again does not pass too soon.    *)
DeletedMeansGone ==
    \A v \in VMs : vm[v].created /\ vm[v].deleted => inst[v] = "TERMINATED"

(* The rule of v was overwritten: another VM read or wrote the list while v  *)
(* was between its read and its write, and opens another port.               *)
MayBeLost(v) == \E w \in overlapped[v] : Port[w] # Port[v]

(* The network serves the VMs that boot in it.  It is whole before one is    *)
(* started: however often its Create began again, the ids it ended with are  *)
(* those of a live subnet and gateway and of its VCN.  The rules that Create *)
(* left survive whatever the VMs' threads read and write of the shared       *)
(* security list at the same time.  And a VM that waits for its boot finds   *)
(* its port open, unless the cloud refused its update or it ran into another *)
(* VM's update for another port: those are the only ways to lose a rule, and *)
(* VMs that open the same port never lose it to each other.                  *)
NetworkServes ==
    /\ phase = "boot" => /\ net.vcn \in ociCloud.vcns
                         /\ net.subnet \in ociCloud.subnets
                         /\ net.gateway \in ociCloud.gateways
                         /\ granted \subseteq ociCloud.rules
    /\ \A v \in VMs : vm[v].pc \in {"boot", "up"}
          => Port[v] \in ociCloud.rules \/ v \in refused \/ MayBeLost(v)
=============================================================================
