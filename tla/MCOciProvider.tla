---------------------------- MODULE MCOciProvider ---------------------------
(* Two VMs that open different ports, as a Linux and a Windows VM do. *)
EXTENDS OciProvider
CONSTANTS vm1, vm2

MCVMs == {vm1, vm2}
MCPort == [v \in MCVMs |-> IF v = vm1 THEN "22" ELSE "3389"]
=============================================================================
