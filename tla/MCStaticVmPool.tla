--------------------------- MODULE MCStaticVmPool ---------------------------
(* Three static VMs and three benchmarks: enough to use a VM a second time    *)
(* and to find the pool empty after that.                                   *)
EXTENDS StaticVmPool
=============================================================================
