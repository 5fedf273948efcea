SPECIFICATION OciSpec
CONSTANTS
    vm1 = vm1
    vm2 = vm2
    VMs <- MCVMs
    Port <- MCPort
    MaxNetTries = 2
    MaxBoots = 2
    MaxTeardowns = 2
INVARIANTS
    DeletedMeansGone
    NetworkServes
\* Nothing is left to do after the last teardown.
CHECK_DEADLOCK FALSE
