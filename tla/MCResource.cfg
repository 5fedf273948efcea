SPECIFICATION Spec
CONSTANTS
    MaxTries = 2
    MaxRuns = 2
INVARIANTS
    ReliableDelete
    DependenciesOutlive
    CreateProvides
PROPERTIES
    CallsReturn
\* The caller is finished with the object after its last Delete.
CHECK_DEADLOCK FALSE
