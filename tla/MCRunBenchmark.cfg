SPECIFICATION Spec
CONSTANTS
    StageLists <- MCStageLists
    MaxInvocations = 3
    MaxCrashes = 1
INVARIANTS
    NothingForgotten
    TeardownRuns
    SuccessIsEarned
PROPERTIES
    PickleDropsOnlyTheGone
\* Nobody starts PKB again.
CHECK_DEADLOCK FALSE
