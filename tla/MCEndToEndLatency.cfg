SPECIFICATION Spec
CONSTANTS
    NumberOfMessages = 3
    MaxDeaths = 1
INVARIANTS
    RoundsStartClean
    ReportsMatch
    AbortHasCause
PROPERTIES
    RunEnds
\* The run ends.
CHECK_DEADLOCK FALSE
