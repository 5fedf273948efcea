SPECIFICATION Spec
CONSTANTS
    MaxTries = 3
    Killed = 9
INVARIANTS
    OneProcessAtATime
    OkIsEarned
PROPERTIES
    TimedCallsEnd
\* The call returns.
CHECK_DEADLOCK FALSE
