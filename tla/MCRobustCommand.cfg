SPECIFICATION Spec
CONSTANTS
    SshRetries = 2
    MaxDrops = 2
    MaxCrashes = 1
    MaxLockErrors = 1
INVARIANTS
    AnswersAreTrue
    NoOverlap
PROPERTIES
    Answered
\* The call returns.
CHECK_DEADLOCK FALSE
