SPECIFICATION Spec
CONSTANTS
    NTasks = 3
    MaxConcurrency = 2
    MaxInterrupts = 2
    Habits = {}
INVARIANTS
    AssertionsHold
    SpinnerIsInterrupted
PROPERTIES
    ImplementsParallelCall
    Terminates
\* Once the parent has its answer nothing more happens.
CHECK_DEADLOCK FALSE
