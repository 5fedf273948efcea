SPECIFICATION Spec
CONSTANTS
    NTasks = 2
    MaxConcurrency = 2
    MaxInterrupts = 1
    Habits = {"exit", "swallow"}
INVARIANTS
    AnswerIsTrue
PROPERTIES
    WaitsForEverOnlyBy
\* A target that exits, or swallows the interrupt, leaves the parent waiting.
CHECK_DEADLOCK FALSE
