SPECIFICATION Spec
CONSTANTS
    VMs = {v1, v2}
    Publishers = 2
    MaxRuns = 3
    Settings <- MCSettings
INVARIANTS
    InterruptionFailsRun
    NoThreadOutlives
    SamplesDelivered
    RetryBudget
PROPERTIES
    Ends
\* RunBenchmark returns.
CHECK_DEADLOCK FALSE
