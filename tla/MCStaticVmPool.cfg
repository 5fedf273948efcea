SPECIFICATION PoolSpec
CONSTANTS
    StaticVMs = {s1, s2, s3}
    MaxVms = 3
    MaxBenchmarks = 3
INVARIANTS
    NoVmTwice
    Accounted
\* The process ends after its benchmarks.
CHECK_DEADLOCK FALSE
