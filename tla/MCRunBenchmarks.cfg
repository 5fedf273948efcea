SPECIFICATION LoopSpec
CONSTANTS
    a1 = a1
    a2 = a2
    b1 = b1
    b2 = b2
    Any = Any
    Zones <- MCZones
    RegionOf <- MCRegionOf
    Supported <- MCSupported
    Settings <- MCSettings
    N = 2
    Workers = {w1, w2}
INVARIANTS
    LateStartsBounded
    ResultsAreTrue
    AlternativesFirst
PROPERTIES
    Terminates
\* RunBenchmarks returns.
CHECK_DEADLOCK FALSE
