\* A "second" of 6 ns and a "microsecond" of 2 ns; the interval of 4 ns makes
\* next carry into the next second on most cycles.
SPECIFICATION FairSpec
CONSTANTS
    NSEC_PER_USEC = 2
    USEC_PER_SEC = 3
    Counts = {0, 2}
    Interval = 2
    Batch = 2
    InitMin = 2
    StartClock = 5
    MaxLate = 5
    MaxCycles = 2
    MaxSignals = 1
INVARIANTS
    TypeOK
    NoUseAfterFree
    NoDrift
    RateBound
    LatencyAccurate
    OneBatchAfterShutdown
PROPERTIES
    ShutdownCompletes
    CountedRunEnds
    ImplementsPacedSender
