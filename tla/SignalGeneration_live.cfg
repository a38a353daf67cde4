\* One service through gaps, late minutes, failed reads and stores, and a crash.
SPECIFICATION FairSpec
CONSTANTS
    Horizon = 8
    Now0 = 4
    Gaps0 = {}
    StaleAfter = 3
    Threshold = 2
    Span = 2
    SeriesSpan = 4
    Warmup = 1
    SeriesWarmup = 1
    PairWarmup = 1
    MaxFaults = 1
    MaxStarts = 2
INVARIANTS
    SessionInv
    GapsAreReported
    OtherSeriesInStep
    SignalsRestOnWholeCandles
PROPERTIES
    LostSessionsShow
    SessionCatchesUp
CHECK_DEADLOCK FALSE
