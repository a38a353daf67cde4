\* A minute may end between the response of the exchange and the reading of
\* the clock.
SPECIFICATION Spec
CONSTANTS
    Horizon = 8
    Now0 = 3
    Gaps0 = {1}
    StaleAfter = 3
    Threshold = 1
    FetchLimit = 3
    PageLimit = 2
    FundingEvery = 3
    Requests <- Backfills
    MaxBackfills = 2
    MaxOutages = 2
INVARIANTS
    OnlyConfirmedRows
CHECK_DEADLOCK FALSE
