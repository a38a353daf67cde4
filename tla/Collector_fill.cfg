\* Live polls, backfills, crashes and failed statements over one table.
SPECIFICATION Spec
CONSTANTS
    Horizon = 8
    Now0 = 3
    Gaps0 = {1}
    StaleAfter = 3
    Threshold = 1
    FetchLimit = 3
    PageLimit = 2
    FundingEvery = 3
    Requests <- Backfills
    MaxBackfills = 2
    MaxOutages = 2
INVARIANTS
    TypeOK
    BackfillLeavesNothing
    HolesAreReported
PROPERTIES
    ImplementsStore
CHECK_DEADLOCK FALSE
