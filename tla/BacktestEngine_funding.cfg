\* Candles of two funding intervals: boundaries inside a candle, and boundaries
\* that close one candle and open the next; rates that exhaust the margin.
SPECIFICATION Spec
CONSTANTS
    None = None
    RateScale = 8
    InitialCash = 20
    Leverage = 2
    Maintenance = 1
    MaxQty = 1
    Fee = 1
    Slip = 1
    GapFactor = 2
    Span = 4
    FundingEvery = 2
    MaxBars = 3
    MaxGap = 0
    Shapes <- FundingShapes
    Protections <- FundingProtections
    Rates <- FundingRates
INVARIANTS
    FundingAuditClean
    SurvivorsStayInside
    ReferencesResolve
    CashIsNetOfTrades
\* A run that has ended takes no further step.
CHECK_DEADLOCK FALSE
