SPECIFICATION Spec
CONSTANTS
    None = None
    RateScale = 8
    InitialCash = 20
    Leverage = 2
    Maintenance = 0
    MaxQty = 1
    Fee = 1
    Slip = 1
    GapFactor = 2
    Span = 2
    FundingEvery = 2
    MaxBars = 3
    MaxGap = 0
    Shapes <- TapeShapes
    Protections <- ZeroRiskProtections
    Rates <- NoFunding
INVARIANTS
    ZeroRiskTradeRecorded
\* A run that has ended takes no further step.
CHECK_DEADLOCK FALSE
