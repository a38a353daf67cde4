\* Tapes with missing candles, and candles that touch every level at once; an
\* account that one bad exit exhausts.
SPECIFICATION Spec
CONSTANTS
    None = None
    RateScale = 8
    InitialCash = 8
    Leverage = 2
    Maintenance = 0
    MaxQty = 2
    Fee = 1
    Slip = 1
    GapFactor = 2
    Span = 2
    FundingEvery = 2
    MaxBars = 4
    MaxGap = 2
    Shapes <- TapeShapes
    Protections <- TapeProtections
    Rates <- NoFunding
INVARIANTS
    EngineInv
    TimingAuditClean
    EvidenceComplete
    NoInconsistency
PROPERTIES
    NoExposureAcrossGap
    OnlyAJumpTakesMoreThanTheMargin
\* A run that has ended takes no further step.
CHECK_DEADLOCK FALSE
