\* Two processes of one wallet race for the same signals, crash and lose
\* acknowledgements; signals become visible and ready late, one row per page.
SPECIFICATION FairSpec
CONSTANTS
    None = None
    Procs = {p1, p2}
    SignalIds = {1, 2}
    SignalKinds <- OneSymbol
    Symbols = {"BTC"}
    InitialCash = 10
    FeeRate = 1
    FeeUnit = 4
    Leverage = 1
    MaxQty = 2
    BatchSize = 1
    Switches = {p1}
    MaxRestarts = 1
    MaxFaults = 1
INVARIANTS
    LedgerInv
    RowsMultiplyOnlyInRaces
    ExitFeeReserved
PROPERTIES
    ImplementsLedger
    ReadySignalsAreReceipted
