\* One process that never restarts works through four signals.
SPECIFICATION Spec
CONSTANTS
    None = None
    Procs = {p1}
    SignalIds = {1, 2, 3, 4}
    SignalKinds <- Chain
    Symbols = {"BTC", "ETH"}
    InitialCash = 12
    FeeRate = 1
    FeeUnit = 4
    Leverage = 1
    MaxQty = 2
    BatchSize = 2
    Switches = {}
    MaxRestarts = 0
    MaxFaults = 1
INVARIANTS
    LedgerConserved
    PositionsTableIsCurrent
