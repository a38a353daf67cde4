\* A leveraged position is worth less than nothing when its exit arrives.
SPECIFICATION FairSpec
CONSTANTS
    None = None
    Procs = {p1}
    SignalIds = {1, 2, 3}
    SignalKinds <- Leveraged
    Symbols = {"BTC"}
    InitialCash = 5
    FeeRate = 1
    FeeUnit = 4
    Leverage = 2
    MaxQty = 2
    BatchSize = 2
    Switches = {p1}
    MaxRestarts = 0
    MaxFaults = 0
PROPERTIES
    ReadySignalsAreReceipted
