\* Every registered indicator and window pattern, the rolling primitives, the hikkakes.
CONSTANTS
  Specs <- Registry
  Surplus = 2
  Updates = 2
  Seedings = 2
  Values = {1, 2, 3}
  NaN = NaN
  Period = 3
  Longest = 7
  CandleShapes <- Shapes
  None = None
  NearPeriod = 1
  LongestTape = 8
SPECIFICATION LibrarySpec
INVARIANTS
  RunningValuesAgree
  IncrementalMatchesBatch
  ReadyAtMinHistory
  NothingOutsideTheWindow
  HistoryBeyondMinIsForgotten
  ConfirmedOnceWithinThree
CHECK_DEADLOCK FALSE
