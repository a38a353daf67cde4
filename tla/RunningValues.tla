--------------------------- MODULE RunningValues ---------------------------
(***************************************************************************)
(* The states that keep a value up instead of looking at their candles     *)
(* again: the rolling windows and the two hikkakes, each on a series of    *)
(* its own, in any order.                                                  *)
(***************************************************************************)
EXTENDS RollingWindows, Hikkake

runningVars == <<rollingVars, hikkakeVars>>

RunningInit == RollingInit /\ HikkakeInit

RunningNext ==
  \/ RollingNext /\ UNCHANGED hikkakeVars
  \/ HikkakeNext /\ UNCHANGED rollingVars

RunningSpec == RunningInit /\ [][RunningNext]_runningVars

\* Whatever the states keep up instead of looking at their candles again, the sums, counts,
\* queues and buffers, says what the candles say (SmaState, RollingExtremeState, the Near
\* average of the hikkakes).
RunningValuesAgree ==
  /\ RollingTypeOK /\ HikkakeTypeOK
  /\ MeanIsOfTheWindow /\ ExtremeIsOfTheWindow /\ NearTotalIsOfItsWindow
=============================================================================
