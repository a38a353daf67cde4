------------------------------ MODULE Hikkake ------------------------------
(***************************************************************************)
(* The two patterns that remember: a hikkake is announced on the candle    *)
(* that breaks out of an inside candle, and confirmed on one of the three  *)
(* that follow.  The modified one also compares a close with the Near      *)
(* average, which its state keeps as a running total.                      *)
(*                                                                         *)
(* A candle is its high, low and close in small integers; the opens are    *)
(* not looked at.  An answer is 0, +-100 for a match, +-200 for a          *)
(* confirmation, None before the look-back is over.  Candles are numbered  *)
(* from 0 as in the code; tape[k + 1] is candle k.                         *)
(***************************************************************************)
EXTENDS Integers, Sequences, FiniteSetsExt, SequencesExt

CONSTANTS
  CandleShapes,      \* records with high, low and close
  None,
  NearPeriod,        \* candles in the Near average, 5 in the default settings
  LongestTape        \* bound: candles given to the states

ASSUME HikkakeAssumption ==
  /\ CandleShapes \subseteq [high : Int, low : Int, close : Int]
  /\ NearPeriod \in Nat \ {0}
  /\ LongestTape \in Nat

NearOffset == 2
ConfirmationBars == 3
HikkakeLookback == 5
ModifiedLookback == Max({1, NearPeriod}) + 5

VARIABLES
  tape,      \* the candles given so far
  plain,     \* the state of pat_hikkake
  modified   \* the state of pat_hikkake_modified

hikkakeVars == <<tape, plain, modified>>

(***************************************************************************)
(* CandleAverageState for Near: the range of NearPeriod candles before the *)
(* target, which lies NearOffset candles back.                             *)
(***************************************************************************)

NearBlank == [seen |-> 0, total |-> 0, ranges |-> <<>>, current |-> None]

\* The buffer holds the last ranges only; index counts from the first candle.
RecentRanges(ranges) == IF Len(ranges) > NearPeriod + NearOffset + 2 THEN Tail(ranges) ELSE ranges
StillHeld(ranges, index, newest) == newest - index < Len(ranges)
RangeAt(ranges, index, newest) == ranges[Len(ranges) - (newest - index)]

NearUpdate(a, c) ==
  LET newest == a.seen
      ranges == RecentRanges(Append(a.ranges, c.high - c.low))
      target == newest - NearOffset
      added == target - 1
      subtracted == target - NearPeriod - 1
      total == a.total + (IF added >= 0 THEN RangeAt(ranges, added, newest) ELSE 0)
                 - (IF added >= 0 /\ subtracted >= 0 THEN RangeAt(ranges, subtracted, newest) ELSE 0)
  IN  [seen |-> newest + 1, total |-> total, ranges |-> ranges,
       current |-> IF target < NearPeriod THEN None ELSE total]

(***************************************************************************)
(* The two judgments, and the machine that confirms what they found.       *)
(***************************************************************************)

Inside(second, first) == second.high < first.high /\ second.low > first.low
Lower(next, candle) == next.high < candle.high /\ next.low < candle.low
Higher(next, candle) == next.high > candle.high /\ next.low > candle.low

\* `candles' holds the candles since the last reset, index counting from the first of them.
At(candles, index) == candles[index + 1]

HikkakeJudge(candles, index, near) ==
  LET first == At(candles, index - 2)
      second == At(candles, index - 1)
      third == At(candles, index)
  IN  IF Inside(second, first) /\ (Lower(third, second) \/ Higher(third, second))
      THEN IF third.high < second.high THEN 100 ELSE -100
      ELSE 0

\* close <= low + 0.2 * total / NearPeriod, and the other way round at the high.
ModifiedJudge(candles, index, near) ==
  LET first == At(candles, index - 3)
      second == At(candles, index - 2)
      third == At(candles, index - 1)
      fourth == At(candles, index)
  IN  IF /\ Inside(second, first) /\ Inside(third, second)
         /\ \/ Lower(fourth, third) /\ (second.close - second.low) * 5 * NearPeriod <= near
            \/ Higher(fourth, third) /\ (second.high - second.close) * 5 * NearPeriod <= near
      THEN IF fourth.high < third.high THEN 100 ELSE -100
      ELSE 0

NothingSeen == [candles |-> <<>>, near |-> NearBlank, patternIdx |-> 0, patternResult |-> 0,
          said |-> <<>>]

\* (For a mutation: a confirmation leaves the pattern open to be confirmed again.)
AdvanceAgain(s, judged, index) ==
  LET current == At(s.candles, index)
      before == At(s.candles, s.patternIdx - 1)
      confirmed == /\ index <= s.patternIdx + ConfirmationBars
                   /\ \/ s.patternResult > 0 /\ current.close > before.high
                      \/ s.patternResult < 0 /\ current.close < before.low
  IN  IF judged # 0
      THEN [s EXCEPT !.patternResult = judged, !.patternIdx = index, !.said = Append(@, judged)]
      ELSE IF confirmed
      THEN [s EXCEPT !.said = Append(@, 2 * s.patternResult)]
      ELSE [s EXCEPT !.said = Append(@, 0)]

\* _advance: a new pattern replaces the one that waits; otherwise the one that waits may be
\* confirmed, once, against the candle before it was announced.
Advance(s, judged, index) ==
  LET current == At(s.candles, index)
      before == At(s.candles, s.patternIdx - 1)
      confirmed == /\ index <= s.patternIdx + ConfirmationBars
                   /\ \/ s.patternResult > 0 /\ current.close > before.high
                      \/ s.patternResult < 0 /\ current.close < before.low
  IN  IF judged # 0
      THEN [s EXCEPT !.patternResult = judged, !.patternIdx = index, !.said = Append(@, judged)]
      ELSE IF confirmed
      THEN [s EXCEPT !.patternIdx = 0, !.said = Append(@, 2 * s.patternResult)]
      ELSE [s EXCEPT !.said = Append(@, 0)]

\* (For a mutation: the transitions start with the first answer.)
LateStart(lookback) == lookback

\* So that a match before the first answer can be confirmed after it.
TransitionStart(lookback) == lookback - ConfirmationBars

\* update_integer.
HikkakeUpdate(s, c, lookback, Judge(_, _, _)) ==
  LET index == Len(s.candles)
      given == [s EXCEPT !.candles = Append(@, c), !.near = NearUpdate(@, c)]
  IN  IF index >= TransitionStart(lookback)
      THEN Advance(given, Judge(given.candles, index, given.near.current), index)
      ELSE [given EXCEPT !.said = Append(@, 0)]

\* What the state answers: nothing before the look-back is over.
Answered(s, lookback) == IF Len(s.candles) <= lookback THEN None ELSE Last(s.said)

PlainUpdate(s, c) == HikkakeUpdate(s, c, HikkakeLookback, HikkakeJudge)
ModifiedUpdate(s, c) == HikkakeUpdate(s, c, ModifiedLookback, ModifiedJudge)

HikkakeTypeOK ==
  /\ tape \in Seq(CandleShapes) /\ Len(tape) <= LongestTape
  /\ \A s \in {plain, modified} :
       /\ s.candles = tape
       /\ s.patternIdx \in 0 .. Len(tape) /\ s.patternResult \in {0, 100, -100}
       /\ Range(s.said) \subseteq {0, 100, -100, 200, -200}

HikkakeInit == tape = <<>> /\ plain = NothingSeen /\ modified = NothingSeen

Give(c) ==
  /\ Len(tape) < LongestTape
  /\ tape' = Append(tape, c)
  /\ plain' = PlainUpdate(plain, c)
  /\ modified' = ModifiedUpdate(modified, c)

HikkakeNext == \E c \in CandleShapes : Give(c)

HikkakeSpec == HikkakeInit /\ [][HikkakeNext]_hikkakeVars

(***************************************************************************)
(* Properties                                                              *)
(***************************************************************************)

\* A state seeded with nothing but the last lookback + 1 candles.
Seeded(lookback, Apply(_, _)) ==
  FoldLeft(Apply, NothingSeen, SubSeq(tape, Len(tape) - lookback, Len(tape)))

\* Although the machine remembers an open pattern, min_history candles are enough of a past:
\* a state seeded with just those gives the same answer as one that has seen everything.
\* How much history the run's other specs make it fetch decides nothing.
HistoryBeyondMinIsForgotten ==
  /\ Len(tape) > HikkakeLookback =>
       Answered(plain, HikkakeLookback)
         = Answered(Seeded(HikkakeLookback, PlainUpdate), HikkakeLookback)
  /\ Len(tape) > ModifiedLookback =>
       Answered(modified, ModifiedLookback)
         = Answered(Seeded(ModifiedLookback, ModifiedUpdate), ModifiedLookback)

\* A confirmation follows the match it confirms by at most three candles, points the same way,
\* and nothing has been announced or confirmed in between.
ConfirmedOnceWithinThree ==
  \A s \in {plain, modified} : \A i \in DOMAIN s.said :
    s.said[i] \in {200, -200} =>
      \E p \in DOMAIN s.said : /\ p < i /\ i - p <= ConfirmationBars
                               /\ 2 * s.said[p] = s.said[i]
                               /\ \A j \in p + 1 .. i - 1 : s.said[j] = 0

Spreads(candles) == [k \in DOMAIN candles |-> candles[k].high - candles[k].low]

\* The running total, kept in a buffer of a few ranges, is the sum of the NearPeriod ranges
\* before the target, and never asks the buffer for a range it has let go.
NearTotalIsOfItsWindow ==
  LET newest == Len(tape) - 1
      target == newest - NearOffset
  IN  /\ modified.near.current # None =>
           modified.near.total = SumFunctionOnSet(Spreads(tape), target - NearPeriod + 1 .. target)
      /\ \A index \in {target - 1, target - NearPeriod - 1} :
           index >= 0 => StillHeld(modified.near.ranges, index, newest)
=============================================================================
