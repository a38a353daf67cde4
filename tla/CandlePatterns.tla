-------------------------- MODULE CandlePatterns --------------------------
(***************************************************************************)
(* The candlestick patterns that are judged from a window: which averages  *)
(* of earlier candles and which candles each judgment reads, and the       *)
(* look-back before which it is not made.  What the judgment compares is   *)
(* left out.  An average that does not exist yet is Nan, where the code    *)
(* raises.                                                                 *)
(***************************************************************************)
EXTENDS Indicators

\* Candle settings: over how many candles before the target a size is averaged, target how far back.
\* A setting of no candles measures the target itself.
Average(period, offset) ==
  IF period = 0 THEN Delay(Price, offset) ELSE Delay(Window(Price, period), offset + 1)

BodyLong(offset) == Average(10, offset)
BodyShort(offset) == Average(10, offset)
BodyDoji(offset) == Average(10, offset)
ShadowLong(offset) == Average(0, offset)
ShadowVeryLong(offset) == Average(0, offset)
ShadowShort(offset) == Average(10, offset)
ShadowVeryShort(offset) == Average(10, offset)
Near(offset) == Average(5, offset)
Far(offset) == Average(5, offset)
Equal(offset) == Average(5, offset)

\* How many candles the average takes, without the shift to its target.
PeriodOf(average) == IF average.of = <<Price>> THEN 0 ELSE average.of[1].n

Lookback(averages, extra) == Max({0} \cup {PeriodOf(averages[k]) : k \in DOMAIN averages}) + extra

\* A judgment of the last `candles' candles against the averages.
Pattern(extra, averages, candles) ==
  LET lookback == Lookback(averages, extra)
      read == [k \in 1 .. candles |-> Delay(Price, k - 1)]
      judgment == After(Combine(averages \o read), lookback)
  IN  Spec(lookback + 1, <<judgment>>, <<judgment>>, <<judgment>>)

(***************************************************************************)
(* One candle                                                              *)
(***************************************************************************)

Doji == Pattern(0, <<BodyDoji(0)>>, 1)

LongLeggedDoji == Pattern(0, <<BodyDoji(0), ShadowLong(0)>>, 1)

RickshawMan == Pattern(0, <<BodyDoji(0), ShadowLong(0), Near(0)>>, 1)

DragonflyDoji == Pattern(0, <<BodyDoji(0), ShadowVeryShort(0)>>, 1)

GravestoneDoji == Pattern(0, <<BodyDoji(0), ShadowVeryShort(0)>>, 1)

Takuri == Pattern(0, <<BodyDoji(0), ShadowVeryShort(0), ShadowVeryLong(0)>>, 1)

Hammer == Pattern(1, <<BodyShort(0), ShadowLong(0), ShadowVeryShort(0), Near(1)>>, 2)

HangingMan == Pattern(1, <<BodyShort(0), ShadowLong(0), ShadowVeryShort(0), Near(1)>>, 2)

InvertedHammer == Pattern(1, <<BodyShort(0), ShadowLong(0), ShadowVeryShort(0)>>, 2)

ShootingStar == Pattern(1, <<BodyShort(0), ShadowLong(0), ShadowVeryShort(0)>>, 2)

SpinningTop == Pattern(0, <<BodyShort(0)>>, 1)

HighWave == Pattern(0, <<BodyShort(0), ShadowVeryLong(0)>>, 1)

Marubozu == Pattern(0, <<BodyLong(0), ShadowVeryShort(0)>>, 1)

ClosingMarubozu == Pattern(0, <<BodyLong(0), ShadowVeryShort(0)>>, 1)

BeltHold == Pattern(0, <<BodyLong(0), ShadowVeryShort(0)>>, 1)

LongLine == Pattern(0, <<BodyLong(0), ShadowShort(0)>>, 1)

ShortLine == Pattern(0, <<BodyShort(0), ShadowShort(0)>>, 1)

(***************************************************************************)
(* Two candles                                                             *)
(***************************************************************************)

Engulfing == Pattern(2, <<>>, 2)

Harami == Pattern(1, <<BodyLong(1), BodyShort(0)>>, 2)

HaramiCross == Pattern(1, <<BodyLong(1), BodyDoji(0)>>, 2)

DojiStar == Pattern(1, <<BodyLong(1), BodyDoji(0)>>, 2)

Piercing == Pattern(1, <<BodyLong(1), BodyLong(0)>>, 2)

DarkCloudCover == Pattern(1, <<BodyLong(1)>>, 2)

Counterattack == Pattern(1, <<BodyLong(1), BodyLong(0), Equal(1)>>, 2)

SeparatingLines == Pattern(1, <<BodyLong(0), Equal(1), ShadowVeryShort(0)>>, 2)

Kicking == Pattern(1, <<BodyLong(1), BodyLong(0), ShadowVeryShort(1), ShadowVeryShort(0)>>, 2)

KickingByLength == Pattern(1, <<BodyLong(1), BodyLong(0), ShadowVeryShort(1),
                                ShadowVeryShort(0)>>, 2)

HomingPigeon == Pattern(1, <<BodyLong(1), BodyShort(0)>>, 2)

MatchingLow == Pattern(1, <<Equal(1)>>, 2)

InNeck == Pattern(1, <<BodyLong(1), Equal(1)>>, 2)

OnNeck == Pattern(1, <<BodyLong(1), Equal(1)>>, 2)

Thrusting == Pattern(1, <<BodyLong(1), Equal(1)>>, 2)

(***************************************************************************)
(* Three candles                                                           *)
(***************************************************************************)

TwoCrows == Pattern(2, <<BodyLong(2)>>, 3)

ThreeBlackCrows == Pattern(3, <<ShadowVeryShort(2), ShadowVeryShort(1), ShadowVeryShort(0)>>, 4)

ThreeInside == Pattern(2, <<BodyLong(2), BodyShort(1)>>, 3)

ThreeOutside == Pattern(3, <<>>, 3)

ThreeStarsInTheSouth == Pattern(2, <<BodyLong(2), ShadowLong(2), ShadowVeryShort(1),
                                     BodyShort(0), ShadowVeryShort(0)>>, 3)

ThreeWhiteSoldiers == Pattern(2, <<ShadowVeryShort(2), ShadowVeryShort(1), ShadowVeryShort(0),
                                   Near(2), Near(1), Far(2), Far(1), BodyShort(0)>>, 3)

AbandonedBaby == Pattern(2, <<BodyLong(2), BodyDoji(1), BodyShort(0)>>, 3)

AdvanceBlock == Pattern(2, <<ShadowShort(2), ShadowShort(1), ShadowShort(0), ShadowLong(1),
                             ShadowLong(0), Near(2), Near(1), Far(2), Far(1), BodyLong(2)>>, 3)

EveningDojiStar == Pattern(2, <<BodyLong(2), BodyDoji(1), BodyShort(0)>>, 3)

EveningStar == Pattern(2, <<BodyLong(2), BodyShort(1), BodyShort(0)>>, 3)

IdenticalThreeCrows == Pattern(2, <<ShadowVeryShort(2), ShadowVeryShort(1), ShadowVeryShort(0),
                                    Equal(2), Equal(1)>>, 3)

MorningDojiStar == Pattern(2, <<BodyLong(2), BodyDoji(1), BodyShort(0)>>, 3)

MorningStar == Pattern(2, <<BodyLong(2), BodyShort(1), BodyShort(0)>>, 3)

StalledPattern == Pattern(2, <<BodyLong(2), BodyLong(1), BodyShort(0), ShadowVeryShort(1),
                               Near(2), Near(1)>>, 3)

TriStar == Pattern(2, <<BodyDoji(2)>>, 3)

UniqueThreeRiver == Pattern(2, <<BodyLong(2), BodyShort(0)>>, 3)

UpsideGapTwoCrows == Pattern(2, <<BodyLong(2), BodyShort(1)>>, 3)

(***************************************************************************)
(* More candles                                                            *)
(***************************************************************************)

ThreeLineStrike == Pattern(3, <<Near(3), Near(2)>>, 4)

Breakaway == Pattern(4, <<BodyLong(4)>>, 5)

ConcealingBabySwallow == Pattern(3, <<ShadowVeryShort(3), ShadowVeryShort(2),
                                      ShadowVeryShort(1)>>, 4)

GapSideBySideWhite == Pattern(2, <<Near(1), Equal(1)>>, 3)

LadderBottom == Pattern(4, <<ShadowVeryShort(1)>>, 5)

MatHold == Pattern(4, <<BodyLong(4), BodyShort(3), BodyShort(2), BodyShort(1)>>, 5)

RiseFallThreeMethods == Pattern(4, <<BodyLong(4), BodyLong(0), BodyShort(3), BodyShort(2),
                                     BodyShort(1)>>, 5)

StickSandwich == Pattern(2, <<Equal(2)>>, 3)

TasukiGap == Pattern(2, <<Near(1)>>, 3)

GapThreeMethods == Pattern(2, <<>>, 3)

SingleCandlePatterns ==
  [doji |-> Doji, longLeggedDoji |-> LongLeggedDoji, rickshawMan |-> RickshawMan,
   dragonflyDoji |-> DragonflyDoji, gravestoneDoji |-> GravestoneDoji, takuri |-> Takuri,
   hammer |-> Hammer, hangingMan |-> HangingMan, invertedHammer |-> InvertedHammer,
   shootingStar |-> ShootingStar, spinningTop |-> SpinningTop, highWave |-> HighWave,
   marubozu |-> Marubozu, closingMarubozu |-> ClosingMarubozu, beltHold |-> BeltHold,
   longLine |-> LongLine, shortLine |-> ShortLine]

TwoCandlePatterns ==
  [engulfing |-> Engulfing, harami |-> Harami, haramiCross |-> HaramiCross,
   dojiStar |-> DojiStar, piercing |-> Piercing, darkCloudCover |-> DarkCloudCover,
   counterattack |-> Counterattack, separatingLines |-> SeparatingLines, kicking |-> Kicking,
   kickingByLength |-> KickingByLength, homingPigeon |-> HomingPigeon,
   matchingLow |-> MatchingLow, inNeck |-> InNeck, onNeck |-> OnNeck, thrusting |-> Thrusting]

ThreeCandlePatterns ==
  [twoCrows |-> TwoCrows, threeBlackCrows |-> ThreeBlackCrows, threeInside |-> ThreeInside,
   threeOutside |-> ThreeOutside, threeStarsInTheSouth |-> ThreeStarsInTheSouth,
   threeWhiteSoldiers |-> ThreeWhiteSoldiers, abandonedBaby |-> AbandonedBaby,
   advanceBlock |-> AdvanceBlock, eveningDojiStar |-> EveningDojiStar,
   eveningStar |-> EveningStar, identicalThreeCrows |-> IdenticalThreeCrows,
   morningDojiStar |-> MorningDojiStar, morningStar |-> MorningStar,
   stalledPattern |-> StalledPattern, triStar |-> TriStar,
   uniqueThreeRiver |-> UniqueThreeRiver, upsideGapTwoCrows |-> UpsideGapTwoCrows]

MultiCandlePatterns ==
  [threeLineStrike |-> ThreeLineStrike, breakaway |-> Breakaway,
   concealingBabySwallow |-> ConcealingBabySwallow, gapSideBySideWhite |-> GapSideBySideWhite,
   ladderBottom |-> LadderBottom, matHold |-> MatHold,
   riseFallThreeMethods |-> RiseFallThreeMethods, stickSandwich |-> StickSandwich,
   tasukiGap |-> TasukiGap, gapThreeMethods |-> GapThreeMethods]

AllPatterns == SingleCandlePatterns @@ TwoCandlePatterns @@ ThreeCandlePatterns
                 @@ MultiCandlePatterns
=============================================================================
