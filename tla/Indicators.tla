---------------------------- MODULE Indicators ----------------------------
(***************************************************************************)
(* The registered indicators: for each the outputs of its batch function,  *)
(* the outputs of its incremental state, the calculation that its          *)
(* warmed_up asks about, and the min_history it is registered with.        *)
(* Arithmetic is left out; which candles enter which average, window, lag  *)
(* or recursion, and in which order, is not.  Where one of two parallel    *)
(* calculations of equal shape (gains and losses, highs and lows) would    *)
(* say nothing new, one stands for both.                                   *)
(***************************************************************************)
EXTENDS SeriesTerms

\* The averages and windows under the names the library gives them.
Sma(t, n) == Window(t, n)
Wma(t, n) == Window(t, n)
Extreme(t, n) == Window(t, n)
Stdev(t, n) == Window(t, n)
Linreg(t, n) == Window(t, n)
Ema(t, n) == Recursive(t, n)
Rma(t, n) == Recursive(t, n)
Running(t) == Recursive(t, 1)
Roc(t, n) == Change(t, n)
Delta(t) == Change(t, 1)
Atr(n) == Rma(WithPrior(Price), n)

\* A spec with every output in the order its dict has them.
Spec(history, batch, state, warm) ==
  [history |-> history, batch |-> batch, state |-> state, warm |-> warm, undefined |-> {}]

\* Function and state compute alike, and warmed_up asks for the last output.
Alike(history, outs) == Spec(history, outs, outs, <<Last(outs)>>)
Apart(history, batch, state) == Spec(history, batch, state, <<Last(state)>>)

(***************************************************************************)
(* Trend                                                                   *)
(***************************************************************************)

EMA(n) == Alike(n, <<Ema(Price, n)>>)

DEMA == LET one == Ema(Price, 21) IN Alike(41, <<Combine(<<one, Ema(one, 21)>>)>>)

\* (For a mutation: registered with 3 * (period - 1) candles.)
TEMAShort == LET one == Ema(Price, 21)
                 two == Ema(one, 21)
             IN  Alike(60, <<Combine(<<one, two, Ema(two, 21)>>)>>)

TEMA == LET one == Ema(Price, 21)
            two == Ema(one, 21)
        IN  Alike(61, <<Combine(<<one, two, Ema(two, 21)>>)>>)

\* A recursion whose state keeps its value and returns early until its inputs exist.
Kept(t) == Held(Fed(Running(t)))
Recursion(history, input) == Apart(history, <<Running(input)>>, <<Kept(input)>>)

KAMA == Recursion(11, Window(Price, 11))

T3 == LET three == Ema(Ema(Ema(Price, 21), 21), 21)
          four == Ema(three, 21)
          five == Ema(four, 21)
      IN  Alike(121, <<Combine(<<three, four, five, Ema(five, 21)>>)>>)

HMA == Alike(11, <<Wma(Combine(<<Wma(Price, 4), Wma(Price, 9)>>), 3)>>)

ZLEMA == Alike(31, <<Ema(Change(Price, 10), 21)>>)

ALMA == Alike(9, <<Window(Price, 9)>>)

VIDYA == Recursion(21, Combine(<<Sma(Price, 21), Sma(Delta(Price), 9)>>))

McGinley == Recursion(21, Sma(Price, 21))

GuppyPeriods == <<3, 5, 8, 10, 12, 15, 30, 35, 40, 45, 50, 60>>
Guppy == LET averages == [k \in 1 .. 12 |-> Ema(Price, GuppyPeriods[k])]
         IN  Spec(60, averages, averages, averages)

TRIMA == Alike(21, <<Sma(Sma(Price, 11), 11)>>)

(***************************************************************************)
(* Momentum                                                                *)
(***************************************************************************)

RsiBatch(t, n) == Rma(Delta(t), n)
\* The first observation is only remembered: the averages are not fed a NaN.
RsiState(t, n) == Held(Fed(Rma(Delta(t), n)))

RSI == Apart(15, <<RsiBatch(Price, 14)>>, <<RsiState(Price, 14)>>)

\* A ratio that keeps its previous value while its window is flat, from the first one it had.
OrPrevious(t) == Running(t)

PercentK == OrPrevious(Extreme(Price, 14))
Stochastic == Apart(16, <<PercentK, Sma(PercentK, 3)>>, <<PercentK, Fed(Sma(PercentK, 3))>>)

StochasticSlow ==
  LET k == Sma(PercentK, 3)
      fedK == Fed(Sma(PercentK, 3))
  IN  Apart(18, <<k, Sma(k, 3)>>, <<fedK, Sma(fedK, 3)>>)

MacdLine(fast, slow) == Combine(<<Ema(Price, fast), Ema(Price, slow)>>)

\* The line, its signal, and the histogram that needs both.
WithSignal(line, signal) == <<line, Combine(<<line, signal>>), signal>>

MACD == LET line == MacdLine(12, 26) IN Alike(34, WithSignal(line, Ema(line, 9)))
PPO == LET line == Combine(<<Ema(Price, 12), Ema(Price, 26)>>)
       IN  Alike(34, WithSignal(line, Ema(line, 9)))

TSI == Alike(38, <<Ema(Ema(Delta(Price), 25), 13)>>)

CCIOf(n) == Combine(<<Sma(Price, n), Window(Price, n)>>)
CCI == Alike(20, <<CCIOf(20)>>)

Awesome == Combine(<<Sma(Price, 5), Sma(Price, 34)>>)
AwesomeOscillator == Alike(34, <<Awesome>>)
AcceleratorOscillator == Alike(38, <<Combine(<<Awesome, Sma(Awesome, 5)>>)>>)

SMI == LET line == Ema(Ema(Extreme(Price, 13), 25), 13) IN Alike(51, <<line, Ema(line, 3)>>)

StochasticRSI ==
  LET Raw(rsi) == Combine(<<rsi, Extreme(rsi, 14)>>)
      KD(rsi) == <<Sma(Raw(rsi), 3), Sma(Sma(Raw(rsi), 3), 3)>>
  IN  Apart(32, KD(RsiBatch(Price, 14)), KD(RsiState(Price, 14)))

TRIX == Alike(44, <<Delta(Ema(Ema(Ema(Price, 15), 15), 15))>>)

CMO == Alike(15, <<Sma(Delta(Price), 14)>>)

WilliamsR == Alike(14, <<Extreme(Price, 14)>>)

Ultimate ==
  Alike(29, <<Combine(<<Sma(Delta(Price), 7), Sma(Delta(Price), 14), Sma(Delta(Price), 28)>>)>>)

\* The signal is the Fisher value of the candle before.
Fisher == LET fisher == Running(Extreme(Price, 9)) IN Alike(10, <<fisher, Delay(fisher, 1)>>)

KST == LET line == Combine(<<Sma(Roc(Price, 10), 10), Sma(Roc(Price, 15), 10),
                             Sma(Roc(Price, 20), 10), Sma(Roc(Price, 30), 15)>>)
       IN  Alike(53, <<line, Sma(line, 9)>>)

Coppock == Alike(24, <<Wma(Combine(<<Roc(Price, 14), Roc(Price, 11)>>), 10)>>)

\* The streak begins with the first close; the rank compares a change with the hundred before it.
ConnorsRSI ==
  LET streak == Running(Price)
      rank == Window(Roc(Price, 1), 101)
  IN  Apart(102, <<Combine(<<RsiBatch(Price, 3), RsiBatch(streak, 2), rank>>)>>,
                 <<Combine(<<RsiState(Price, 3), RsiState(streak, 2), rank>>)>>)

QStick == Alike(8, <<Sma(Price, 8)>>)

ChandeForecast == Alike(14, <<Combine(<<Price, Linreg(Price, 14)>>)>>)

DeMarker == Alike(15, <<OrPrevious(Sma(Delta(Price), 14))>>)

DPO == Alike(20, <<Combine(<<Delay(Price, 11), Sma(Price, 20)>>)>>)

SchaffStage(t, n) == Running(Combine(<<t, Extreme(t, n)>>))
Schaff == Alike(68, <<SchaffStage(SchaffStage(MacdLine(23, 50), 10), 10)>>)

Swma(t) == Window(t, 4)
RelativeVigor == LET line == Sma(Swma(Price), 10) IN Alike(16, <<line, Swma(line)>>)

Laguerre == Alike(2, <<Running(Delta(Price))>>)

PrettyGood == Alike(89, <<Combine(<<Sma(Price, 89), Atr(89)>>)>>)

CenterOfGravity == Alike(10, <<Window(Price, 10)>>)

APO == Alike(26, <<Combine(<<Sma(Price, 12), Sma(Price, 26)>>)>>)

BOP == Alike(14, <<Sma(Price, 14)>>)

IMI == Alike(14, <<Sma(Price, 14)>>)

(***************************************************************************)
(* Volatility                                                              *)
(***************************************************************************)

ATR == Alike(14, <<Atr(14)>>)

\* middle, upper, lower, percent_b, bandwidth; %B is undefined for a flat window.
Bollinger ==
  LET bands == Combine(<<Sma(Price, 20), Stdev(Price, 20)>>)
      outs(b) == <<b, b, b, b, b>>
  IN  [Spec(20, outs(bands), outs(Held(bands)), <<Held(bands)>>) EXCEPT !.undefined = {4}]

Keltner == Alike(20, <<Combine(<<Ema(Price, 20), Atr(10)>>)>>)

Donchian == Alike(20, <<Extreme(Price, 20)>>)

\* The bands and the direction they carry from candle to candle.
SuperTrend == Apart(10, <<Held(Running(Atr(10)))>>, <<Kept(Atr(10))>>)

Chandelier == Alike(22, <<Combine(<<Extreme(Price, 22), Atr(22)>>)>>)

UlcerIndex == Alike(27, <<Sma(Combine(<<Price, Extreme(Price, 14)>>), 14)>>)

RelativeVolatility == Alike(23, <<Rma(Combine(<<Delta(Price), Stdev(Price, 10)>>), 14)>>)

ChaikinVolatility == Alike(20, <<Change(Ema(Price, 10), 10)>>)

MassIndex == LET one == Ema(Price, 9) IN Alike(41, <<Sma(Combine(<<one, Ema(one, 9)>>), 25)>>)

NATR == Alike(14, <<Combine(<<Atr(14), Price>>)>>)

AccelerationBands == Alike(20, <<Sma(Price, 20)>>)

(***************************************************************************)
(* Volume                                                                  *)
(***************************************************************************)

VolumeSMA == Alike(20, <<Sma(Price, 20)>>)

ADLine == Alike(1, <<Running(Price)>>)

ChaikinOscillator == Alike(10, <<Combine(<<Ema(Running(Price), 3), Ema(Running(Price), 10)>>)>>)

CMF == Alike(20, <<Window(Price, 20)>>)

OBV == Alike(1, <<Running(WithPrior(Price))>>)

ForceIndex == Alike(14, <<Ema(Delta(Price), 13)>>)

MoneyFlow == Alike(15, <<Sma(Delta(Price), 14)>>)

EaseOfMovement == Alike(15, <<Sma(Delta(Price), 14)>>)

\* The force adds up ranges for as long as the trend lasts.
Klinger == LET force == Running(Delta(Price))
               line == Combine(<<Ema(force, 34), Ema(force, 55)>>)
           IN  Alike(68, <<line, Ema(line, 13)>>)

VolumeIndex == Alike(1, <<Running(WithPrior(Price))>>)

(***************************************************************************)
(* Strength                                                                *)
(***************************************************************************)

\* +DI and -DI, ADX, and ADXR that averages it with the ADX a period ago.
DMI == LET indicators == Rma(Delta(Price), 14)
           adx == Rma(indicators, 14)
       IN  Alike(42, <<indicators, indicators, adx, Change(adx, 14)>>)

Aroon == Alike(26, <<Window(Price, 26)>>)

Vortex == Alike(15, <<Sma(Delta(Price), 14)>>)

Choppiness == Alike(14, <<Combine(<<Sma(WithPrior(Price), 14), Extreme(Price, 14)>>)>>)

RandomWalk == Alike(15, <<Combine(<<Atr(14), Change(Price, 14)>>)>>)

(***************************************************************************)
(* Systems                                                                 *)
(***************************************************************************)

ElderRay == Alike(13, <<Combine(<<Price, Ema(Price, 13)>>)>>)

ParabolicSAR == Alike(2, <<Running(Delta(Price))>>)

\* The leading spans are published for the candle that is 26 later.
Ichimoku ==
  LET conversion == Extreme(Price, 9)
      base == Extreme(Price, 26)
      outs == <<conversion, base, Delay(Combine(<<conversion, base>>), 26),
                Delay(Extreme(Price, 52), 26)>>
  IN  Spec(78, outs, outs, outs)

Jaw == Delay(Rma(Price, 13), 8)
Teeth == Delay(Rma(Price, 8), 5)
Lips == Delay(Rma(Price, 5), 3)
Alligator == LET lines == <<Jaw, Teeth, Lips>> IN Spec(21, lines, lines, lines)
Gator == LET bars == <<Combine(<<Jaw, Teeth>>), Combine(<<Teeth, Lips>>)>>
         IN  Spec(21, bars, bars, bars)

\* The flags of the middle candle, published once its right wing has closed.
Fractals == Alike(5, <<Window(Price, 5)>>)

Facilitation == Alike(1, <<Price>>)

ElderImpulse ==
  LET line == MacdLine(12, 26)
      histogram == Combine(<<line, Ema(line, 9)>>)
  IN  Alike(35, <<Delta(Combine(<<Ema(Price, 13), histogram>>))>>)

TDSequential == Alike(5, <<Running(Change(Price, 4))>>)

WoodiesCCI == LET outs == <<CCIOf(14), CCIOf(6), CCIOf(14)>> IN Spec(14, outs, outs, outs)

(***************************************************************************)
(* Cycle and statistics                                                    *)
(***************************************************************************)

\* The Hilbert core runs from the first point of the price average and so many more candles.
ShortSteps == 9
LongSteps == 34
Hilbert(steps) == Running(Window(Price, 4 + steps))

\* Its points are held back until the count of candles that TA-Lib starts at.
Cycle(count, steps, points) ==
  LET out == After(Hilbert(steps), count - 1)
      outs == [k \in 1 .. points |-> out]
  IN  Spec(count, outs, outs, <<out>>)

DominantCycle == Cycle(33, ShortSteps, 1)
CyclePhase == Cycle(64, LongSteps, 1)
Phasor == Cycle(33, ShortSteps, 2)
Sine == Cycle(64, LongSteps, 2)
Trendline == Cycle(64, LongSteps, 1)
TrendMode == Cycle(64, LongSteps, 1)
MAMA == Cycle(33, ShortSteps, 2)

\* Price stands for the pair of candles that close together.
BETA == Alike(6, <<Window(Delta(Price), 5)>>)
CORREL == Alike(30, <<Window(Price, 30)>>)

(***************************************************************************)
(* The registry                                                            *)
(***************************************************************************)

TrendSpecs ==
  [ema9 |-> EMA(9), ema21 |-> EMA(21), ema55 |-> EMA(55), ema200 |-> EMA(200), dema |-> DEMA,
   tema |-> TEMA, kama |-> KAMA, t3 |-> T3, hma |-> HMA, zlema |-> ZLEMA, alma |-> ALMA,
   vidya |-> VIDYA, mcginley |-> McGinley, guppy |-> Guppy, trima |-> TRIMA]

MomentumSpecs ==
  [rsi |-> RSI, stochastic |-> Stochastic, slow |-> StochasticSlow, macd |-> MACD, ppo |-> PPO,
   tsi |-> TSI, cci |-> CCI, awesome |-> AwesomeOscillator, accelerator |-> AcceleratorOscillator,
   smi |-> SMI, stochasticRsi |-> StochasticRSI, trix |-> TRIX, cmo |-> CMO,
   williams |-> WilliamsR, ultimate |-> Ultimate, fisher |-> Fisher, kst |-> KST,
   coppock |-> Coppock, connors |-> ConnorsRSI, qstick |-> QStick, forecast |-> ChandeForecast,
   demarker |-> DeMarker, dpo |-> DPO, schaff |-> Schaff, vigor |-> RelativeVigor,
   laguerre |-> Laguerre, prettyGood |-> PrettyGood, gravity |-> CenterOfGravity, apo |-> APO,
   bop |-> BOP, imi |-> IMI]

VolatilitySpecs ==
  [atr |-> ATR, bollinger |-> Bollinger, keltner |-> Keltner, donchian |-> Donchian,
   supertrend |-> SuperTrend, chandelier |-> Chandelier, ulcer |-> UlcerIndex,
   relativeVolatility |-> RelativeVolatility, chaikinVolatility |-> ChaikinVolatility,
   mass |-> MassIndex, natr |-> NATR, bands |-> AccelerationBands]

VolumeSpecs ==
  [volumeSma |-> VolumeSMA, adLine |-> ADLine, chaikin |-> ChaikinOscillator, cmf |-> CMF,
   obv |-> OBV, force |-> ForceIndex, moneyFlow |-> MoneyFlow, ease |-> EaseOfMovement,
   klinger |-> Klinger, negativeVolume |-> VolumeIndex, positiveVolume |-> VolumeIndex]

StrengthSpecs == [dmi |-> DMI, aroon |-> Aroon, vortex |-> Vortex, choppiness |-> Choppiness,
                  randomWalk |-> RandomWalk]

SystemsSpecs ==
  [elderRay |-> ElderRay, sar |-> ParabolicSAR, ichimoku |-> Ichimoku, alligator |-> Alligator,
   gator |-> Gator, fractals |-> Fractals, facilitation |-> Facilitation,
   impulse |-> ElderImpulse, sequential |-> TDSequential, woodies |-> WoodiesCCI]

CycleSpecs == [dcperiod |-> DominantCycle, dcphase |-> CyclePhase, phasor |-> Phasor,
               sine |-> Sine, trendline |-> Trendline, trendmode |-> TrendMode, mama |-> MAMA]

StatisticsSpecs == [beta |-> BETA, correl |-> CORREL]

\* The categories' lists, gathered in one fixed order.
AllSpecs == TrendSpecs @@ MomentumSpecs @@ VolatilitySpecs @@ VolumeSpecs @@ StrengthSpecs
              @@ SystemsSpecs @@ CycleSpecs @@ StatisticsSpecs
=============================================================================
