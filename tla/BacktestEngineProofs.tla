------------------------ MODULE BacktestEngineProofs ------------------------
(***************************************************************************)
(* The money of a backtest adds up for every tape, strategy, funding rate, *)
(* leverage, fee and slippage.                                             *)
(***************************************************************************)
EXTENDS BacktestEngine, TLAPS

TradeFields == {"reference", "fee", "slippage", "funding", "stop", "take"}

\* The trade of a held position p, and what the account is owed for it.
Held(p, t) ==
    /\ p \in PositionType
    /\ TradeFields \subseteq DOMAIN t
    /\ t.reference \in Int /\ t.fee \in Int
    /\ t.slippage = Slip * p.qty /\ t.funding \in Int
    /\ t.stop \in Nat \cup {None} /\ t.take \in Nat \cup {None}
    /\ p.entry = EntryPrice(p.side, t.reference)
    /\ cash + p.margin + t.fee + t.funding = InitialCash + realized

\* While flat the cash is the initial capital and the results; while a
\* position is held, its margin, its fee and its funding are still out.
Accounts ==
    /\ cash \in Int /\ realized \in Int
    /\ \/ position = None /\ cash = InitialCash + realized
       \/ Held(position, trade)

\* One side's sign cancels against itself.
LEMMA SignTwice ==
    ASSUME NEW side, NEW n \in Int
    PROVE  /\ Sign(side) \in {1, -1}
           /\ Sign(side) * n \in Int
           /\ Sign(side) * (Sign(side) * n) = n
BY DEF Sign

\* An exit turns what a held position is owed into cash: the slippage that
\* moved the fill prices is the slippage charged to the result.
LEMMA ExitBalances ==
    ASSUME Accounts, NEW p, NEW t, Held(p, t), NEW reference \in Int,
           NEW gap
    PROVE  /\ NetPnl(p, t, reference, gap) \in Int
           /\ cash + Recovered(p, ExitPrice(p.side, reference, gap)) - Fee
                  = InitialCash + realized + NetPnl(p, t, reference, gap)
<1> DEFINE q == p.qty
           s == Sign(p.side)
           slip == ExitSlip(gap)
           d == reference - t.reference
<1>1. q \in Int /\ p.margin \in Int /\ p.entry \in Int
  BY DEF Held, PositionType, Price
<1>2. Fee \in Int /\ Slip \in Int /\ slip \in Int /\ InitialCash \in Int
  BY EngineAssumption DEF ExitSlip
<1>3. /\ t.reference \in Int /\ t.fee \in Int /\ t.funding \in Int
      /\ t.slippage = Slip * q
      /\ p.entry = t.reference + s * Slip
      /\ cash + p.margin + t.fee + t.funding = InitialCash + realized
  BY DEF Held, EntryPrice
<1>4. cash \in Int /\ realized \in Int
  BY DEF Accounts
<1>5. s \in {1, -1}
  BY SignTwice
<1>6. NetPnl(p, t, reference, gap)
          = s * d * q - ((t.fee + Fee) + (Slip * q + slip * q)) - t.funding
  BY <1>3 DEF NetPnl, Costs
<1>7. Recovered(p, ExitPrice(p.side, reference, gap))
          = p.margin + s * ((reference - s * slip) - p.entry) * q
  BY DEF Recovered, Gain, ExitPrice
<1>8. s * ((reference - s * slip) - p.entry) * q
          = s * d * q - Slip * q - slip * q
  <2>1. s * ((reference - s * slip) - p.entry) = s * d - (Slip + slip)
    BY <1>1, <1>2, <1>3, <1>5
  <2>2. (s * d - (Slip + slip)) * q = s * d * q - Slip * q - slip * q
    BY <1>1, <1>2, <1>3, <1>5
  <2> QED
    BY <2>1, <2>2
<1>9. s * d * q \in Int /\ Slip * q \in Int /\ slip * q \in Int
  BY <1>1, <1>2, <1>3, <1>5
<1> HIDE DEF q, s, slip, d
<1> QED
  BY <1>1, <1>2, <1>3, <1>4, <1>6, <1>7, <1>8, <1>9

\* Whatever way an exit ends, the accounts stay in order.
LEMMA ExitKeepsAccounts ==
    ASSUME Accounts, NEW p, NEW t, Held(p, t), NEW reference \in Int,
           NEW gap, NEW at, NEW decision, NEW reason, NEW log, NEW then,
           Exit(p, t, reference, gap, at, decision, reason, log, then)
    PROVE  Accounts' /\ position' \in PositionType \cup {None}
<1> DEFINE balance == cash + Recovered(p, ExitPrice(p.side, reference, gap)) - Fee
           net == NetPnl(p, t, reference, gap)
<1>1. net \in Int /\ balance = InitialCash + realized + net
  BY ExitBalances
<1>2. \/ UNCHANGED <<cash, realized>> /\ position' = p /\ trade' = t
      \/ cash' = balance /\ realized' = realized + net /\ position' = None
  BY DEF Exit, Fails
<1>3. CASE UNCHANGED <<cash, realized>> /\ position' = p /\ trade' = t
  BY <1>3 DEF Accounts, Held
<1>4. CASE cash' = balance /\ realized' = realized + net /\ position' = None
  BY <1>1, <1>4, EngineAssumption DEF Accounts
<1> QED
  BY <1>2, <1>3, <1>4

-----------------------------------------------------------------------------
(* The types the accounts rest on *)

OrderType ==
    [reason : {None, "SIGNAL_EXIT", "REVERSAL"}, decision : Nat, decided : Nat,
     side : Sides, qty : Nat, stop : Nat \cup {None}, take : Nat \cup {None}]

\* What the engine holds and has queued is well formed.
Typed ==
    /\ candle \in CandleType /\ next \in CandleType \cup {None}
    /\ cursor \in Nat /\ decisions \in Nat
    /\ pending \in Seq(OrderType)
    /\ position \in PositionType \cup {None}

Solvent == Typed /\ Accounts

\* The candles of the tape are well typed.
LEMMA CandleTyped ==
    ASSUME NEW s \in Shapes, NEW at \in Nat
    PROVE  Candle(s, at) \in CandleType
<1>1. s \in [open : Price, high : Price, low : Price, close : Price]
  BY EngineAssumption
<1>2. at + Span \in Nat
  BY EngineAssumption
<1> QED
  BY <1>1, <1>2 DEF Candle, CandleType

\* What may follow a candle is a candle or the end of the tape.
LEMMA SuccessorsTyped ==
    ASSUME NEW c \in CandleType, NEW n, NEW x \in Successors(c, n)
    PROVE  x \in CandleType \cup {None}
<1>1. CASE x = None
  BY <1>1
<1>2. CASE x # None
  <2>1. PICK s \in Shapes, g \in 0 .. MaxGap :
            x = Candle(s, c.closeTime + g * Span)
    BY <1>2 DEF Successors
  <2>2. c.closeTime + g * Span \in Nat
    BY EngineAssumption DEF CandleType
  <2> QED
    BY <2>1, <2>2, CandleTyped
<1> QED
  BY <1>1, <1>2

\* Repricing a liquidation level gives a price or zero.
LEMMA LiquidationPriceTyped ==
    ASSUME NEW side, NEW entry \in Int, NEW qty \in Nat \ {0}, NEW margin \in Int
    PROVE  LiquidationPrice(side, entry, qty, margin) \in Nat
<1>1. margin \div qty \in Int
  OBVIOUS
<1>2. (entry * Maintenance) \div RateScale \in Int
  BY EngineAssumption
<1>3. Sign(side) * (margin \div qty - (entry * Maintenance) \div RateScale) \in Int
  BY <1>1, <1>2, SignTwice
<1> QED
  BY <1>3 DEF LiquidationPrice, NotNegative

\* Opening a trade puts the margin and the fee of the account at stake.
LEMMA OpenKeepsAccounts ==
    ASSUME Solvent, position = None,
           NEW o \in OrderType, NEW q \in Fitting(o), NEW at, OpenTrade(o, q, at)
    PROVE  Accounts' /\ position' \in PositionType
<1> DEFINE price == EntryPrice(o.side, candle.open)
           margin == Margin(q * price)
<1>1. candle.open \in Int
  BY DEF Solvent, Typed, CandleType, Price
<1>2. price \in Price
  BY <1>1, SignTwice, EngineAssumption DEF Fitting, EntryPrice, Price
<1>3. q \in Nat \ {0}
  BY DEF Fitting, OrderType
<1>4. q * price \in Nat
  BY <1>2, <1>3 DEF Price
<1>5. margin \in Nat
  BY <1>4, EngineAssumption DEF Margin
<1>6. LiquidationPrice(o.side, price, q, margin) \in Nat
  BY <1>2, <1>3, <1>5, LiquidationPriceTyped DEF Price
<1>7. position' = [side |-> o.side, qty |-> q, entry |-> price,
                   margin |-> margin,
                   liquidation |-> LiquidationPrice(o.side, price, q, margin)]
  BY DEF OpenTrade
<1>8. position' \in PositionType
  BY <1>2, <1>3, <1>5, <1>6, <1>7 DEF PositionType, OrderType
<1>9. /\ cash' = cash - margin - Fee /\ realized' = realized
      /\ TradeFields \subseteq DOMAIN trade'
      /\ trade'.stop = o.stop /\ trade'.take = o.take
      /\ trade'.reference = candle.open /\ trade'.fee = Fee
      /\ trade'.slippage = Slip * q /\ trade'.funding = 0
  BY DEF OpenTrade, TradeFields
<1>10. cash = InitialCash + realized
  BY EngineAssumption DEF Solvent, Accounts, Held
<1>11. Held(position, trade)'
  <2>1. o.stop \in Nat \cup {None} /\ o.take \in Nat \cup {None}
    BY DEF OrderType
  <2> QED
    BY <2>1, <1>1, <1>5, <1>7, <1>8, <1>9, <1>10, EngineAssumption DEF Held, Solvent, Accounts
<1>12. cash' \in Int /\ realized' \in Int
  BY <1>5, <1>9, EngineAssumption DEF Solvent, Accounts
<1> QED
  BY <1>8, <1>11, <1>12 DEF Accounts

\* The price of a boundary is a price of the tape.
LEMMA FundingPricesTyped ==
    ASSUME Typed, NEW boundary \in Int, NEW price \in FundingPrices(boundary)
    PROVE  price \in Int
<1>1. /\ candle.open \in Int /\ candle.low \in Int /\ candle.high \in Int
      /\ candle.close \in Int
  BY DEF Typed, CandleType, Price
<1>2. Follows => next.open \in Int
  BY DEF Typed, CandleType, Price, Follows
<1>3. \A s \in Shapes : s.open \in Int
  BY EngineAssumption DEF Price
<1> QED
  BY <1>1, <1>2, <1>3 DEF FundingPrices

\* What a settlement at this price and rate makes of the position and its trade.
Theoretical(price, rate) ==
    (Sign(position.side) * position.qty * price * rate) \div RateScale

Applied(price, rate) == AppliedFunding(Theoretical(price, rate), position.margin)

Charged(price, rate) ==
    [position EXCEPT
        !.margin = position.margin - Applied(price, rate),
        !.liquidation = LiquidationPrice(position.side, position.entry,
            position.qty, position.margin - Applied(price, rate))]

Billed(boundary, price, rate) ==
    [trade EXCEPT
        !.funding = @ + Applied(price, rate),
        !.settled = @ \cup {boundary},
        !.settlements = Append(@, SettlementRow(trade.id, boundary,
            -Applied(price, rate), -Theoretical(price, rate)))]

\* A settlement liquidates the position, or only changes it and its trade.
LEMMA SettleOutcomes ==
    ASSUME NEW boundary, NEW then, Settle(boundary, then)
    PROVE  \E rate \in Rates, price \in FundingPrices(boundary) :
               \/ /\ decisions' = decisions + 1
                  /\ Exit(Charged(price, rate), Billed(boundary, price, rate),
                          price, FALSE, boundary + 1, decisions + 1,
                          "LIQUIDATION",
                          Append(evidence, DecisionRow(decisions + 1, boundary)),
                          then)
               \/ /\ position' = Charged(price, rate)
                  /\ trade' = Billed(boundary, price, rate)
                  /\ phase' = then
                  /\ UNCHANGED <<cash, realized, decisions, evidence>>
BY DEF Settle, Charged, Billed, Applied, Theoretical

\* It moves money from the margin to the funding cost.
LEMMA SettlementHolds ==
    ASSUME Solvent, position # None, NEW boundary \in Int,
           NEW rate \in Rates, NEW price \in FundingPrices(boundary)
    PROVE  /\ Held(Charged(price, rate), Billed(boundary, price, rate))
           /\ Theoretical(price, rate) \in Int /\ Applied(price, rate) \in Int
           /\ price \in Int
<1> DEFINE theoretical == Theoretical(price, rate)
           applied == Applied(price, rate)
           left == position.margin - applied
           level == LiquidationPrice(position.side, position.entry,
                                     position.qty, left)
           p == Charged(price, rate)
           t == Billed(boundary, price, rate)
<1>1. Held(position, trade)
  BY DEF Solvent, Accounts
<1>2. position \in PositionType
  BY <1>1 DEF Held
<1>3. /\ position.qty \in Nat \ {0} /\ position.entry \in Int
      /\ position.margin \in Nat
  BY <1>2 DEF PositionType, Price
<1>4. price \in Int
  BY FundingPricesTyped DEF Solvent
<1>5. theoretical \in Int
  <2>1. rate \in Int
    BY EngineAssumption
  <2>2. Sign(position.side) * position.qty * price * rate \in Int
    BY <1>3, <1>4, <2>1, SignTwice
  <2> QED
    BY <2>2, EngineAssumption DEF Theoretical
<1> HIDE DEF theoretical
<1>6. applied = AppliedFunding(theoretical, position.margin)
  BY DEF Applied, theoretical
<1> HIDE DEF applied
<1>7. applied \in Int /\ left \in Nat
  BY <1>3, <1>5, <1>6 DEF AppliedFunding, Least
<1>8. position.margin = left + applied
  BY <1>3, <1>7
<1>9. level \in Nat
  BY <1>3, <1>7, LiquidationPriceTyped
<1>10. p = [position EXCEPT !.margin = left, !.liquidation = level]
  BY DEF Charged, applied
<1> HIDE DEF left, level, p
<1>11. p \in PositionType
  BY <1>2, <1>7, <1>9, <1>10 DEF PositionType
<1>12. /\ p.margin = left /\ p.qty = position.qty
       /\ p.entry = position.entry /\ p.side = position.side
  BY <1>2, <1>10 DEF PositionType
<1>13. /\ TradeFields \subseteq DOMAIN t
       /\ t.stop = trade.stop /\ t.take = trade.take
       /\ t.reference = trade.reference /\ t.fee = trade.fee
       /\ t.slippage = trade.slippage /\ t.funding = trade.funding + applied
  BY <1>1 DEF Held, TradeFields, Billed, applied
<1> HIDE DEF t
<1>14. Held(p, t)
  BY <1>1, <1>7, <1>8, <1>11, <1>12, <1>13, EngineAssumption
  DEF Held, Solvent, Accounts
<1> QED
  BY <1>4, <1>5, <1>7, <1>14 DEF p, t, theoretical, applied

\* A settlement keeps the accounts, also one that ends in an exit.
LEMMA SettleKeepsAccounts ==
    ASSUME Solvent, NEW boundary \in Int, NEW then, SettleIfDue(boundary, then)
    PROVE  /\ Accounts' /\ position' \in PositionType \cup {None}
           /\ decisions' \in Nat
<1>1. CASE ~Due(boundary)
  <2>1. UNCHANGED <<cash, position, trade, realized, decisions>>
    BY <1>1 DEF SettleIfDue, books
  <2> QED
    BY <2>1 DEF Solvent, Typed, Accounts, Held
<1>2. CASE Due(boundary)
  <2>1. PICK rate \in Rates, price \in FundingPrices(boundary) :
            \/ /\ decisions' = decisions + 1
               /\ Exit(Charged(price, rate), Billed(boundary, price, rate),
                       price, FALSE, boundary + 1, decisions + 1,
                       "LIQUIDATION",
                       Append(evidence, DecisionRow(decisions + 1, boundary)),
                       then)
            \/ /\ position' = Charged(price, rate)
               /\ trade' = Billed(boundary, price, rate)
               /\ phase' = then
               /\ UNCHANGED <<cash, realized, decisions, evidence>>
    BY <1>2, SettleOutcomes DEF SettleIfDue
  <2> DEFINE p == Charged(price, rate)
             t == Billed(boundary, price, rate)
  <2>2. Held(p, t) /\ price \in Int
    BY <1>2, SettlementHolds DEF Due
  <2>3. decisions \in Nat /\ Accounts
    BY DEF Solvent, Typed
  <2> HIDE DEF p, t
  <2>4. CASE /\ decisions' = decisions + 1
             /\ Exit(p, t, price, FALSE, boundary + 1, decisions + 1,
                     "LIQUIDATION",
                     Append(evidence, DecisionRow(decisions + 1, boundary)), then)
    <3>1. Accounts' /\ position' \in PositionType \cup {None}
      BY <2>2, <2>3, <2>4, ExitKeepsAccounts, Zenon
    <3>2. decisions' \in Nat
      BY <2>3, <2>4
    <3> QED
      BY <3>1, <3>2
  <2>5. CASE /\ position' = p /\ trade' = t
             /\ UNCHANGED <<cash, realized, decisions>>
    BY <2>2, <2>3, <2>5 DEF Accounts, Held
  <2> QED
    BY <2>1, <2>4, <2>5 DEF p, t
<1> QED
  BY <1>1, <1>2

-----------------------------------------------------------------------------
(* Every step keeps the accounts *)

LEMMA InitSolvent == Init => Solvent
<1> SUFFICES ASSUME Init PROVE Solvent
  OBVIOUS
<1>1. PICK s \in Shapes, k \in 0 .. FundingEvery \div Span :
          candle = Candle(s, k * Span)
  BY DEF Init
<1>2. k * Span \in Nat
  BY EngineAssumption
<1>3. candle \in CandleType
  BY <1>1, <1>2, CandleTyped
<1>4. next \in CandleType \cup {None}
  BY <1>3, SuccessorsTyped DEF Init
<1> QED
  BY <1>3, <1>4, EngineAssumption DEF Init, Solvent, Typed, Accounts, CandleType

\* The steps of step_open() and of run() that may close or open a position.
LEMMA SettleStepsSolvent ==
    ASSUME Solvent, SettleAtOpen \/ SettleCrossed
    PROVE  Solvent'
<1>1. UNCHANGED <<candle, next, pending>> /\ cursor' \in Nat
  <2>1. candle.openTime \in Nat /\ cursor \div FundingEvery + 1 \in Nat
    BY EngineAssumption DEF Solvent, Typed, CandleType
  <2>2. NextBoundary(cursor) \in Nat
    BY <2>1, EngineAssumption DEF NextBoundary
  <2> QED
    BY <2>1, <2>2 DEF SettleAtOpen, SettleCrossed, tape
<1>2. PICK boundary \in Int : \E then : SettleIfDue(boundary, then)
  <2>1. candle.openTime \in Int /\ NextBoundary(cursor) \in Int
    BY EngineAssumption DEF Solvent, Typed, CandleType, NextBoundary
  <2> QED
    BY <2>1 DEF SettleAtOpen, SettleCrossed
<1>3. /\ Accounts' /\ position' \in PositionType \cup {None}
      /\ decisions' \in Nat
  BY <1>2, SettleKeepsAccounts
<1> QED
  BY <1>1, <1>3 DEF Solvent, Typed

LEMMA FillOrderSolvent ==
    ASSUME Solvent, FillOrder
    PROVE  Solvent'
<1> DEFINE o == Head(pending)
<1>1. o \in OrderType /\ Tail(pending) \in Seq(OrderType)
  BY DEF Solvent, Typed, FillOrder
<1>2. UNCHANGED <<candle, next, decisions, cursor>> /\ pending' \in Seq(OrderType)
  BY <1>1 DEF FillOrder, tape
<1>3. \/ UNCHANGED <<cash, realized, position, trade>>
      \/ position # None /\ Exit(position, trade, candle.open, FALSE,
                     FillTime(o), o.decision, o.reason, evidence, "orders")
      \/ position = None /\ \E q \in Fitting(o) : OpenTrade(o, q, FillTime(o))
  BY DEF FillOrder, FillExit, FillEntry, Fails
<1> HIDE DEF o
<1>4. Accounts' /\ position' \in PositionType \cup {None}
  <2>1. CASE UNCHANGED <<cash, realized, position, trade>>
    BY <2>1 DEF Solvent, Typed, Accounts, Held
  <2>2. CASE position # None /\ Exit(position, trade, candle.open, FALSE,
                     FillTime(o), o.decision, o.reason, evidence, "orders")
    <3>1. Accounts /\ Held(position, trade) /\ candle.open \in Int
      BY <2>2 DEF Solvent, Typed, Accounts, CandleType, Price
    <3> QED
      BY <2>2, <3>1, ExitKeepsAccounts, Zenon
  <2>3. CASE position = None /\ \E q \in Fitting(o) : OpenTrade(o, q, FillTime(o))
    BY <1>1, <2>3, OpenKeepsAccounts
  <2> QED
    BY <1>3, <2>1, <2>2, <2>3
<1> QED
  BY <1>2, <1>4 DEF Solvent, Typed

\* The level that triggered, and so the price of the fill, is an integer.
LEMMA TriggerReferenceTyped ==
    ASSUME Typed, Triggered, Held(position, trade)
    PROVE  TriggerReference(position, TriggerReason(position)) \in Int
<1> DEFINE reason == TriggerReason(position)
<1>1. position \in PositionType /\ candle.open \in Int
  BY DEF Typed, Triggered, CandleType, Price
<1>2. LiquidationLevel(position) \in Int
  <2>1. /\ position.entry \in Int /\ position.qty \in Nat \ {0}
        /\ position.liquidation \in Int
    BY <1>1 DEF PositionType, Price
  <2>2. Margin(position.entry * position.qty) \in Int
    BY <2>1, EngineAssumption DEF Margin
  <2> QED
    BY <2>1, <2>2, LiquidationPriceTyped DEF LiquidationLevel
<1>3. \/ reason = "LIQUIDATION"
      \/ reason = "STOP_LOSS" /\ trade.stop # None
      \/ reason = "TAKE_PROFIT" /\ trade.take # None
  BY DEF Triggered, TriggerReason, StopHit, TargetHit
<1>4. TriggerLevel(position, reason) \in Int
  BY <1>2, <1>3 DEF TriggerLevel, Held
<1> QED
  BY <1>1, <1>4 DEF TriggerReference

LEMMA WalkTriggersSolvent ==
    ASSUME Solvent, WalkTriggers
    PROVE  Solvent'
<1> DEFINE reason == TriggerReason(position)
           reference == TriggerReference(position, reason)
<1>1. UNCHANGED <<candle, next, cursor, pending>>
  BY DEF WalkTriggers, tape
<1>2. CASE ~Triggered
  <2>1. UNCHANGED <<cash, position, trade, realized, decisions>>
    BY <1>2 DEF WalkTriggers, books
  <2> QED
    BY <1>1, <2>1 DEF Solvent, Typed, Accounts, Held
<1>3. CASE Triggered
  <2>1. Accounts /\ Typed /\ Held(position, trade)
    BY <1>3 DEF Solvent, Accounts, Triggered
  <2>2. reference \in Int
    BY <1>3, <2>1, TriggerReferenceTyped
  <2>3. /\ decisions' = decisions + 1
        /\ Exit(position, trade, reference, GapFilled(position, reason),
                candle.closeTime, decisions + 1, reason,
                Append(evidence, DecisionRow(decisions + 1, candle.openTime)),
                "mark")
    BY <1>3 DEF WalkTriggers
  <2> HIDE DEF reason, reference
  <2>4. Accounts' /\ position' \in PositionType \cup {None}
    BY <2>1, <2>2, <2>3, ExitKeepsAccounts, Zenon
  <2> QED
    BY <1>1, <2>1, <2>3, <2>4 DEF Solvent, Typed
<1> QED
  BY <1>2, <1>3

\* The exits before a missing span and at the end of the data.
LEMMA LastExitsSolvent ==
    ASSUME Solvent, CloseAtDataGap \/ Finalize
    PROVE  Solvent'
<1>1. UNCHANGED <<candle, next, cursor, pending>> /\ decisions' \in Nat
  <2>1. decisions \in Nat
    BY DEF Solvent, Typed
  <2>2. CASE CloseAtDataGap
    <3>1. decisions' = decisions \/ decisions' = decisions + 1
      BY <2>2 DEF CloseAtDataGap
    <3> QED
      BY <2>1, <2>2, <3>1 DEF CloseAtDataGap, tape
  <2>3. CASE Finalize
    BY <2>1, <2>3 DEF Finalize, tape
  <2> QED
    BY <2>2, <2>3
<1>2. \/ UNCHANGED <<cash, realized, position, trade>>
      \/ position # None /\ \E at, decision, reason, log, then :
             Exit(position, trade, candle.close, FALSE, at, decision, reason,
                  log, then)
  <2>1. CASE CloseAtDataGap
    BY <2>1 DEF CloseAtDataGap, Fails, books
  <2>2. CASE Finalize
    BY <2>2 DEF Finalize, books
  <2> QED
    BY <2>1, <2>2
<1>3. CASE UNCHANGED <<cash, realized, position, trade>>
  BY <1>1, <1>3 DEF Solvent, Typed, Accounts, Held
<1>4. CASE position # None /\ \E at, decision, reason, log, then :
             Exit(position, trade, candle.close, FALSE, at, decision, reason,
                  log, then)
  <2>1. Accounts /\ Held(position, trade) /\ candle.close \in Int
    BY <1>4 DEF Solvent, Typed, Accounts, CandleType, Price
  <2>2. PICK at, decision, reason, log, then :
             Exit(position, trade, candle.close, FALSE, at, decision, reason,
                  log, then)
    BY <1>4
  <2>3. Accounts' /\ position' \in PositionType \cup {None}
    BY <2>1, <2>2, ExitKeepsAccounts, Zenon
  <2> QED
    BY <1>1, <2>3 DEF Solvent, Typed
<1> QED
  BY <1>2, <1>3, <1>4

\* An order built from a signal is well formed.
LEMMA OrderTyped ==
    ASSUME Typed, NEW reason \in {None, "SIGNAL_EXIT", "REVERSAL"},
           NEW side \in Sides, NEW qty \in Nat, NEW s \in Protections
    PROVE  Order(reason, side, qty, s) \in OrderType
<1>1. s.stop \in Nat \cup {None} /\ s.take \in Nat \cup {None}
  BY EngineAssumption
<1>2. decisions + 1 \in Nat /\ candle.closeTime \in Nat
  BY DEF Typed, CandleType
<1> QED
  BY <1>1, <1>2 DEF Order, OrderType

\* Deciding moves no money; what it queues is well formed.
LEMMA DecisionsSolvent ==
    ASSUME Solvent, NEW s \in Protections,
           \/ ExitSignal(s) \/ AmbiguousSignal(s)
           \/ \E qty \in 1 .. MaxQty, within \in BOOLEAN :
                  EntrySignal(s, qty, within)
    PROVE  Solvent'
<1>1. ASSUME NEW row, NEW orders \in Seq(OrderType), Decide(row, orders)
      PROVE  Solvent'
  <2>1. /\ UNCHANGED <<candle, next, cursor, cash, position, trade, realized>>
        /\ decisions' = decisions + 1 /\ pending' = pending \o orders
    BY <1>1 DEF Decide, tape, books
  <2>2. pending' \in Seq(OrderType)
    BY <1>1, <2>1 DEF Solvent, Typed
  <2> QED
    BY <2>1, <2>2 DEF Solvent, Typed, Accounts, Held
<1>2. << >> \in Seq(OrderType)
  OBVIOUS
<1>3. ASSUME Skip PROVE Solvent'
  BY <1>1, <1>2, <1>3 DEF Skip
<1>4. ASSUME NEW orders \in Seq(OrderType), Act(orders) PROVE Solvent'
  BY <1>1, <1>4 DEF Act
<1>5. ASSUME position # None, NEW reason \in {"SIGNAL_EXIT", "REVERSAL"}
      PROVE  ExitOrder(reason, s) \in OrderType
  <2>1. position.side \in Sides /\ position.qty \in Nat
    BY <1>5 DEF Solvent, Typed, PositionType
  <2> QED
    BY <2>1, OrderTyped DEF ExitOrder, Solvent
<1>6. CASE ExitSignal(s)
  <2>1. CASE Skip
    BY <1>3, <2>1
  <2>2. CASE position # None /\ Act(<<ExitOrder("SIGNAL_EXIT", s)>>)
    <3> DEFINE orders == <<ExitOrder("SIGNAL_EXIT", s)>>
    <3>1. orders \in Seq(OrderType)
      BY <1>5, <2>2
    <3> HIDE DEF orders
    <3>2. Act(orders)
      BY <2>2 DEF orders
    <3> QED
      BY <1>4, <3>1, <3>2
  <2> QED
    BY <1>6, <2>1, <2>2 DEF ExitSignal
<1>7. CASE AmbiguousSignal(s)
  BY <1>7 DEF AmbiguousSignal, Fails, tape, Solvent, Typed, Accounts, Held
<1>8. ASSUME NEW qty \in 1 .. MaxQty, NEW within \in BOOLEAN,
             EntrySignal(s, qty, within)
      PROVE  Solvent'
  <2> DEFINE entry == Order(None, DerivedSide(s), qty, s)
  <2>1. entry \in OrderType
    <3>1. DerivedSide(s) \in Sides /\ qty \in Nat
      BY DEF DerivedSide, Sides
    <3> QED
      BY <3>1, OrderTyped DEF Solvent
  <2>2. CASE Skip
    BY <1>3, <2>2
  <2>3. CASE Act(<<entry>>)
    <3> DEFINE orders == <<entry>>
    <3>1. orders \in Seq(OrderType)
      BY <2>1
    <3> HIDE DEF orders
    <3>2. Act(orders)
      BY <2>3 DEF orders
    <3> QED
      BY <1>4, <3>1, <3>2
  <2>4. CASE position # None /\ Act(<<ExitOrder("REVERSAL", s), entry>>)
    <3> DEFINE orders == <<ExitOrder("REVERSAL", s), entry>>
    <3>1. orders \in Seq(OrderType)
      BY <1>5, <2>1, <2>4
    <3> HIDE DEF orders
    <3>2. Act(orders)
      BY <2>4 DEF orders
    <3> QED
      BY <1>4, <3>1, <3>2
  <2> QED
    BY <1>8, <2>2, <2>3, <2>4 DEF EntrySignal
<1> QED
  BY <1>6, <1>7, <1>8

\* The remaining steps of the loop.
LEMMA LoopSolvent ==
    ASSUME Solvent,
           \/ OrdersFilled \/ FundingSettled \/ MarkGrid \/ NoSignal
           \/ NextCandle \/ UNCHANGED vars
    PROVE  Solvent'
<1>1. CASE OrdersFilled \/ FundingSettled \/ NoSignal \/ UNCHANGED vars
  <2>1. UNCHANGED <<candle, next, cursor, cash, position, trade, realized,
                    pending, decisions>>
    BY <1>1 DEF OrdersFilled, FundingSettled, NoSignal, vars, tape, books
  <2> QED
    BY <2>1 DEF Solvent, Typed, Accounts, Held
<1>2. CASE MarkGrid
  <2>1. /\ UNCHANGED <<candle, next, cursor, cash, position, realized,
                       pending, decisions>>
        /\ IF position # None
           THEN trade' = [trade EXCEPT
                            !.marks = Append(@, PositionRow(bars, trade.id))]
           ELSE trade' = trade
    BY <1>2 DEF MarkGrid, tape
  <2>2. CASE position = None
    BY <2>1, <2>2 DEF Solvent, Typed, Accounts, Held
  <2>3. CASE position # None
    <3>1. Held(position, trade)
      BY <2>3 DEF Solvent, Accounts
    <3>2. /\ TradeFields \subseteq DOMAIN trade'
          /\ \A f \in TradeFields : trade'[f] = trade[f]
      BY <2>1, <2>3, <3>1 DEF Held, TradeFields
    <3>3. Held(position, trade)'
      BY <2>1, <3>1, <3>2 DEF Held, TradeFields
    <3> QED
      BY <2>1, <3>3 DEF Solvent, Typed, Accounts
  <2> QED
    BY <2>2, <2>3
<1>3. CASE NextCandle
  <2>1. /\ UNCHANGED <<cursor, cash, position, trade, realized, pending, decisions>>
        /\ candle' = next /\ next # None /\ next' \in Successors(next, bars + 1)
    BY <1>3 DEF NextCandle, books
  <2>2. next \in CandleType
    BY <2>1 DEF Solvent, Typed
  <2>3. next' \in CandleType \cup {None}
    BY <2>1, <2>2, SuccessorsTyped
  <2> QED
    BY <2>1, <2>2, <2>3 DEF Solvent, Typed, Accounts, Held
<1> QED
  BY <1>1, <1>2, <1>3

LEMMA StepsSolvent == Solvent /\ [Next]_vars => Solvent'
<1> SUFFICES ASSUME Solvent, [Next]_vars PROVE Solvent'
  OBVIOUS
<1>1. CASE SettleAtOpen \/ SettleCrossed
  BY <1>1, SettleStepsSolvent
<1>2. CASE FillOrder
  BY <1>2, FillOrderSolvent
<1>3. CASE WalkTriggers
  BY <1>3, WalkTriggersSolvent
<1>4. CASE CloseAtDataGap \/ Finalize
  BY <1>4, LastExitsSolvent
<1>5. CASE \E s \in Protections :
              \/ ExitSignal(s) \/ AmbiguousSignal(s)
              \/ \E qty \in 1 .. MaxQty, within \in BOOLEAN :
                     EntrySignal(s, qty, within)
  BY <1>5, DecisionsSolvent
<1>6. CASE \/ OrdersFilled \/ FundingSettled \/ MarkGrid \/ NoSignal
           \/ NextCandle \/ UNCHANGED vars
  BY <1>6, LoopSolvent
<1> QED
  BY <1>1, <1>2, <1>3, <1>4, <1>5, <1>6 DEF Next

\* Whenever the engine is flat, the cash it moved at the fill prices is the
\* initial capital plus the results it reported at the reference prices,
\* whatever the tape, the strategy, the rates and the costs (_complete_trade
\* against _apply_fill and apply_funding).
THEOREM CashFollowsResults == Spec => []CashIsNetOfTrades
<1>1. Solvent => CashIsNetOfTrades
  BY EngineAssumption DEF Solvent, Accounts, Held, CashIsNetOfTrades
<1> QED
  BY <1>1, InitSolvent, StepsSolvent, PTL DEF Spec
=============================================================================
