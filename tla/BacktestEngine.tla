--------------------------- MODULE BacktestEngine ---------------------------
(***************************************************************************)
(* services/backtest-service: one Engine.run over a tape of confirmed      *)
(* candles.  Per candle the engine settles the funding boundary of the     *)
(* open, fills the orders queued at the previous close, settles the        *)
(* boundaries crossed by the candle, checks stop, target and liquidation,  *)
(* marks the bar, and lets the strategy queue orders for the next open.    *)
(* A position is closed before a missing span and at the end of the data.  *)
(*                                                                         *)
(* One futures symbol, long or short.  Time counts milliseconds on a       *)
(* compressed axis: Span per candle, funding every FundingEvery.  Prices   *)
(* and amounts are integer units, rates are in RateScale-ths; a fill costs *)
(* the flat Fee and slips by Slip per unit.  The tape and the strategy are *)
(* arbitrary: the next candle is drawn one candle ahead, because the       *)
(* engine asks whether it follows without a gap.                           *)
(***************************************************************************)
EXTENDS Integers, Sequences, FiniteSets, FiniteSetsExt

CONSTANTS
    Shapes,        \* open, high, low and close of a candle
    Protections,   \* stop_loss and take_profit of a TradingSignal
    Rates,         \* funding rates, measured or fallback
    RateScale,     \* the rate 1 is RateScale
    InitialCash,   \* config.initial_capital
    Leverage,      \* signal.leverage
    Maintenance,   \* maintenance_margin_rate, in RateScale-ths
    MaxQty,        \* the largest quantity sizing asks for
    Fee, Slip,     \* fee of a fill, slippage of one unit
    GapFactor,     \* gap_multiplier of a gap-filled exit
    Span,          \* timeframe
    FundingEvery,  \* distance of two funding boundaries
    MaxBars,       \* bound: candles of the evaluation period
    MaxGap,        \* bound: candles missing in one gap
    None           \* absent candle, position, price or decision

Sides == {"long", "short"}

Price == Nat \ {0}

CandleType ==
    [open : Price, high : Price, low : Price, close : Price,
     openTime : Nat, closeTime : Nat]

PositionType ==
    [side : Sides, qty : Nat \ {0}, entry : Price, margin : Nat,
     liquidation : Nat]

\* Why a trade ends; the engine moves no stop behind the price.
ExitReason == {"SIGNAL_EXIT", "REVERSAL", "STOP_LOSS", "TAKE_PROFIT",
               "LIQUIDATION", "DATA_GAP", "END_OF_DATA"}

\* marks and settlements are evidence rows that wait for the TRADE row.
TradeType ==
    [id : Nat, entered : Nat, reference : Price, fee : Nat, slippage : Nat,
     funding : Int, settled : SUBSET Nat,
     settlements : Seq([table : {"FUNDING_SETTLEMENT"}, trade : Nat, at : Nat,
                        payment : Int, theoretical : Int]),
     marks : Seq([table : {"POSITION"}, seq : Nat, trade : Nat]),
     stop : Nat \cup {None}, take : Nat \cup {None}, r0 : Nat \cup {None}]

ASSUME EngineAssumption ==
    /\ Shapes \subseteq [open : Price, high : Price, low : Price, close : Price]
    /\ \A s \in Shapes : /\ s.low <= s.open /\ s.open <= s.high
                         /\ s.low <= s.close /\ s.close <= s.high
    /\ Shapes # {}
    /\ None \notin Nat /\ None \notin CandleType /\ None \notin PositionType
    /\ None \notin TradeType /\ None \notin ExitReason
    /\ Protections \subseteq [stop : Nat \cup {None}, take : Nat \cup {None}]
    /\ Rates \subseteq Int
    /\ RateScale \in Nat \ {0}
    /\ InitialCash \in Nat \ {0}
    /\ Leverage \in Nat \ {0}
    /\ Maintenance \in 0 .. RateScale - 1
    /\ MaxQty \in Nat \ {0}
    /\ Fee \in Nat /\ Slip \in Nat
    /\ GapFactor \in Nat \ {0}
    /\ Span \in Nat /\ Span > 1
    /\ FundingEvery \in Nat /\ FundingEvery > 1
    /\ MaxBars \in Nat \ {0}
    /\ MaxGap \in Nat

VARIABLES
    phase,      \* the step of the candle loop that runs next
    candle,     \* the candle of this turn of the loop (_last_candle)
    next,       \* the candle after it in the history, or None
    bars,       \* turns of the loop so far, _sequence["position"] once marked
    cursor,     \* the funding boundary settlement has reached
    cash,       \* _cash
    position,   \* the one position of _book, or None
    trade,      \* _active_trade with its protections, or None
    pending,    \* orders to fill at the next open
    decisions,  \* _sequence["decision"]
    realized,   \* sum of net_pnl over _trades
    evidence    \* rows recorded so far, in order

vars == <<phase, candle, next, bars, cursor, cash, position, trade, pending,
          decisions, realized, evidence>>
tape == <<candle, next, bars>>
books == <<cash, position, trade, realized>>

Ended == {"finished", "failed", "rejected", "inconsistent"}
-----------------------------------------------------------------------------
(* Evidence rows and lookups over them *)

Rows(table) == {i \in DOMAIN evidence : evidence[i].table = table}

DecisionRow(id, at) == [table |-> "DECISION", id |-> id, ts |-> at]

SkipRow(id, at) == [table |-> "SKIP", id |-> id, ts |-> at]

\* reason is None for an entry, decision for the exit at the end of the data.
ExecutionRow(decision, reason, at) ==
    [table |-> "EXECUTION", decision |-> decision, reason |-> reason, ts |-> at]

PositionRow(seq, id) == [table |-> "POSITION", seq |-> seq, trade |-> id]

SettlementRow(id, at, payment, theoretical) ==
    [table |-> "FUNDING_SETTLEMENT", trade |-> id, at |-> at,
     payment |-> payment, theoretical |-> theoretical]

TradeRow(t, at, reason) ==
    [table |-> "TRADE", id |-> t.id, entered |-> t.entered, exited |-> at,
     reason |-> reason, funding |-> t.funding]
-----------------------------------------------------------------------------
(* Prices and margins *)

Sign(side) == IF side = "long" THEN 1 ELSE -1

NotNegative(n) == IF n < 0 THEN 0 ELSE n

Least(a, b) == IF a <= b THEN a ELSE b

\* Slippage makes every fill worse: entries away from, exits towards the loss.
EntryPrice(side, reference) == reference + Sign(side) * Slip

ExitSlip(gap) == IF gap THEN GapFactor * Slip ELSE Slip

ExitPrice(side, reference, gap) == reference - Sign(side) * ExitSlip(gap)

Margin(notional) == notional \div Leverage

\* Margin, entry fee and the fee of a forced exit must fit the cash.
Affordable(qty, price) == Margin(qty * price) + 2 * Fee <= cash

\* The price at which the margin is down to the maintenance share.
LiquidationPrice(side, entry, qty, margin) ==
    NotNegative(entry - Sign(side) * (margin \div qty
                                      - (entry * Maintenance) \div RateScale))

\* Faulty variant: the level of the entry, whatever funding took since.
LevelAtEntry(p) ==
    LiquidationPrice(p.side, p.entry, p.qty, Margin(p.entry * p.qty))

\* resolve_triggers takes a stored level of zero for "never set".
LiquidationLevel(p) ==
    IF p.liquidation > 0 THEN p.liquidation
    ELSE LiquidationPrice(p.side, p.entry, p.qty, Margin(p.entry * p.qty))

Gain(p, price) == Sign(p.side) * (price - p.entry) * p.qty
-----------------------------------------------------------------------------
(* What a candle does to a position *)

Adverse(side) == IF side = "long" THEN candle.low ELSE candle.high

Favourable(side) == IF side = "long" THEN candle.high ELSE candle.low

\* price a is at or beyond price b in the losing direction of side.
Beyond(side, a, b) == Sign(side) * (b - a) >= 0

StrictlyBeyond(side, a, b) == Sign(side) * (b - a) > 0

StopHit(p) == trade.stop # None /\ Beyond(p.side, Adverse(p.side), trade.stop)

TargetHit(p) ==
    trade.take # None /\ Beyond(p.side, trade.take, Favourable(p.side))

LiquidationHit(p) == Beyond(p.side, Adverse(p.side), LiquidationLevel(p))

\* Faulty variant: the stop is taken to be inside the liquidation price.
NeverInvalid(p) == p # p

\* A stop outside the liquidation price is a configuration error.
StopInvalid(p) == StrictlyBeyond(p.side, trade.stop, LiquidationLevel(p))

\* The conservative precedence of resolve_triggers.
TriggerReason(p) ==
    IF StopHit(p) THEN IF LiquidationHit(p) /\ StopInvalid(p)
                       THEN "LIQUIDATION" ELSE "STOP_LOSS"
    ELSE IF LiquidationHit(p) THEN "LIQUIDATION"
    ELSE IF TargetHit(p) THEN "TAKE_PROFIT"
    ELSE None

\* A position is not checked against the candle it was filled in.
Checked == candle.openTime > trade.entered

TriggerLevel(p, reason) ==
    CASE reason = "LIQUIDATION" -> LiquidationLevel(p)
      [] reason = "STOP_LOSS" -> trade.stop
      [] reason = "TAKE_PROFIT" -> trade.take

\* Did the candle open past the level already?  For a target, in its favour.
GapFilled(p, reason) ==
    IF reason = "TAKE_PROFIT"
    THEN StrictlyBeyond(p.side, trade.take, candle.open)
    ELSE StrictlyBeyond(p.side, candle.open, TriggerLevel(p, reason))

\* A gap fills at the open, except that a liquidation keeps its level.
TriggerReference(p, reason) ==
    IF GapFilled(p, reason) /\ reason # "LIQUIDATION" THEN candle.open
    ELSE TriggerLevel(p, reason)
-----------------------------------------------------------------------------
(* Fills: _apply_fill and _complete_trade *)

\* An exception leaves run(): the evidence file is never finalized.
Fails(outcome, p, t, log) ==
    /\ phase' = outcome
    /\ position' = p /\ trade' = t /\ evidence' = log
    /\ UNCHANGED <<cash, realized>>

Costs(p, t, gap) == (t.fee + Fee) + (t.slippage + ExitSlip(gap) * p.qty)

\* Faulty variant: funding stays out of the net result.
NetBeforeFunding(p, t, reference, gap) ==
    Sign(p.side) * (reference - t.reference) * p.qty - Costs(p, t, gap)

\* gross_pnl is taken at the reference prices; the costs are taken off it.
NetPnl(p, t, reference, gap) ==
    Sign(p.side) * (reference - t.reference) * p.qty
        - Costs(p, t, gap) - t.funding

Recovered(p, price) == p.margin + Gain(p, price)

\* Faulty variant: the balance is not checked.
AlwaysPayable(balance) == balance = balance

\* _checked_cash
Payable(balance) == balance >= 0

\* Faulty variant: the buffered POSITION rows are dropped with the trade.
FlushedWithoutMarks(t, at, reason) ==
    <<TradeRow(t, at, reason)>> \o t.settlements

Flushed(t, at, reason) ==
    <<TradeRow(t, at, reason)>> \o t.marks \o t.settlements

\* A reduce-only fill of the whole position, and the trade it completes.  The
\* TRADE table refuses r0 = 0.
Exit(p, t, reference, gap, at, decision, reason, log, then) ==
    LET price == ExitPrice(p.side, reference, gap)
        balance == cash + Recovered(p, price) - Fee
        executed == Append(log, ExecutionRow(decision, reason, at))
    IN  IF price <= 0 THEN Fails("failed", p, t, log)
        ELSE IF ~Payable(balance) THEN Fails("failed", p, t, executed)
        ELSE /\ cash' = balance
             /\ position' = None /\ trade' = None
             /\ realized' = realized + NetPnl(p, t, reference, gap)
             /\ IF t.r0 = 0
                THEN phase' = "rejected" /\ evidence' = executed
                ELSE /\ phase' = then
                     /\ evidence' = executed \o Flushed(t, at, reason)

InitialRisk(stop, reference, qty) ==
    IF stop = None THEN None
    ELSE (IF stop < reference THEN reference - stop ELSE stop - reference) * qty

\* The position is priced at the fill, the protections are the signal's.
OpenTrade(o, qty, at) ==
    LET price == EntryPrice(o.side, candle.open)
        margin == Margin(qty * price)
    IN  /\ cash' = cash - margin - Fee
        /\ position' = [side |-> o.side, qty |-> qty, entry |-> price,
                        margin |-> margin,
                        liquidation |->
                            LiquidationPrice(o.side, price, qty, margin)]
        /\ trade' = [id |-> Cardinality(Rows("TRADE")) + 1, entered |-> at,
                     reference |-> candle.open,
                     fee |-> Fee, slippage |-> Slip * qty, funding |-> 0,
                     settled |-> {}, settlements |-> <<>>, marks |-> <<>>,
                     stop |-> o.stop, take |-> o.take,
                     r0 |-> InitialRisk(o.stop, candle.open, qty)]
        /\ phase' = "orders"
        /\ evidence' =
               Append(evidence, ExecutionRow(o.decision, None, at))
        /\ UNCHANGED realized
-----------------------------------------------------------------------------
(* Funding: _settle_at_boundary *)

NextBoundary(at) == FundingEvery * (at \div FundingEvery + 1)

\* Faulty variant: a boundary is both the close and the next open.
DueAgain(boundary) ==
    /\ boundary % FundingEvery = 0
    /\ position # None
    /\ trade.entered < boundary

\* Not charged: an entry at or after the boundary, a boundary already settled.
Due(boundary) ==
    /\ boundary % FundingEvery = 0
    /\ position # None
    /\ trade.entered < boundary
    /\ boundary \notin trade.settled

Follows == next # None /\ next.openTime = candle.closeTime

\* The open of the minute at the boundary; without one, the previous close.
FundingPrices(boundary) ==
    IF boundary = candle.openTime THEN {candle.open}
    ELSE IF boundary < candle.closeTime THEN candle.low .. candle.high
    ELSE IF Follows THEN {next.open}
    ELSE {candle.close} \cup {s.open : s \in Shapes}

AppliedFunding(theoretical, margin) ==
    IF theoretical > 0 THEN Least(theoretical, margin) ELSE theoretical

\* A payment that takes the last of the margin liquidates the position.
Settle(boundary, then) ==
    \E rate \in Rates, price \in FundingPrices(boundary) :
        LET theoretical ==
                (Sign(position.side) * position.qty * price * rate) \div RateScale
            applied == AppliedFunding(theoretical, position.margin)
            left == position.margin - applied
            p == [position EXCEPT
                     !.margin = left,
                     !.liquidation = LiquidationPrice(position.side,
                         position.entry, position.qty, left)]
            t == [trade EXCEPT
                     !.funding = @ + applied,
                     !.settled = @ \cup {boundary},
                     !.settlements = Append(@, SettlementRow(trade.id, boundary,
                                                -applied, -theoretical))]
        IN  IF theoretical > 0 /\ left = 0
            THEN /\ decisions' = decisions + 1
                 /\ Exit(p, t, price, FALSE, boundary + 1, decisions + 1,
                         "LIQUIDATION",
                         Append(evidence, DecisionRow(decisions + 1, boundary)),
                         then)
            ELSE /\ position' = p /\ trade' = t
                 /\ phase' = then
                 /\ UNCHANGED <<cash, realized, decisions, evidence>>

SettleIfDue(boundary, then) ==
    IF Due(boundary) THEN Settle(boundary, then)
    ELSE phase' = then /\ UNCHANGED <<books, decisions, evidence>>
-----------------------------------------------------------------------------
(* The candle loop *)

Candle(shape, at) ==
    [open |-> shape.open, high |-> shape.high, low |-> shape.low,
     close |-> shape.close, openTime |-> at, closeTime |-> at + Span]

\* The rest of the tape: the end, the adjacent candle, or one behind a gap.
Successors(c, n) ==
    {None} \cup
    IF n = MaxBars THEN {}
    ELSE {Candle(s, c.closeTime + g * Span) : s \in Shapes, g \in 0 .. MaxGap}

Init ==
    /\ phase = "open"
    /\ \E s \in Shapes, k \in 0 .. FundingEvery \div Span :
           candle = Candle(s, k * Span)
    /\ next \in Successors(candle, 1)
    /\ bars = 1
    /\ cursor = candle.openTime
    /\ cash = InitialCash
    /\ position = None /\ trade = None
    /\ pending = <<>>
    /\ decisions = 0
    /\ realized = 0
    /\ evidence = <<>>

\* step_open, first the boundary at the open.
SettleAtOpen ==
    /\ phase = "open"
    /\ cursor' = candle.openTime
    /\ SettleIfDue(candle.openTime, "orders")
    /\ UNCHANGED <<tape, pending>>

FillTime(o) ==
    IF candle.openTime > o.decided THEN candle.openTime ELSE o.decided + 1

FillExit(o) ==
    IF position = None THEN Fails("inconsistent", position, trade, evidence)
    ELSE Exit(position, trade, candle.open, FALSE, FillTime(o), o.decision,
              o.reason, evidence, "orders")

Fitting(o) ==
    LET price == EntryPrice(o.side, candle.open)
    IN  {q \in 1 .. o.qty : price > 0 /\ Affordable(q, price)}

\* The largest quantity that fits; a second position is a broken book.
FillEntry(o) ==
    IF position # None THEN Fails("inconsistent", position, trade, evidence)
    ELSE IF Fitting(o) = {} THEN Fails("failed", position, trade, evidence)
    ELSE \E q \in Fitting(o) : /\ \A other \in Fitting(o) : other <= q
                               /\ OpenTrade(o, q, FillTime(o))

\* Then the carried orders, each decided at the close this candle opens on.
FillOrder ==
    /\ phase = "orders"
    /\ pending # <<>>
    /\ LET o == Head(pending)
       IN  IF o.decided # candle.openTime \/ o.decided >= FillTime(o)
           THEN Fails("inconsistent", position, trade, evidence)
           ELSE IF o.reason # None THEN FillExit(o) ELSE FillEntry(o)
    /\ pending' = Tail(pending)
    /\ UNCHANGED <<tape, cursor, decisions>>

OrdersFilled ==
    /\ phase = "orders"
    /\ pending = <<>>
    /\ phase' = "funding"
    /\ UNCHANGED <<tape, cursor, books, pending, decisions, evidence>>

Crossed(boundary) == boundary <= candle.closeTime

\* Then every boundary up to and including the close.
SettleCrossed ==
    /\ phase = "funding"
    /\ Crossed(NextBoundary(cursor))
    /\ cursor' = NextBoundary(cursor)
    /\ SettleIfDue(NextBoundary(cursor), "funding")
    /\ UNCHANGED <<tape, pending>>

FundingSettled ==
    /\ phase = "funding"
    /\ ~Crossed(NextBoundary(cursor))
    /\ phase' = "triggers"
    /\ UNCHANGED <<tape, cursor, books, pending, decisions, evidence>>

Triggered ==
    /\ position # None
    /\ Checked
    /\ TriggerReason(position) # None

\* Then stop, target and liquidation, over the whole candle.
WalkTriggers ==
    /\ phase = "triggers"
    /\ IF ~Triggered
       THEN phase' = "mark" /\ UNCHANGED <<books, decisions, evidence>>
       ELSE LET reason == TriggerReason(position)
            IN  /\ decisions' = decisions + 1
                /\ Exit(position, trade, TriggerReference(position, reason),
                        GapFilled(position, reason), candle.closeTime,
                        decisions + 1, reason,
                        Append(evidence,
                               DecisionRow(decisions + 1, candle.openTime)),
                        "mark")
    /\ UNCHANGED <<tape, cursor, pending>>

\* Faulty variant: the row of a held bar is recorded at once.
MarkAtOnce ==
    /\ phase = "mark"
    /\ phase' = "analyze"
    /\ evidence' = Append(evidence, PositionRow(bars,
                        IF position = None THEN None ELSE trade.id))
    /\ UNCHANGED <<tape, cursor, books, pending, decisions>>

\* step_close: the POSITION row of a held bar waits for its TRADE row.
MarkGrid ==
    /\ phase = "mark"
    /\ phase' = "analyze"
    /\ IF position # None
       THEN /\ trade' = [trade EXCEPT
                            !.marks = Append(@, PositionRow(bars, trade.id))]
            /\ UNCHANGED evidence
       ELSE /\ evidence' = Append(evidence, PositionRow(bars, None))
            /\ UNCHANGED trade
    /\ UNCHANGED <<tape, cursor, cash, position, realized, pending, decisions>>

Gap == next # None /\ next.openTime # candle.closeTime

Analyzed == phase' = IF Gap THEN "gap" ELSE "turn"

NoSignal ==
    /\ phase = "analyze"
    /\ Analyzed
    /\ UNCHANGED <<tape, cursor, books, pending, decisions, evidence>>

\* Faulty variant: any later candle will do.
PlannableLater == next # None

\* May an order decided now be filled at the next open?
Plannable == Follows

Decide(row, orders) ==
    /\ decisions' = decisions + 1
    /\ evidence' = Append(evidence, row)
    /\ pending' = pending \o orders
    /\ Analyzed
    /\ UNCHANGED <<tape, cursor, books>>

Order(reason, side, qty, s) ==
    [reason |-> reason, decision |-> decisions + 1,
     decided |-> candle.closeTime, side |-> side, qty |-> qty,
     stop |-> s.stop, take |-> s.take]

ExitOrder(reason, s) == Order(reason, position.side, position.qty, s)

Skip == Decide(SkipRow(decisions + 1, candle.closeTime), <<>>)

Act(orders) == Decide(DecisionRow(decisions + 1, candle.closeTime), orders)

IsExit(s) == s.stop = None /\ s.take = None

ExitSignal(s) ==
    /\ phase = "analyze"
    /\ IsExit(s)
    /\ IF position = None \/ ~Plannable THEN Skip
       ELSE Act(<<ExitOrder("SIGNAL_EXIT", s)>>)

\* _derive_intent at the price of the signal, the close of its candle.
DerivedSide(s) ==
    IF s.stop # None THEN IF s.stop < candle.close THEN "long" ELSE "short"
    ELSE IF s.take > candle.close THEN "long" ELSE "short"

\* A protection at the price of the signal is refused; _size and the
\* exposure limits leave some quantity, or none.
EntrySignal(s, qty, within) ==
    /\ phase = "analyze"
    /\ ~IsExit(s)
    /\ candle.close # IF s.stop # None THEN s.stop ELSE s.take
    /\ LET side == DerivedSide(s)
           entry == Order(None, side, qty, s)
       IN  IF position # None /\ position.side = side THEN Skip
           ELSE IF ~within \/ ~Plannable THEN Skip
           ELSE IF position = None THEN Act(<<entry>>)
           ELSE Act(<<ExitOrder("REVERSAL", s), entry>>)

AmbiguousSignal(s) ==
    /\ phase = "analyze"
    /\ ~IsExit(s)
    /\ candle.close = IF s.stop # None THEN s.stop ELSE s.take
    /\ Fails("failed", position, trade, evidence)
    /\ UNCHANGED <<tape, cursor, pending, decisions>>

\* Faulty variant: the exit is stamped at the candle behind the gap.
GapExitAtNextOpen == next.openTime

GapExitTime == candle.closeTime + 1

\* Faulty variant: the position is held over the gap.
HoldAcrossGap ==
    /\ phase = "gap"
    /\ phase' = "turn"
    /\ UNCHANGED <<tape, cursor, books, pending, decisions, evidence>>

\* The position is closed at the last price before the missing span.
CloseAtDataGap ==
    /\ phase = "gap"
    /\ IF pending # <<>>
       THEN /\ Fails("inconsistent", position, trade, evidence)
            /\ UNCHANGED decisions
       ELSE IF position = None
       THEN phase' = "turn" /\ UNCHANGED <<books, decisions, evidence>>
       ELSE /\ decisions' = decisions + 1
            /\ Exit(position, trade, candle.close, FALSE, GapExitTime,
                    decisions + 1, "DATA_GAP",
                    Append(evidence,
                           DecisionRow(decisions + 1, candle.closeTime)),
                    "turn")
    /\ UNCHANGED <<tape, cursor, pending>>

NextCandle ==
    /\ phase = "turn"
    /\ next # None
    /\ candle' = next
    /\ bars' = bars + 1
    /\ next' \in Successors(next, bars + 1)
    /\ phase' = "open"
    /\ UNCHANGED <<cursor, books, pending, decisions, evidence>>

Finalize ==
    /\ phase = "turn"
    /\ next = None
    /\ IF position = None
       THEN phase' = "finished" /\ UNCHANGED <<books, evidence>>
       ELSE Exit(position, trade, candle.close, FALSE, candle.closeTime + 1,
                 None, "END_OF_DATA", evidence, "finished")
    /\ UNCHANGED <<tape, cursor, pending, decisions>>

Next ==
    \/ SettleAtOpen \/ FillOrder \/ OrdersFilled
    \/ SettleCrossed \/ FundingSettled \/ WalkTriggers
    \/ MarkGrid \/ NoSignal
    \/ \E s \in Protections : ExitSignal(s) \/ AmbiguousSignal(s)
    \/ \E s \in Protections, qty \in 1 .. MaxQty, within \in BOOLEAN :
           EntrySignal(s, qty, within)
    \/ CloseAtDataGap \/ NextCandle \/ Finalize

Spec == Init /\ [][Next]_vars
-----------------------------------------------------------------------------
(* Properties *)

Phases == {"open", "orders", "funding", "triggers", "mark", "analyze", "gap",
           "turn"} \cup Ended

(* The books keep their types: cash is never negative (_checked_cash), and a
   position exists exactly while a trade is active. *)
TypeOK ==
    /\ phase \in Phases
    /\ candle \in CandleType /\ next \in CandleType \cup {None}
    /\ bars \in 1 .. MaxBars /\ cursor \in Nat
    /\ cash \in Nat /\ realized \in Int /\ decisions \in Nat
    /\ position \in PositionType \cup {None}
    /\ trade \in TradeType \cup {None}
    /\ position = None <=> trade = None

(* _funding_failures, the cost_once part of the audit that judges a run: every
   completed trade settled each boundary in (entry, exit] exactly once, its
   rows add up to its funding cost, and a capped payment is its last act. *)
FundingAuditClean ==
    \A i \in Rows("TRADE") :
        LET t == evidence[i]
            rows == {j \in Rows("FUNDING_SETTLEMENT") : evidence[j].trade = t.id}
            expected == {b \in t.entered + 1 .. t.exited : b % FundingEvery = 0}
        IN  /\ {evidence[j].at : j \in rows} = expected
            /\ Cardinality(rows) = Cardinality(expected)
            /\ MapThenSumSet(LAMBDA j : -evidence[j].payment, rows) = t.funding
            /\ \A j \in rows :
                   evidence[j].payment # evidence[j].theoretical =>
                       /\ evidence[j].payment > evidence[j].theoretical
                       /\ t.reason = "LIQUIDATION"
                       /\ t.exited = evidence[j].at + 1

(* The timestamp_order part of the audit: a fill comes after its decision and
   within one timeframe of it, and only END_OF_DATA has no decision.  Lag is
   what an order carried over a missing candle would show. *)
TimingAuditClean ==
    \A i \in Rows("EXECUTION") :
        LET e == evidence[i]
        IN  IF e.decision = None THEN e.reason = "END_OF_DATA"
            ELSE \E j \in Rows("DECISION") :
                     /\ evidence[j].id = e.decision
                     /\ evidence[j].ts < e.ts
                     /\ e.ts <= evidence[j].ts + Span

(* The evidence_complete part of the audit on a finished run: every decision
   to act was executed, and every bar has its POSITION row, in order, although
   the rows of held bars are buffered until the trade completes. *)
EvidenceComplete ==
    phase = "finished" =>
        /\ \A i \in Rows("DECISION") :
               \E j \in Rows("EXECUTION") :
                   evidence[j].decision = evidence[i].id
        /\ {evidence[i].seq : i \in Rows("POSITION")} = 1 .. bars
        /\ \A i, j \in Rows("POSITION") :
               i < j => evidence[i].seq < evidence[j].seq

(* The foreign keys, which SQLite checks at every insert: a row that names a
   trade comes after the TRADE row, although the trade is recorded last. *)
ReferencesResolve ==
    \A i \in Rows("POSITION") \cup Rows("FUNDING_SETTLEMENT") :
        evidence[i].trade # None =>
            \E j \in Rows("TRADE") :
                j < i /\ evidence[j].id = evidence[i].trade

(* Conservation: whenever the engine is flat, the cash it moved at the fill
   prices, through margins, fees and funding, is the initial capital plus the
   net results it reported at the reference prices. *)
CashIsNetOfTrades == position = None => cash = InitialCash + realized

(* The run() and step_open() guards against an inconsistent loop never fire:
   no order is carried over a missing candle or filled early, no reduce-only
   fill meets a flat book, no entry meets a position. *)
NoInconsistency == phase # "inconsistent"

(* Once the triggers of a candle were walked, a position is still held only if
   the candle stayed strictly inside its protections, with the liquidation
   price as the funding of the same candle left it. *)
SurvivorsStayInside ==
    (/\ phase \in {"mark", "analyze", "gap", "turn"}
     /\ position # None
     /\ candle.openTime > trade.entered) =>
        LET worst == IF position.side = "long" THEN candle.low ELSE candle.high
            best == IF position.side = "long" THEN candle.high ELSE candle.low
            d == Sign(position.side)
        IN  /\ trade.stop # None => d * worst > d * trade.stop
            /\ trade.take # None => d * best < d * trade.take
            /\ position.liquidation > 0 => d * worst > d * position.liquidation

(* What holds of the books and of the audited rows after every step. *)
EngineInv ==
    TypeOK /\ FundingAuditClean /\ SurvivorsStayInside /\ CashIsNetOfTrades

(* The point of an isolated margin, and of the precedence of the triggers: an
   exit by stop or liquidation costs no more than the margin and the slippage,
   except when the candle opened beyond the liquidation price already. *)
OnlyAJumpTakesMoreThanTheMargin ==
    [][phase = "triggers" /\ position # None /\ position' = None =>
           \/ cash' + Fee + GapFactor * Slip * position.qty >= cash
           \/ StrictlyBeyond(position.side, candle.open,
                             LiquidationLevel(position))]_vars

(* Nothing is held or queued across a missing span: when the loop turns to a
   candle that does not follow, the book is flat and no order is pending. *)
NoExposureAcrossGap ==
    [][candle' # candle /\ candle'.openTime # candle.closeTime
           => position' = None /\ pending' = <<>>]_vars
-----------------------------------------------------------------------------
(* Statements of the documents and of the code that the engine does not keep *)

(* detailed_design.md:2688 has the initial protective stop re-anchored to the
   fill price, which keeps it on the losing side of the entry. *)
StopProtectsEntry ==
    position # None /\ trade.stop # None =>
        StrictlyBeyond(position.side, trade.stop, position.entry)

(* types/trade.py:72 allows r0 = 0 and the engine counts such trades. *)
ZeroRiskTradeRecorded == phase # "rejected"
=============================================================================
