-------------------------- MODULE MCBacktestEngine --------------------------
(* Small tapes and strategies for TLC. *)
EXTENDS BacktestEngine

Shape(o, h, l, c) == [open |-> o, high |-> h, low |-> l, close |-> c]
Protect(s, t) == [stop |-> s, take |-> t]

Flat == Shape(8, 8, 8, 8)
Rally == Shape(8, 12, 8, 12)
Fall == Shape(8, 8, 5, 5)
Crash == Shape(3, 4, 3, 4)
Whip == Shape(8, 11, 3, 8)
Spike == Shape(13, 13, 12, 12)

ExitAll == Protect(None, None)
Long == Protect(6, None)
LongTarget == Protect(5, 10)
LongWide == Protect(3, None)
Short == Protect(10, None)
ShortTarget == Protect(None, 6)

FundingShapes == {Flat, Fall}
FundingProtections == {ExitAll, Long, Short}
FundingRates == {-1, 1, 4}
TapeShapes == {Flat, Rally, Fall, Crash, Whip, Spike}
TapeProtections == {ExitAll, LongTarget, LongWide, Short, ShortTarget}
ZeroRiskProtections == {Protect(8, None)}
NoFunding == {0}
=============================================================================
