---------------------------- MODULE MCCollector ----------------------------
EXTENDS Collector

\* Backfills over the whole range, over the latest minutes alone, and of
\* funding settlements.
Backfills == {[kind |-> "ohlcv", start |-> 1, end |-> 7],
              [kind |-> "ohlcv", start |-> 5, end |-> 8],
              [kind |-> "funding", start |-> 0, end |-> 7]}
============================================================================
