---------------------------- MODULE CandleStore ----------------------------
(***************************************************************************)
(* What the signal service sees of the collector: the clock and the table  *)
(* public.ohlcv_futures of crypto_data, one row per minute of one symbol,  *)
(* together with the pure aggregation of minutes into strategy candles     *)
(* (core_lib.candles), which every reader of the table goes through.  A    *)
(* minute is named by its open time; the minute `now` is the one in        *)
(* progress, every earlier one is closed.  A candle is named by the open   *)
(* time of its bucket.  The values of a row are not promised: Collector    *)
(* shows when they are not the final ones.                                 *)
(***************************************************************************)
EXTENDS Integers, FiniteSets, SequencesExt

CONSTANTS
    Horizon,   \* the clock stops there: the bound of the model
    Now0,      \* the minute in progress when the model starts
    Gaps0      \* the closed minutes that are missing from the table then

ASSUME StoreAssumption ==
    /\ Now0 \in Nat /\ Horizon \in Nat /\ Now0 <= Horizon
    /\ Gaps0 \subseteq 0 .. Now0 - 1

VARIABLES
    now,       \* the minute in progress
    stored     \* the minutes the table has a row of

Minutes == 0 .. Horizon

StoreInit ==
    /\ now = Now0
    /\ stored = {m \in Minutes : m < Now0 /\ m \notin Gaps0}

Tick ==
    /\ now < Horizon
    /\ now' = now + 1
    /\ UNCHANGED stored

\* What a reader of the table relies on: the rows of closed minutes appear, in
\* any order, and none is removed afterwards.
MinutesArrive ==
    \E arriving \in SUBSET {m \in Minutes : m < now /\ m \notin stored} :
        /\ stored' = stored \cup arriving
        /\ UNCHANGED now

StoreNext == Tick \/ MinutesArrive

StoreSpec == StoreInit /\ [][StoreNext]_<<now, stored>>

\* (For a mutation: a bucket with a missing minute passes.)
IncompleteBuckets(span, after, boundary) ==
    {open \in after .. boundary :
        /\ open % span = 0
        /\ open + span <= boundary
        /\ open .. open + span - 1 \cap stored # {}}

\* resample_confirmed_ohlcv over the rows of [after, boundary): the buckets
\* that are over at the boundary and have every one of their minutes.
CompleteBuckets(span, after, boundary) ==
    {open \in after .. boundary :
        /\ open % span = 0
        /\ open + span <= boundary
        /\ open .. open + span - 1 \subseteq stored}

\* Candles in the order of their open times, as every reader sorts them.
InOrder(opens) ==
    [i \in 1 .. Cardinality(opens) |->
        CHOOSE c \in opens : Cardinality({d \in opens : d < c}) = i - 1]
============================================================================
