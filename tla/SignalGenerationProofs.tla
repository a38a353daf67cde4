----------------------- MODULE SignalGenerationProofs -----------------------
(***************************************************************************)
(* The invariants of SignalGeneration for every timeframe, warm-up, table, *)
(* number of faults and number of restarts.                                *)
(*                                                                         *)
(* None of the properties is inductive.  That a candle is judged once      *)
(* needs that the cursor of the session lies behind every judgement, that  *)
(* a re-warm finds a candle after the last judged one still in the table   *)
(* (rows stay, so the buckets it was started for stay whole), and what the *)
(* call in progress is about to judge; that a signal is stored in order    *)
(* needs the same of the table of signals across processes.  That the      *)
(* other series is complete at a judgement needs that what failed calls    *)
(* gave its state beyond the cursor is whole and lies before the close of  *)
(* the candle that is taken up again, so that the retry reads it.          *)
(* SignalIInv has a part for each: the table, the memory of the process,   *)
(* the cursors between calls, the target of the call in progress and how   *)
(* far it is.                                                              *)
(* The lemmas on sequences come first: InOrder, the sort of every reader,  *)
(* is the enumeration of a finite set by rank.                             *)
(***************************************************************************)
EXTENDS SignalGeneration, TLAPS, FiniteSetTheorems, SequenceTheorems

\* The number of elements of S before c.
Rank(S, c) == Cardinality({d \in S : d < c})

LEMMA RankIsMonotone ==
    ASSUME NEW S \in SUBSET Int, IsFiniteSet(S), NEW c \in S, NEW d \in S
    PROVE  /\ Rank(S, c) \in 0 .. Cardinality(S) - 1
           /\ c < d <=> Rank(S, c) < Rank(S, d)
<1>1. ASSUME NEW a \in S, NEW b \in S, a < b
      PROVE  Rank(S, a) < Rank(S, b)
  <2> DEFINE A == {e \in S : e < a}
             B == {e \in S : e < b}
  <2>1. A \subseteq B /\ A # B
    <3>1. a \in B /\ a \notin A
      BY <1>1
    <3>2. ASSUME NEW e \in A
          PROVE  e \in B
      <4>1. e \in Int /\ a \in Int /\ b \in Int /\ e < a
        OBVIOUS
      <4> QED
        BY <1>1, <4>1
    <3> QED
      BY <3>1, <3>2
  <2>2. IsFiniteSet(B)
    BY FS_Subset
  <2>3. IsFiniteSet(A) /\ Cardinality(A) <= Cardinality(B) /\ Cardinality(A) # Cardinality(B)
    <3> HIDE DEF A, B
    <3> QED
      BY <2>1, <2>2, FS_Subset
  <2>4. Cardinality(A) \in Nat /\ Cardinality(B) \in Nat
    BY <2>2, <2>3, FS_CardinalityType
  <2> QED
    BY <2>3, <2>4 DEF Rank
<1>2. \A a \in S : Rank(S, a) \in 0 .. Cardinality(S) - 1
  <2>1. TAKE a \in S
  <2> DEFINE A == {e \in S : e < a}
  <2>2. A \subseteq S /\ A # S
    OBVIOUS
  <2>3. IsFiniteSet(A) /\ Cardinality(A) <= Cardinality(S) /\ Cardinality(A) # Cardinality(S)
    <3> HIDE DEF A
    <3> QED
      BY <2>2, FS_Subset
  <2>4. Cardinality(A) \in Nat /\ Cardinality(S) \in Nat
    BY <2>3, FS_CardinalityType
  <2> QED
    BY <2>3, <2>4 DEF Rank
<1>3. Rank(S, c) \in Int /\ Rank(S, d) \in Int
  BY <1>2
<1>4. c < d => Rank(S, c) < Rank(S, d)
  BY <1>1
<1>5. d < c => Rank(S, d) < Rank(S, c)
  BY <1>1
<1> QED
  BY <1>2, <1>3, <1>4, <1>5

\* Every rank is taken.
LEMMA RankIsOnto ==
    ASSUME NEW S \in SUBSET Int, IsFiniteSet(S), NEW r \in 0 .. Cardinality(S) - 1
    PROVE  \E c \in S : Rank(S, c) = r
<1> DEFINE n == Cardinality(S)
           f == [c \in S |-> Rank(S, c)]
<1>1. n \in Nat
  BY FS_CardinalityType
<1>2. f \in [S -> 0 .. n - 1]
  BY RankIsMonotone
<1>3. \A c, d \in S : Rank(S, c) = Rank(S, d) => c = d
  <2>1. TAKE c, d \in S
  <2>2. /\ c < d <=> Rank(S, c) < Rank(S, d)
        /\ d < c <=> Rank(S, d) < Rank(S, c)
        /\ Rank(S, c) \in Int /\ Rank(S, d) \in Int
    BY RankIsMonotone
  <2>3. c \in Int /\ d \in Int
    OBVIOUS
  <2> QED
    BY <2>2, <2>3
<1>4. f \in Injection(S, 0 .. n - 1)
  BY <1>2, <1>3 DEF Injection, IsInjective
<1>5. IsFiniteSet(0 .. n - 1) /\ Cardinality(0 .. n - 1) = n
  <2> HIDE DEF n
  <2> QED
    BY <1>1, FS_Interval
<1>6. f \in Surjection(S, 0 .. n - 1)
  <2> HIDE DEF f
  <2> QED
    BY <1>4, <1>5, FS_Injection
<1> QED
  BY <1>6 DEF Surjection

\* A sequence in strictly increasing order.
Sorted(s) == \A i, j \in 1 .. Len(s) : i < j => s[i] < s[j]

LEMMA InOrderIsSorted ==
    ASSUME NEW S \in SUBSET Int, IsFiniteSet(S)
    PROVE  /\ InOrder(S) \in Seq(S)
           /\ Sorted(InOrder(S))
           /\ \A c \in S : \E i \in 1 .. Len(InOrder(S)) : InOrder(S)[i] = c
<1> DEFINE n == Cardinality(S)
           s == InOrder(S)
           at(i) == CHOOSE c \in S : Rank(S, c) = i - 1
<1>1. n \in Nat
  BY FS_CardinalityType
<1>2. s = [i \in 1 .. n |-> at(i)]
  BY DEF InOrder, Rank
<1>3. ASSUME NEW i \in 1 .. n
      PROVE  at(i) \in S /\ Rank(S, at(i)) = i - 1
  <2>1. i - 1 \in 0 .. n - 1
    BY <1>1
  <2>2. \E c \in S : Rank(S, c) = i - 1
    BY <2>1, RankIsOnto
  <2> QED
    BY <2>2
<1>4. s \in Seq(S) /\ Len(s) = n
  <2> HIDE DEF at, n
  <2>1. s \in [1 .. n -> S]
    BY <1>2, <1>3
  <2> HIDE DEF s
  <2> QED
    BY <1>1, <2>1
<1>5. \A i \in 1 .. n : s[i] \in S /\ Rank(S, s[i]) = i - 1
  <2> HIDE DEF at, n
  <2> QED
    BY <1>2, <1>3
<1> HIDE DEF s, n, at
<1>6. Sorted(s)
  <2>1. SUFFICES ASSUME NEW i \in 1 .. n, NEW j \in 1 .. n, i < j
                 PROVE  s[i] < s[j]
    BY <1>4 DEF Sorted
  <2>2. i - 1 < j - 1
    BY <1>1, <2>1
  <2>3. Rank(S, s[i]) < Rank(S, s[j]) /\ s[i] \in S /\ s[j] \in S
    BY <1>5, <2>2
  <2> QED
    BY <2>3, RankIsMonotone
<1>7. ASSUME NEW c \in S
      PROVE  \E i \in 1 .. n : s[i] = c
  <2> DEFINE i == Rank(S, c) + 1
  <2>1. Rank(S, c) \in 0 .. n - 1
    BY RankIsMonotone DEF n
  <2>2. i \in 1 .. n /\ i - 1 = Rank(S, c)
    BY <1>1, <2>1
  <2>3. s[i] \in S /\ Rank(S, s[i]) = Rank(S, c)
    <3> HIDE DEF i
    <3> QED
      BY <1>5, <2>2
  <2>4. /\ c < s[i] <=> Rank(S, c) < Rank(S, s[i])
        /\ s[i] < c <=> Rank(S, s[i]) < Rank(S, c)
    <3> HIDE DEF i
    <3> QED
      BY <2>3, RankIsMonotone
  <2>5. s[i] = c
    <3>1. s[i] \in Int /\ c \in Int
      BY <2>3
    <3>2. Rank(S, c) \in Int
      BY <2>1, <1>1
    <3> HIDE DEF i
    <3> QED
      BY <2>3, <2>4, <3>1, <3>2
  <2> QED
    BY <2>2, <2>5
<1> QED
  BY <1>4, <1>6, <1>7 DEF s

-----------------------------------------------------------------------------
(* The inductive invariant.                                                *)

\* The fields and the types of the records, which TypeOK does not list.
Fields ==
    /\ DOMAIN runner = {"pc", "polled"}
    /\ DOMAIN service = {"config", "confirmed", "state", "series", "seriesLast",
                         "paired", "lastClose", "reported"}
    /\ DOMAIN call = {"step", "op", "at", "candle", "history"}

\* A bucket of a timeframe whose minutes are over and stored.
Whole(span, c) ==
    /\ c \in Nat /\ c % span = 0 /\ c + span <= now
    /\ c .. c + span - 1 \subseteq stored

\* Everything in the sequence lies before the candle.
AllBefore(s, c) == \A i \in 1 .. Len(s) : s[i] < c

\* The table of signals.
SignalTable ==
    /\ Sorted(signals)
    /\ \A i \in 1 .. Len(signals) : Whole(Span, signals[i])

\* The steps back in a sequence, and the one that is due when its last element
\* is not the one the cursor stands on.
StepsOf(s) == {i \in 1 .. Len(s) - 1 : s[i] >= s[i + 1]}
Due(s, cursor) == IF s # <<>> /\ Last(s) # cursor THEN 1 ELSE 0
Steps(s, cursor) == Cardinality(StepsOf(s)) + Due(s, cursor)

\* The memory of the candles judged, and of what the session has confirmed and
\* given to the other streams.
SessionMemory ==
    /\ Sorted(judged) /\ Sorted(service.paired)
    /\ Steps(service.series, service.seriesLast) <= faults
    /\ GapsAreReported
    /\ runner.pc = "new" => /\ service = Cleared /\ judged = <<>>
                            /\ call.step = "none"

\* The state of the other series has been given everything up to its cursor, and
\* beyond it only whole candles that are over at a boundary.
SeriesKept(boundary) ==
    /\ service.series # <<>> /\ Whole(SeriesSpan, service.seriesLast)
    /\ Last(service.series) >= service.seriesLast
    /\ \A i \in 1 .. Len(service.series) :
          service.series[i] > service.seriesLast =>
             /\ Whole(SeriesSpan, service.series[i])
             /\ service.series[i] + SeriesSpan <= boundary

\* Between calls: a session that has judged a candle stands behind it, and the
\* next candle it may judge opens at its last close.
SessionCursor ==
    service.lastClose # Never =>
        /\ service.config
        /\ AllBefore(signals, service.lastClose)
        /\ AllBefore(judged, service.lastClose)
        /\ service.confirmed # <<>>
        /\ Last(service.confirmed) \in {service.lastClose - Span, service.lastClose}
        /\ service.paired # <<>> /\ Last(service.paired) <= service.lastClose
        /\ SeriesKept(service.lastClose + Span)
        /\ call.step = "read" => service.seriesLast + SeriesSpan <= call.at

Early == {"read", "warm"}
Late == {"seed", "advance", "pair", "judge", "store"}

\* What a call in progress is about to do.
CallTarget ==
    /\ call.step # "none" => call.at <= now
    /\ call.step = "read" => call.op = "poll"
    /\ call.step \in {"warm", "seed"} => call.op \in {"start", "rewarm"}
    /\ call.step \in Early =>
          \A i \in 1 .. Len(signals) : CloseOf(signals[i]) <= call.at
    /\ call.step = "warm" /\ judged # <<>> =>
          \E c \in CompleteBuckets(Span, 0, call.at) : AllBefore(judged, c)
    /\ call.step \in Late =>
          /\ Whole(Span, call.candle) /\ CloseOf(call.candle) <= call.at
          /\ \A i \in 1 .. Len(signals) : signals[i] <= call.candle
    /\ call.step \in Late \ {"store"} => AllBefore(judged, call.candle)
    /\ call.step \in {"warm", "seed", "advance", "pair", "judge"} =>
          service.lastClose = IF call.op = "poll" THEN call.candle ELSE Never
    /\ call.step = "store" => service.lastClose = CloseOf(call.candle)

\* ... and nothing beyond it.
SeriesComplete ==
    /\ Last(service.series) = service.seriesLast
    /\ \A i \in 1 .. Len(service.series) : service.series[i] <= service.seriesLast

\* The candles between two candles.
Skipped(c, d) == {e \in Candles : c < e /\ e < d}

\* How far the other memories are when the candle of the call is processed.
CallProgress ==
    /\ call.step \in {"seed", "advance"} =>
          /\ service.confirmed # <<>> /\ service.config
          /\ Skipped(Last(service.confirmed), call.candle) \subseteq missing
    /\ call.step \in {"pair", "judge"} =>
          /\ service.confirmed # <<>> /\ service.config
          /\ Last(service.confirmed) = call.candle
    /\ call.step \in {"advance", "pair", "judge"} =>
          /\ service.paired # <<>> /\ Last(service.paired) <= call.candle
          /\ SeriesKept(CloseOf(call.candle))
          /\ service.seriesLast + SeriesSpan <= call.at
          /\ SeriesSpan % Span = 0 /\ call.op = "poll" =>
                service.seriesLast + SeriesSpan <= CloseOf(call.candle)
    /\ call.step \in {"pair", "judge"} => SeriesComplete

SignalIInv ==
    /\ TypeOK /\ Fields
    /\ SignalTable /\ SessionMemory /\ SessionCursor
    /\ CallTarget /\ CallProgress

-----------------------------------------------------------------------------
(* Sequences of candles.                                                   *)

LEMMA SortedIsIncreasing ==
    ASSUME NEW S, NEW s \in Seq(S), Sorted(s)
    PROVE  Increasing(s)
<1>1. Len(s) \in Nat
  BY LenProperties
<1> QED
  BY <1>1 DEF Sorted, Increasing

LEMMA LastIsHighest ==
    ASSUME NEW S \in SUBSET Int, NEW s \in Seq(S), Sorted(s), s # <<>>
    PROVE  /\ Len(s) \in 1 .. Len(s) /\ Last(s) \in S
           /\ \A i \in 1 .. Len(s) : s[i] <= Last(s)
<1>1. Len(s) \in Nat \ {0}
  BY EmptySeq
<1>2. \A i \in 1 .. Len(s) : s[i] \in S
  BY ElementOfSeq
<1>3. Len(s) \in 1 .. Len(s) /\ s[Len(s)] \in S
  BY <1>1, <1>2
<1>4. ASSUME NEW i \in 1 .. Len(s)
      PROVE  s[i] <= s[Len(s)]
  <2>1. i < Len(s) \/ i = Len(s)
    BY <1>1
  <2>2. s[i] \in Int /\ s[Len(s)] \in Int
    BY <1>2, <1>3
  <2>3. i < Len(s) => s[i] < s[Len(s)]
    BY <1>3 DEF Sorted
  <2> QED
    BY <2>1, <2>2, <2>3
<1> QED
  BY <1>3, <1>4 DEF Last

LEMMA SortedAppend ==
    ASSUME NEW S \in SUBSET Int, NEW s \in Seq(S), NEW e \in S,
           Sorted(s), \A i \in 1 .. Len(s) : s[i] < e
    PROVE  Sorted(Append(s, e))
<1>1. /\ Len(s) \in Nat /\ Len(Append(s, e)) = Len(s) + 1
      /\ \A i \in 1 .. Len(s) : Append(s, e)[i] = s[i]
      /\ Append(s, e)[Len(s) + 1] = e
  BY AppendProperties, LenProperties
<1> DEFINE t == Append(s, e)
<1> SUFFICES ASSUME NEW i \in 1 .. Len(s) + 1, NEW j \in 1 .. Len(s) + 1, i < j
             PROVE  t[i] < t[j]
  BY <1>1 DEF Sorted
<1>2. i \in 1 .. Len(s) /\ t[i] = s[i]
  BY <1>1
<1>3. CASE j = Len(s) + 1
  BY <1>1, <1>2, <1>3
<1>4. CASE j # Len(s) + 1
  <2>1. j \in 1 .. Len(s) /\ t[j] = s[j]
    BY <1>1, <1>4
  <2> QED
    BY <1>2, <2>1 DEF Sorted
<1> QED
  BY <1>3, <1>4

\* Positions behind the first n, counted from there.
LEMMA PositionBehind ==
    ASSUME NEW n \in Nat, NEW m \in Nat, NEW i \in Nat, i > n, i <= n + m
    PROVE  \E j \in 1 .. m : i = n + j
<1>1. i - n \in 1 .. m /\ i = n + (i - n)
  OBVIOUS
<1> QED
  BY <1>1

\* t is s followed by the first elements of r, which lie beyond a cursor.
Extends(t, s, r, given) ==
    /\ Len(t) = Len(s) + given
    /\ \A i \in 1 .. Len(s) : t[i] = s[i]
    /\ \A j \in 1 .. given : t[Len(s) + j] = r[j]
AllAfter(r, cursor) == \A j \in 1 .. Len(r) : r[j] > cursor

\* A step back is made where the elements that are added begin, and only if the
\* last element lies beyond the cursor.
LEMMA StepsOfMore ==
    ASSUME NEW s \in Seq(Nat), s # <<>>, NEW cursor \in Nat, Last(s) >= cursor,
           NEW r \in Seq(Nat), Sorted(r), AllAfter(r, cursor),
           NEW given \in 0 .. Len(r), NEW t \in Seq(Nat), Extends(t, s, r, given)
    PROVE  /\ Cardinality(StepsOf(t)) \in Nat
           /\ Cardinality(StepsOf(t))
                <= Cardinality(StepsOf(s)) + (IF given = 0 THEN 0 ELSE Due(s, cursor))
<1>1. /\ Len(s) \in Nat \ {0}
      /\ \A i \in 1 .. Len(s) : s[i] \in Nat
      /\ \A j \in 1 .. Len(r) : r[j] \in Nat
      /\ \A i \in 1 .. Len(t) : t[i] \in Nat
  BY EmptySeq, LenProperties, ElementOfSeq
<1>0. Len(s) \in Nat /\ Len(s) # 0 /\ Len(r) \in Nat /\ given \in Nat /\ given <= Len(r)
  <2>1. Len(r) \in Nat
    BY LenProperties
  <2> QED
    BY <1>1, <2>1
<1>5. /\ \A i \in 1 .. Len(s) : t[i] = s[i]
      /\ \A j \in 1 .. given : t[Len(s) + j] = r[j]
  BY DEF Extends
<1>9. Last(s) \in Nat /\ Last(s) = s[Len(s)]
  BY <1>1 DEF Last
<1>11. /\ IsFiniteSet(StepsOf(s)) /\ Cardinality(StepsOf(s)) \in Nat
  <2>1. IsFiniteSet(1 .. Len(s) - 1)
    BY <1>1, FS_Interval
  <2>2. StepsOf(s) \in SUBSET (1 .. Len(s) - 1)
    BY DEF StepsOf
  <2> QED
    BY <2>1, <2>2, FS_Subset, FS_CardinalityType
<1>12. Cardinality(StepsOf(t)) \in Nat
       /\ Cardinality(StepsOf(t))
            <= Cardinality(StepsOf(s)) + (IF given = 0 THEN 0 ELSE Due(s, cursor))
  <2>1. ASSUME NEW i \in StepsOf(t)
        PROVE  i \in StepsOf(s) \/ (i = Len(s) /\ given # 0 /\ Last(s) # cursor)
    <3>0. i \in 1 .. Len(s) + given - 1 /\ i \in Nat
      <4>1. i \in 1 .. Len(t) - 1 /\ Len(t) = Len(s) + given
        BY DEF StepsOf, Extends
      <4> QED
        BY <4>1
    <3>1. t[i] \in Nat /\ t[i + 1] \in Nat /\ t[i] >= t[i + 1]
      <4>1. i \in 1 .. Len(t) - 1 /\ Len(t) \in Nat
        BY LenProperties DEF StepsOf
      <4>2. i \in 1 .. Len(t) /\ i + 1 \in 1 .. Len(t)
        BY <4>1
      <4>3. t[i] >= t[i + 1]
        BY DEF StepsOf
      <4> QED
        BY <1>1, <4>2, <4>3
    <3>2. CASE i < Len(s)
      <4>1. i \in 1 .. Len(s) /\ i + 1 \in 1 .. Len(s) /\ i \in 1 .. Len(s) - 1
        BY <1>0, <3>0, <3>2
      <4>2. s[i] >= s[i + 1]
        BY <1>5, <3>1, <4>1
      <4> QED
        BY <4>1, <4>2 DEF StepsOf
    <3>3. CASE i = Len(s)
      <4>1. given # 0 /\ 1 \in 1 .. given /\ 1 \in 1 .. Len(r) /\ Len(s) \in 1 .. Len(s)
        BY <1>0, <3>0, <3>3
      <4>2. t[i] = s[Len(s)] /\ t[i + 1] = r[1]
        BY <1>5, <3>3, <4>1
      <4>3. r[1] > cursor /\ r[1] \in Nat
        BY <1>1, <4>1 DEF AllAfter
      <4> QED
        BY <1>9, <3>1, <3>3, <4>2, <4>3, <4>1
    <3>4. CASE i > Len(s)
      <4>0. i \in Nat /\ i > Len(s) /\ i <= Len(s) + given /\ i + 1 <= Len(s) + given
        BY <1>0, <3>0, <3>4
      <4>6. PICK j \in 1 .. given : i = Len(s) + j
        BY <1>0, <4>0, PositionBehind
      <4>1. /\ j \in Nat /\ j + 1 \in 1 .. given /\ j < j + 1
            /\ i = Len(s) + j /\ i + 1 = Len(s) + (j + 1)
        BY <1>0, <4>0, <4>6
      <4>5. j \in 1 .. Len(r) /\ j + 1 \in 1 .. Len(r)
        BY <1>0, <4>1
      <4>2. t[i] = r[j] /\ t[i + 1] = r[j + 1] /\ r[j] \in Nat /\ r[j + 1] \in Nat
        BY <1>1, <1>5, <4>1, <4>5
      <4>3. r[j] < r[j + 1]
        BY <4>1, <4>5 DEF Sorted
      <4> QED
        BY <3>1, <4>2, <4>3
    <3> QED
      BY <1>0, <3>0, <3>2, <3>3, <3>4
  <2>2. CASE given = 0 \/ Last(s) = cursor
    <3>1. StepsOf(t) \in SUBSET StepsOf(s)
      BY <2>1, <2>2
    <3>2. IsFiniteSet(StepsOf(t)) /\ Cardinality(StepsOf(t)) <= Cardinality(StepsOf(s))
      BY <1>11, <3>1, FS_Subset
    <3>3. Cardinality(StepsOf(t)) \in Nat
      BY <3>2, FS_CardinalityType
    <3> QED
      BY <1>11, <2>2, <3>2, <3>3 DEF Due
  <2>3. CASE given # 0 /\ Last(s) # cursor
    <3> DEFINE more == StepsOf(s) \cup {Len(s)}
    <3>1. IsFiniteSet(more) /\ Cardinality(more) <= Cardinality(StepsOf(s)) + 1
          /\ Cardinality(more) \in Nat
      <4>1. /\ IsFiniteSet(more)
            /\ Cardinality(more) \in {Cardinality(StepsOf(s)), Cardinality(StepsOf(s)) + 1}
        BY <1>11, FS_AddElement
      <4> HIDE DEF more
      <4> QED
        BY <1>11, <4>1
    <3>2. StepsOf(t) \in SUBSET more
      BY <2>1
    <3>3. IsFiniteSet(StepsOf(t)) /\ Cardinality(StepsOf(t)) <= Cardinality(more)
      <4> HIDE DEF more
      <4> QED
        BY <3>1, <3>2, FS_Subset
    <3>4. Cardinality(StepsOf(t)) \in Nat
      BY <3>3, FS_CardinalityType
    <3>5. Due(s, cursor) = 1
      BY <2>3 DEF Due
    <3> HIDE DEF more
    <3> QED
      BY <1>11, <2>3, <3>1, <3>3, <3>4, <3>5
  <2> QED
    BY <2>2, <2>3
<1> QED
  BY <1>12

\* A state that has been given the first candles of a read, and its cursor.
Grown(s, r, given) == s \o SubSeq(r, 1, given)
CursorAfter(cursor, r, moved) == IF moved = 0 THEN cursor ELSE r[moved]

\* What a state is given from a read, with the cursor behind by one or not: a
\* step back is due after it only if the cursor is behind, and one is made only
\* if it was due.
LEMMA GivenSteps ==
    ASSUME NEW s \in Seq(Nat), s # <<>>, NEW cursor \in Nat, Last(s) >= cursor,
           NEW r \in Seq(Nat), Sorted(r), AllAfter(r, cursor),
           NEW given \in 0 .. Len(r), NEW moved \in Nat, moved \in {given - 1, given}
    PROVE  /\ Grown(s, r, given) \in Seq(Nat) /\ Grown(s, r, given) # <<>>
           /\ Last(Grown(s, r, given)) >= CursorAfter(cursor, r, moved)
           /\ CursorAfter(cursor, r, moved) \in Nat /\ CursorAfter(cursor, r, moved) >= cursor
           /\ Extends(Grown(s, r, given), s, r, given)
           /\ Last(Grown(s, r, given)) = IF given = 0 THEN Last(s) ELSE r[given]
           /\ Steps(Grown(s, r, given), CursorAfter(cursor, r, moved))
                <= Steps(s, cursor) + (given - moved)
           /\ Steps(Grown(s, r, given), CursorAfter(cursor, r, moved)) \in Nat
           /\ Steps(s, cursor) \in Nat
<1> DEFINE t == Grown(s, r, given)
           last == CursorAfter(cursor, r, moved)
<1>1. /\ Len(s) \in Nat \ {0} /\ Len(r) \in Nat /\ given \in Nat
      /\ \A i \in 1 .. Len(s) : s[i] \in Nat
      /\ \A j \in 1 .. Len(r) : r[j] \in Nat
  BY EmptySeq, LenProperties, ElementOfSeq
<1>0. Len(s) \in Nat /\ Len(s) # 0 /\ Len(r) \in Nat /\ given \in Nat /\ given <= Len(r)
  BY <1>1
<1> DEFINE u == SubSeq(r, 1, given)
<1>2. /\ u \in Seq(Nat) /\ Len(u) = given
      /\ \A j \in 1 .. given : u[j] = r[j]
  <2>1. \A j \in 1 .. given : r[j] \in Nat
    BY <1>1
  <2>2. /\ u \in Seq(Nat)
        /\ Len(u) = IF 1 <= given THEN given - 1 + 1 ELSE 0
        /\ \A j \in 1 .. given - 1 + 1 : u[j] = r[1 + j - 1]
    BY <1>1, <2>1, SubSeqProperties
  <2> HIDE DEF u
  <2>3. Len(u) = given
    BY <1>1, <2>2
  <2>4. \A j \in 1 .. given : j \in 1 .. given - 1 + 1 /\ 1 + j - 1 = j
    BY <1>1
  <2> QED
    BY <2>2, <2>3, <2>4
<1>3. t = s \o u /\ last = IF moved = 0 THEN cursor ELSE r[moved]
  BY DEF Grown, CursorAfter
<1> HIDE DEF u, t, last
<1>4. /\ t \in Seq(Nat) /\ Len(t) = Len(s) + given
      /\ \A i \in 1 .. Len(s) + given :
            t[i] = IF i <= Len(s) THEN s[i] ELSE u[i - Len(s)]
  <2> DEFINE c == s \o u
  <2>1. /\ c \in Seq(Nat) /\ Len(c) = Len(s) + Len(u)
        /\ \A i \in 1 .. Len(s) + Len(u) :
              c[i] = IF i <= Len(s) THEN s[i] ELSE u[i - Len(s)]
    BY <1>2, ConcatProperties
  <2>2. t = c
    BY <1>3
  <2> HIDE DEF c
  <2> QED
    BY <1>2, <2>1, <2>2
<1>5. /\ \A i \in 1 .. Len(s) : t[i] = s[i]
      /\ \A j \in 1 .. given : t[Len(s) + j] = r[j]
  <2>1. \A i \in 1 .. Len(s) : i \in 1 .. Len(s) + given /\ i <= Len(s)
    BY <1>1
  <2>2. \A j \in 1 .. given : /\ Len(s) + j \in 1 .. Len(s) + given
                              /\ ~ (Len(s) + j <= Len(s)) /\ Len(s) + j - Len(s) = j
    BY <1>1
  <2>3. ASSUME NEW i \in 1 .. Len(s)  PROVE t[i] = s[i]
    BY <1>4, <2>1
  <2>4. ASSUME NEW j \in 1 .. given  PROVE t[Len(s) + j] = r[j]
    <3>1. Len(s) + j \in 1 .. Len(s) + given /\ ~ (Len(s) + j <= Len(s))
          /\ Len(s) + j - Len(s) = j
      BY <1>0
    <3>2. ASSUME NEW i \in 1 .. Len(s) + given, ~ (i <= Len(s))
          PROVE  t[i] = u[i - Len(s)]
      BY <1>4, <3>2
    <3>3. u[j] = r[j]
      BY <1>2
    <3> QED
      BY <3>1, <3>2, <3>3
  <2> QED
    BY <2>3, <2>4
<1>6. t # <<>> /\ Last(t) = IF given = 0 THEN Last(s) ELSE r[given]
  <2>1. t # <<>>
    BY <1>1, <1>4, EmptySeq
  <2>2. CASE given = 0
    <3>1. Len(t) = Len(s) /\ Len(s) \in 1 .. Len(s)
      BY <1>1, <1>4, <2>2
    <3> QED
      BY <1>5, <2>1, <2>2, <3>1 DEF Last
  <2>3. CASE given # 0
    <3>1. given \in 1 .. given
      BY <1>1, <2>3
    <3>2. t[Len(s) + given] = r[given]
      BY <1>5, <3>1
    <3> QED
      BY <1>4, <2>1, <2>3, <3>2 DEF Last
  <2> QED
    BY <2>2, <2>3
<1>7. /\ moved <= given /\ given - moved \in {0, 1}
      /\ moved # 0 => moved \in 1 .. Len(r)
      /\ given # 0 => given \in 1 .. Len(r)
  BY <1>1
<1>8. /\ last \in Nat /\ last >= cursor
  <2>1. CASE moved = 0
    BY <1>3, <2>1
  <2>2. CASE moved # 0
    <3>1. moved \in 1 .. Len(r) /\ last = r[moved]
      BY <1>3, <1>7, <2>2
    <3>2. r[moved] \in Nat /\ r[moved] > cursor
      BY <1>1, <3>1 DEF AllAfter
    <3> QED
      BY <3>1, <3>2
  <2> QED
    BY <2>1, <2>2
<1>9. Last(s) \in Nat /\ Last(s) = s[Len(s)]
  BY <1>1 DEF Last
<1>10. Last(t) >= last
  <2>1. CASE given = 0
    BY <1>3, <1>6, <1>7, <2>1
  <2>2. CASE given # 0 /\ moved = 0
    <3>1. r[given] \in Nat /\ r[given] > cursor
      BY <1>1, <1>7, <2>2 DEF AllAfter
    <3> QED
      BY <1>3, <1>6, <2>2, <3>1
  <2>3. CASE given # 0 /\ moved = given
    BY <1>1, <1>3, <1>6, <1>7, <2>3
  <2>4. CASE given # 0 /\ moved # 0 /\ moved # given
    <3>1. /\ moved \in 1 .. Len(r) /\ given \in 1 .. Len(r) /\ moved < given
      BY <1>1, <1>7, <2>4
    <3>2. r[moved] < r[given]
      BY <3>1 DEF Sorted
    <3>3. r[moved] \in Nat /\ r[given] \in Nat
      BY <1>1, <3>1
    <3> QED
      BY <1>3, <1>6, <2>4, <3>2, <3>3
  <2> QED
    BY <2>1, <2>2, <2>3, <2>4
<1>11. /\ IsFiniteSet(StepsOf(s)) /\ Cardinality(StepsOf(s)) \in Nat
  <2>1. IsFiniteSet(1 .. Len(s) - 1)
    BY <1>1, FS_Interval
  <2>2. StepsOf(s) \in SUBSET (1 .. Len(s) - 1)
    BY DEF StepsOf
  <2> QED
    BY <2>1, <2>2, FS_Subset, FS_CardinalityType
<1>16. Extends(t, s, r, given)
  BY <1>4, <1>5 DEF Extends
<1>12. Cardinality(StepsOf(t)) \in Nat
       /\ Cardinality(StepsOf(t))
            <= Cardinality(StepsOf(s)) + (IF given = 0 THEN 0 ELSE Due(s, cursor))
  BY <1>4, <1>16, StepsOfMore
<1>13. Due(t, last) <= (IF given = 0 THEN Due(s, cursor) ELSE 0) + (given - moved)
  <2>1. CASE given = 0
    <3>1. moved = 0 /\ last = cursor /\ Last(t) = Last(s)
      BY <1>3, <1>6, <1>7, <2>1
    <3> QED
      BY <1>6, <2>1, <3>1 DEF Due
  <2>2. CASE given # 0 /\ moved = given
    BY <1>1, <1>3, <1>6, <1>7, <2>2 DEF Due
  <2>3. CASE given # 0 /\ moved # given
    BY <1>7, <2>3 DEF Due
  <2> QED
    BY <2>1, <2>2, <2>3
<1>14. Due(s, cursor) \in {0, 1} /\ Due(t, last) \in {0, 1}
  BY DEF Due
<1>15. /\ Steps(t, last) <= Steps(s, cursor) + (given - moved)
       /\ Steps(t, last) \in Nat /\ Steps(s, cursor) \in Nat
  <2> DEFINE a == Cardinality(StepsOf(s))
             b == Cardinality(StepsOf(t))
             c == Due(s, cursor)
             d == Due(t, last)
  <2>1. /\ a \in Nat /\ b \in Nat /\ c \in {0, 1} /\ d \in {0, 1}
        /\ b <= a + (IF given = 0 THEN 0 ELSE c)
        /\ d <= (IF given = 0 THEN c ELSE 0) + (given - moved)
    BY <1>11, <1>12, <1>13, <1>14
  <2> HIDE DEF a, b, c, d
  <2>2. given - moved \in {0, 1}
    BY <1>7
  <2>3. b + d <= a + c + (given - moved) /\ b + d \in Nat /\ a + c \in Nat
    BY <2>1, <2>2
  <2> QED
    BY <2>3 DEF Steps, a, b, c, d
<1> QED
  BY <1>4, <1>6, <1>8, <1>10, <1>15, <1>16 DEF t, last

\* The window of the last candles, and the window without its last one.
LEMMA WindowOf ==
    ASSUME NEW S \in SUBSET Int, NEW s \in Seq(S), Sorted(s), NEW n \in 1 .. Len(s)
    PROVE  /\ LastOf(s, n) \in Seq(S) /\ Len(LastOf(s, n)) = n /\ Sorted(LastOf(s, n))
           /\ Last(LastOf(s, n)) = Last(s)
           /\ \A i \in 1 .. n : \E j \in 1 .. Len(s) : LastOf(s, n)[i] = s[j]
<1> DEFINE w == LastOf(s, n)
           m == Len(s) - n + 1
<1>1. Len(s) \in Nat /\ m \in Int /\ m >= 1 /\ m <= Len(s) /\ Len(s) - m + 1 = n
  BY LenProperties
<1>2. \A i \in m .. Len(s) : s[i] \in S
  BY <1>1, ElementOfSeq
<1> HIDE DEF m
<1>3. /\ SubSeq(s, m, Len(s)) \in Seq(S)
      /\ Len(SubSeq(s, m, Len(s))) = Len(s) - m + 1
      /\ \A i \in 1 .. Len(s) - m + 1 : SubSeq(s, m, Len(s))[i] = s[m + i - 1]
  BY <1>1, <1>2, SubSeqProperties
<1>4. /\ w \in Seq(S) /\ Len(w) = n
      /\ \A i \in 1 .. n : w[i] = s[m + i - 1]
  BY <1>1, <1>3 DEF LastOf, m
<1> HIDE DEF w
<1>5. \A i \in 1 .. n : m + i - 1 \in 1 .. Len(s)
  BY <1>1
<1>6. Sorted(w)
  <2>1. SUFFICES ASSUME NEW i \in 1 .. n, NEW j \in 1 .. n, i < j
                 PROVE  s[m + i - 1] < s[m + j - 1]
    BY <1>4 DEF Sorted
  <2>2. m + i - 1 < m + j - 1
    BY <1>1, <2>1
  <2> QED
    BY <1>5, <2>2 DEF Sorted
<1>7. w[n] = s[Len(s)]
  <2>1. n \in 1 .. n /\ m + n - 1 = Len(s)
    BY <1>1
  <2> QED
    BY <1>4, <2>1
<1> QED
  BY <1>4, <1>5, <1>6, <1>7 DEF Last, w

LEMMA FrontOf ==
    ASSUME NEW S, NEW w \in Seq(S), Len(w) >= 2
    PROVE  /\ Front(w) \in Seq(S) /\ Len(Front(w)) = Len(w) - 1 /\ Front(w) # <<>>
           /\ \A i \in 1 .. Len(w) - 1 : Front(w)[i] = w[i]
           /\ Last(Front(w)) = w[Len(w) - 1] /\ Last(w) \in S
<1>1. Len(w) \in Nat
  BY LenProperties
<1>2. \A i \in 1 .. Len(w) - 1 : w[i] \in S
  BY <1>1, ElementOfSeq
<1>3. /\ Front(w) \in Seq(S) /\ Len(Front(w)) = Len(w) - 1
      /\ \A i \in 1 .. Len(w) - 1 : Front(w)[i] = w[i]
  <2>1. /\ SubSeq(w, 1, Len(w) - 1) \in Seq(S)
        /\ Len(SubSeq(w, 1, Len(w) - 1)) = Len(w) - 1 - 1 + 1
        /\ \A i \in 1 .. Len(w) - 1 - 1 + 1 : SubSeq(w, 1, Len(w) - 1)[i] = w[1 + i - 1]
    BY <1>1, <1>2, SubSeqProperties
  <2> QED
    BY <1>1, <2>1 DEF Front
<1>4. Len(w) - 1 \in 1 .. Len(w) - 1 /\ Len(w) \in 1 .. Len(w)
  BY <1>1
<1> QED
  BY <1>1, <1>3, <1>4, EmptySeq, ElementOfSeq DEF Last

LEMMA MinutesAreIntegers ==
    /\ Minutes \subseteq Nat /\ 0 \in Minutes /\ Minutes \subseteq 0 .. Horizon + 1
    /\ IsFiniteSet(Minutes)
    /\ Candles \subseteq Minutes /\ 0 \in Candles
<1>1. 0 % Span = 0
  BY SignalAssumption
<1> QED
  BY <1>1, FS_Interval, StoreAssumption DEF Minutes, Candles

LEMMA MinuteSequences ==
    ASSUME NEW s \in Seq(Minutes)
    PROVE  s \in Seq(Nat) /\ Minutes \in SUBSET Int
<1>1. Minutes \subseteq Nat
  BY MinutesAreIntegers
<1>2. Seq(Minutes) \subseteq Seq(Nat)
  BY <1>1, SeqMonotonic
<1> QED
  BY <1>1, <1>2

LEMMA ElementsAreMinutes ==
    ASSUME NEW s, s \in Seq(Candles) \/ s \in Seq(Minutes)
    PROVE  /\ Len(s) \in Nat /\ s \in Seq(Minutes)
           /\ \A i \in 1 .. Len(s) : s[i] \in Minutes /\ s[i] \in Nat
           /\ s # <<>> => Len(s) \in 1 .. Len(s) /\ Last(s) \in Minutes /\ Last(s) \in Nat
<1>1. s \in Seq(Minutes)
  BY MinutesAreIntegers, SeqMonotonic
<1>2. Len(s) \in Nat /\ \A i \in 1 .. Len(s) : s[i] \in Minutes
  BY <1>1, LenProperties, ElementOfSeq
<1>3. s # <<>> => Len(s) \in 1 .. Len(s)
  <2>1. s # <<>> => Len(s) \in Nat \ {0}
    BY <1>1, EmptySeq
  <2> QED
    BY <2>1
<1> QED
  BY <1>1, <1>2, <1>3, MinutesAreIntegers DEF Last

\* What a read up to a boundary returns: the whole candles between, in order
\* (candles, candles_after and the sort of every reader).
WholeCandlesOf(s, span, after, boundary) ==
    /\ s \in Seq({c \in Minutes : c % span = 0}) /\ Sorted(s)
    /\ \A i \in 1 .. Len(s) :
          /\ s[i] \in Minutes /\ s[i] >= after /\ s[i] + span <= boundary
          /\ Whole(span, s[i]) /\ s[i] \in CompleteBuckets(span, after, boundary)
    /\ \A c \in CompleteBuckets(span, after, boundary) :
          \E i \in 1 .. Len(s) : s[i] = c

LEMMA ReadsWholeCandles ==
    ASSUME now \in Minutes, NEW span \in Nat \ {0}, NEW after \in Nat,
           NEW boundary \in Minutes, boundary <= now
    PROVE  WholeCandlesOf(InOrder(CompleteBuckets(span, after, boundary)),
                          span, after, boundary)
<1> DEFINE B == CompleteBuckets(span, after, boundary)
           s == InOrder(B)
<1>1. now \in Nat /\ boundary \in Nat /\ now <= Horizon
  BY StoreAssumption DEF Minutes
<1>2. \A c \in B : /\ c \in Nat /\ c \in Minutes /\ c >= after /\ c + span <= boundary
                   /\ c % span = 0 /\ Whole(span, c)
  BY <1>1, StoreAssumption DEF CompleteBuckets, Whole, Minutes
<1> HIDE DEF B, s
<1>3. IsFiniteSet(B)
  BY <1>2, MinutesAreIntegers, FS_Subset
<1>4. /\ s \in Seq(B) /\ Sorted(s)
      /\ \A c \in B : \E i \in 1 .. Len(s) : s[i] = c
  <2>1. s = InOrder(B)
    BY DEF s
  <2>2. B \in SUBSET Int
    BY <1>2
  <2> QED
    BY <1>3, <2>1, <2>2, InOrderIsSorted
<1>5. s \in Seq({c \in Minutes : c % span = 0})
  BY <1>2, <1>4, SeqMonotonic
<1>6. \A i \in 1 .. Len(s) : s[i] \in B
  BY <1>4, ElementOfSeq
<1> QED
  BY <1>2, <1>4, <1>5, <1>6 DEF B, s, WholeCandlesOf

-----------------------------------------------------------------------------
(* Steps.                                                                  *)

\* The health record stays well-formed.
LEMMA HealthTypes ==
    ASSUME NEW h \in HealthRecords(Minutes), NEW t \in Minutes
    PROVE  /\ {NewHealth, MarkRunning(h, t), MarkStopped(h), RecordPoll(h, t),
               RecordPollError(h), RecordGapRewarmup(h),
               RecordPollSuccess(h, TRUE), RecordPollSuccess(h, FALSE)}
                  \subseteq HealthRecords(Minutes)
<1>1. /\ h.errors \in Streak /\ Longer(h.errors) \in Streak /\ 0 \in Streak
      /\ h.rewarms \in Streak /\ Longer(h.rewarms) \in Streak /\ 0 \in Minutes
  BY HealthAssumption, MinutesAreIntegers DEF HealthRecords, Streak, Longer
<1>2. MarkRunning(h, t) \in HealthRecords(Minutes) /\ NewHealth \in HealthRecords(Minutes)
  BY <1>1 DEF HealthRecords, MarkRunning, NewHealth
<1>3. RecordPoll(h, t) \in HealthRecords(Minutes)
  BY DEF HealthRecords, RecordPoll
<1>4. RecordPollError(h) \in HealthRecords(Minutes)
  BY <1>1 DEF HealthRecords, RecordPollError
<1>5. RecordGapRewarmup(h) \in HealthRecords(Minutes)
  BY <1>1 DEF HealthRecords, RecordGapRewarmup
<1>6. /\ RecordPollSuccess(h, TRUE) \in HealthRecords(Minutes)
      /\ RecordPollSuccess(h, FALSE) \in HealthRecords(Minutes)
  BY <1>1 DEF HealthRecords, RecordPollSuccess
<1>7. MarkStopped(h) \in HealthRecords(Minutes)
  BY DEF HealthRecords, MarkStopped
<1> QED
  BY <1>2, <1>3, <1>4, <1>5, <1>6, <1>7

\* A whole candle stays whole: minutes are over for ever, and rows stay.
LEMMA WholeStays ==
    ASSUME now \in Int, now' \in Int, now <= now', stored \subseteq stored',
           NEW span \in Nat, NEW c, Whole(span, c)
    PROVE  Whole(span, c)'
BY DEF Whole

\* An empty state has no steps.
LEMMA NoSteps ==
    ASSUME NEW cursor
    PROVE  Steps(<<>>, cursor) = 0
<1>1. StepsOf(<<>>) = {}
  <2>1. Len(<<>>) - 1 = -1
    BY EmptySeq
  <2> QED
    BY <2>1 DEF StepsOf
<1>2. Cardinality(StepsOf(<<>>)) = 0
  BY <1>1, FS_EmptySet
<1> QED
  BY <1>2 DEF Steps, Due

\* A sorted state whose cursor stands on its last candle has none either.
LEMMA SortedHasNoSteps ==
    ASSUME NEW s \in Seq(Nat), Sorted(s)
    PROVE  Steps(s, Last(s)) = 0
<1>1. Len(s) \in Nat /\ \A i \in 1 .. Len(s) : s[i] \in Nat
  BY LenProperties, ElementOfSeq
<1>2. StepsOf(s) = {}
  <2>1. SUFFICES ASSUME NEW i \in 1 .. Len(s) - 1, s[i] >= s[i + 1]
                 PROVE  FALSE
    BY DEF StepsOf
  <2>2. i \in 1 .. Len(s) /\ i + 1 \in 1 .. Len(s) /\ i < i + 1
    BY <1>1
  <2>3. s[i] < s[i + 1]
    BY <2>2 DEF Sorted
  <2> QED
    BY <1>1, <2>1, <2>2, <2>3
<1>3. Cardinality(StepsOf(s)) = 0
  BY <1>2, FS_EmptySet
<1> QED
  BY <1>3 DEF Steps, Due

LEMMA CountsAreNatural ==
    ASSUME NEW s \in Seq(Nat), NEW cursor
    PROVE  Cardinality(StepsOf(s)) \in Nat /\ Due(s, cursor) \in {0, 1}
<1>1. Len(s) - 1 \in Int
  BY LenProperties
<1>2. IsFiniteSet(1 .. Len(s) - 1)
  BY <1>1, FS_Interval
<1>3. StepsOf(s) \in SUBSET (1 .. Len(s) - 1)
  BY DEF StepsOf
<1>4. Cardinality(StepsOf(s)) \in Nat
  BY <1>2, <1>3, FS_Subset, FS_CardinalityType
<1>5. Due(s, cursor) \in {0, 1}
  BY DEF Due
<1> QED
  BY <1>4, <1>5

LEMMA StepsAreNatural ==
    ASSUME NEW s \in Seq(Nat), NEW cursor
    PROVE  Steps(s, cursor) \in Nat
BY CountsAreNatural DEF Steps

LEMMA SignalInit ==
    ASSUME Init
    PROVE  SignalIInv
<1>1. /\ now \in Minutes /\ stored \subseteq Minutes /\ reference \subseteq Candles /\ Now0 \in Minutes
  BY StoreAssumption DEF Init, StoreInit, Minutes
<1>2. health \in HealthRecords(Minutes)
  BY HealthAssumption, MinutesAreIntegers DEF Init, NewHealth, HealthRecords, Streak
<1>3. /\ <<>> \in Seq(Candles) /\ <<>> \in Seq(Minutes) /\ Len(<<>>) = 0
  BY EmptySeq
<1>4. TypeOK
  <2>1. 0 \in 0 .. MaxFaults /\ 0 \in 0 .. MaxStarts
    BY SignalAssumption
  <2> QED
    BY <1>1, <1>2, <1>3, <2>1, MinutesAreIntegers DEF Init, TypeOK, Cleared, NoCall
<1>5. Fields
  BY DEF Init, Fields, Cleared, NoCall
<1>6. SignalTable
  BY <1>3 DEF Init, SignalTable, Sorted
<1>7. SessionMemory
  BY <1>3, NoSteps, SignalAssumption
     DEF Init, SessionMemory, Sorted, GapsAreReported, Cleared, NoCall
<1>8. SessionCursor
  BY DEF Init, SessionCursor, Cleared
<1>9. CallTarget /\ CallProgress
  BY DEF Init, CallTarget, CallProgress, NoCall, Early, Late
<1> QED
  BY <1>4, <1>5, <1>6, <1>7, <1>8, <1>9 DEF SignalIInv

\* The world goes on: the clock, the collector of the symbol and that of the
\* reference symbol.
LEMMA WorldKeeps ==
    ASSUME SignalIInv,
           \/ StoreNext /\ UNCHANGED signalVars
           \/ ReferenceArrives
           \/ UNCHANGED vars
    PROVE  SignalIInv'
<1> USE DEF SignalIInv
<1>1. /\ UNCHANGED <<runner, health, service, call, missing, signals, judged, faults, starts>>
      /\ reference' \subseteq Candles
  BY DEF signalVars, vars, ReferenceArrives, TypeOK
<1>2. now \in Nat /\ now \in Minutes
  BY MinutesAreIntegers DEF TypeOK
<1>3. now' \in Minutes /\ now <= now' /\ now' \in Nat
  BY <1>2, StoreAssumption
     DEF StoreNext, Tick, MinutesArrive, ReferenceArrives, vars, Minutes
<1>4. stored' \subseteq Minutes /\ stored \subseteq stored'
  <2>1. CASE MinutesArrive
    BY <2>1 DEF MinutesArrive, TypeOK
  <2>2. CASE UNCHANGED stored
    BY <2>2 DEF TypeOK
  <2> QED
    BY <2>1, <2>2 DEF StoreNext, Tick, ReferenceArrives, vars
<1>5. \A span \in Nat : \A c : Whole(span, c) => Whole(span, c)'
  BY <1>2, <1>3, <1>4, WholeStays
<1>6. Span \in Nat /\ SeriesSpan \in Nat
  BY SignalAssumption
<1>7. TypeOK' /\ Fields'
  BY <1>1, <1>3, <1>4 DEF TypeOK, Fields
<1>8. SignalTable'
  BY <1>1, <1>5, <1>6 DEF SignalTable
<1>9. SessionMemory'
  BY <1>1 DEF SessionMemory, GapsAreReported
<1>10. \A b : SeriesKept(b) => SeriesKept(b)'
  BY <1>1, <1>5, <1>6 DEF SeriesKept
<1>13. SessionCursor'
  BY <1>1, <1>5, <1>6, <1>10 DEF SessionCursor
<1>11. CallTarget'
  <2>1. call.at <= now => call.at <= now'
    <3>1. call.at \in Nat
      BY MinutesAreIntegers DEF TypeOK
    <3> QED
      BY <1>2, <1>3, <3>1
  <2>2. CompleteBuckets(Span, 0, call.at) \subseteq CompleteBuckets(Span, 0, call.at)'
    BY <1>1, <1>4 DEF CompleteBuckets
  <2> QED
    BY <1>1, <1>5, <1>6, <2>1, <2>2 DEF CallTarget
<1>12. CallProgress'
  BY <1>1, <1>5, <1>6, <1>10 DEF CallProgress, SeriesComplete
<1> QED
  BY <1>7, <1>8, <1>9, <1>11, <1>12, <1>13

\* A call that is over leaves nothing to keep; the session is as it was.
LEMMA CallIsOver ==
    ASSUME SignalIInv, UNCHANGED <<now, stored, reference, signals, judged, starts>>,
           call' = NoCall, runner' = runner \/ runner' = [runner EXCEPT !.pc = "dead"],
           health' \in HealthRecords(Minutes), faults' \in 0 .. MaxFaults,
           faults' \in {faults, faults + 1},
           missing \subseteq missing', missing' \subseteq Candles,
           call.step # "none"
    PROVE  /\ SignalTable' /\ CallTarget' /\ CallProgress'
           /\ service' = service => SignalIInv'
           /\ /\ DOMAIN service' = DOMAIN service
              /\ service'.config \in BOOLEAN
              /\ {service'.confirmed, service'.state, service'.paired} \subseteq Seq(Candles)
              /\ service'.series \in Seq(Minutes) /\ service'.seriesLast \in {Never} \cup Minutes
              /\ {service'.lastClose, service'.reported} \subseteq {Never} \cup 0 .. Horizon + 1
              => TypeOK' /\ Fields'
<1> USE DEF SignalIInv
<1>1. /\ call'.step = "none" /\ call'.op = "none" /\ call'.at = 0
      /\ call'.candle = 0 /\ call'.history = <<>>
      /\ DOMAIN call' = {"step", "op", "at", "candle", "history"}
  BY DEF NoCall
<1>2. /\ DOMAIN runner' = {"pc", "polled"} /\ runner'.pc \in {runner.pc, "dead"}
      /\ runner'.polled = runner.polled /\ runner.pc # "new" /\ runner'.pc # "new"
  BY DEF Fields, SessionMemory
<1>3. SignalTable'
  BY DEF SignalTable, Whole
<1>4. CallTarget' /\ CallProgress'
  BY <1>1 DEF CallTarget, CallProgress, Early, Late
<1>5. ASSUME /\ DOMAIN service' = DOMAIN service
             /\ service'.config \in BOOLEAN
             /\ {service'.confirmed, service'.state, service'.paired} \subseteq Seq(Candles)
             /\ service'.series \in Seq(Minutes) /\ service'.seriesLast \in {Never} \cup Minutes
             /\ {service'.lastClose, service'.reported} \subseteq {Never} \cup 0 .. Horizon + 1
      PROVE  TypeOK' /\ Fields'
  <2>1. <<>> \in Seq(Candles) /\ 0 \in Minutes /\ 0 \in Candles
    BY EmptySeq, MinutesAreIntegers
  <2> QED
    BY <1>1, <1>2, <1>5, <2>1 DEF TypeOK, Fields
<1>6. ASSUME service' = service
      PROVE  SignalIInv'
  <2>1. TypeOK' /\ Fields'
    BY <1>5, <1>6 DEF TypeOK
  <2>2. SessionMemory'
    <3>1. service.series \in Seq(Nat) /\ faults \in Int
      BY MinutesAreIntegers, SeqMonotonic DEF TypeOK
    <3>2. Steps(service.series, service.seriesLast) \in Nat
      BY <3>1, StepsAreNatural
    <3>3. Steps(service.series, service.seriesLast) <= faults'
      BY <3>1, <3>2 DEF SessionMemory
    <3> QED
      BY <1>2, <1>6, <3>3 DEF SessionMemory, GapsAreReported
  <2>3. SessionCursor'
    BY <1>1, <1>6 DEF SessionCursor, SeriesKept, Whole
  <2> QED
    BY <1>3, <1>4, <2>1, <2>2, <2>3
<1> QED
  BY <1>3, <1>4, <1>5, <1>6

LEMMA StartKeeps ==
    ASSUME SignalIInv, Start
    PROVE  SignalIInv'
<1> USE DEF SignalIInv
<1>1. /\ UNCHANGED <<now, stored, reference, service, missing, signals, judged, faults>>
      /\ runner.pc = "new" /\ runner' = [pc |-> "running", polled |-> now]
      /\ starts < MaxStarts /\ starts' = starts + 1
      /\ health' = MarkRunning(health, now)
  BY DEF Start
<1>2. /\ call'.step = "warm" /\ call'.op = "start" /\ call'.at = now
      /\ call'.candle = 0 /\ call'.history = <<>>
      /\ DOMAIN call' = {"step", "op", "at", "candle", "history"}
  BY DEF Start, NoCall
<1>3. service = Cleared /\ judged = <<>> /\ now \in Minutes
  BY <1>1 DEF SessionMemory, TypeOK
<1>4. starts' \in 0 .. MaxStarts /\ health' \in HealthRecords(Minutes)
  <2>1. starts \in 0 .. MaxStarts /\ health \in HealthRecords(Minutes)
    BY DEF TypeOK
  <2>2. starts' \in 0 .. MaxStarts
    BY <1>1, <2>1, SignalAssumption
  <2> QED
    BY <1>1, <1>3, <2>1, <2>2, HealthTypes
<1>5. TypeOK' /\ Fields'
  <2>1. <<>> \in Seq(Candles) /\ 0 \in Candles
    BY EmptySeq, MinutesAreIntegers
  <2> QED
    BY <1>1, <1>2, <1>3, <1>4, <2>1 DEF TypeOK, Fields
<1>6. SignalTable'
  BY <1>1 DEF SignalTable, Whole
<1>7. SessionMemory'
  BY <1>1, <1>3 DEF SessionMemory, GapsAreReported
<1>8. SessionCursor'
  BY <1>1, <1>3 DEF SessionCursor, Cleared
<1>9. CallTarget'
  <2>1. \A i \in 1 .. Len(signals) : CloseOf(signals[i]) <= now
    BY DEF SignalTable, Whole, CloseOf
  <2>2. now <= now
    BY <1>3, MinutesAreIntegers
  <2> QED
    BY <1>1, <1>2, <1>3, <2>1, <2>2 DEF CallTarget, Early, Late, Cleared, CloseOf
<1>10. CallProgress'
  BY <1>2 DEF CallProgress
<1> QED
  BY <1>5, <1>6, <1>7, <1>8, <1>9, <1>10

\* How a call ends, as far as the runner is concerned.
LEMMA EndsOfCalls ==
    ASSUME SignalIInv
    PROVE  /\ Raises => /\ call' = NoCall /\ health' \in HealthRecords(Minutes)
                        /\ runner' = runner \/ runner' = [runner EXCEPT !.pc = "dead"]
           /\ Returns => /\ call' = NoCall /\ health' \in HealthRecords(Minutes)
                         /\ runner' = runner
<1>1. health \in HealthRecords(Minutes) /\ now \in Minutes
  BY DEF SignalIInv, TypeOK
<1>2. Raises => health' \in {MarkStopped(health), RecordPollError(health)}
  BY DEF Raises
<1>3. Returns => health' \in {health, RecordPollSuccess(health, TRUE),
                              RecordPollSuccess(health, FALSE)}
  BY DEF Returns
<1> QED
  BY <1>1, <1>2, <1>3, HealthTypes DEF Raises, Returns

LEMMA CallTimes ==
    ASSUME SignalIInv
    PROVE  /\ now \in Minutes /\ call.at \in Minutes /\ call.candle \in Candles
           /\ now \in Nat /\ call.at \in Nat /\ call.candle \in Nat
           /\ call.step # "none" => call.at <= now
           /\ call.step \in Late => CloseOf(call.candle) \in Minutes
           /\ CloseOf(call.candle) = call.candle + Span
           /\ CloseOf(call.candle) \in Nat /\ call.candle < CloseOf(call.candle)
<1>1. /\ now \in Minutes /\ call.at \in Minutes /\ call.candle \in Candles
      /\ call.step # "none" => call.at <= now
      /\ call.step \in Late => CloseOf(call.candle) <= call.at
  BY DEF SignalIInv, TypeOK, CallTarget
<1>2. now \in Nat /\ call.at \in Nat /\ call.candle \in Nat /\ Span \in Nat \ {0}
  BY <1>1, MinutesAreIntegers, SignalAssumption
<1>3. CloseOf(call.candle) = call.candle + Span
  BY DEF CloseOf
<1> QED
  BY <1>1, <1>2, <1>3, StoreAssumption DEF Minutes

\* The window of a warm-up: its last candle is the latest whole one, and its
\* inner gaps are those of the confirmed candles and the one to the candle.
LEMMA WarmWindow ==
    ASSUME SignalIInv, call.step = "warm",
           NEW history, history = History(call.at), Len(history) >= Warmup + 1,
           NEW window, window = LastOf(history, Warmup + 1)
    PROVE  /\ history \in Seq(Candles)
           /\ Front(window) \in Seq(Candles) /\ Front(window) # <<>>
           /\ Last(window) \in Candles
           /\ Whole(Span, Last(window)) /\ Last(window) + Span <= call.at
           /\ \A c \in CompleteBuckets(Span, 0, call.at) : c <= Last(window)
           /\ \A i \in 1 .. Len(Front(window)) - 1 :
                 Skipped(Front(window)[i], Front(window)[i + 1]) \subseteq GapsWithin(window)
           /\ Skipped(Last(Front(window)), Last(window)) \subseteq GapsWithin(window)
<1>0. Span \in Nat \ {0} /\ Warmup \in Nat \ {0} /\ 0 \in Nat
  BY SignalAssumption
<1>1. /\ now \in Minutes /\ call.at \in Minutes /\ call.at <= now
  BY CallTimes
<1>2. /\ history \in Seq(Candles) /\ Sorted(history)
      /\ \A i \in 1 .. Len(history) : history[i] + Span <= call.at /\ Whole(Span, history[i])
      /\ \A c \in CompleteBuckets(Span, 0, call.at) :
            \E i \in 1 .. Len(history) : history[i] = c
  <2>1. WholeCandlesOf(history, Span, 0, call.at)
    BY <1>0, <1>1, ReadsWholeCandles DEF History
  <2>2. {c \in Minutes : c % Span = 0} = Candles
    BY DEF Candles
  <2> QED
    BY <2>1, <2>2 DEF WholeCandlesOf
<1>3. Candles \in SUBSET Int /\ Len(history) \in Nat /\ history # <<>>
  <2>1. Len(history) \in Nat
    BY <1>2, LenProperties
  <2>2. Len(history) # 0
    BY <1>0, <2>1
  <2> QED
    BY <2>1, <2>2, MinutesAreIntegers, EmptySeq
<1>4. Warmup + 1 \in 1 .. Len(history)
  BY <1>0, <1>3
<1>5. /\ window \in Seq(Candles) /\ Len(window) = Warmup + 1
      /\ Last(window) = Last(history)
  BY <1>2, <1>3, <1>4, WindowOf
<1>6. Len(window) >= 2 /\ Len(window) \in Nat
  BY <1>0, <1>5
<1>7. /\ Front(window) \in Seq(Candles) /\ Len(Front(window)) = Len(window) - 1
      /\ Front(window) # <<>>
      /\ \A i \in 1 .. Len(window) - 1 : Front(window)[i] = window[i]
      /\ Last(Front(window)) = window[Len(window) - 1] /\ Last(window) \in Candles
  BY <1>5, <1>6, FrontOf
<1>8. /\ Whole(Span, Last(window)) /\ Last(window) + Span <= call.at
      /\ \A c \in CompleteBuckets(Span, 0, call.at) : c <= Last(window)
  <2>1. /\ Len(history) \in 1 .. Len(history)
        /\ \A i \in 1 .. Len(history) : history[i] <= Last(history)
    BY <1>2, <1>3, LastIsHighest
  <2> QED
    BY <1>2, <1>5, <2>1 DEF Last
<1>9. \A i \in 1 .. Len(window) - 1 : Skipped(window[i], window[i + 1]) \subseteq GapsWithin(window)
  BY DEF Skipped, GapsWithin
<1>10. \A i \in 1 .. Len(Front(window)) - 1 :
          Skipped(Front(window)[i], Front(window)[i + 1]) \subseteq GapsWithin(window)
  <2>1. TAKE i \in 1 .. Len(Front(window)) - 1
  <2>2. i \in 1 .. Len(window) - 1 /\ i + 1 \in 1 .. Len(window) - 1
    BY <1>6, <1>7
  <2> QED
    BY <1>7, <1>9, <2>2
<1>11. Skipped(Last(Front(window)), Last(window)) \subseteq GapsWithin(window)
  <2>1. Len(window) - 1 \in 1 .. Len(window) - 1 /\ Len(window) - 1 + 1 = Len(window)
    BY <1>6
  <2> QED
    BY <1>7, <1>9, <2>1 DEF Last
<1> QED
  BY <1>2, <1>7, <1>8, <1>10, <1>11

LEMMA WarmExecutionKeeps ==
    ASSUME SignalIInv, WarmExecution
    PROVE  SignalIInv'
<1> USE DEF SignalIInv
<1> DEFINE history == History(call.at)
           window == LastOf(history, Warmup + 1)
<1>1. /\ UNCHANGED <<now, stored, reference, signals, judged, faults, starts>>
      /\ call.step = "warm" /\ call.step # "none"
  BY DEF WarmExecution
<1>2. CASE Len(history) < Warmup + 1
  <2>1. Raises /\ UNCHANGED <<service, missing>>
    BY <1>2 DEF WarmExecution
  <2>2. faults' \in 0 .. MaxFaults /\ missing' \subseteq Candles
    BY <1>1, <2>1 DEF TypeOK
  <2> HIDE DEF SignalIInv
  <2> QED
    BY <1>1, <2>1, <2>2, EndsOfCalls, CallIsOver
<1>3. CASE ~ (Len(history) < Warmup + 1)
  <2> DEFINE confirmed == Front(window)
             candle == Last(window)
  <2>1. /\ service' = [Cleared EXCEPT !.config = TRUE,
                         !.confirmed = confirmed, !.state = confirmed]
        /\ missing' = missing \cup GapsWithin(window)
        /\ call' = [call EXCEPT !.step = "seed", !.candle = candle, !.history = history]
        /\ UNCHANGED <<runner, health>>
    BY <1>3 DEF WarmExecution
  <2>2. Len(history) >= Warmup + 1 /\ history \in Seq(Candles)
    <3>1. history \in Seq({c \in Minutes : c % Span = 0})
      <4>1. WholeCandlesOf(history, Span, 0, call.at)
        BY <1>1, CallTimes, SignalAssumption, ReadsWholeCandles DEF History
      <4> QED
        BY <4>1 DEF WholeCandlesOf
    <3>2. Len(history) \in Nat
      BY <3>1, LenProperties
    <3> HIDE DEF history
    <3> QED
      BY <1>3, <3>1, <3>2, SignalAssumption DEF Candles
  <2>3. /\ confirmed \in Seq(Candles) /\ confirmed # <<>> /\ candle \in Candles
        /\ Whole(Span, candle) /\ candle + Span <= call.at
        /\ \A c \in CompleteBuckets(Span, 0, call.at) : c <= candle
        /\ \A i \in 1 .. Len(confirmed) - 1 :
              Skipped(confirmed[i], confirmed[i + 1]) \subseteq GapsWithin(window)
        /\ Skipped(Last(confirmed), candle) \subseteq GapsWithin(window)
    <3> HIDE DEF SignalIInv
    <3> QED
      BY <1>1, <2>2, WarmWindow
  <2> HIDE DEF confirmed, candle, window, history
  <2>4. /\ service'.config = TRUE /\ service'.confirmed = confirmed
        /\ service'.state = confirmed /\ service'.series = <<>> /\ service'.paired = <<>>
        /\ service'.seriesLast = Never
        /\ service'.lastClose = Never /\ service'.reported = Never
        /\ DOMAIN service' = {"config", "confirmed", "state", "series", "seriesLast",
                              "paired", "lastClose", "reported"}
    BY <2>1 DEF Cleared
  <2>5. /\ call'.step = "seed" /\ call'.candle = candle /\ call'.history = history
        /\ call'.at = call.at /\ call'.op = call.op
        /\ DOMAIN call' = {"step", "op", "at", "candle", "history"}
    BY <2>1 DEF Fields
  <2>6. GapsWithin(window) \subseteq Candles
    BY DEF GapsWithin
  <2>7. TypeOK' /\ Fields'
    <3>1. <<>> \in Seq(Candles) /\ <<>> \in Seq(Minutes)
      BY EmptySeq
    <3>2. UNCHANGED <<now, stored, reference, runner, health, signals, judged, faults, starts>>
      BY <1>1, <2>1
    <3>3. /\ \A s \in {service'.confirmed, service'.state, service'.paired} :
                s \in Seq(Candles)
          /\ service'.series \in Seq(Minutes) /\ service'.config \in BOOLEAN
          /\ service'.seriesLast \in {Never} \cup Minutes
          /\ {service'.lastClose, service'.reported} \subseteq {Never} \cup 0 .. Horizon + 1
      BY <2>3, <2>4, <3>1
    <3>4. missing' \subseteq Candles
      BY <2>1, <2>6 DEF TypeOK
    <3>5. /\ call'.step = "seed" /\ call'.op \in {"none", "start", "poll", "rewarm"}
          /\ call'.at \in Minutes /\ call'.candle \in Candles
          /\ call'.history \in Seq(Candles)
      BY <2>2, <2>3, <2>5 DEF TypeOK
    <3> QED
      BY <2>4, <2>5, <3>2, <3>3, <3>4, <3>5 DEF TypeOK, Fields
  <2>8. SignalTable'
    BY <1>1 DEF SignalTable, Whole
  <2>9. SessionMemory'
    <3>1. GapsAreReported'
      BY <2>1, <2>3, <2>4 DEF GapsAreReported, Skipped
    <3>2. Sorted(<<>>)
      BY EmptySeq DEF Sorted
    <3>3. Steps(<<>>, Never) <= faults
      BY NoSteps DEF TypeOK
    <3> QED
      BY <1>1, <2>1, <2>4, <3>1, <3>2, <3>3 DEF SessionMemory
  <2>10. SessionCursor'
    BY <2>4 DEF SessionCursor
  <2>11. CallTarget'
    <3>1. \A i \in 1 .. Len(signals) : signals[i] \in CompleteBuckets(Span, 0, call.at)
      <4>1. TAKE i \in 1 .. Len(signals)
      <4>2. Whole(Span, signals[i]) /\ signals[i] + Span <= call.at
        BY <1>1 DEF SignalTable, CallTarget, Early, CloseOf
      <4>3. signals[i] \in 0 .. call.at
        BY <4>2, CallTimes, SignalAssumption DEF Whole
      <4> QED
        BY <4>2, <4>3 DEF CompleteBuckets, Whole
    <3>2. AllBefore(judged, candle)
      <4>1. CASE judged = <<>>
        BY <4>1, EmptySeq DEF AllBefore
      <4>2. CASE judged # <<>>
        <5>1. PICK c \in CompleteBuckets(Span, 0, call.at) : AllBefore(judged, c)
          BY <1>1, <4>2 DEF CallTarget
        <5>2. c \in Int /\ candle \in Int /\ c <= candle
          <6>1. candle \in Int /\ c <= candle
            BY <2>3, <5>1, MinutesAreIntegers
          <6>2. c \in 0 .. call.at
            BY <5>1 DEF CompleteBuckets
          <6> QED
            BY <6>1, <6>2
        <5>3. \A i \in 1 .. Len(judged) : judged[i] \in Int
          <6>1. judged \in Seq(Candles)
            BY DEF TypeOK
          <6> QED
            BY <6>1, ElementsAreMinutes
        <5> QED
          BY <5>1, <5>2, <5>3 DEF AllBefore
      <4> QED
        BY <4>1, <4>2
    <3>3. Whole(Span, call.candle)'
      BY <1>1, <2>3, <2>5 DEF Whole
    <3>5. \A i \in 1 .. Len(signals) : signals[i] <= candle
      BY <2>3, <3>1
    <3>4. call.at <= now /\ call.op \in {"start", "rewarm"} /\ call.op # "poll"
      BY <1>1 DEF CallTarget
    <3> QED
      BY <1>1, <2>3, <2>4, <2>5, <3>2, <3>3, <3>4, <3>5
         DEF CallTarget, Early, Late, CloseOf, AllBefore
  <2>12. CallProgress'
    BY <2>1, <2>3, <2>4, <2>5 DEF CallProgress
  <2> QED
    BY <2>7, <2>8, <2>9, <2>10, <2>11, <2>12
<1> QED
  BY <1>2, <1>3

LEMMA WarmSeriesKeeps ==
    ASSUME SignalIInv, WarmSeries
    PROVE  SignalIInv'
<1> USE DEF SignalIInv
<1> DEFINE series == SeriesHistory(call.at)
           known == {c \in ToSet(call.history) \cap reference :
                        CloseOf(c) < CloseOf(call.candle)}
           pairs == InOrder(known)
           paired == LastOf(pairs, PairWarmup)
<1>1. /\ UNCHANGED <<now, stored, reference, missing, signals, judged, faults, starts>>
      /\ call.step = "seed" /\ call.step # "none" /\ call.step \in Late
  BY DEF WarmSeries, Late
<1>2. CASE Raises /\ UNCHANGED service
  <2>1. faults' \in 0 .. MaxFaults /\ missing' \subseteq Candles
    BY <1>1 DEF TypeOK
  <2> HIDE DEF SignalIInv
  <2> QED
    BY <1>1, <1>2, <2>1, EndsOfCalls, CallIsOver
<1>3. CASE ~ (Len(series) < SeriesWarmup \/ Len(pairs) < PairWarmup)
  <2>1. /\ service' = [service EXCEPT !.series = series, !.seriesLast = Last(series),
                                       !.paired = paired]
        /\ call' = [call EXCEPT !.step = "advance", !.history = <<>>]
        /\ UNCHANGED <<runner, health>>
    BY <1>3 DEF WarmSeries
  <2>2. /\ now \in Minutes /\ call.at \in Minutes /\ call.at <= now
        /\ call.candle \in Candles /\ call.candle \in Nat
    <3> HIDE DEF SignalIInv
    <3> QED
      BY <1>1, CallTimes
  <2>3. /\ SeriesSpan \in Nat \ {0} /\ SeriesWarmup \in Nat \ {0}
        /\ PairWarmup \in Nat \ {0} /\ 0 \in Nat
    BY SignalAssumption
  <2>4. WholeCandlesOf(series, SeriesSpan, 0, call.at)
    BY <2>2, <2>3, ReadsWholeCandles DEF SeriesHistory
  <2>5. /\ series \in Seq(Minutes) /\ Sorted(series) /\ series # <<>>
        /\ Whole(SeriesSpan, Last(series)) /\ Last(series) + SeriesSpan <= call.at
        /\ Last(series) \in Minutes /\ Last(series) \in Nat
        /\ \A i \in 1 .. Len(series) : series[i] \in Nat /\ series[i] <= Last(series)
        /\ Steps(series, Last(series)) = 0
    <3>1. series \in Seq({c \in Minutes : c % SeriesSpan = 0}) /\ Sorted(series)
      BY <2>4 DEF WholeCandlesOf
    <3>2. series \in Seq(Minutes)
      BY <3>1, SeqMonotonic
    <3>3. series # <<>>
      <4>1. Len(series) \in Nat /\ Len(<<>>) = 0
        BY <3>2, LenProperties, EmptySeq
      <4> HIDE DEF series
      <4> QED
        BY <1>3, <2>3, <4>1
    <3>4. Len(series) \in 1 .. Len(series)
      BY <3>2, <3>3, ElementsAreMinutes
    <3>5. /\ Whole(SeriesSpan, series[Len(series)])
          /\ series[Len(series)] + SeriesSpan <= call.at
      <4> HIDE DEF series
      <4> QED
        BY <2>4, <3>4 DEF WholeCandlesOf
    <3> HIDE DEF series
    <3>6. series \in Seq(Nat) /\ Minutes \in SUBSET Int
      BY <3>2, MinuteSequences
    <3>7. /\ Last(series) \in Minutes /\ Last(series) \in Nat
          /\ \A i \in 1 .. Len(series) : series[i] \in Nat
      BY <3>2, <3>3, ElementsAreMinutes
    <3>8. \A i \in 1 .. Len(series) : series[i] <= Last(series)
      BY <3>1, <3>2, <3>3, <3>6, LastIsHighest
    <3>9. Steps(series, Last(series)) = 0
      BY <3>1, <3>6, SortedHasNoSteps
    <3> QED
      BY <3>1, <3>2, <3>3, <3>5, <3>7, <3>8, <3>9 DEF Last
  <2>6. /\ paired \in Seq(Candles) /\ Sorted(paired) /\ paired # <<>>
        /\ Last(paired) <= call.candle
    <3>1. known \in SUBSET Candles /\ known \in SUBSET Int
      <4>1. reference \subseteq Candles
        BY DEF TypeOK
      <4>2. known \subseteq reference
        OBVIOUS
      <4> HIDE DEF known
      <4> QED
        BY <4>1, <4>2, MinutesAreIntegers
    <3>2. IsFiniteSet(known)
      <4> HIDE DEF known
      <4>1. known \in SUBSET Minutes
        BY <3>1, MinutesAreIntegers
      <4> QED
        BY <4>1, MinutesAreIntegers, FS_Subset
    <3>3. \A c \in known : c < call.candle
      BY <2>2, <3>1, SignalAssumption DEF CloseOf
    <3> HIDE DEF known
    <3>4. pairs \in Seq(known) /\ Sorted(pairs)
      BY <3>1, <3>2, InOrderIsSorted
    <3>5. Len(pairs) \in Nat
      BY <3>4, LenProperties
    <3> HIDE DEF pairs
    <3>6. PairWarmup \in 1 .. Len(pairs)
      BY <1>3, <2>3, <3>5
    <3>7. /\ paired \in Seq(known) /\ Len(paired) = PairWarmup /\ Sorted(paired)
      BY <3>1, <3>4, <3>6, WindowOf
    <3>8. paired \in Seq(Candles)
      BY <3>1, <3>7, SeqMonotonic
    <3> HIDE DEF paired
    <3>9. paired # <<>>
      BY <2>3, <3>7, EmptySeq
    <3>10. Last(paired) \in known
      BY <3>1, <3>7, <3>9, LastIsHighest
    <3>11. Last(paired) < call.candle /\ Last(paired) \in Int
      BY <3>1, <3>3, <3>10
    <3> QED
      BY <2>2, <3>7, <3>8, <3>9, <3>11
  <2> HIDE DEF series, paired
  <2>7. /\ service'.series = series /\ service'.paired = paired
        /\ service'.seriesLast = Last(series)
        /\ UNCHANGED <<service.config, service.confirmed, service.state,
                       service.lastClose, service.reported>>
        /\ DOMAIN service' = {"config", "confirmed", "state", "series", "seriesLast",
                              "paired", "lastClose", "reported"}
    BY <2>1 DEF Fields
  <2>8. /\ call'.step = "advance" /\ call'.history = <<>>
        /\ UNCHANGED <<call.at, call.op, call.candle>>
        /\ DOMAIN call' = {"step", "op", "at", "candle", "history"}
    BY <2>1 DEF Fields
  <2>9. /\ service.lastClose = Never /\ call.op # "poll"
        /\ Whole(Span, call.candle) /\ CloseOf(call.candle) <= call.at
        /\ \A i \in 1 .. Len(signals) : signals[i] <= call.candle
        /\ AllBefore(judged, call.candle)
    BY <1>1 DEF CallTarget, Late
  <2>10. TypeOK' /\ Fields'
    <3>1. <<>> \in Seq(Candles)
      BY EmptySeq
    <3>2. UNCHANGED <<now, stored, reference, runner, health, missing, signals, judged,
                      faults, starts>>
      BY <1>1, <2>1
    <3>3. /\ \A s \in {service'.confirmed, service'.state, service'.paired} :
                s \in Seq(Candles)
          /\ service'.series \in Seq(Minutes) /\ service'.config \in BOOLEAN
          /\ service'.seriesLast \in {Never} \cup Minutes
          /\ {service'.lastClose, service'.reported} \subseteq {Never} \cup 0 .. Horizon + 1
      BY <2>5, <2>6, <2>7 DEF TypeOK
    <3>4. /\ call'.step = "advance" /\ call'.op \in {"none", "start", "poll", "rewarm"}
          /\ call'.at \in Minutes /\ call'.candle \in Candles
          /\ call'.history \in Seq(Candles)
      BY <2>8, <3>1 DEF TypeOK
    <3> QED
      BY <2>7, <2>8, <3>2, <3>3, <3>4 DEF TypeOK, Fields
  <2>11. SignalTable'
    BY <1>1 DEF SignalTable, Whole
  <2>12. SessionMemory'
    <3>1. Steps(service.series, service.seriesLast)' <= faults'
      BY <1>1, <2>5, <2>7 DEF TypeOK
    <3> QED
      BY <1>1, <2>1, <2>6, <2>7, <3>1 DEF SessionMemory, GapsAreReported
  <2>13. SessionCursor'
    BY <2>7, <2>9 DEF SessionCursor
  <2>14. CallTarget'
    <3>1. Whole(Span, call.candle)'
      BY <1>1, <2>8, <2>9 DEF Whole
    <3> QED
      BY <1>1, <2>2, <2>7, <2>8, <2>9, <3>1
         DEF CallTarget, Early, Late, CloseOf, AllBefore
  <2>15. CallProgress'
    <3>1. Whole(SeriesSpan, service.seriesLast)'
      BY <1>1, <2>5, <2>7 DEF Whole
    <3>2. SeriesKept(CloseOf(call.candle))'
      BY <2>5, <2>7, <3>1 DEF SeriesKept
    <3> QED
      BY <1>1, <2>5, <2>6, <2>7, <2>8, <2>9, <3>2 DEF CallProgress
  <2> QED
    BY <2>10, <2>11, <2>12, <2>13, <2>14, <2>15
<1> QED
  BY <1>2, <1>3 DEF WarmSeries

LEMMA PollKeeps ==
    ASSUME SignalIInv, Poll
    PROVE  SignalIInv'
<1> USE DEF SignalIInv
<1>1. /\ UNCHANGED <<now, stored, reference, service, missing, signals, judged, faults, starts>>
      /\ runner.pc = "running" /\ runner' = [runner EXCEPT !.polled = now]
      /\ health' = RecordPoll(health, now)
  BY DEF Poll
<1>2. /\ call'.step = "read" /\ call'.op = "poll" /\ call'.at = now
      /\ call'.candle = 0 /\ call'.history = <<>>
      /\ DOMAIN call' = {"step", "op", "at", "candle", "history"}
  BY DEF Poll, NoCall
<1>3. now \in Minutes /\ now \in Nat /\ health' \in HealthRecords(Minutes)
  <2>1. now \in Minutes /\ health \in HealthRecords(Minutes)
    BY DEF TypeOK
  <2> QED
    BY <1>1, <2>1, HealthTypes, MinutesAreIntegers
<1>4. /\ runner'.pc = "running" /\ runner'.polled = now /\ DOMAIN runner' = {"pc", "polled"}
  BY <1>1 DEF Fields
<1>5. TypeOK' /\ Fields'
  <2>1. <<>> \in Seq(Candles) /\ 0 \in Candles
    BY EmptySeq, MinutesAreIntegers
  <2> QED
    BY <1>1, <1>2, <1>3, <1>4, <2>1 DEF TypeOK, Fields
<1>6. SignalTable'
  BY <1>1 DEF SignalTable, Whole
<1>7. SessionMemory'
  BY <1>1, <1>4 DEF SessionMemory, GapsAreReported
<1>8. SessionCursor'
  BY <1>1, <1>2 DEF SessionCursor, SeriesKept, Whole
<1>9. CallTarget'
  <2>1. \A i \in 1 .. Len(signals) : CloseOf(signals[i]) <= now
    BY DEF SignalTable, Whole, CloseOf
  <2>2. now <= now
    BY <1>3
  <2> QED
    BY <1>1, <1>2, <2>1, <2>2 DEF CallTarget, Early, Late, CloseOf
<1>10. CallProgress'
  BY <1>2 DEF CallProgress
<1> QED
  BY <1>5, <1>6, <1>7, <1>8, <1>9, <1>10

LEMMA Multiple ==
    ASSUME NEW n \in Nat \ {0}, NEW c \in Nat, c % n = 0
    PROVE  \E k \in Int : c = k * n
OBVIOUS

\* No whole candle lies strictly between two neighbours of a timeframe.
LEMMA NoMultipleBetween ==
    ASSUME NEW n \in Nat \ {0}, NEW c \in Nat, NEW d \in Nat,
           c % n = 0, d % n = 0, d - n < c, c < d
    PROVE  FALSE
<1>1. PICK k \in Int : c = k * n
  BY Multiple
<1>2. PICK l \in Int : d = l * n
  BY Multiple
<1>3. CASE k >= l
  <2>1. k * n >= l * n
    BY <1>3
  <2> QED
    BY <1>1, <1>2, <2>1
<1>4. CASE k <= l - 1
  <2>1. k * n <= (l - 1) * n /\ (l - 1) * n = l * n - n
    BY <1>4
  <2> QED
    BY <1>1, <1>2, <2>1
<1> QED
  BY <1>3, <1>4

\* The last candle of a finer timeframe in a bucket of a coarser one.
LEMMA LastInBucket ==
    ASSUME NEW span \in Nat \ {0}, NEW coarse \in Nat \ {0}, coarse % span = 0,
           NEW b \in Nat, b % coarse = 0
    PROVE  (b + coarse - span) % span = 0 /\ coarse >= span
<1>1. PICK j \in Int : coarse = j * span
  BY Multiple
<1>2. PICK k \in Int : b = k * coarse
  BY Multiple
<1>3. b + coarse - span = (k * j + j - 1) * span /\ k * j + j - 1 \in Int
  <2>1. b = k * j * span
    BY <1>1, <1>2
  <2> QED
    BY <1>1, <2>1
<1>4. \A m \in Int : (m * span) % span = 0
  OBVIOUS
<1>5. j >= 1
  <2>1. CASE j <= 0
    <3>1. j * span <= 0
      BY <2>1
    <3> QED
      BY <1>1, <3>1
  <2> QED
    BY <2>1
<1>6. coarse >= span
  <2>1. j * span >= 1 * span
    BY <1>5
  <2> QED
    BY <1>1, <2>1
<1> QED
  BY <1>3, <1>4, <1>6

\* The report of a poll without news does not run past the time of the poll.
LEMMA ReportedSpan ==
    ASSUME NEW n \in Nat \ {0}, NEW from \in Nat, NEW at \in Nat,
           (at - from) \div n > 0
    PROVE  from + ((at - from) \div n) * n \in 0 .. at
<1> DEFINE x == at - from
           q == x \div n
<1>1. x \in Int /\ q \in Int
  OBVIOUS
<1>2. x = q * n + (x % n) /\ x % n \in Int /\ x % n >= 0
  <2> HIDE DEF x
  <2> QED
    BY <1>1
<1>3. q > 0
  OBVIOUS
<1>4. q * n \in Int /\ q * n >= 0 /\ q * n <= x
  <2> HIDE DEF q, x
  <2> QED
    BY <1>1, <1>2, <1>3
<1>5. from + q * n \in 0 .. at
  <2>1. \A y \in Int : y >= 0 /\ y <= at - from => from + y \in 0 .. at
    OBVIOUS
  <2> HIDE DEF q
  <2> QED
    BY <1>4, <2>1
<1> QED
  BY <1>5

\* A poll without news only adds to what is missing and remembers how far.
LEMMA NothingFreshKeeps ==
    ASSUME SignalIInv, call.step = "read", service.lastClose # Never,
           NothingFresh, Returns,
           UNCHANGED <<now, stored, reference, signals, judged, faults, starts>>
    PROVE  SignalIInv'
<1> USE DEF SignalIInv
<1> DEFINE from == IF service.reported > service.lastClose THEN service.reported
                                                           ELSE service.lastClose
           count == (call.at - from) \div Span
<1>1. /\ missing' = missing \cup {c \in Candles : from <= c /\ CloseOf(c) <= call.at}
      /\ service' = IF count > 0
                    THEN [service EXCEPT !.reported = from + count * Span]
                    ELSE service
  BY DEF NothingFresh
<1>2. call.at \in Nat /\ call.at <= Horizon + 1 /\ Span \in Nat \ {0}
  <2>1. call.at \in Minutes
    BY DEF TypeOK
  <2> QED
    BY <2>1, StoreAssumption, SignalAssumption DEF Minutes
<1>3. from \in Nat
  <2>1. {service.lastClose, service.reported} \subseteq {Never} \cup 0 .. Horizon + 1
    BY DEF TypeOK
  <2>2. service.lastClose \in Nat
    BY <2>1
  <2> QED
    BY <2>1, <2>2 DEF Never
<1>4. count > 0 => from + count * Span \in 0 .. Horizon + 1
  <2> HIDE DEF from
  <2>1. count > 0 => from + count * Span \in 0 .. call.at
    BY <1>2, <1>3, ReportedSpan
  <2>2. \A x \in 0 .. call.at : x \in 0 .. Horizon + 1
    BY <1>2, StoreAssumption
  <2> HIDE DEF count
  <2> QED
    BY <2>1, <2>2
<1> HIDE DEF from, count
<1>5. /\ UNCHANGED <<service.config, service.confirmed, service.state, service.series,
                     service.seriesLast, service.paired, service.lastClose>>
      /\ service'.reported \in {Never} \cup 0 .. Horizon + 1
      /\ DOMAIN service' = DOMAIN service
  <2>1. CASE count > 0
    <3>1. service' = [service EXCEPT !.reported = from + count * Span]
      BY <1>1, <2>1
    <3> QED
      BY <1>4, <2>1, <3>1 DEF Fields
  <2>2. CASE ~ (count > 0)
    <3>1. service' = service
      BY <1>1, <2>2
    <3> QED
      BY <3>1 DEF TypeOK
  <2> QED
    BY <2>1, <2>2
<1>6. /\ call' = NoCall /\ health' \in HealthRecords(Minutes) /\ runner' = runner
      /\ missing \subseteq missing' /\ missing' \subseteq Candles
      /\ faults' \in 0 .. MaxFaults /\ call.step # "none"
  <2>1. missing \subseteq Candles /\ faults \in 0 .. MaxFaults
    BY DEF TypeOK
  <2> HIDE DEF SignalIInv
  <2> QED
    BY <1>1, <2>1, EndsOfCalls
<1>7. SignalTable' /\ CallTarget' /\ CallProgress' /\ TypeOK' /\ Fields'
  <2>1. /\ service'.config \in BOOLEAN
        /\ {service'.confirmed, service'.state, service'.paired} \subseteq Seq(Candles)
        /\ service'.series \in Seq(Minutes) /\ service'.seriesLast \in {Never} \cup Minutes
        /\ {service'.lastClose, service'.reported} \subseteq {Never} \cup 0 .. Horizon + 1
    BY <1>5 DEF TypeOK
  <2> HIDE DEF SignalIInv
  <2> QED
    BY <1>5, <1>6, <2>1, CallIsOver
<1>8. SessionMemory'
  BY <1>5, <1>6 DEF SessionMemory, GapsAreReported, NoCall
<1>9. SessionCursor'
  BY <1>5, <1>6 DEF SessionCursor, SeriesKept, Whole, NoCall
<1> QED
  BY <1>7, <1>8, <1>9

\* The whole candles a poll reads.
LEMMA FreshOf ==
    ASSUME SignalIInv, call.step = "read", service.lastClose # Never,
           NEW fresh, fresh = Fresh(service.lastClose, call.at)
    PROVE  /\ service.lastClose \in Nat
           /\ WholeCandlesOf(fresh, Span, service.lastClose, call.at)
           /\ fresh \in Seq(Candles)
           /\ fresh # <<>> => /\ Len(fresh) \in 1 .. Len(fresh) /\ 1 \in 1 .. Len(fresh)
                              /\ fresh[1] = Head(fresh)
<1>1. service.lastClose \in Nat
  <2>1. service.lastClose \in {Never} \cup 0 .. Horizon + 1
    BY DEF SignalIInv, TypeOK
  <2> QED
    BY <2>1
<1>2. Span \in Nat \ {0} /\ now \in Minutes /\ call.at \in Minutes /\ call.at <= now
  BY CallTimes, SignalAssumption
<1>3. WholeCandlesOf(fresh, Span, service.lastClose, call.at)
  BY <1>1, <1>2, ReadsWholeCandles DEF Fresh
<1>4. fresh \in Seq(Candles)
  BY <1>3 DEF WholeCandlesOf, Candles
<1>5. fresh # <<>> => /\ Len(fresh) \in 1 .. Len(fresh) /\ 1 \in 1 .. Len(fresh)
                      /\ fresh[1] = Head(fresh)
  <2>1. fresh # <<>> => Len(fresh) \in Nat \ {0}
    BY <1>4, EmptySeq
  <2> QED
    BY <1>4, <2>1
<1> QED
  BY <1>1, <1>3, <1>4, <1>5

LEMMA RecoverKeeps ==
    ASSUME SignalIInv, call.step = "read", service.lastClose # Never,
           NEW fresh, fresh = Fresh(service.lastClose, call.at), fresh # <<>>,
           Recover(fresh), UNCHANGED runner,
           UNCHANGED <<now, stored, reference, signals, judged, faults, starts>>
    PROVE  SignalIInv'
<1> USE DEF SignalIInv
<1>1. /\ missing \subseteq missing' /\ missing' \subseteq Candles
      /\ service' = Cleared
      /\ health' = RecordGapRewarmup(health)
  BY DEF Recover, GapsWithin, TypeOK
<1>2. /\ call'.step = "warm" /\ call'.op = "rewarm"
      /\ UNCHANGED <<call.at, call.candle, call.history>>
      /\ DOMAIN call' = {"step", "op", "at", "candle", "history"}
  BY DEF Recover, Fields
<1>3. health' \in HealthRecords(Minutes)
  <2>1. health \in HealthRecords(Minutes) /\ now \in Minutes
    BY DEF TypeOK
  <2> QED
    BY <1>1, <2>1, HealthTypes
<1>4. TypeOK' /\ Fields'
  <2>1. <<>> \in Seq(Candles) /\ <<>> \in Seq(Minutes)
    BY EmptySeq
  <2> QED
    BY <1>1, <1>2, <1>3, <2>1 DEF TypeOK, Fields, Cleared
<1>5. SignalTable'
  BY DEF SignalTable, Whole
<1>6. SessionMemory'
  <2>1. Len(<<>>) = 0
    BY EmptySeq
  <2>2. Steps(<<>>, Never) <= faults
    BY NoSteps DEF TypeOK
  <2> QED
    BY <1>1, <2>1, <2>2 DEF SessionMemory, GapsAreReported, Cleared, Sorted
<1>7. SessionCursor'
  BY <1>1 DEF SessionCursor, Cleared
<1>8. CallTarget'
  <2>1. \E c \in CompleteBuckets(Span, 0, call.at) : AllBefore(judged, c)
    <3>1. /\ service.lastClose \in Nat /\ 1 \in 1 .. Len(fresh)
          /\ WholeCandlesOf(fresh, Span, service.lastClose, call.at)
      BY FreshOf
    <3>2. /\ fresh[1] \in CompleteBuckets(Span, service.lastClose, call.at)
          /\ fresh[1] >= service.lastClose /\ fresh[1] \in Nat
      <4> HIDE DEF SignalIInv
      <4> QED
        BY <3>1, MinutesAreIntegers DEF WholeCandlesOf
    <3>3. call.at \in Nat
      <4> HIDE DEF SignalIInv
      <4> QED
        BY CallTimes
    <3>4. fresh[1] \in CompleteBuckets(Span, 0, call.at)
      BY <3>1, <3>2, <3>3 DEF CompleteBuckets
    <3>5. judged \in Seq(Candles) /\ AllBefore(judged, service.lastClose)
      BY DEF TypeOK, SessionCursor
    <3>6. \A i \in 1 .. Len(judged) : judged[i] \in Nat
      BY <3>5, ElementsAreMinutes
    <3>7. AllBefore(judged, fresh[1])
      BY <3>1, <3>2, <3>5, <3>6 DEF AllBefore
    <3> QED
      BY <3>4, <3>7
  <2>2. /\ call.at <= now
        /\ \A i \in 1 .. Len(signals) : CloseOf(signals[i]) <= call.at
    BY DEF CallTarget, Early
  <2>3. CompleteBuckets(Span, 0, call.at)' = CompleteBuckets(Span, 0, call.at)
    BY <1>2 DEF CompleteBuckets
  <2>4. service'.lastClose = Never
    BY <1>1 DEF Cleared
  <2> QED
    BY <1>2, <2>1, <2>2, <2>3, <2>4 DEF CallTarget, Early, Late, CloseOf, AllBefore
<1>9. CallProgress'
  BY <1>2 DEF CallProgress
<1> QED
  BY <1>4, <1>5, <1>6, <1>7, <1>8, <1>9

\* The last candle of a bucket of a coarser timeframe is whole when the bucket
\* is, and so it is among the candles read after an earlier one.
LEMMA LastCandleInBucket ==
    ASSUME NEW b \in Nat, NEW c \in Nat, NEW at \in Nat,
           SeriesSpan % Span = 0, b % SeriesSpan = 0, b + SeriesSpan <= at,
           b .. b + SeriesSpan - 1 \subseteq stored,
           b + SeriesSpan > c + Span
    PROVE  /\ b + SeriesSpan - Span > c
           /\ b + SeriesSpan - Span \in CompleteBuckets(Span, c, at)
<1> DEFINE d == b + SeriesSpan - Span
<1>1. Span \in Nat \ {0} /\ SeriesSpan \in Nat \ {0}
  BY SignalAssumption
<1>2. d % Span = 0 /\ SeriesSpan >= Span
  BY <1>1, LastInBucket
<1>3. d \in Int /\ d > c /\ d + Span <= at /\ d >= b /\ d + Span - 1 <= b + SeriesSpan - 1
  BY <1>1, <1>2
<1> HIDE DEF d
<1>4. d \in c .. at /\ d .. d + Span - 1 \subseteq b .. b + SeriesSpan - 1
  BY <1>1, <1>3
<1>5. d \in CompleteBuckets(Span, c, at)
  BY <1>2, <1>3, <1>4 DEF CompleteBuckets
<1> QED
  BY <1>3, <1>5 DEF d

\* The one candle that follows the last is taken up.
LEMMA TakeKeeps ==
    ASSUME SignalIInv, call.step = "read", service.lastClose # Never,
           NEW fresh, fresh = Fresh(service.lastClose, call.at),
           Len(fresh) = 1, Head(fresh) = service.lastClose, fresh # <<>>,
           call' = [call EXCEPT !.step = "advance", !.candle = Head(fresh)],
           UNCHANGED <<runner, health, service, missing>>,
           UNCHANGED <<now, stored, reference, signals, judged, faults, starts>>
    PROVE  SignalIInv'
<1> DEFINE candle == service.lastClose
<1>1. /\ candle \in Nat /\ WholeCandlesOf(fresh, Span, candle, call.at)
      /\ fresh \in Seq(Candles) /\ fresh[1] = candle /\ 1 \in 1 .. Len(fresh)
  BY FreshOf
<1>2. /\ candle \in Candles /\ Whole(Span, candle) /\ candle + Span <= call.at
  BY <1>1, ElementOfSeq DEF WholeCandlesOf
<1>3. /\ call.at \in Nat /\ call.at <= now /\ Span \in Nat \ {0}
      /\ SeriesSpan \in Nat \ {0}
  BY CallTimes, SignalAssumption
<1> USE DEF SignalIInv
<1>4. /\ call'.step = "advance" /\ call'.candle = candle
      /\ UNCHANGED <<call.at, call.op, call.history>>
      /\ DOMAIN call' = {"step", "op", "at", "candle", "history"}
      /\ call.op = "poll"
  BY DEF Fields, CallTarget
<1>5. TypeOK' /\ Fields'
  BY <1>2, <1>4 DEF TypeOK, Fields
<1>6. SignalTable'
  BY DEF SignalTable, Whole
<1>7. SessionMemory'
  BY <1>4 DEF SessionMemory, GapsAreReported
<1>8. SessionCursor'
  BY <1>4 DEF SessionCursor, SeriesKept, Whole
<1>9. CallTarget'
  <2>1. \A i \in 1 .. Len(signals) : signals[i] <= candle
    <3>1. signals \in Seq(Candles) /\ AllBefore(signals, candle)
      BY DEF TypeOK, SessionCursor
    <3>2. \A i \in 1 .. Len(signals) : signals[i] \in Nat
      BY <3>1, ElementsAreMinutes
    <3> QED
      BY <1>1, <3>1, <3>2 DEF AllBefore
  <2>2. AllBefore(judged, candle)
    BY DEF SessionCursor
  <2>3. Whole(Span, call.candle)'
    BY <1>2, <1>4 DEF Whole
  <2> QED
    BY <1>2, <1>3, <1>4, <2>1, <2>2, <2>3 DEF CallTarget, Early, Late, CloseOf, AllBefore
<1>10. CallProgress'
  <2>1. /\ service.config /\ service.confirmed # <<>>
        /\ Last(service.confirmed) \in {candle - Span, candle}
        /\ service.paired # <<>> /\ Last(service.paired) <= candle
        /\ SeriesKept(candle + Span) /\ Whole(SeriesSpan, service.seriesLast)
        /\ service.seriesLast + SeriesSpan <= call.at
    BY DEF SessionCursor, SeriesKept
  <2>2. Skipped(Last(service.confirmed), candle) = {}
    <3>1. SUFFICES ASSUME NEW e \in Candles, Last(service.confirmed) < e, e < candle
                   PROVE  FALSE
      BY DEF Skipped
    <3>2. e \in Nat /\ e % Span = 0 /\ candle % Span = 0
      BY <1>2, MinutesAreIntegers DEF Candles
    <3>3. candle - Span < e
      BY <1>1, <1>3, <2>1, <3>1, <3>2
    <3> HIDE DEF candle
    <3> QED
      BY <1>1, <1>3, <3>1, <3>2, <3>3, NoMultipleBetween
  <2>3. ASSUME SeriesSpan % Span = 0
        PROVE  service.seriesLast + SeriesSpan <= candle + Span
    <3> DEFINE b == service.seriesLast
               c == b + SeriesSpan - Span
    <3>1. /\ b \in Nat /\ b % SeriesSpan = 0 /\ b + SeriesSpan <= call.at
          /\ b .. b + SeriesSpan - 1 \subseteq stored
      BY <2>1 DEF Whole
    <3>2. b + SeriesSpan > candle + Span =>
             c > candle /\ c \in CompleteBuckets(Span, candle, call.at)
      <4> HIDE DEF b, candle
      <4> QED
        BY <1>1, <1>3, <2>3, <3>1, LastCandleInBucket
    <3>3. \A i \in 1 .. Len(fresh) : fresh[i] = candle
      BY <1>1
    <3>4. \A d \in CompleteBuckets(Span, candle, call.at) :
             \E i \in 1 .. Len(fresh) : fresh[i] = d
      <4> HIDE DEF candle
      <4> QED
        BY <1>1 DEF WholeCandlesOf
    <3>5. ~ (b + SeriesSpan > candle + Span)
      <4> HIDE DEF b, candle
      <4> QED
        BY <1>1, <3>2, <3>3, <3>4
    <3>6. candle + Span \in Int /\ b + SeriesSpan \in Int
      <4> HIDE DEF b, candle
      <4> QED
        BY <1>1, <1>3, <3>1
    <3> HIDE DEF candle
    <3> QED
      BY <3>5, <3>6
  <2>4. SeriesKept(CloseOf(call.candle))'
    BY <1>4, <2>1 DEF SeriesKept, Whole, CloseOf
  <2> QED
    BY <1>4, <2>1, <2>2, <2>3, <2>4 DEF CallProgress, CloseOf
<1> QED
  BY <1>5, <1>6, <1>7, <1>8, <1>9, <1>10

LEMMA ReadFreshKeeps ==
    ASSUME SignalIInv, ReadFresh
    PROVE  SignalIInv'
<1> DEFINE fresh == Fresh(service.lastClose, call.at)
<1>1. /\ UNCHANGED <<now, stored, reference, signals, judged, faults, starts>>
      /\ call.step = "read"
  BY DEF ReadFresh
<1>2. CASE Raises /\ UNCHANGED <<service, missing>>
  <2>1. faults' \in 0 .. MaxFaults /\ missing' \subseteq Candles
    BY <1>1, <1>2 DEF SignalIInv, TypeOK
  <2> QED
    BY <1>1, <1>2, <2>1, EndsOfCalls, CallIsOver
<1>3. ASSUME service.lastClose # Never, NothingFresh, Returns
      PROVE  SignalIInv'
  BY <1>1, <1>3, NothingFreshKeeps
<1>4. ASSUME service.lastClose # Never,
             Len(fresh) > 1 \/ (Len(fresh) = 1 /\ Head(fresh) > service.lastClose),
             Recover(fresh), UNCHANGED runner
      PROVE  SignalIInv'
  <2>1. fresh # <<>>
    <3> HIDE DEF fresh
    <3> QED
      BY <1>4, EmptySeq
  <2> QED
    BY <1>1, <1>4, <2>1, RecoverKeeps
<1>5. ASSUME service.lastClose # Never, Len(fresh) = 1, Head(fresh) = service.lastClose,
             call' = [call EXCEPT !.step = "advance", !.candle = Head(fresh)],
             UNCHANGED <<runner, health, service, missing>>
      PROVE  SignalIInv'
  <2>1. fresh # <<>>
    <3> HIDE DEF fresh
    <3> QED
      BY <1>5, EmptySeq
  <2> QED
    BY <1>1, <1>5, <2>1, TakeKeeps
<1> QED
  BY <1>1, <1>2, <1>3, <1>4, <1>5 DEF ReadFresh

\* The confirmed candles with the candle of the call.
LEMMA ConfirmedGrows ==
    ASSUME SignalIInv, call.step = "advance",
           NEW t, t = Append(service.confirmed, call.candle)
    PROVE  /\ t \in Seq(Candles) /\ t # <<>> /\ Last(t) = call.candle
           /\ \A i \in 1 .. Len(t) - 1 : Skipped(t[i], t[i + 1]) \subseteq missing
<1> DEFINE s == service.confirmed
<1>1. /\ s \in Seq(Candles) /\ s # <<>> /\ call.candle \in Candles
      /\ Skipped(Last(s), call.candle) \subseteq missing
      /\ \A i \in 1 .. Len(s) - 1 : Skipped(s[i], s[i + 1]) \subseteq missing
  BY DEF SignalIInv, TypeOK, CallProgress, SessionMemory, GapsAreReported, Skipped
<1> HIDE DEF s
<1>2. Len(s) \in Nat \ {0}
  BY <1>1, EmptySeq
<1>3. /\ t \in Seq(Candles) /\ Len(t) = Len(s) + 1
      /\ \A i \in 1 .. Len(s) : t[i] = s[i]
      /\ t[Len(s) + 1] = call.candle
  BY <1>1, AppendProperties DEF s
<1>4. t # <<>> /\ Last(t) = call.candle
  BY <1>2, <1>3, EmptySeq DEF Last
<1>5. ASSUME NEW i \in 1 .. Len(t) - 1
      PROVE  Skipped(t[i], t[i + 1]) \subseteq missing
  <2>1. CASE i = Len(s)
    <3>1. t[i] = Last(s) /\ t[i + 1] = call.candle
      BY <1>2, <1>3, <2>1 DEF Last
    <3> QED
      BY <1>1, <3>1
  <2>2. CASE i # Len(s)
    <3>1. i \in 1 .. Len(s) - 1 /\ i \in 1 .. Len(s) /\ i + 1 \in 1 .. Len(s)
      BY <1>2, <1>3, <2>2
    <3>2. t[i] = s[i] /\ t[i + 1] = s[i + 1]
      BY <1>3, <3>1
    <3> QED
      BY <1>1, <3>1, <3>2
  <2> QED
    BY <2>1, <2>2
<1> QED
  BY <1>3, <1>4, <1>5

\* The candles the other series is to be given: they lie behind its cursor, and
\* what failed calls have given its state already is among them.
LEMMA NewsOf ==
    ASSUME SignalIInv, call.step = "advance",
           NEW close, close = CloseOf(call.candle)
    PROVE  /\ service.seriesLast \in Nat /\ SeriesSpan \in Nat \ {0}
           /\ SeriesNews \in Seq(Minutes) /\ Sorted(SeriesNews)
           /\ \A j \in 1 .. Len(SeriesNews) :
                 /\ SeriesNews[j] \in Minutes /\ SeriesNews[j] \in Nat
                 /\ SeriesNews[j] > service.seriesLast
                 /\ Whole(SeriesSpan, SeriesNews[j])
                 /\ SeriesNews[j] + SeriesSpan <= close
                 /\ SeriesNews[j] + SeriesSpan <= call.at
           /\ \A i \in 1 .. Len(service.series) :
                 service.series[i] > service.seriesLast =>
                    \E j \in 1 .. Len(SeriesNews) : SeriesNews[j] = service.series[i]
<1> DEFINE s == service.series
           cursor == service.seriesLast
           r == SeriesNews
<1>1. /\ s \in Seq(Minutes) /\ s # <<>> /\ Whole(SeriesSpan, cursor)
      /\ \A i \in 1 .. Len(s) :
            s[i] > cursor => Whole(SeriesSpan, s[i]) /\ s[i] + SeriesSpan <= close
  BY DEF SignalIInv, TypeOK, CallProgress, SeriesKept
<1>2. /\ close \in Minutes /\ close \in Nat /\ close <= call.at /\ call.at <= now
      /\ now \in Minutes /\ now \in Nat /\ call.at \in Nat
      /\ SeriesSpan \in Nat \ {0}
  <2>1. close <= call.at
    BY DEF SignalIInv, CallTarget, Late
  <2>2. call.step \in Late
    BY DEF Late
  <2> QED
    BY <2>1, <2>2, CallTimes, SignalAssumption
<1>3. r = InOrder(CompleteBuckets(SeriesSpan, cursor + SeriesSpan, close))
  BY DEF SeriesNews, SeriesAfter
<1> HIDE DEF s, cursor, r
<1>4. cursor \in Nat /\ cursor + SeriesSpan \in Nat /\ close <= now /\ cursor % SeriesSpan = 0
  BY <1>1, <1>2 DEF Whole
<1>5. WholeCandlesOf(r, SeriesSpan, cursor + SeriesSpan, close)
  BY <1>2, <1>3, <1>4, ReadsWholeCandles
<1>6. r \in Seq(Minutes) /\ Sorted(r)
  <2>1. r \in Seq({c \in Minutes : c % SeriesSpan = 0}) /\ Sorted(r)
    BY <1>5 DEF WholeCandlesOf
  <2> QED
    BY <2>1, SeqMonotonic
<1>7. ASSUME NEW j \in 1 .. Len(r)
      PROVE  /\ r[j] \in Minutes /\ r[j] \in Nat /\ r[j] > cursor
             /\ Whole(SeriesSpan, r[j])
             /\ r[j] + SeriesSpan <= close /\ r[j] + SeriesSpan <= call.at
  <2>1. /\ r[j] \in Minutes /\ r[j] >= cursor + SeriesSpan
        /\ r[j] + SeriesSpan <= close /\ Whole(SeriesSpan, r[j])
    BY <1>5 DEF WholeCandlesOf
  <2>2. r[j] \in Nat
    BY <2>1, MinutesAreIntegers
  <2> QED
    BY <1>2, <1>4, <2>1, <2>2
<1>8. ASSUME NEW i \in 1 .. Len(s), s[i] > cursor
      PROVE  \E j \in 1 .. Len(r) : r[j] = s[i]
  <2>1. s[i] \in Nat /\ Whole(SeriesSpan, s[i]) /\ s[i] + SeriesSpan <= close
    BY <1>1, <1>8, ElementsAreMinutes
  <2>2. s[i] % SeriesSpan = 0 /\ s[i] .. s[i] + SeriesSpan - 1 \subseteq stored
    BY <2>1 DEF Whole
  <2>3. ~ (s[i] - SeriesSpan < cursor)
    BY <1>2, <1>4, <1>8, <2>1, <2>2, NoMultipleBetween
  <2>4. s[i] \in cursor + SeriesSpan .. close
    BY <1>2, <1>4, <2>1, <2>3
  <2>5. s[i] \in CompleteBuckets(SeriesSpan, cursor + SeriesSpan, close)
    BY <2>1, <2>2, <2>4 DEF CompleteBuckets
  <2> QED
    BY <1>5, <2>5 DEF WholeCandlesOf
<1> QED
  BY <1>2, <1>4, <1>6, <1>7, <1>8 DEF s, cursor, r

\* The other series after a call that has given it some of the candles, with the
\* cursor behind by one or not.
LEMMA SeriesGiven ==
    ASSUME SignalIInv, UNCHANGED <<now, stored>>,
           NEW given \in 0 .. Len(SeriesNews), NEW moved \in Nat,
           moved \in {given - 1, given}, Given(given, moved),
           NEW close, close = CloseOf(call.candle)
    PROVE  /\ service'.series \in Seq(Minutes) /\ service'.seriesLast \in Minutes
           /\ Steps(service'.series, service'.seriesLast) <= faults + (given - moved)
           /\ SeriesKept(close)'
           /\ service'.seriesLast + SeriesSpan <= call.at
           /\ SeriesSpan % Span = 0 /\ call.op = "poll" =>
                 service'.seriesLast + SeriesSpan <= close
           /\ given = moved /\ given = Len(SeriesNews) => SeriesComplete'
<1> DEFINE s == service.series
           cursor == service.seriesLast
           r == SeriesNews
           t == service'.series
           last == service'.seriesLast
<1>0. call.step = "advance"
  BY DEF Given
<1>1. /\ s \in Seq(Minutes) /\ s # <<>> /\ Whole(SeriesSpan, cursor) /\ Last(s) >= cursor
      /\ cursor \in {Never} \cup Minutes /\ faults \in Nat
      /\ \A i \in 1 .. Len(s) :
            s[i] > cursor => Whole(SeriesSpan, s[i]) /\ s[i] + SeriesSpan <= close
      /\ Steps(s, cursor) <= faults
      /\ cursor + SeriesSpan <= call.at
      /\ SeriesSpan % Span = 0 /\ call.op = "poll" => cursor + SeriesSpan <= close
  BY <1>0, SignalAssumption
     DEF SignalIInv, TypeOK, SessionMemory, CallProgress, SeriesKept
<1>2. /\ cursor \in Nat /\ SeriesSpan \in Nat \ {0} /\ r \in Seq(Minutes) /\ Sorted(r)
      /\ \A j \in 1 .. Len(r) :
            /\ r[j] \in Minutes /\ r[j] \in Nat /\ r[j] > cursor
            /\ Whole(SeriesSpan, r[j]) /\ r[j] + SeriesSpan <= close
            /\ r[j] + SeriesSpan <= call.at
      /\ \A i \in 1 .. Len(s) :
            s[i] > cursor => \E j \in 1 .. Len(r) : r[j] = s[i]
  BY <1>0, NewsOf
<1>3. /\ t = s \o SubSeq(r, 1, given)
      /\ last = IF moved = 0 THEN cursor ELSE r[moved]
  BY DEF Given, SignalIInv, Fields
<1> HIDE DEF s, cursor, r, t, last
<1>4. s \in Seq(Nat) /\ r \in Seq(Nat) /\ given \in 0 .. Len(r)
  BY <1>1, <1>2, MinuteSequences DEF r
<1>5. /\ t \in Seq(Nat) /\ t # <<>> /\ Last(t) >= last /\ last \in Nat /\ last >= cursor
      /\ Len(t) = Len(s) + given
      /\ \A i \in 1 .. Len(s) : t[i] = s[i]
      /\ \A j \in 1 .. given : t[Len(s) + j] = r[j]
      /\ Last(t) = IF given = 0 THEN Last(s) ELSE r[given]
      /\ Steps(t, last) <= Steps(s, cursor) + (given - moved)
      /\ Steps(t, last) \in Nat /\ Steps(s, cursor) \in Nat
  <2>1. AllAfter(r, cursor)
    BY <1>2 DEF AllAfter
  <2>2. s # <<>> /\ cursor \in Nat /\ Last(s) >= cursor /\ Sorted(r)
    BY <1>1, <1>2
  <2>3. moved \in Nat /\ moved \in {given - 1, given}
    OBVIOUS
  <2>4. /\ t \in Seq(Nat) /\ t # <<>> /\ Last(t) >= last /\ last \in Nat /\ last >= cursor
        /\ Extends(t, s, r, given)
        /\ Last(t) = IF given = 0 THEN Last(s) ELSE r[given]
        /\ Steps(t, last) <= Steps(s, cursor) + (given - moved)
        /\ Steps(t, last) \in Nat /\ Steps(s, cursor) \in Nat
    <3>1. t = Grown(s, r, given) /\ last = CursorAfter(cursor, r, moved)
      BY <1>3 DEF Grown, CursorAfter
    <3>2. /\ Grown(s, r, given) \in Seq(Nat) /\ Grown(s, r, given) # <<>>
          /\ Last(Grown(s, r, given)) >= CursorAfter(cursor, r, moved)
          /\ CursorAfter(cursor, r, moved) \in Nat /\ CursorAfter(cursor, r, moved) >= cursor
          /\ Extends(Grown(s, r, given), s, r, given)
          /\ Last(Grown(s, r, given)) = IF given = 0 THEN Last(s) ELSE r[given]
          /\ Steps(Grown(s, r, given), CursorAfter(cursor, r, moved))
               <= Steps(s, cursor) + (given - moved)
          /\ Steps(Grown(s, r, given), CursorAfter(cursor, r, moved)) \in Nat
          /\ Steps(s, cursor) \in Nat
      BY <1>4, <2>1, <2>2, <2>3, GivenSteps
    <3> QED
      BY <3>1, <3>2, Zenon
  <2> QED
    BY <2>4 DEF Extends
<1>6. /\ Len(s) \in Nat /\ Len(r) \in Nat /\ given \in Nat
      /\ \A i \in 1 .. Len(s) : s[i] \in Nat /\ s[i] \in Minutes
      /\ moved # 0 => moved \in 1 .. Len(r)
  <2>1. Len(s) \in Nat /\ Len(r) \in Nat /\ given \in Nat
    BY <1>4, LenProperties
  <2> QED
    BY <1>1, <1>4, <2>1, ElementsAreMinutes
<1>7. /\ last \in Minutes /\ Whole(SeriesSpan, last)
      /\ last + SeriesSpan <= call.at
      /\ SeriesSpan % Span = 0 /\ call.op = "poll" => last + SeriesSpan <= close
  <2>1. CASE moved = 0
    BY <1>1, <1>2, <1>3, <2>1 DEF Never
  <2>2. CASE moved # 0
    <3>1. moved \in 1 .. Len(r) /\ last = r[moved]
      BY <1>3, <1>6, <2>2
    <3> QED
      BY <1>2, <3>1
  <2> QED
    BY <2>1, <2>2
\* Every element is one the state had, or one that was read.
<1>8. ASSUME NEW i \in 1 .. Len(t)
      PROVE  \/ i \in 1 .. Len(s) /\ t[i] = s[i]
             \/ \E j \in 1 .. given : j \in 1 .. Len(r) /\ t[i] = r[j]
  <2>1. CASE i <= Len(s)
    <3>1. i \in 1 .. Len(s)
      BY <1>5, <1>6, <2>1
    <3> QED
      BY <1>5, <3>1
  <2>2. CASE i > Len(s)
    <3>1. i \in Nat /\ i <= Len(s) + given /\ given <= Len(r)
      BY <1>4, <1>5, <1>6
    <3>2. PICK j \in 1 .. given : i = Len(s) + j
      BY <1>6, <2>2, <3>1, PositionBehind
    <3>3. j \in 1 .. Len(r)
      BY <1>6, <3>1
    <3> QED
      BY <1>5, <3>2, <3>3
  <2> QED
    BY <1>5, <1>6, <2>1, <2>2
<1>9. t \in Seq(Minutes)
  <2>1. \A i \in 1 .. Len(t) : t[i] \in Minutes
    BY <1>2, <1>6, <1>8
  <2> QED
    BY <1>5, <2>1
<1>10. \A i \in 1 .. Len(t) :
          t[i] > last => Whole(SeriesSpan, t[i]) /\ t[i] + SeriesSpan <= close
  <2>1. SUFFICES ASSUME NEW i \in 1 .. Len(t), t[i] > last
                 PROVE  Whole(SeriesSpan, t[i]) /\ t[i] + SeriesSpan <= close
    OBVIOUS
  <2>2. CASE i \in 1 .. Len(s) /\ t[i] = s[i]
    <3>1. s[i] > cursor
      <4>1. s[i] \in Nat /\ cursor \in Nat /\ last \in Nat /\ last >= cursor
        BY <1>2, <1>5, <1>6, <2>2
      <4>2. s[i] > last
        BY <2>1, <2>2
      <4> QED
        BY <4>1, <4>2
    <3> QED
      BY <1>1, <2>2, <3>1
  <2>3. CASE \E j \in 1 .. given : j \in 1 .. Len(r) /\ t[i] = r[j]
    BY <1>2, <2>3
  <2> QED
    BY <1>8, <2>2, <2>3
<1>11. SeriesKept(close)'
  BY <1>5, <1>7, <1>10 DEF SeriesKept, Whole, t, last
<1>12. ASSUME given = moved, given = Len(r)
       PROVE  SeriesComplete'
  <2>1. \A j \in 1 .. Len(r) : r[j] <= last
    <3>1. SUFFICES ASSUME NEW j \in 1 .. Len(r)
                   PROVE  r[j] <= last
      OBVIOUS
    <3>2. r # <<>> /\ moved # 0 /\ last = r[Len(r)]
      BY <1>3, <1>6, <1>12, <3>1, EmptySeq
    <3>3. Minutes \in SUBSET Int
      BY MinutesAreIntegers
    <3> QED
      BY <1>2, <3>2, <3>3, LastIsHighest DEF Last
  <2>2. \A i \in 1 .. Len(s) : s[i] <= last
    <3>1. SUFFICES ASSUME NEW i \in 1 .. Len(s)
                   PROVE  s[i] <= last
      OBVIOUS
    <3>2. CASE s[i] > cursor
      BY <1>2, <2>1, <3>2
    <3>3. CASE ~ (s[i] > cursor)
      <4>1. s[i] \in Nat /\ cursor \in Nat /\ last \in Nat /\ last >= cursor
        BY <1>2, <1>5, <1>6
      <4> QED
        BY <3>3, <4>1
    <3> QED
      BY <3>2, <3>3
  <2>3. \A i \in 1 .. Len(t) : t[i] <= last
    BY <1>8, <2>1, <2>2
  <2>4. Last(t) = last
    <3>1. Len(t) \in 1 .. Len(t) /\ Last(t) \in Nat
      BY <1>5, <1>9, ElementsAreMinutes
    <3>2. Last(t) <= last
      BY <2>3, <3>1 DEF Last
    <3> QED
      BY <1>5, <3>1, <3>2
  <2> QED
    BY <2>3, <2>4 DEF SeriesComplete, t, last
<1>13. Steps(t, last) <= faults + (given - moved)
  BY <1>1, <1>5, <1>6
<1> QED
  BY <1>7, <1>9, <1>11, <1>12, <1>13 DEF t, last, r

\* What a call leaves of the rest of the memory.
LEMMA GivenElsewhere ==
    ASSUME SignalIInv, NEW given, NEW moved, Given(given, moved)
    PROVE  /\ call.step = "advance"
           /\ service'.confirmed = Append(service.confirmed, call.candle)
           /\ UNCHANGED <<service.config, service.state, service.paired,
                          service.lastClose, service.reported>>
           /\ DOMAIN service' = DOMAIN service
BY DEF Given, SignalIInv, Fields

LEMMA AdvanceKeeps ==
    ASSUME SignalIInv, Advance
    PROVE  SignalIInv'
<1> DEFINE confirmed == Append(service.confirmed, call.candle)
           n == Len(SeriesNews)
<1>1. /\ UNCHANGED <<now, stored, reference, runner, health, missing, signals,
                     judged, faults, starts>>
      /\ Given(n, n)
      /\ call' = [call EXCEPT !.step = "pair"]
  BY DEF Advance
<1>2. /\ call.step = "advance" /\ service'.confirmed = confirmed
      /\ UNCHANGED <<service.config, service.state, service.paired, service.lastClose,
                     service.reported>>
      /\ DOMAIN service' = DOMAIN service
  BY <1>1, GivenElsewhere
<1>3. /\ confirmed \in Seq(Candles) /\ confirmed # <<>> /\ Last(confirmed) = call.candle
      /\ \A i \in 1 .. Len(confirmed) - 1 :
            Skipped(confirmed[i], confirmed[i + 1]) \subseteq missing
  BY <1>2, ConfirmedGrows
<1>4. n \in Nat
  BY <1>2, NewsOf, LenProperties
<1> PICK close : close = CloseOf(call.candle)
  OBVIOUS
<1>5. /\ service'.series \in Seq(Minutes) /\ service'.seriesLast \in Minutes
      /\ Steps(service'.series, service'.seriesLast) <= faults + (n - n)
      /\ SeriesKept(close)'
      /\ service'.seriesLast + SeriesSpan <= call.at
      /\ SeriesSpan % Span = 0 /\ call.op = "poll" =>
            service'.seriesLast + SeriesSpan <= close
      /\ SeriesComplete'
  <2>1. n \in 0 .. n /\ n \in {n - 1, n}
    BY <1>4
  <2>2. PICK k : k = n
    OBVIOUS
  <2>3. Given(k, k) /\ k \in 0 .. n /\ k \in Nat /\ k \in {k - 1, k}
    BY <1>1, <1>4, <2>1, <2>2
  <2> QED
    BY <1>1, <2>2, <2>3, SeriesGiven
<1> HIDE DEF confirmed, n
<1> USE DEF SignalIInv
<1>6. /\ call'.step = "pair" /\ UNCHANGED <<call.op, call.at, call.candle, call.history>>
      /\ DOMAIN call' = {"step", "op", "at", "candle", "history"}
  BY <1>1 DEF Fields
<1>7. TypeOK' /\ Fields'
  BY <1>1, <1>2, <1>3, <1>5, <1>6 DEF TypeOK, Fields
<1>8. SignalTable'
  BY <1>1 DEF SignalTable, Whole
<1>9. SessionMemory'
  <2>1. GapsAreReported'
    BY <1>1, <1>2, <1>3 DEF GapsAreReported, Skipped
  <2>2. runner.pc # "new"
    BY <1>2 DEF SessionMemory
  <2>3. Steps(service.series, service.seriesLast)' <= faults'
    <3>1. faults \in Nat /\ faults + (n - n) = faults
      BY <1>4, SignalAssumption DEF TypeOK
    <3> QED
      BY <1>1, <1>5, <3>1
  <2> QED
    BY <1>1, <1>2, <2>1, <2>2, <2>3 DEF SessionMemory
<1>10. SeriesKept(CloseOf(call.candle))' /\ Whole(Span, call.candle)'
  <2>1. CloseOf(call.candle)' = close
    BY <1>6 DEF CloseOf
  <2>2. Whole(Span, call.candle)'
    BY <1>1, <1>2, <1>6 DEF Whole, CallTarget, Late
  <2> QED
    BY <1>5, <2>1, <2>2 DEF SeriesKept
<1>11. SessionCursor'
  <2>1. service.lastClose # Never => service.lastClose = call.candle
    BY <1>2 DEF CallTarget
  <2> QED
    BY <1>1, <1>2, <1>3, <1>6, <1>10, <2>1 DEF SessionCursor, AllBefore, CloseOf
<1>12. CallTarget'
  BY <1>1, <1>2, <1>6, <1>10 DEF CallTarget, Early, Late, CloseOf, AllBefore
<1>13. CallProgress'
  BY <1>1, <1>2, <1>3, <1>5, <1>6, <1>10 DEF CallProgress, CloseOf
<1> QED
  BY <1>7, <1>8, <1>9, <1>11, <1>12, <1>13

\* The paired state and its cursor, with or without the candle of the call.
LEMMA PairedGrows ==
    ASSUME SignalIInv, call.step = "pair"
    PROVE  LET t == PairedWith(service.paired)
           IN  t \in Seq(Candles) /\ Sorted(t) /\ t # <<>> /\ Last(t) <= call.candle
<1> DEFINE s == service.paired
           t == PairedWith(s)
<1>2. /\ s \in Seq(Candles) /\ Sorted(s) /\ s # <<>> /\ Last(s) <= call.candle
      /\ call.candle \in Candles
  BY DEF SignalIInv, TypeOK, SessionMemory, CallProgress
<1> HIDE DEF s
<1>3. /\ t \in Seq(Candles) /\ Sorted(t) /\ t # <<>> /\ Last(t) <= call.candle
  <2>0. t = s \/ (t = Append(s, call.candle) /\ call.candle > Last(s))
    BY DEF PairedWith
  <2> HIDE DEF t
  <2>1. CASE t = s
    BY <1>2, <2>1
  <2>2. CASE t = Append(s, call.candle) /\ call.candle > Last(s)
    <3>0. Candles \subseteq Nat /\ Candles \in SUBSET Int
      BY MinutesAreIntegers
    <3>1. Candles \in SUBSET Int /\ call.candle \in Nat
      BY <1>2, <3>0
    <3>2. /\ Last(s) \in Candles /\ \A i \in 1 .. Len(s) : s[i] <= Last(s)
      BY <1>2, <3>1, LastIsHighest
    <3>3. Last(s) \in Nat /\ \A i \in 1 .. Len(s) : s[i] \in Nat
      BY <1>2, ElementsAreMinutes
    <3>4. \A i \in 1 .. Len(s) : s[i] < call.candle
      BY <2>2, <3>1, <3>2, <3>3
    <3>5. Sorted(Append(s, call.candle))
      <4>1. s \in Seq(Candles) /\ Sorted(s) /\ call.candle \in Candles
        BY <1>2
      <4> QED
        BY <3>0, <3>4, <4>1, SortedAppend
    <3>6. /\ Append(s, call.candle) \in Seq(Candles)
          /\ Append(s, call.candle) # <<>> /\ Last(Append(s, call.candle)) = call.candle
      <4>1. /\ Append(s, call.candle) \in Seq(Candles) /\ Len(s) \in Nat
            /\ Len(Append(s, call.candle)) = Len(s) + 1
            /\ Append(s, call.candle)[Len(s) + 1] = call.candle
        BY <1>2, AppendProperties, LenProperties
      <4> QED
        BY <4>1, EmptySeq DEF Last
    <3>7. call.candle <= call.candle
      BY <3>1
    <3> QED
      BY <2>2, <3>5, <3>6, <3>7
  <2> QED
    BY <2>0, <2>1, <2>2
<1> QED
  BY <1>3 DEF s

LEMMA PairKeeps ==
    ASSUME SignalIInv, Pair
    PROVE  SignalIInv'
<1> DEFINE s == service.paired
           t == PairedWith(s)
<1> USE DEF SignalIInv
<1>1. /\ UNCHANGED <<now, stored, reference, runner, health, missing, signals,
                     judged, faults, starts>>
      /\ call.step = "pair"
      /\ call'.step = "judge" /\ UNCHANGED <<call.op, call.at, call.candle, call.history>>
      /\ DOMAIN call' = {"step", "op", "at", "candle", "history"}
      /\ service'.state = Append(service.state, call.candle) /\ service'.paired = t
      /\ UNCHANGED <<service.config, service.confirmed, service.series,
                     service.seriesLast, service.lastClose, service.reported>>
      /\ DOMAIN service' = DOMAIN service
  BY DEF Pair, Fields
<1>2. call.candle \in Candles /\ service.state \in Seq(Candles)
  BY <1>1 DEF TypeOK
<1>3. /\ t \in Seq(Candles) /\ Sorted(t) /\ t # <<>> /\ Last(t) <= call.candle
  BY <1>1, PairedGrows DEF s
<1>4. service'.state \in Seq(Candles)
  BY <1>1, <1>2, AppendProperties
<1> HIDE DEF t
<1>5. TypeOK' /\ Fields'
  BY <1>1, <1>3, <1>4 DEF TypeOK, Fields
<1>6. SignalTable'
  BY <1>1 DEF SignalTable, Whole
<1>7. SessionMemory'
  <2>1. runner.pc # "new"
    BY <1>1 DEF SessionMemory
  <2> QED
    BY <1>1, <1>3, <2>1 DEF SessionMemory, GapsAreReported
<1>8. SeriesKept(CloseOf(call.candle))' /\ SeriesComplete' /\ Whole(Span, call.candle)'
  BY <1>1 DEF Whole, CallTarget, CallProgress, Late, SeriesKept, SeriesComplete, CloseOf
<1>9. SessionCursor'
  <2>1. service.lastClose # Never => service.lastClose = call.candle
    BY <1>1 DEF CallTarget
  <2> QED
    BY <1>1, <1>3, <1>8, <2>1 DEF SessionCursor, AllBefore, CloseOf
<1>10. CallTarget'
  BY <1>1, <1>8 DEF CallTarget, Early, Late, CloseOf, AllBefore
<1>11. CallProgress'
  BY <1>1, <1>3, <1>8 DEF CallProgress, CloseOf
<1> QED
  BY <1>5, <1>6, <1>7, <1>9, <1>10, <1>11

LEMMA JudgeKeeps ==
    ASSUME SignalIInv, Judge
    PROVE  SignalIInv'
<1> DEFINE close == CloseOf(call.candle)
<1>1. /\ UNCHANGED <<now, stored, reference, missing, signals, faults, starts>>
      /\ call.step = "judge"
      /\ judged' = Append(judged, call.candle)
      /\ service' = [service EXCEPT
                       !.lastClose = close,
                       !.reported = IF @ > close THEN @ ELSE close]
      /\ \/ call' = [call EXCEPT !.step = "store"] /\ UNCHANGED <<runner, health>>
         \/ Returns
  BY DEF Judge
<1>2. /\ close \in Minutes /\ close \in Nat /\ call.candle \in Nat
      /\ call.candle < close /\ close = call.candle + Span /\ call.candle \in Candles
      /\ close - Span = call.candle
  <2>1. call.step \in Late
    BY <1>1 DEF Late
  <2>2. Span \in Nat
    BY SignalAssumption
  <2> QED
    BY <2>1, <2>2, CallTimes
<1> HIDE DEF close
<1>3. /\ health' \in HealthRecords(Minutes) /\ runner' = runner
      /\ \/ call' = NoCall
         \/ call' = [call EXCEPT !.step = "store"]
  <2>1. health \in HealthRecords(Minutes)
    BY DEF SignalIInv, TypeOK
  <2> QED
    BY <1>1, <2>1, EndsOfCalls
<1> USE DEF SignalIInv
<1>4. /\ DOMAIN service' = DOMAIN service
      /\ service'.lastClose = close /\ service'.lastClose # Never
      /\ service'.reported \in {service.reported, close}
      /\ UNCHANGED <<service.config, service.confirmed, service.state, service.series,
                     service.seriesLast, service.paired>>
  BY <1>1, <1>2 DEF Fields, Never
<1>5. /\ DOMAIN call' = {"step", "op", "at", "candle", "history"}
      /\ \/ /\ call'.step = "none" /\ call'.op = "none" /\ call'.at = 0
            /\ call'.candle = 0 /\ call'.history = <<>>
         \/ /\ call'.step = "store"
            /\ UNCHANGED <<call.op, call.at, call.candle, call.history>>
  <2>1. CASE call' = NoCall
    BY <2>1 DEF NoCall
  <2>2. CASE call' = [call EXCEPT !.step = "store"]
    BY <2>2 DEF Fields
  <2> QED
    BY <1>3, <2>1, <2>2
<1>6. /\ judged \in Seq(Candles) /\ Sorted(judged) /\ AllBefore(judged, call.candle)
      /\ \A i \in 1 .. Len(signals) : signals[i] <= call.candle
      /\ signals \in Seq(Candles)
      /\ Whole(Span, call.candle) /\ close <= call.at /\ call.at <= now
  BY <1>1 DEF TypeOK, SessionMemory, CallTarget, Late, close
<1>7. /\ judged' \in Seq(Candles) /\ Sorted(judged')
      /\ Len(judged) \in Nat /\ Len(judged') = Len(judged) + 1
      /\ \A i \in 1 .. Len(judged) : judged'[i] = judged[i]
      /\ judged'[Len(judged) + 1] = call.candle
  <2>1. Candles \in SUBSET Int
    BY MinutesAreIntegers
  <2>2. Sorted(judged')
    BY <1>1, <1>2, <1>6, <2>1, SortedAppend DEF AllBefore
  <2> QED
    BY <1>1, <1>2, <1>6, <2>2, AppendProperties, LenProperties
<1>8. AllBefore(judged', close)
  <2>1. SUFFICES ASSUME NEW i \in 1 .. Len(judged) + 1
                 PROVE  judged'[i] < close
    BY <1>7 DEF AllBefore
  <2>2. CASE i = Len(judged) + 1
    BY <1>2, <1>7, <2>2
  <2>3. CASE i # Len(judged) + 1
    <3>1. i \in 1 .. Len(judged)
      BY <1>7, <2>3
    <3>2. judged[i] \in Nat /\ judged[i] < call.candle
      BY <1>6, <3>1, ElementsAreMinutes DEF AllBefore
    <3> QED
      BY <1>2, <1>7, <3>1, <3>2
  <2> QED
    BY <2>2, <2>3
<1>9. AllBefore(signals, close)
  <2>1. \A i \in 1 .. Len(signals) : signals[i] \in Nat
    BY <1>6, ElementsAreMinutes
  <2> QED
    BY <1>2, <1>6, <2>1 DEF AllBefore
<1>10. close \in 0 .. Horizon + 1 /\ 0 \in Minutes /\ 0 \in Candles /\ <<>> \in Seq(Candles)
  BY <1>2, MinutesAreIntegers, EmptySeq
<1>11. TypeOK'
  <2>1. {close, service'.reported} \subseteq {Never} \cup 0 .. Horizon + 1
    BY <1>4, <1>10 DEF TypeOK
  <2>2. call'.at \in Minutes /\ call'.candle \in Candles /\ call'.history \in Seq(Candles)
        /\ call'.op \in {"none", "start", "poll", "rewarm"}
    BY <1>5, <1>10 DEF TypeOK
  <2>3. /\ service'.config \in BOOLEAN
        /\ \A q \in {service'.confirmed, service'.state, service'.paired} : q \in Seq(Candles)
        /\ service'.series \in Seq(Minutes) /\ service'.seriesLast \in {Never} \cup Minutes
    BY <1>4 DEF TypeOK
  <2>4. /\ now' \in Minutes /\ stored' \subseteq Minutes /\ reference' \subseteq Candles
        /\ runner'.pc \in {"new", "running", "dead"} /\ runner'.polled \in Minutes
        /\ health' \in HealthRecords(Minutes) /\ missing' \subseteq Candles
        /\ signals' \in Seq(Candles) /\ judged' \in Seq(Candles)
        /\ faults' \in 0 .. MaxFaults /\ starts' \in 0 .. MaxStarts
    BY <1>1, <1>3, <1>7 DEF TypeOK
  <2>5. {service'.lastClose, service'.reported} \subseteq {Never} \cup 0 .. Horizon + 1
    BY <1>4, <2>1
  <2>6. call'.step \in {"none", "store"}
    BY <1>5
  <2> QED
    BY <2>2, <2>3, <2>4, <2>5, <2>6 DEF TypeOK
<1>12. Fields'
  BY <1>3, <1>4, <1>5 DEF Fields
<1>13. SignalTable'
  BY <1>1 DEF SignalTable, Whole
<1>14. SessionMemory'
  <2>1. runner.pc # "new"
    BY <1>1 DEF SessionMemory
  <2> QED
    BY <1>1, <1>3, <1>4, <1>7, <2>1 DEF SessionMemory, GapsAreReported
<1>15. SessionCursor'
  <2>1. /\ service.config /\ service.confirmed # <<>>
        /\ Last(service.confirmed) = call.candle
        /\ service.paired # <<>> /\ Last(service.paired) <= call.candle
        /\ SeriesKept(CloseOf(call.candle)) /\ SeriesComplete
    BY <1>1 DEF CallProgress
  <2>2. Last(service.paired) <= close
    <3>1. Last(service.paired) \in Nat
      BY <2>1, ElementsAreMinutes DEF TypeOK
    <3> QED
      BY <1>2, <2>1, <3>1
  <2>3. SeriesKept(service.lastClose + Span)'
    <3>1. /\ service.series \in Seq(Minutes) /\ service.seriesLast \in Nat
          /\ service.series # <<>> /\ Whole(SeriesSpan, service.seriesLast)
      BY <2>1 DEF TypeOK, SeriesKept, Whole
    <3>2. \A i \in 1 .. Len(service.series) :
             service.series[i] \in Nat /\ ~ (service.series[i] > service.seriesLast)
      <4>1. \A i \in 1 .. Len(service.series) : service.series[i] \in Nat
        BY <3>1, ElementsAreMinutes
      <4> QED
        BY <2>1, <3>1, <4>1 DEF SeriesComplete
    <3>3. Last(service.series) >= service.seriesLast
      BY <2>1 DEF SeriesKept
    <3> QED
      BY <1>1, <1>4, <3>1, <3>2, <3>3 DEF SeriesKept, Whole
  <2>4. call'.step # "read"
    BY <1>5
  <2> QED
    BY <1>1, <1>2, <1>4, <1>8, <1>9, <2>1, <2>2, <2>3, <2>4 DEF SessionCursor, AllBefore
<1>16. CallTarget'
  <2>1. CASE call'.step = "none"
    BY <2>1 DEF CallTarget, Early, Late
  <2>2. CASE call'.step = "store" /\ UNCHANGED <<call.op, call.at, call.candle, call.history>>
    <3>1. Whole(Span, call.candle)'
      BY <1>1, <1>6, <2>2 DEF Whole
    <3> QED
      BY <1>1, <1>4, <1>6, <2>2, <3>1 DEF CallTarget, Early, Late, CloseOf, close
  <2> QED
    BY <1>5, <2>1, <2>2
<1>17. CallProgress'
  BY <1>5 DEF CallProgress
<1> QED
  BY <1>11, <1>12, <1>13, <1>14, <1>15, <1>16, <1>17

LEMMA StoreKeeps ==
    ASSUME SignalIInv, Store
    PROVE  SignalIInv'
<1>1. /\ UNCHANGED <<now, stored, reference, service, missing, judged, faults, starts>>
      /\ call.step = "store" /\ signals' = Inserted(signals, call.candle)
      /\ Returns
  BY DEF Store
<1>2. health' \in HealthRecords(Minutes) /\ runner' = runner /\ call' = NoCall
  BY <1>1, EndsOfCalls
<1>3. /\ call.candle \in Nat /\ call.candle \in Candles
      /\ call.candle < CloseOf(call.candle)
  BY CallTimes
<1> USE DEF SignalIInv
<1>4. /\ call'.step = "none" /\ call'.op = "none" /\ call'.at = 0
      /\ call'.candle = 0 /\ call'.history = <<>>
      /\ DOMAIN call' = {"step", "op", "at", "candle", "history"}
  BY <1>2 DEF NoCall
<1>5. /\ signals \in Seq(Candles) /\ Sorted(signals)
      /\ \A i \in 1 .. Len(signals) : signals[i] <= call.candle /\ Whole(Span, signals[i])
      /\ Whole(Span, call.candle)
      /\ service.lastClose = CloseOf(call.candle) /\ AllBefore(signals, service.lastClose)
  BY <1>1, <1>3 DEF TypeOK, SignalTable, CallTarget, Late, SessionCursor, Never
<1>6. /\ signals' \in Seq(Candles) /\ Sorted(signals')
      /\ \A i \in 1 .. Len(signals') : Whole(Span, signals'[i])
      /\ AllBefore(signals', service.lastClose)
  <2>1. CASE signals' = signals
    BY <1>5, <2>1
  <2>2. CASE /\ signals' = Append(signals, call.candle)
             /\ \A i \in 1 .. Len(signals) : signals[i] # call.candle
    <3>1. Candles \in SUBSET Int
      BY MinutesAreIntegers
    <3>2. \A i \in 1 .. Len(signals) : signals[i] \in Nat
      BY <1>5, ElementsAreMinutes
    <3>3. \A i \in 1 .. Len(signals) : signals[i] < call.candle
      BY <1>3, <1>5, <2>2, <3>2
    <3>4. Sorted(signals')
      BY <1>3, <1>5, <2>2, <3>1, <3>3, SortedAppend
    <3>5. /\ signals' \in Seq(Candles) /\ Len(signals) \in Nat
          /\ Len(signals') = Len(signals) + 1
          /\ \A i \in 1 .. Len(signals) : signals'[i] = signals[i]
          /\ signals'[Len(signals) + 1] = call.candle
      BY <1>3, <1>5, <2>2, AppendProperties, LenProperties
    <3>6. \A i \in 1 .. Len(signals') :
             Whole(Span, signals'[i]) /\ signals'[i] < service.lastClose
      <4>1. TAKE i \in 1 .. Len(signals')
      <4>2. i \in 1 .. Len(signals) \/ i = Len(signals) + 1
        BY <3>5
      <4> QED
        BY <1>3, <1>5, <3>5, <4>2 DEF AllBefore
    <3> QED
      BY <3>4, <3>5, <3>6 DEF AllBefore
  <2> QED
    BY <1>1, <2>1, <2>2 DEF Inserted
<1>7. TypeOK' /\ Fields'
  <2>1. <<>> \in Seq(Candles) /\ 0 \in Minutes /\ 0 \in Candles
    BY EmptySeq, MinutesAreIntegers
  <2> QED
    BY <1>1, <1>2, <1>4, <1>6, <2>1 DEF TypeOK, Fields
<1>8. SignalTable'
  BY <1>1, <1>6 DEF SignalTable, Whole
<1>9. SessionMemory'
  <2>1. runner.pc # "new"
    BY <1>1 DEF SessionMemory
  <2> QED
    BY <1>1, <1>2, <2>1 DEF SessionMemory, GapsAreReported
<1>10. SessionCursor'
  <2>1. \A b : SeriesKept(b) => SeriesKept(b)'
    BY <1>1 DEF SeriesKept, Whole
  <2> QED
    BY <1>1, <1>4, <1>6, <2>1 DEF SessionCursor, AllBefore
<1>11. CallTarget' /\ CallProgress'
  BY <1>4 DEF CallTarget, CallProgress, Early, Late
<1> QED
  BY <1>7, <1>8, <1>9, <1>10, <1>11

LEMMA CallFailsKeeps ==
    ASSUME SignalIInv, CallFails
    PROVE  SignalIInv'
<1>1. /\ UNCHANGED <<now, stored, reference, missing, signals, judged, starts>>
      /\ call.step # "none" /\ Fail /\ Raises
  BY DEF CallFails
<1>2. /\ health' \in HealthRecords(Minutes) /\ call' = NoCall
      /\ runner' = runner \/ runner' = [runner EXCEPT !.pc = "dead"]
  BY <1>1, EndsOfCalls
<1>3. /\ faults \in Nat /\ faults' = faults + 1 /\ faults' \in 0 .. MaxFaults
      /\ missing' \subseteq Candles
  <2>1. faults \in 0 .. MaxFaults /\ missing \subseteq Candles
    BY DEF SignalIInv, TypeOK
  <2> QED
    BY <1>1, <2>1, SignalAssumption DEF Fail
<1>4. /\ SignalTable' /\ CallTarget' /\ CallProgress'
      /\ service' = service => SignalIInv'
      /\ /\ DOMAIN service' = DOMAIN service
         /\ service'.config \in BOOLEAN
         /\ {service'.confirmed, service'.state, service'.paired} \subseteq Seq(Candles)
         /\ service'.series \in Seq(Minutes)
         /\ service'.seriesLast \in {Never} \cup Minutes
         /\ {service'.lastClose, service'.reported} \subseteq {Never} \cup 0 .. Horizon + 1
         => TypeOK' /\ Fields'
  BY <1>1, <1>2, <1>3, CallIsOver
<1>5. call'.step = "none"
  BY <1>2 DEF NoCall
<1>6. runner'.pc # "new" /\ runner.pc # "new"
  BY <1>1, <1>2 DEF SignalIInv, Fields, SessionMemory
<1>7. CASE service' = service
  BY <1>4, <1>7
<1>8. ASSUME NEW given \in 0 .. Len(SeriesNews), NEW moved \in Nat,
             moved \in {given - 1, given}, Given(given, moved)
      PROVE  SignalIInv'
  <2> DEFINE t == Append(service.confirmed, call.candle)
  <2> PICK close : close = CloseOf(call.candle)
    OBVIOUS
  <2>1. /\ call.step = "advance" /\ service'.confirmed = t
        /\ DOMAIN service' = DOMAIN service
        /\ UNCHANGED <<service.config, service.state, service.paired,
                       service.lastClose, service.reported>>
    BY <1>8, GivenElsewhere
  <2>2. /\ t \in Seq(Candles) /\ t # <<>> /\ Last(t) = call.candle
        /\ \A i \in 1 .. Len(t) - 1 : Skipped(t[i], t[i + 1]) \subseteq missing
    BY <2>1, ConfirmedGrows
  <2>3. /\ service'.series \in Seq(Minutes) /\ service'.seriesLast \in Minutes
        /\ Steps(service'.series, service'.seriesLast) <= faults + (given - moved)
        /\ SeriesKept(close)'
    BY <1>1, <1>8, SeriesGiven
  <2> HIDE DEF t
  <2>4. TypeOK' /\ Fields'
    BY <1>4, <2>1, <2>2, <2>3 DEF SignalIInv, TypeOK
  <2>5. Steps(service.series, service.seriesLast)' <= faults'
    <3>1. Steps(service'.series, service'.seriesLast) \in Nat
      <4>1. service'.series \in Seq(Nat)
        BY <2>3, MinutesAreIntegers, SeqMonotonic
      <4> QED
        BY <4>1, StepsAreNatural
    <3>2. given \in Int /\ given - moved <= 1 /\ given - moved \in Int
      <4>1. given \in Int
        OBVIOUS
      <4> QED
        BY <1>8, <4>1
    <3>3. Steps(service'.series, service'.seriesLast) <= faults'
      BY <1>3, <2>3, <3>1, <3>2
    <3> QED
      BY <3>3
  <2>6. SessionMemory'
    <3>1. GapsAreReported'
      BY <1>1, <2>1, <2>2 DEF GapsAreReported, Skipped
    <3> QED
      BY <1>1, <1>6, <2>1, <2>5, <3>1 DEF SignalIInv, SessionMemory
  <2>7. SessionCursor'
    <3>1. service.lastClose # Never => service.lastClose = call.candle
      BY <2>1 DEF SignalIInv, CallTarget
    <3>2. service.lastClose # Never => Last(service'.confirmed) = service.lastClose
      BY <2>1, <2>2, <3>1
    <3>3. service.lastClose # Never => SeriesKept(service.lastClose + Span)'
      <4>1. service.lastClose # Never => (service.lastClose + Span)' = close
        BY <2>1, <3>1 DEF CloseOf
      <4> QED
        BY <2>3, <4>1 DEF SeriesKept
    <3> QED
      BY <1>1, <1>5, <2>1, <2>2, <3>2, <3>3 DEF SignalIInv, SessionCursor, AllBefore
  <2> QED
    BY <1>4, <2>4, <2>6, <2>7 DEF SignalIInv
<1>9. ASSUME call.step = "pair",
             NEW state \in {service.state, Append(service.state, call.candle)},
             NEW paired \in {service.paired, PairedWith(service.paired)},
             service' = [service EXCEPT !.state = state, !.paired = paired]
      PROVE  SignalIInv'
  <2>1. state \in Seq(Candles)
    <3>1. service.state \in Seq(Candles) /\ call.candle \in Candles
      BY DEF SignalIInv, TypeOK
    <3> QED
      BY <1>9, <3>1, AppendProperties
  <2>2. paired \in Seq(Candles) /\ Sorted(paired) /\ paired # <<>> /\ Last(paired) <= call.candle
    <3>1. /\ service.paired \in Seq(Candles) /\ Sorted(service.paired)
          /\ service.paired # <<>> /\ Last(service.paired) <= call.candle
      BY <1>9 DEF SignalIInv, TypeOK, SessionMemory, CallProgress
    <3> QED
      BY <1>9, <3>1, PairedGrows
  <2>3. /\ service'.state = state /\ service'.paired = paired
        /\ DOMAIN service' = DOMAIN service
        /\ UNCHANGED <<service.config, service.confirmed, service.series,
                       service.seriesLast, service.lastClose, service.reported>>
    BY <1>9 DEF SignalIInv, Fields
  <2>4. TypeOK' /\ Fields'
    BY <1>4, <2>1, <2>2, <2>3 DEF SignalIInv, TypeOK
  <2>5. SessionMemory'
    <3>1. Steps(service.series, service.seriesLast) \in Nat
      <4>1. service.series \in Seq(Nat)
        BY MinuteSequences DEF SignalIInv, TypeOK
      <4> QED
        BY <4>1, StepsAreNatural
    <3>2. Steps(service.series, service.seriesLast) <= faults'
      BY <1>3, <3>1 DEF SignalIInv, SessionMemory
    <3> QED
      BY <1>1, <1>6, <2>2, <2>3, <3>2 DEF SignalIInv, SessionMemory, GapsAreReported
  <2>6. SessionCursor'
    <3>1. service.lastClose # Never => service.lastClose = call.candle
      BY <1>9 DEF SignalIInv, CallTarget
    <3> QED
      BY <1>1, <1>5, <2>2, <2>3, <3>1
         DEF SignalIInv, SessionCursor, SeriesKept, AllBefore, Whole
  <2> QED
    BY <1>4, <2>4, <2>5, <2>6 DEF SignalIInv
<1>10. CASE Given(0, 0)
  <2>1. 0 \in 0 .. Len(SeriesNews) /\ 0 \in Nat /\ 0 \in {0 - 1, 0}
    <3>1. call.step = "advance"
      BY <1>10 DEF Given
    <3> QED
      BY <3>1, NewsOf, LenProperties
  <2> QED
    BY <1>8, <1>10, <2>1
<1>11. CASE \E given \in 1 .. Len(SeriesNews) : Given(given, given - 1)
  <2>1. PICK given \in 1 .. Len(SeriesNews) : Given(given, given - 1)
    BY <1>11
  <2>2. given \in 0 .. Len(SeriesNews) /\ given - 1 \in Nat /\ given - 1 \in {given - 1, given}
    OBVIOUS
  <2> QED
    BY <1>8, <2>1, <2>2
<1>12. CASE /\ call.step = "pair"
            /\ \E state \in {service.state, Append(service.state, call.candle)},
                  paired \in {service.paired, PairedWith(service.paired)} :
                  service' = [service EXCEPT !.state = state, !.paired = paired]
  BY <1>9, <1>12
<1> QED
  BY <1>7, <1>10, <1>11, <1>12 DEF CallFails

LEMMA CrashKeeps ==
    ASSUME SignalIInv, Crash
    PROVE  SignalIInv'
<1> USE DEF SignalIInv
<1>1. /\ UNCHANGED <<now, stored, reference, signals, faults, starts>>
      /\ runner' = [runner EXCEPT !.pc = "new"] /\ health' = NewHealth
      /\ service' = Cleared /\ call' = NoCall /\ missing' = {} /\ judged' = <<>>
  BY DEF Crash
<1>2. <<>> \in Seq(Candles) /\ <<>> \in Seq(Minutes) /\ Len(<<>>) = 0
      /\ 0 \in Minutes /\ 0 \in Candles
  BY EmptySeq, MinutesAreIntegers
<1>3. health' \in HealthRecords(Minutes)
  BY <1>1, HealthTypes DEF TypeOK
<1>4. TypeOK'
  BY <1>1, <1>2, <1>3 DEF TypeOK, Cleared, NoCall, Fields
<1>5. Fields'
  BY <1>1 DEF Fields, Cleared, NoCall
<1>6. SignalTable'
  BY <1>1 DEF SignalTable, Whole
<1>7. SessionMemory'
  <2>1. Steps(<<>>, Never) <= faults'
    BY <1>1, NoSteps DEF TypeOK
  <2> QED
    BY <1>1, <1>2, <2>1
       DEF SessionMemory, GapsAreReported, Sorted, Cleared, NoCall, Fields
<1>8. SessionCursor'
  BY <1>1 DEF SessionCursor, Cleared
<1>9. CallTarget' /\ CallProgress'
  BY <1>1 DEF CallTarget, CallProgress, NoCall, Early, Late
<1> QED
  BY <1>4, <1>5, <1>6, <1>7, <1>8, <1>9

\* Every step of the specification.
LEMMA SignalStep ==
    ASSUME SignalIInv, [Next]_vars
    PROVE  SignalIInv'
<1>1. CASE ServiceStep
  BY <1>1, StartKeeps, WarmExecutionKeeps, WarmSeriesKeeps, PollKeeps, ReadFreshKeeps,
     AdvanceKeeps, PairKeeps, JudgeKeeps, StoreKeeps DEF ServiceStep
<1>2. CASE CallFails
  BY <1>2, CallFailsKeeps
<1>3. CASE Crash
  BY <1>3, CrashKeeps
<1>4. CASE ReferenceArrives \/ (StoreNext /\ UNCHANGED signalVars) \/ UNCHANGED vars
  BY <1>4, WorldKeeps
<1> QED
  BY <1>1, <1>2, <1>3, <1>4 DEF Next

LEMMA SignalInvariant == Spec => []SignalIInv
<1>1. Init => SignalIInv
  BY SignalInit
<1>2. SignalIInv /\ [Next]_vars => SignalIInv'
  BY SignalStep
<1> QED
  BY <1>1, <1>2, PTL DEF Spec

-----------------------------------------------------------------------------
(* What the runs check, for every value of the constants.                  *)

\* The records keep their shape, and signals and judgements stay in the order
\* of their candles, one per candle: whatever fails between the read, the
\* strategy and the store, across re-warms and new processes
\* (SignalGenerationService._process, rewarm; PostgresSignalSink.store).
THEOREM SessionsStayInOrder == Spec => []SessionInv
<1>1. SignalIInv => SessionInv
  <2> SUFFICES ASSUME SignalIInv
               PROVE  SessionInv
    OBVIOUS
  <2>1. /\ TypeOK /\ signals \in Seq(Candles) /\ Sorted(signals)
        /\ judged \in Seq(Candles) /\ Sorted(judged)
    BY DEF SignalIInv, TypeOK, SignalTable, SessionMemory
  <2> QED
    BY <2>1, SortedIsIncreasing DEF SessionInv, SignalsInOrder, JudgedOnce
<1> QED
  BY <1>1, SignalInvariant, PTL

\* Whatever the warm-up windows and however often a session is started over,
\* the strategy never sees two neighbours with an unreported candle between
\* them (SignalGenerationService._report_series_gaps, _report_poll_gaps).
THEOREM GapsReachTheReport == Spec => []GapsAreReported
<1>1. SignalIInv => GapsAreReported
  BY DEF SignalIInv, SessionMemory
<1> QED
  BY <1>1, SignalInvariant, PTL

\* Every stored signal stands for a candle that is over and has every one of
\* its minutes (resample_confirmed_ohlcv and the boundary of every read of
\* SignalGenerationService).
THEOREM SignalsHaveWholeCandles == Spec => []SignalsRestOnWholeCandles
<1>1. SignalIInv => SignalsRestOnWholeCandles
  <2> SUFFICES ASSUME SignalIInv, NEW i \in 1 .. Len(signals)
               PROVE  /\ CloseOf(signals[i]) <= now
                      /\ signals[i] .. CloseOf(signals[i]) - 1 \subseteq stored
    BY DEF SignalsRestOnWholeCandles
  <2>1. \A c : Whole(Span, c) => CloseOf(c) <= now /\ c .. CloseOf(c) - 1 \subseteq stored
    BY SignalAssumption DEF Whole, CloseOf
  <2>2. Whole(Span, signals[i])
    BY DEF SignalIInv, SignalTable
  <2> QED
    BY <2>1, <2>2, Zenon
<1> QED
  BY <1>1, SignalInvariant, PTL

\* The other series goes back no more often than calls have failed, its state
\* has been given exactly the candles up to its cursor when a candle is judged,
\* the paired state never goes back, and at a poll neither has seen anything
\* after the close of the judged candle (SignalGenerationService
\* ._advance_non_execution_series, _paired_last_close), when the other timeframe
\* is a multiple of the execution timeframe.  A finer one can be ahead: the two
\* reads of a warm-up have one boundary but not one instant.
THEOREM OtherSeriesStayInStep ==
    ASSUME SeriesSpan % Span = 0
    PROVE  Spec => []OtherSeriesInStep
<1>1. SignalIInv => OtherSeriesInStep
  <2> SUFFICES ASSUME SignalIInv
               PROVE  OtherSeriesInStep
    OBVIOUS
  <2>1. Increasing(service.paired)
    BY SortedIsIncreasing DEF SignalIInv, TypeOK, SessionMemory
  <2>2. Cardinality(StepsBack) <= faults
    <3>0. /\ service.series \in Seq(Minutes) /\ faults \in 0 .. MaxFaults
          /\ Steps(service.series, service.seriesLast) <= faults
      BY DEF SignalIInv, TypeOK, SessionMemory
    <3>1. service.series \in Seq(Nat) /\ faults \in Nat
      BY <3>0, MinuteSequences, SignalAssumption
    <3>2. /\ Cardinality(StepsOf(service.series)) \in Nat
          /\ Due(service.series, service.seriesLast) \in {0, 1}
      BY <3>1, CountsAreNatural
    <3>3. StepsBack = StepsOf(service.series)
      BY DEF StepsBack, StepsOf
    <3> QED
      BY <3>0, <3>1, <3>2, <3>3 DEF Steps
  <2>3. call.step = "judge" =>
          /\ Last(service.paired) <= call.candle
          /\ service.seriesLast + SeriesSpan <= call.at
          /\ call.op = "poll" => service.seriesLast + SeriesSpan <= CloseOf(call.candle)
          /\ SeriesComplete
    BY DEF SignalIInv, CallProgress
  <2> QED
    BY <2>1, <2>2, <2>3 DEF OtherSeriesInStep, SeriesComplete
<1> QED
  BY <1>1, SignalInvariant, PTL
=============================================================================
