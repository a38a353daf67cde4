------------------------- MODULE RunningValuesProofs -------------------------
(***************************************************************************)
(* What the states that keep a value up may claim, for every series and    *)
(* every period: the running sum, the count of values that are missing,    *)
(* the queue of candidates and the Near total are those of the window, the *)
(* hikkakes confirm each match once, and min_history candles are enough of *)
(* a past for them.                                                        *)
(***************************************************************************)
EXTENDS RunningValues, FiniteSums, SequenceTheorems

(***************************************************************************)
(* Sums over an interval that grows at one end and shrinks at the other.   *)
(***************************************************************************)

LEMMA SumGrows ==
  ASSUME NEW a \in Int, NEW b \in Int, a <= b + 1, NEW w, Weighs(w, a .. b + 1)
  PROVE  SumOver(w, a .. b + 1) = SumOver(w, a .. b) + w[b + 1]
<1> DEFINE S == a .. b
<1>1. IsFiniteSet(S) /\ b + 1 \notin S /\ a .. b + 1 = S \cup {b + 1}
  <2>1. IsFiniteSet(S)
    BY FS_Interval
  <2>2. b + 1 \notin S /\ a .. b + 1 = S \cup {b + 1}
    OBVIOUS
  <2> QED
    BY <2>1, <2>2
<1>2. Weighs(w, S \cup {b + 1})
  BY <1>1
<1> HIDE DEF S
<1>3. SumOver(w, S \cup {b + 1}) = SumOver(w, S) + w[b + 1]
  BY <1>1, <1>2, SumAdds
<1> QED
  BY <1>1, <1>3 DEF S

LEMMA SumShrinks ==
  ASSUME NEW a \in Int, NEW b \in Int, a <= b, NEW w, Weighs(w, a .. b)
  PROVE  SumOver(w, a + 1 .. b) = SumOver(w, a .. b) - w[a]
<1> DEFINE S == a + 1 .. b
<1>1. IsFiniteSet(S) /\ a \notin S /\ a .. b = S \cup {a} /\ w[a] \in Int
  BY FS_Interval DEF Weighs
<1>2. Weighs(w, S)
  BY DEF Weighs
<1> HIDE DEF S
<1>3. SumOver(w, a .. b) = SumOver(w, S) + w[a]
  BY <1>1, SumAdds
<1>4. SumOver(w, S) \in Int
  BY <1>1, <1>2, SumType
<1> QED
  BY <1>1, <1>3, <1>4 DEF S

(***************************************************************************)
(* The window slides.                                                      *)
(***************************************************************************)

Held == Values \cup {NaN}
Size(n) == IF n < Period THEN n ELSE Period
Start(s) == Len(s) - Size(Len(s)) + 1
Seen(s) == Start(s) .. Len(s)

\* A window is the last Period values of its series, or all there are.
Slid(window, s) ==
  /\ window \in Seq(Held) /\ Len(window) = Size(Len(s))
  /\ \A i \in 1 .. Len(window) : window[i] = s[Start(s) + i - 1]

LEMMA Lengthens ==
  ASSUME NEW S, NEW s \in Seq(S), NEW v \in S
  PROVE  /\ Append(s, v) \in Seq(S) /\ Len(s) \in Nat /\ Len(Append(s, v)) = Len(s) + 1
         /\ DOMAIN s = 1 .. Len(s) /\ DOMAIN Append(s, v) = 1 .. Len(s) + 1
         /\ \A i \in 1 .. Len(s) : s[i] \in S /\ Append(s, v)[i] = s[i]
         /\ Append(s, v)[Len(s) + 1] = v
  BY AppendProperties, LenProperties, ElementOfSeq

\* A value enters, and the oldest leaves when the window was full.
LEMMA Slides ==
  ASSUME NEW s \in Seq(Held), NEW window, Slid(window, s), NEW v \in Held
  PROVE  /\ Slid(Popped(Pushed(window, v)), Append(s, v))
         /\ Len(s) < Period => Dropped(Pushed(window, v)) = <<>>
         /\ ~(Len(s) < Period) => /\ Start(s) \in 1 .. Len(s)
                                  /\ Dropped(Pushed(window, v)) = <<s[Start(s)]>>
<1> DEFINE more == Append(s, v)
           pushed == Append(window, v)
           n == Len(s)
<1>1. /\ more \in Seq(Held) /\ n \in Nat /\ Len(more) = n + 1
      /\ \A i \in 1 .. n : more[i] = s[i]
      /\ more[n + 1] = v
  BY Lengthens
<1>2. /\ pushed \in Seq(Held) /\ Len(pushed) = Size(n) + 1
      /\ \A i \in 1 .. Size(n) : pushed[i] = s[Start(s) + i - 1]
      /\ pushed[Size(n) + 1] = v
  BY Lengthens DEF Slid
<1>3. Period \in Nat \ {0} /\ Size(n) \in Nat /\ Size(n) <= n /\ n = Len(s) /\ Start(s) = n - Size(n) + 1
      /\ Start(more) = (n + 1) - Size(n + 1) + 1
  BY <1>1, RollingAssumption DEF Size, Start
<1> HIDE DEF more, pushed, n
<1>4. CASE n < Period
  <2>1. Size(n) = n /\ Size(n + 1) = n + 1 /\ Start(s) = 1 /\ Start(more) = 1
    BY <1>1, <1>3, <1>4 DEF Size, Start
  <2>2. Popped(pushed) = pushed /\ Dropped(pushed) = <<>>
    BY <1>1, <1>2, <1>3, <1>4, <2>1 DEF Popped, Dropped
  <2>3. Slid(pushed, more)
    BY <1>1, <1>2, <2>1 DEF Slid
  <2> QED
    BY <1>4, <2>2, <2>3 DEF Pushed, more, pushed, n
<1>5. CASE ~(n < Period)
  <2>1. /\ Size(n) = Period /\ Size(n + 1) = Period /\ Start(s) = n - Period + 1
        /\ Start(more) = n - Period + 2 /\ Start(s) \in 1 .. n
    <3>1. Size(n) = Period /\ Size(n + 1) = Period
      BY <1>1, <1>3, <1>5 DEF Size
    <3> QED
      BY <1>1, <1>3, <1>5, <3>1
  <2>2. Popped(pushed) = Tail(pushed) /\ Dropped(pushed) = <<Head(pushed)>>
    BY <1>2, <1>3, <2>1 DEF Popped, Dropped
  <2>3. pushed # <<>>
    BY <1>2, <1>3, <2>1
  <2>4. /\ Tail(pushed) \in Seq(Held) /\ Len(Tail(pushed)) = Period
        /\ \A i \in 1 .. Period : Tail(pushed)[i] = pushed[i + 1]
    BY <1>2, <1>3, <2>1, <2>3, HeadTailProperties
  <2>5. Head(pushed) = s[Start(s)]
    <3>1. Head(pushed) = pushed[1]
      BY <1>2
    <3> QED
      BY <1>2, <1>3, <2>1, <3>1
  <2>6. ASSUME NEW i \in 1 .. Period
        PROVE  Tail(pushed)[i] = more[Start(more) + i - 1]
    <3>1. CASE i = Period
      <4>1. Tail(pushed)[i] = pushed[Size(n) + 1] /\ Start(more) + i - 1 = n + 1
        <5>1. Tail(pushed)[i] = pushed[i + 1]
          BY <2>4
        <5>2. i + 1 = Size(n) + 1 /\ Start(more) + i - 1 = n + 1
          BY <1>1, <1>3, <2>1, <3>1
        <5> QED
          BY <5>1, <5>2
      <4> QED
        BY <1>1, <1>2, <4>1
    <3>2. CASE i # Period
      <4>1. i + 1 \in 1 .. Size(n) /\ Start(s) + (i + 1) - 1 \in 1 .. n
            /\ Start(s) + (i + 1) - 1 = Start(more) + i - 1
        <5> DEFINE low == Start(s)
                   next == Start(more)
                   size == Size(n)
        <5>1. /\ n \in Nat /\ Period \in Nat /\ n >= Period /\ size = Period
              /\ low = n - Period + 1 /\ next = n - Period + 2
          BY <1>1, <1>3, <1>5, <2>1
        <5> HIDE DEF low, next, size
        <5>2. i + 1 \in 1 .. size /\ low + (i + 1) - 1 \in 1 .. n /\ low + (i + 1) - 1 = next + i - 1
          BY <5>1, <3>2
        <5> QED
          BY <5>2 DEF low, next, size
      <4>2. pushed[i + 1] = s[Start(s) + (i + 1) - 1]
        BY <1>2, <4>1
      <4> QED
        BY <1>1, <2>4, <4>1, <4>2
    <3> QED
      BY <3>1, <3>2
  <2>7. Slid(Tail(pushed), more)
    BY <1>1, <2>1, <2>4, <2>6 DEF Slid
  <2> QED
    BY <1>5, <2>1, <2>2, <2>5, <2>7 DEF Pushed, more, pushed, n
<1> QED
  BY <1>4, <1>5

(***************************************************************************)
(* The running sum and the count of what is missing.                       *)
(***************************************************************************)

Number(v) == IF v = NaN THEN 0 ELSE v
Numbers(s) == [i \in DOMAIN s |-> Number(s[i])]
Missing(s) == {i \in Seen(s) : s[i] = NaN}

LEMMA NumberType == \A v \in Held : Number(v) \in Int
  BY RollingAssumption DEF Held, Number

LEMMA NumbersWeigh ==
  ASSUME NEW s \in Seq(Held), NEW S, S \subseteq 1 .. Len(s)
  PROVE  Weighs(Numbers(s), S) /\ \A i \in S : Numbers(s)[i] = Number(s[i])
<1>1. DOMAIN s = 1 .. Len(s) /\ \A i \in 1 .. Len(s) : s[i] \in Held
  BY LenProperties, ElementOfSeq
<1> QED
  BY <1>1, NumberType DEF Weighs, Numbers

LEMMA SeenType ==
  ASSUME NEW s \in Seq(Held)
  PROVE  /\ Len(s) \in Nat /\ Period \in Nat \ {0} /\ Start(s) \in Nat \ {0}
         /\ Start(s) <= Len(s) + 1 /\ Seen(s) \subseteq 1 .. Len(s)
         /\ Start(s) = IF Len(s) < Period THEN 1 ELSE Len(s) - Period + 1
         /\ IsFiniteSet(Seen(s)) /\ Cardinality(Seen(s)) = Size(Len(s))
         /\ Size(Len(s)) \in 0 .. Period
<1>1. Len(s) \in Nat /\ Period \in Nat \ {0}
  BY LenProperties, RollingAssumption
<1>2. Size(Len(s)) \in Nat /\ Size(Len(s)) <= Len(s) /\ Size(Len(s)) <= Period
  BY <1>1 DEF Size
<1>3. Start(s) = Len(s) - Size(Len(s)) + 1
  BY DEF Start
<1>4. Start(s) = IF Len(s) < Period THEN 1 ELSE Len(s) - Period + 1
  BY <1>1, <1>3 DEF Size
<1>5. Start(s) \in Nat \ {0} /\ Start(s) <= Len(s) + 1 /\ Seen(s) \subseteq 1 .. Len(s)
  BY <1>1, <1>2, <1>3 DEF Seen
<1>6. /\ IsFiniteSet(Start(s) .. Len(s))
      /\ Cardinality(Start(s) .. Len(s))
           = IF Start(s) > Len(s) THEN 0 ELSE Len(s) - Start(s) + 1
  <2>1. Start(s) \in Int /\ Len(s) \in Int
    BY <1>1, <1>5
  <2> QED
    BY <2>1, FS_Interval
<1>7. Cardinality(Start(s) .. Len(s)) = Size(Len(s))
  BY <1>1, <1>2, <1>3, <1>6
<1> QED
  BY <1>1, <1>2, <1>4, <1>5, <1>6, <1>7 DEF Seen

\* The next window starts where this one does, or one later.
LEMMA NextStart ==
  ASSUME NEW s \in Seq(Held), NEW v \in Held
  PROVE  /\ Len(s) < Period => Start(Append(s, v)) = Start(s)
         /\ ~(Len(s) < Period) => /\ Start(Append(s, v)) = Start(s) + 1
                                  /\ Start(s) \in 1 .. Len(s)
<1>1. Append(s, v) \in Seq(Held) /\ Len(Append(s, v)) = Len(s) + 1
  BY Lengthens
<1>2. /\ Len(s) \in Nat /\ Period \in Nat \ {0}
      /\ Start(s) = IF Len(s) < Period THEN 1 ELSE Len(s) - Period + 1
      /\ Start(Append(s, v)) = IF Len(s) + 1 < Period THEN 1 ELSE (Len(s) + 1) - Period + 1
  BY <1>1, SeenType
<1> QED
  BY <1>2

LEMMA TotalSlides ==
  ASSUME NEW s \in Seq(Held), NEW v \in Held,
         NEW total, total = SumOver(Numbers(s), Seen(s)),
         NEW gone, gone = IF Len(s) < Period THEN 0 ELSE Number(s[Start(s)])
  PROVE  /\ total \in Int
         /\ total + Number(v) - gone = SumOver(Numbers(Append(s, v)), Seen(Append(s, v)))
<1> DEFINE more == Append(s, v)
           n == Len(s)
           a == Start(s)
           w == Numbers(s)
           x == Numbers(more)
<1>1. /\ more \in Seq(Held) /\ n \in Nat /\ Len(more) = n + 1
      /\ \A i \in 1 .. n : more[i] = s[i]
      /\ more[n + 1] = v
  BY Lengthens
<1>2. /\ a \in Nat \ {0} /\ a <= n + 1 /\ Seen(s) = a .. n /\ a .. n \subseteq 1 .. n
      /\ IsFiniteSet(a .. n) /\ Number(v) \in Int /\ n = Len(s) /\ a = Start(s)
  BY SeenType, NumberType DEF Seen
<1>3. /\ n < Period => Seen(more) = a .. n + 1
      /\ ~(n < Period) => Seen(more) = a + 1 .. n + 1 /\ a \in 1 .. n
  BY <1>1, NextStart DEF Seen
<1> HIDE DEF more, n, a
<1>4. /\ Weighs(w, a .. n) /\ \A i \in a .. n : w[i] = Number(s[i])
      /\ Weighs(x, a .. n + 1) /\ \A i \in a .. n + 1 : x[i] = Number(more[i])
  <2>1. a .. n + 1 \subseteq 1 .. Len(more)
    BY <1>1, <1>2
  <2> QED
    BY <1>1, <1>2, <2>1, NumbersWeigh
<1>5. \A i \in a .. n : w[i] = x[i]
  BY <1>1, <1>2, <1>4
<1>6. x[n + 1] = Number(v)
  BY <1>1, <1>2, <1>4
<1> HIDE DEF w, x
<1>7. SumOver(w, a .. n) = SumOver(x, a .. n)
  BY <1>2, <1>5, SumOfSame
<1>8. SumOver(x, a .. n + 1) = SumOver(x, a .. n) + Number(v)
  BY <1>2, <1>4, <1>6, SumGrows
<1>9. SumOver(w, a .. n) \in Int
  BY <1>2, <1>4, SumType
<1>10. CASE n < Period
  BY <1>2, <1>3, <1>7, <1>8, <1>9, <1>10 DEF more, n, w, x
<1>11. CASE ~(n < Period)
  <2>1. SumOver(x, a + 1 .. n + 1) = SumOver(x, a .. n + 1) - x[a]
    BY <1>2, <1>4, <1>3, <1>11, SumShrinks
  <2>2. x[a] = gone
    BY <1>2, <1>3, <1>4, <1>5, <1>11
  <2>3. gone \in Int
    BY <1>2, <1>3, <1>4, <1>11, <2>2 DEF Weighs
  <2>4. total = SumOver(w, a .. n)
    BY <1>2 DEF w
  <2>5. SumOver(Numbers(Append(s, v)), Seen(Append(s, v))) = SumOver(x, a + 1 .. n + 1)
    BY <1>3, <1>11 DEF x, more
  <2> QED
    BY <1>2, <1>7, <1>8, <1>9, <2>1, <2>2, <2>3, <2>4, <2>5
<1> QED
  BY <1>10, <1>11

LEMMA CountSlides ==
  ASSUME NEW s \in Seq(Held), NEW v \in Held,
         NEW count, count = Cardinality(Missing(s)),
         NEW came, came = IF v = NaN THEN 1 ELSE 0,
         NEW gone, gone = IF ~(Len(s) < Period) /\ s[Start(s)] = NaN THEN 1 ELSE 0
  PROVE  count + came - gone = Cardinality(Missing(Append(s, v)))
<1> DEFINE more == Append(s, v)
           n == Len(s)
           a == Start(s)
           old == Missing(s)
           new == Missing(more)
           both == {i \in a .. n + 1 : more[i] = NaN}
<1>1. /\ more \in Seq(Held) /\ n \in Nat /\ Len(more) = n + 1
      /\ \A i \in 1 .. n : more[i] = s[i]
      /\ more[n + 1] = v
  BY Lengthens
<1>2. /\ a \in Nat \ {0} /\ a <= n + 1 /\ Seen(s) = a .. n /\ a .. n \subseteq 1 .. n
      /\ n = Len(s) /\ a = Start(s)
  BY SeenType DEF Seen
<1>3. /\ n < Period => Seen(more) = a .. n + 1
      /\ ~(n < Period) => Seen(more) = a + 1 .. n + 1 /\ a \in 1 .. n
  BY <1>1, NextStart DEF Seen
<1>4. old = {i \in a .. n : s[i] = NaN} /\ new = {i \in Seen(more) : more[i] = NaN}
  BY <1>2 DEF Missing
<1> HIDE DEF more, n, a, old, new
<1>5. IsFiniteSet(both) /\ IsFiniteSet(old)
  <2>1. IsFiniteSet(a .. n + 1) /\ IsFiniteSet(a .. n)
    BY <1>1, <1>2, FS_Interval
  <2>2. both \subseteq a .. n + 1 /\ old \subseteq a .. n
    BY <1>4
  <2> HIDE DEF both
  <2> QED
    BY <2>1, <2>2, FS_Subset
<1>6. Cardinality(both) = Cardinality(old) + came
  <2>1. CASE v = NaN
    <3>1. both = old \cup {n + 1} /\ n + 1 \notin old
      BY <1>1, <1>2, <1>4, <2>1
    <3>2. Cardinality(old \cup {n + 1}) = Cardinality(old) + 1
      BY <1>5, <3>1, FS_AddElement
    <3> QED
      BY <2>1, <3>1, <3>2
  <2>2. CASE v # NaN
    <3>1. both = old
      BY <1>1, <1>2, <1>4, <2>2
    <3>2. Cardinality(old) \in Nat
      BY <1>5, FS_CardinalityType
    <3> HIDE DEF both
    <3> QED
      BY <2>2, <3>1, <3>2
  <2> QED
    BY <2>1, <2>2
<1>7. Cardinality(new) = Cardinality(both) - gone
  <2>1. Cardinality(both) \in Nat
    BY <1>5, FS_CardinalityType
  <2>2. CASE n < Period
    <3>1. new = both
      BY <1>3, <1>4, <2>2
    <3>2. gone = 0
      BY <1>2, <2>2
    <3> HIDE DEF both
    <3> QED
      BY <2>1, <3>1, <3>2
  <2>3. CASE ~(n < Period)
    <3>1. a \in 1 .. n /\ more[a] = s[a] /\ new = both \ {a}
      BY <1>1, <1>2, <1>3, <1>4, <2>3
    <3>2. a \in both <=> s[a] = NaN
      BY <1>1, <1>2, <3>1
    <3>3. gone = IF a \in both THEN 1 ELSE 0
      BY <1>2, <2>3, <3>2
    <3> HIDE DEF both
    <3>4. Cardinality(both \ {a}) = IF a \in both THEN Cardinality(both) - 1 ELSE Cardinality(both)
      BY <1>5, FS_RemoveElement
    <3> QED
      BY <2>1, <3>1, <3>3, <3>4
  <2> QED
    BY <2>2, <2>3
<1>8. Cardinality(old) \in Nat /\ Cardinality(both) \in Nat /\ gone \in {0, 1} /\ came \in {0, 1}
  BY <1>5, FS_CardinalityType
<1> HIDE DEF both
<1> QED
  BY <1>6, <1>7, <1>8 DEF more, old, new

\* What SmaState keeps of the series it was given.
MeanKept(m, s) ==
  /\ Slid(m.window, s)
  /\ m.total = SumOver(Numbers(s), Seen(s))
  /\ m.invalid = Cardinality(Missing(s))

LEMMA OneLeaves == \A x : (<<x>> = <<NaN>> <=> x = NaN) /\ <<x>> # <<>> /\ <<x>>[1] = x
OBVIOUS

LEMMA MeanKeeps ==
  ASSUME NEW s \in Seq(Held), NEW m, MeanKept(m, s), NEW v \in Held
  PROVE  MeanKept(SmaUpdate(m, v), Append(s, v))
<1> DEFINE pushed == Pushed(m.window, v)
           gone == Dropped(pushed)
           lost == IF gone = <<>> \/ gone = <<NaN>> THEN 0 ELSE gone[1]
           missed == IF gone = <<NaN>> THEN 1 ELSE 0
           came == IF v = NaN THEN 1 ELSE 0
           r == SmaUpdate(m, v)
<1>1. /\ Slid(Popped(pushed), Append(s, v))
      /\ Len(s) < Period => gone = <<>>
      /\ ~(Len(s) < Period) => Start(s) \in 1 .. Len(s) /\ gone = <<s[Start(s)]>>
  BY Slides DEF MeanKept
<1>2. /\ r.window = Popped(pushed)
      /\ r.total = m.total + Number(v) - lost
      /\ r.invalid = m.invalid + came - missed
  BY DEF SmaUpdate, Number
<1>3. /\ lost = IF Len(s) < Period THEN 0 ELSE Number(s[Start(s)])
      /\ missed = IF ~(Len(s) < Period) /\ s[Start(s)] = NaN THEN 1 ELSE 0
  <2> HIDE DEF gone
  <2>1. CASE Len(s) < Period
    <3>1. gone = <<>> /\ <<>> # <<NaN>>
      BY <1>1, <2>1
    <3> QED
      BY <2>1, <3>1
  <2>2. CASE ~(Len(s) < Period)
    <3>1. gone = <<s[Start(s)]>>
      BY <1>1, <2>2
    <3>2. /\ gone = <<NaN>> <=> s[Start(s)] = NaN
          /\ gone # <<>> /\ gone[1] = s[Start(s)]
      BY <3>1, OneLeaves
    <3> QED
      BY <2>2, <3>2 DEF Number
  <2> QED
    BY <2>1, <2>2
<1> HIDE DEF lost, missed, r, pushed, gone
<1>4. r.total = SumOver(Numbers(Append(s, v)), Seen(Append(s, v)))
  BY <1>2, <1>3, TotalSlides DEF MeanKept
<1>5. r.invalid = Cardinality(Missing(Append(s, v)))
  <2> HIDE DEF came
  <2>1. came = IF v = NaN THEN 1 ELSE 0
    BY DEF came
  <2> QED
    BY <1>2, <1>3, <2>1, CountSlides DEF MeanKept
<1> QED
  BY <1>1, <1>2, <1>4, <1>5 DEF MeanKept, r

\* Warm exactly when the window is full and nothing in it is missing.
WholeIn(s) == Len(s) >= Period /\ \A i \in Len(s) - Period + 1 .. Len(s) : s[i] # NaN

LEMMA NothingMissing ==
  ASSUME NEW s \in Seq(Held)
  PROVE  /\ IsFiniteSet(Missing(s)) /\ Cardinality(Missing(s)) \in 0 .. Period
         /\ Size(Len(s)) = Period /\ Cardinality(Missing(s)) = 0 <=> WholeIn(s)
         /\ Len(s) >= Period => Seen(s) = Len(s) - Period + 1 .. Len(s)
<1>1. /\ Len(s) \in Nat /\ Period \in Nat \ {0}
      /\ Start(s) = IF Len(s) < Period THEN 1 ELSE Len(s) - Period + 1
      /\ IsFiniteSet(Seen(s)) /\ Cardinality(Seen(s)) = Size(Len(s))
      /\ Size(Len(s)) \in 0 .. Period
  BY SeenType
<1>2. Missing(s) \subseteq Seen(s)
  BY DEF Missing
<1>3. /\ IsFiniteSet(Missing(s)) /\ Cardinality(Missing(s)) \in Nat
      /\ Cardinality(Missing(s)) <= Cardinality(Seen(s))
  BY <1>1, <1>2, FS_Subset, FS_CardinalityType
<1>4. Size(Len(s)) = Period <=> Len(s) >= Period
  BY <1>1 DEF Size
<1>5. Len(s) >= Period => Seen(s) = Len(s) - Period + 1 .. Len(s)
  BY <1>1 DEF Seen
<1>6. Cardinality(Missing(s)) = 0 <=> Missing(s) = {}
  BY <1>3, FS_EmptySet
<1>7. Missing(s) = {} <=> \A i \in Seen(s) : s[i] # NaN
  BY DEF Missing
<1>8. Size(Len(s)) = Period /\ Cardinality(Missing(s)) = 0 <=> WholeIn(s)
  BY <1>4, <1>5, <1>6, <1>7 DEF WholeIn
<1>9. Cardinality(Missing(s)) \in 0 .. Period
  BY <1>1, <1>3
<1> QED
  BY <1>3, <1>5, <1>8, <1>9

LEMMA MeanAnswers ==
  ASSUME NEW s \in Seq(Held), NEW m, MeanKept(m, s)
  PROVE  SmaCurrent(m) = IF WholeIn(s) THEN SumOver(s, Len(s) - Period + 1 .. Len(s)) ELSE NaN
<1>1. Len(m.window) = Period /\ m.invalid = 0 <=> WholeIn(s)
  BY NothingMissing DEF MeanKept, Slid
<1>2. CASE WholeIn(s)
  <2>1. Len(s) >= Period /\ Seen(s) = Len(s) - Period + 1 .. Len(s)
    BY <1>2, NothingMissing DEF WholeIn
  <2>2. Seen(s) \subseteq 1 .. Len(s) /\ IsFiniteSet(Seen(s))
    BY SeenType
  <2>3. \A i \in Seen(s) : Numbers(s)[i] = s[i]
    BY <1>2, <2>1, <2>2, NumbersWeigh DEF Number, WholeIn
  <2>4. SumOver(Numbers(s), Seen(s)) = SumOver(s, Seen(s))
    BY <2>2, <2>3, SumOfSame
  <2> QED
    BY <1>1, <1>2, <2>1, <2>4 DEF SmaCurrent, MeanKept
<1>3. CASE ~WholeIn(s)
  BY <1>1, <1>3 DEF SmaCurrent
<1> QED
  BY <1>2, <1>3

(***************************************************************************)
(* The queue of candidates.  A place of the series is one more than the    *)
(* index the code gives it.                                                *)
(***************************************************************************)

Place(c) == c[1] + 1

\* Candidates stand in the window, later ones are smaller, and there is room for those that come.
Lined(cs, s, low) ==
  /\ cs \in Seq(Int \X Values)
  /\ \A k \in DOMAIN cs : /\ Place(cs[k]) \in low .. Len(s)
                          /\ cs[k][2] = s[Place(cs[k])]
                          /\ cs[k][1] <= Len(s) - 1 - (Len(cs) - k)
  /\ \A k, l \in DOMAIN cs : k < l => cs[k][1] < cs[l][1] /\ cs[k][2] > cs[l][2]

\* Every value with only numbers after it has a candidate no earlier and no smaller.
Covered(cs, s, low) ==
  \A p \in low .. Len(s) : (\A q \in p .. Len(s) : s[q] # NaN) =>
    \E k \in DOMAIN cs : Place(cs[k]) >= p /\ cs[k][2] >= s[p]

Queue(cs, s, low) == Lined(cs, s, low) /\ Covered(cs, s, low)

\* A finite set of integers has a least and a greatest.
LEMMA FiniteExtremes ==
  ASSUME NEW S, IsFiniteSet(S)
  PROVE  S \subseteq Int /\ S # {} => /\ Min(S) \in S /\ \A x \in S : Min(S) <= x
                                     /\ Max(S) \in S /\ \A x \in S : Max(S) >= x
<1>1. \A U \in SUBSET SUBSET S : U # {} => \E t \in U : \A u \in U : u \subseteq t => u = t
  BY SmallestSubset
<1> SUFFICES ASSUME S \subseteq Int, S # {}
             PROVE  /\ Min(S) \in S /\ \A x \in S : Min(S) <= x
                    /\ Max(S) \in S /\ \A x \in S : Max(S) >= x
  OBVIOUS
<1> DEFINE Below(t) == \E x \in t : \A y \in t : x <= y
           Above(t) == \E x \in t : \A y \in t : x >= y
           T == {t \in SUBSET S : t # {} /\ ~(Below(t) /\ Above(t))}
<1>2. S \notin T
  <2> SUFFICES ASSUME S \in T PROVE FALSE
    OBVIOUS
  <2>1. PICK t \in T : \A u \in T : u \subseteq t => u = t
    <3>1. T \in SUBSET SUBSET S /\ T # {}
      OBVIOUS
    <3> HIDE DEF T
    <3> QED
      BY <1>1, <3>1
  <2>2. PICK z \in t : TRUE
    OBVIOUS
  <2>3. t \subseteq Int
    OBVIOUS
  <2>4. t \ {z} = {} \/ (Below(t \ {z}) /\ Above(t \ {z}))
    <3>1. t \ {z} \notin T
      BY <2>1, <2>2
    <3> QED
      BY <3>1
  <2>5. Below(t) /\ Above(t)
    <3>1. CASE t \ {z} = {}
      BY <2>2, <2>3, <3>1
    <3>2. ASSUME Below(t \ {z}), Above(t \ {z}) PROVE Below(t) /\ Above(t)
      <4>1. PICK x \in t \ {z} : \A y \in t \ {z} : x <= y
        BY <3>2
      <4>2. PICK w \in t \ {z} : \A y \in t \ {z} : w >= y
        BY <3>2
      <4>3. Below(t)
        <5>1. CASE x <= z
          BY <2>3, <4>1, <5>1
        <5>2. CASE ~(x <= z)
          BY <2>2, <2>3, <4>1, <5>2
        <5> QED
          BY <5>1, <5>2
      <4>4. Above(t)
        <5>1. CASE w >= z
          BY <2>3, <4>2, <5>1
        <5>2. CASE ~(w >= z)
          BY <2>2, <2>3, <4>2, <5>2
        <5> QED
          BY <5>1, <5>2
      <4> QED
        BY <4>3, <4>4
    <3> HIDE DEF Below, Above
    <3> QED
      BY <2>4, <3>1, <3>2
  <2> QED
    BY <2>1, <2>5
<1>3. Below(S) /\ Above(S)
  BY <1>2
<1> QED
  BY <1>3 DEF Min, Max

LEMMA Extremes ==
  ASSUME NEW S, NEW n \in Nat, S \subseteq 1 .. n, S # {}
  PROVE  /\ Min(S) \in S /\ \A x \in S : Min(S) <= x
         /\ Max(S) \in S /\ \A x \in S : Max(S) >= x
<1>1. IsFiniteSet(1 .. n) /\ S \in SUBSET (1 .. n)
  BY FS_Interval
<1>2. IsFiniteSet(S) /\ S \in SUBSET Int
  <2>1. S \subseteq Int
    OBVIOUS
  <2>2. IsFiniteSet(S)
    BY <1>1, FS_Subset
  <2> QED
    BY <2>1, <2>2
<1> QED
  BY <1>2, FiniteExtremes

LEMMA QueueParts ==
  ASSUME NEW cs, NEW s \in Seq(Held), NEW low, Lined(cs, s, low)
  PROVE  /\ Len(cs) \in Nat /\ DOMAIN cs = 1 .. Len(cs)
         /\ \A k \in 1 .. Len(cs) : /\ cs[k] \in Int \X Values
                                    /\ cs[k][1] \in Int /\ cs[k][2] \in Values
                                    /\ cs[k][2] \in Int
  <1>1. cs \in Seq(Int \X Values)
    BY DEF Lined
  <1>2. Len(cs) \in Nat /\ DOMAIN cs = 1 .. Len(cs)
    BY <1>1, LenProperties
  <1>3. \A k \in 1 .. Len(cs) : cs[k] \in Int \X Values
    BY <1>1, ElementOfSeq
  <1> QED
    BY <1>2, <1>3, RollingAssumption

\* The newcomer pushes out from the back all that are no larger.
LEMMA NewcomerKeeps ==
  ASSUME NEW s \in Seq(Held), NEW low \in 1 .. Len(s) + 1, NEW cs, Queue(cs, s, low),
         NEW v \in Values
  PROVE  LET queued == Append(Outlasting(cs, v), <<Len(s), v>>)
         IN  Queue(queued, Append(s, v), low) /\ queued # <<>>
<1> DEFINE n == Len(s)
           more == Append(s, v)
           larger == {k \in DOMAIN cs : cs[k][2] > v}
           m == IF larger = {} THEN 0 ELSE Max(larger)
           kept == SubSeq(cs, 1, m)
           c == <<n, v>>
           size == Len(cs)
           queued == Append(kept, c)
<1>1. /\ more \in Seq(Held) /\ n \in Nat /\ Len(more) = n + 1
      /\ \A i \in 1 .. n : s[i] \in Held /\ more[i] = s[i]
      /\ more[n + 1] = v
  <2>1. v \in Held
    BY DEF Held
  <2> QED
    BY <2>1, Lengthens
<1>2. /\ size \in Nat /\ DOMAIN cs = 1 .. size /\ cs \in Seq(Int \X Values)
      /\ \A k \in 1 .. size : cs[k] \in Int \X Values /\ cs[k][1] \in Int /\ cs[k][2] \in Int
  BY QueueParts DEF Queue, Lined
<1> HIDE DEF size
<1>3. /\ \A k \in 1 .. size : /\ Place(cs[k]) \in low .. n
                                 /\ cs[k][2] = s[Place(cs[k])]
                                 /\ cs[k][1] <= n - 1 - (size - k)
      /\ \A k, l \in 1 .. size : k < l => cs[k][1] < cs[l][1] /\ cs[k][2] > cs[l][2]
  BY <1>2 DEF Queue, Lined, size
<1>4. v \in Int
  BY RollingAssumption
<1>5. /\ m \in 0 .. size
      /\ \A k \in 1 .. m : cs[k][2] > v
      /\ \A k \in m + 1 .. size : cs[k][2] <= v
  <2>1. CASE larger = {}
    <3>1. m = 0
      BY <2>1
    <3>2. \A k \in 1 .. size : ~(cs[k][2] > v)
      BY <1>2, <2>1
    <3> HIDE DEF m, larger, size
    <3>3. \A k \in 1 .. size : cs[k][2] <= v
      BY <1>2, <1>4, <3>2
    <3>4. size \in Nat
      BY <1>2
    <3> QED
      BY <3>1, <3>3, <3>4
  <2>2. CASE larger # {}
    <3>1. larger \subseteq 1 .. size
      BY <1>2
    <3>2. m \in larger /\ \A x \in larger : m >= x
      <4> HIDE DEF larger
      <4> QED
        BY <1>2, <2>2, <3>1, Extremes
    <3> HIDE DEF m
    <3>3. m \in 1 .. size /\ cs[m][2] > v
      BY <3>1, <3>2
    <3>4. ASSUME NEW k \in 1 .. m PROVE cs[k][2] > v
      <4>1. k \in 1 .. size
        BY <1>2, <3>3
      <4>2. k = m \/ cs[k][2] > cs[m][2]
        <5>1. k < m => cs[k][2] > cs[m][2]
          BY <1>3, <3>3, <4>1
        <5>2. k < m \/ k = m
          BY <1>2, <3>3
        <5> QED
          BY <5>1, <5>2
      <4> DEFINE x == cs[m][2]
                 y == cs[k][2]
      <4>3. x \in Int /\ y \in Int /\ x > v
        BY <1>2, <3>3, <4>1
      <4>4. y = x \/ y > x
        BY <4>2
      <4> HIDE DEF x, y
      <4>5. y > v
        BY <1>4, <4>3, <4>4
      <4> QED
        BY <4>5 DEF y
    <3>5. ASSUME NEW k \in m + 1 .. size PROVE cs[k][2] <= v
      <4>1. k \in 1 .. size /\ k > m
        BY <1>2, <3>3
      <4>2. k \notin larger
        <5>1. ~(m >= k)
          BY <3>3, <4>1
        <5> HIDE DEF larger
        <5> QED
          BY <3>2, <5>1
      <4>3. ~(cs[k][2] > v)
        BY <1>2, <4>1, <4>2
      <4> HIDE DEF larger
      <4> QED
        BY <1>2, <1>4, <4>1, <4>3
    <3> QED
      BY <3>3, <3>4, <3>5
  <2> QED
    BY <2>1, <2>2
<1>6. Outlasting(cs, v) = kept
  BY DEF Outlasting
<1> HIDE DEF m, larger
<1>7. /\ kept \in Seq(Int \X Values) /\ Len(kept) = m
      /\ \A k \in 1 .. m : kept[k] = cs[k]
  <2>1. \A k \in 1 .. m : cs[k] \in Int \X Values
    BY <1>2, <1>5
  <2>2. m \in Int /\ 1 \in Int
    BY <1>2, <1>5
  <2>3. /\ kept \in Seq(Int \X Values) /\ Len(kept) = IF 1 <= m THEN m - 1 + 1 ELSE 0
        /\ \A k \in 1 .. m - 1 + 1 : kept[k] = cs[1 + k - 1]
    BY <2>1, <2>2, SubSeqProperties
  <2> HIDE DEF kept
  <2> QED
    BY <1>2, <1>5, <2>3
<1> HIDE DEF kept
<1>8. c \in Int \X Values /\ c[1] = n /\ c[2] = v /\ Place(c) = n + 1
  BY <1>1 DEF Place
<1> HIDE DEF c
<1>9. /\ queued \in Seq(Int \X Values) /\ Len(queued) = m + 1 /\ DOMAIN queued = 1 .. m + 1
      /\ \A k \in 1 .. m : queued[k] = cs[k]
      /\ queued[m + 1] = c
  BY <1>7, <1>8, Lengthens
<1> HIDE DEF queued, n, more
<1>10. low \in Nat \ {0} /\ low <= n + 1
  BY <1>1 DEF n
<1>11. ASSUME NEW k \in 1 .. m + 1
       PROVE  /\ Place(queued[k]) \in low .. n + 1
              /\ queued[k][2] = more[Place(queued[k])]
              /\ queued[k][1] <= (n + 1) - 1 - ((m + 1) - k)
  <2>1. CASE k = m + 1
    BY <1>1, <1>5, <1>8, <1>9, <1>10, <2>1
  <2>2. CASE k \in 1 .. m
    <3>1. k \in 1 .. size /\ queued[k] = cs[k]
      BY <1>2, <1>5, <1>9, <2>2
    <3>2. Place(cs[k]) \in low .. n /\ Place(cs[k]) \in 1 .. n
      BY <1>1, <1>3, <1>10, <3>1
    <3>3. cs[k][1] <= n - 1 - (size - k)
      BY <1>3, <3>1
    <3>4. n \in Int /\ m \in Int /\ size \in Int /\ k \in Int /\ m <= size
      BY <1>1, <1>2, <1>5
    <3>5. cs[k][1] \in Int
      BY <1>2, <3>1
    <3>6. cs[k][1] <= (n + 1) - 1 - ((m + 1) - k)
      BY <3>3, <3>4, <3>5
    <3>7. cs[k][2] = more[Place(cs[k])]
      BY <1>1, <1>3, <3>1, <3>2
    <3> QED
      BY <1>1, <1>10, <3>1, <3>2, <3>6, <3>7
  <2> QED
    BY <1>2, <1>5, <2>1, <2>2
<1>12. ASSUME NEW k \in 1 .. m + 1, NEW l \in 1 .. m + 1, k < l
       PROVE  queued[k][1] < queued[l][1] /\ queued[k][2] > queued[l][2]
  <2>1. k \in 1 .. m /\ k \in 1 .. size /\ queued[k] = cs[k]
    <3>1. m \in Nat /\ size \in Nat /\ m <= size
      BY <1>2, <1>5
    <3>2. k \in 1 .. m /\ k \in 1 .. size
      BY <1>12, <3>1
    <3> QED
      BY <1>9, <3>2
  <2>2. CASE l \in 1 .. m
    <3>1. m \in Nat /\ size \in Nat /\ m <= size
      BY <1>2, <1>5
    <3>2. l \in 1 .. size /\ queued[l] = cs[l]
      BY <1>9, <2>2, <3>1
    <3> QED
      BY <1>3, <1>12, <2>1, <3>2
  <2>3. CASE l = m + 1
    <3>1. queued[l][1] = n /\ queued[l][2] = v
      BY <1>8, <1>9, <2>3
    <3>2. cs[k][1] < n
      BY <1>1, <1>2, <1>3, <1>10, <2>1 DEF Place
    <3> QED
      BY <1>5, <2>1, <3>1, <3>2
  <2> QED
    BY <1>2, <1>5, <2>2, <2>3
<1>13. Lined(queued, more, low)
  BY <1>1, <1>9, <1>11, <1>12 DEF Lined
<1>14. ASSUME NEW p \in low .. n + 1, \A q \in p .. n + 1 : more[q] # NaN
       PROVE  \E k \in 1 .. m + 1 : Place(queued[k]) >= p /\ queued[k][2] >= more[p]
  <2>1. CASE p = n + 1
    <3>1. m + 1 \in 1 .. m + 1
      BY <1>5
    <3>2. Place(queued[m + 1]) >= p /\ queued[m + 1][2] >= more[p]
      BY <1>1, <1>4, <1>8, <1>9, <2>1
    <3> QED
      BY <3>1, <3>2
  <2>2. CASE p # n + 1
    <3>1. p \in low .. n /\ p \in 1 .. n /\ more[p] = s[p]
      BY <1>1, <1>10, <2>2
    <3>2. \A q \in p .. n : s[q] # NaN
      BY <1>1, <1>10, <1>14, <3>1
    <3>3. PICK k \in 1 .. size : Place(cs[k]) >= p /\ cs[k][2] >= s[p]
      BY <1>2, <3>1, <3>2 DEF Queue, Covered, n
    <3>4. s[p] \in Int
      <4>1. s[p] \in Values
        <5>1. s[p] \in Held /\ s[p] # NaN
          BY <1>1, <1>10, <3>1, <3>2
        <5> QED
          BY <5>1 DEF Held
      <4> QED
        BY <4>1, RollingAssumption
    <3>5. CASE k \in 1 .. m
      <4>1. k \in 1 .. m + 1 /\ queued[k] = cs[k]
        BY <1>5, <1>9, <3>5
      <4> QED
        BY <3>1, <3>3, <4>1
    <3>6. CASE k \in m + 1 .. size
      <4>1. cs[k][2] <= v /\ cs[k][2] \in Int
        BY <1>2, <1>5, <3>6
      <4>2. v >= s[p]
        BY <1>4, <3>3, <3>4, <4>1
      <4>3. m + 1 \in 1 .. m + 1 /\ Place(queued[m + 1]) >= p /\ queued[m + 1][2] >= more[p]
        BY <1>1, <1>5, <1>8, <1>9, <3>1, <4>2
      <4> QED
        BY <4>3
    <3> QED
      BY <1>2, <1>5, <3>5, <3>6
  <2> QED
    BY <2>1, <2>2
<1>15. Covered(queued, more, low)
  BY <1>1, <1>9, <1>14 DEF Covered
<1>16. queued # <<>>
  BY <1>5, <1>9
<1> QED
  BY <1>6, <1>13, <1>15, <1>16 DEF Queue, queued, c, n, more

\* What has left the window stands at the front, and leaves the queue with it.
LEMMA ExpiryKeeps ==
  ASSUME NEW s \in Seq(Held), NEW low \in Nat \ {0}, NEW cs, Queue(cs, s, low),
         Start(s) \in {low, low + 1}, Len(s) > 0,
         NEW index, index = Len(s) - 1
  PROVE  /\ Queue(Current(cs, index), s, Start(s))
         /\ cs # <<>> /\ cs[Len(cs)][1] = index => Current(cs, index) # <<>>
<1> DEFINE n == Len(s)
           size == Len(cs)
           fresh == {k \in DOMAIN cs : cs[k][1] > index - Period}
           a == Start(s)
<1>1. /\ n \in Nat /\ n > 0 /\ Period \in Nat \ {0} /\ a \in Nat \ {0} /\ low <= a
      /\ a = IF n < Period THEN 1 ELSE n - Period + 1
  BY SeenType
<1>2. /\ size \in Nat /\ DOMAIN cs = 1 .. size /\ cs \in Seq(Int \X Values)
      /\ \A k \in 1 .. size : cs[k] \in Int \X Values /\ cs[k][1] \in Int /\ cs[k][2] \in Int
  BY QueueParts DEF Queue, Lined
<1>3. /\ \A k \in 1 .. size : /\ Place(cs[k]) \in low .. n
                              /\ cs[k][2] = s[Place(cs[k])]
                              /\ cs[k][1] <= n - 1 - (size - k)
      /\ \A k, l \in 1 .. size : k < l => cs[k][1] < cs[l][1] /\ cs[k][2] > cs[l][2]
  BY <1>2 DEF Queue, Lined
<1>4. \A k \in 1 .. size : k \in fresh <=> Place(cs[k]) >= a
  <2>1. ASSUME NEW k \in 1 .. size PROVE k \in fresh <=> Place(cs[k]) >= a
    <3>1. k \in fresh <=> cs[k][1] > (n - 1) - Period
      BY <1>2
    <3>2. cs[k][1] \in Int /\ Place(cs[k]) = cs[k][1] + 1 /\ Place(cs[k]) >= low
      BY <1>2, <1>3 DEF Place
    <3>3. cs[k][1] > (n - 1) - Period <=> Place(cs[k]) >= a
      <4> HIDE DEF n, a, size, fresh
      <4> QED
        BY <1>1, <3>2
    <3> QED
      BY <3>1, <3>3
  <2> QED
    BY <2>1
<1>5. fresh \subseteq 1 .. size
  BY <1>2
<1>6. n = Len(s) /\ a = Start(s) /\ size = Len(cs) /\ index = n - 1
  OBVIOUS
<1>7. Covered(cs, s, low)
  BY DEF Queue
<1>8. /\ fresh = {} => Current(cs, index) = <<>>
      /\ fresh # {} => Current(cs, index) = SubSeq(cs, Min(fresh), size)
  BY DEF Current
<1>9. \A p \in a .. n : (\A q \in p .. n : s[q] # NaN) =>
        \E k \in fresh : Place(cs[k]) >= p /\ cs[k][2] >= s[p]
  <2> HIDE DEF fresh, n, a, size
  <2>1. ASSUME NEW p \in a .. n, \A q \in p .. n : s[q] # NaN
        PROVE  \E k \in fresh : Place(cs[k]) >= p /\ cs[k][2] >= s[p]
    <3>1. p \in low .. n
      BY <1>1
    <3>2. PICK k \in 1 .. size : Place(cs[k]) >= p /\ cs[k][2] >= s[p]
      BY <1>2, <1>6, <1>7, <2>1, <3>1 DEF Covered
    <3>3. Place(cs[k]) >= a
      <4>1. Place(cs[k]) \in Int /\ p \in Int /\ p >= a
        BY <1>1, <1>3, <3>2
      <4> QED
        BY <1>1, <3>2, <4>1
    <3> QED
      BY <1>4, <3>2, <3>3
  <2> QED
    BY <2>1
<1>10. cs # <<>> /\ cs[Len(cs)][1] = index => size \in fresh
  <2> SUFFICES ASSUME cs # <<>>, cs[size][1] = index PROVE size \in fresh
    OBVIOUS
  <2>1. size \in 1 .. size
    BY <1>2, EmptySeq
  <2>2. Place(cs[size]) = n
    BY <1>1, <1>6 DEF Place
  <2>3. n >= a
    BY <1>1
  <2> QED
    BY <1>4, <2>1, <2>2, <2>3
<1> HIDE DEF fresh, n, a, size
<1>11. CASE fresh = {}
  <2>1. Current(cs, index) = <<>> /\ <<>> \in Seq(Int \X Values) /\ DOMAIN <<>> = {}
    BY <1>8, <1>11, EmptySeq
  <2>2. Lined(<<>>, s, a)
    BY <2>1 DEF Lined
  <2>3. Covered(<<>>, s, a)
    BY <1>6, <1>9, <1>11 DEF Covered
  <2> QED
    BY <1>6, <1>10, <1>11, <2>1, <2>2, <2>3 DEF Queue
<1>12. CASE fresh # {}
  <2> DEFINE f == Min(fresh)
             r == SubSeq(cs, f, size)
             left == size - f + 1
  <2>1. f \in fresh /\ \A x \in fresh : f <= x
    BY <1>2, <1>5, <1>12, Extremes
  <2> HIDE DEF f
  <2>2. f \in 1 .. size /\ Place(cs[f]) >= a
    BY <1>4, <1>5, <2>1
  <2>3. /\ r \in Seq(Int \X Values) /\ Len(r) = left
        /\ \A k \in 1 .. left : r[k] = cs[f + k - 1]
    <3>1. \A k \in f .. size : cs[k] \in Int \X Values
      BY <1>2, <2>2
    <3>2. f \in Int /\ size \in Int /\ f <= size
      BY <1>2, <2>2
    <3> QED
      BY <3>1, <3>2, SubSeqProperties
  <2>4. left \in Nat \ {0} /\ DOMAIN r = 1 .. left
    <3>1. left \in Nat \ {0}
      BY <1>2, <2>2
    <3>2. DOMAIN r = 1 .. Len(r)
      BY <2>3, LenProperties
    <3> QED
      BY <2>3, <3>1, <3>2
  <2>5. r = Current(cs, index)
    BY <1>8, <1>12 DEF f
  <2> HIDE DEF r
  <2>6. \A k \in 1 .. left : /\ f + k - 1 \in 1 .. size /\ r[k] = cs[f + k - 1]
                             /\ size - (f + k - 1) = left - k
    BY <1>2, <2>2, <2>3
  <2>7. \A k \in f .. size : Place(cs[k]) >= a
    <3>1. ASSUME NEW k \in f .. size PROVE Place(cs[k]) >= a
      <4>1. k \in 1 .. size
        BY <1>2, <2>2
      <4>2. k = f \/ cs[f][1] < cs[k][1]
        BY <1>3, <2>2, <4>1
      <4> DEFINE x == cs[f][1]
                 y == cs[k][1]
      <4>3. x \in Int /\ y \in Int /\ a \in Int /\ x + 1 >= a
        BY <1>1, <1>2, <2>2, <4>1 DEF Place
      <4>4. y = x \/ x < y
        BY <4>2
      <4> HIDE DEF x, y
      <4>5. y + 1 >= a
        BY <4>3, <4>4
      <4> QED
        BY <4>5 DEF y, Place
    <3> QED
      BY <3>1
  <2> HIDE DEF left
  <2>8. ASSUME NEW k \in 1 .. left
        PROVE  /\ Place(r[k]) \in a .. n
               /\ r[k][2] = s[Place(r[k])]
               /\ r[k][1] <= n - 1 - (left - k)
    <3>1. PICK j \in 1 .. size : j = f + k - 1 /\ r[k] = cs[j] /\ size - j = left - k
      BY <2>6
    <3>2. Place(cs[j]) >= a
      <4>1. f \in Int /\ k \in Int /\ k >= 1 /\ size \in Int /\ j \in Int /\ j <= size
        BY <1>2, <2>2, <2>4
      <4>2. j \in f .. size
        BY <3>1, <4>1
      <4> QED
        BY <2>7, <4>2
    <3> QED
      BY <1>1, <1>3, <3>1, <3>2
  <2>9. ASSUME NEW k \in 1 .. left, NEW l \in 1 .. left, k < l
        PROVE  r[k][1] < r[l][1] /\ r[k][2] > r[l][2]
    <3>1. PICK i \in 1 .. size : i = f + k - 1 /\ r[k] = cs[i]
      BY <2>6
    <3>2. PICK j \in 1 .. size : j = f + l - 1 /\ r[l] = cs[j]
      BY <2>6
    <3>3. i < j
      BY <1>2, <2>2, <2>4, <2>9, <3>1, <3>2
    <3> QED
      BY <1>3, <3>1, <3>2, <3>3
  <2>10. Lined(r, s, a)
    BY <1>6, <2>3, <2>4, <2>8, <2>9 DEF Lined, left
  <2>11. ASSUME NEW p \in a .. n, \A q \in p .. n : s[q] # NaN
         PROVE  \E k \in 1 .. left : Place(r[k]) >= p /\ r[k][2] >= s[p]
    <3>1. PICK j \in fresh : Place(cs[j]) >= p /\ cs[j][2] >= s[p]
      BY <1>9, <2>11
    <3>2. j \in 1 .. size /\ f <= j
      BY <1>5, <2>1
    <3>3. j - f + 1 \in 1 .. left
      BY <1>2, <2>2, <3>2 DEF left
    <3>4. f + (j - f + 1) - 1 = j
      BY <2>2, <3>2
    <3>5. r[j - f + 1] = cs[j]
      BY <2>6, <3>3, <3>4
    <3> QED
      BY <3>1, <3>3, <3>5
  <2>12. Covered(r, s, a)
    BY <1>6, <2>4, <2>11 DEF Covered
  <2>13. r # <<>>
    BY <2>3, <2>4 DEF left
  <2> QED
    BY <1>6, <2>5, <2>10, <2>12, <2>13 DEF Queue
<1> QED
  BY <1>11, <1>12

\* What RollingExtremeState keeps of the series it was given.
ExtremeKept(h, s) ==
  /\ h.index = Len(s) - 1
  /\ Slid(h.window, s)
  /\ h.invalid = Cardinality(Missing(s))
  /\ Queue(h.candidates, s, Start(s))

LEMMA ExtremeKeeps ==
  ASSUME NEW s \in Seq(Held), NEW h, ExtremeKept(h, s), NEW v \in Held
  PROVE  ExtremeKept(ExtremeUpdate(h, v), Append(s, v))
<1> DEFINE more == Append(s, v)
           n == Len(s)
           pushed == Pushed(h.window, v)
           gone == Dropped(pushed)
           came == IF v = NaN THEN 1 ELSE 0
           missed == IF gone = <<NaN>> THEN 1 ELSE 0
           queued == IF v = NaN THEN <<>> ELSE Append(Outlasting(h.candidates, v), <<n, v>>)
           r == ExtremeUpdate(h, v)
<1>1. /\ more \in Seq(Held) /\ n \in Nat /\ Len(more) = n + 1
      /\ more[n + 1] = v
  BY Lengthens
<1>2. /\ Slid(Popped(pushed), more)
      /\ n < Period => gone = <<>>
      /\ ~(n < Period) => gone = <<s[Start(s)]>>
  BY Slides DEF ExtremeKept
<1>3. h.index + 1 = n
  BY <1>1 DEF ExtremeKept
<1>4. /\ r.index = n /\ r.window = Popped(pushed)
      /\ r.invalid = h.invalid + came - missed
      /\ r.candidates = Current(queued, n)
  BY <1>3 DEF ExtremeUpdate
<1>5. missed = IF ~(n < Period) /\ s[Start(s)] = NaN THEN 1 ELSE 0
  <2> HIDE DEF gone
  <2>1. CASE n < Period
    <3>1. gone = <<>> /\ <<>> # <<NaN>>
      BY <1>2, <2>1
    <3> QED
      BY <2>1, <3>1
  <2>2. CASE ~(n < Period)
    <3>1. gone = <<NaN>> <=> s[Start(s)] = NaN
      BY <1>2, <2>2, OneLeaves
    <3> QED
      BY <2>2, <3>1
  <2> QED
    BY <2>1, <2>2
<1>6. r.invalid = Cardinality(Missing(more))
  <2>1. came = IF v = NaN THEN 1 ELSE 0
    OBVIOUS
  <2> HIDE DEF came, missed, r
  <2> QED
    BY <1>4, <1>5, <2>1, CountSlides DEF ExtremeKept
<1>7. Start(s) \in 1 .. n + 1 /\ Start(more) \in {Start(s), Start(s) + 1}
  <2>1. Start(s) \in 1 .. n + 1
    BY <1>1, SeenType
  <2> QED
    BY <2>1, NextStart
<1>8. Queue(queued, more, Start(s))
  <2>1. CASE v = NaN
    <3>1. queued = <<>> /\ <<>> \in Seq(Int \X Values) /\ DOMAIN <<>> = {}
      BY <2>1, EmptySeq
    <3>2. Lined(<<>>, more, Start(s))
      BY <3>1 DEF Lined
    <3>3. Covered(<<>>, more, Start(s))
      <4>1. SUFFICES ASSUME NEW p \in Start(s) .. n + 1, \A q \in p .. n + 1 : more[q] # NaN
                     PROVE  FALSE
        BY <1>1 DEF Covered
      <4>2. n + 1 \in p .. n + 1
        BY <1>1, <1>7
      <4> QED
        BY <1>1, <2>1, <4>1, <4>2
    <3> QED
      BY <3>1, <3>2, <3>3 DEF Queue
  <2>2. CASE v # NaN
    <3>1. v \in Values
      BY <2>2 DEF Held
    <3>2. Queue(Append(Outlasting(h.candidates, v), <<n, v>>), more, Start(s))
      BY <1>7, <3>1, NewcomerKeeps DEF ExtremeKept
    <3> QED
      BY <2>2, <3>2
  <2> QED
    BY <2>1, <2>2
<1>9. Queue(r.candidates, more, Start(more))
  <2> DEFINE low == Start(s)
  <2>1. /\ low \in Nat \ {0} /\ Start(more) \in {low, low + 1} /\ Len(more) > 0
        /\ n = Len(more) - 1 /\ Queue(queued, more, low)
    BY <1>1, <1>7, <1>8
  <2> HIDE DEF low, queued, r, n, more
  <2>2. Queue(Current(queued, n), more, Start(more))
    BY <1>1, <2>1, ExpiryKeeps
  <2> QED
    BY <1>4, <2>2
<1> QED
  BY <1>1, <1>2, <1>4, <1>6, <1>9 DEF ExtremeKept

LEMMA MaxIs ==
  ASSUME NEW S, S \subseteq Int, NEW x \in S, \A y \in S : x >= y
  PROVE  Max(S) = x
<1>1. Max(S) \in S /\ \A y \in S : Max(S) >= y
  BY DEF Max
<1>2. Max(S) \in Int /\ x \in Int /\ Max(S) >= x /\ x >= Max(S)
  BY <1>1
<1> QED
  BY <1>2

\* The front of a queue that covers a whole window is its greatest value.
LEMMA ExtremeAnswers ==
  ASSUME NEW s \in Seq(Held), NEW h, ExtremeKept(h, s)
  PROVE  ExtremeCurrent(h)
           = IF WholeIn(s) THEN Max({s[i] : i \in Len(s) - Period + 1 .. Len(s)}) ELSE NaN
<1> DEFINE cs == h.candidates
           n == Len(s)
           a == Start(s)
           S == {s[i] : i \in a .. n}
<1>1. Len(h.window) = Period /\ h.invalid = 0 <=> WholeIn(s)
  BY NothingMissing DEF ExtremeKept, Slid
<1>2. CASE WholeIn(s)
  <2>1. /\ a = n - Period + 1 /\ n \in Nat /\ a \in Nat \ {0} /\ a <= n
        /\ \A i \in a .. n : i \in 1 .. n /\ s[i] # NaN
    <3>1. /\ n \in Nat /\ Period \in Nat \ {0} /\ a \in Nat \ {0}
          /\ a = IF n < Period THEN 1 ELSE n - Period + 1
      BY SeenType
    <3>2. n >= Period /\ \A i \in n - Period + 1 .. n : s[i] # NaN
      BY <1>2 DEF WholeIn
    <3>3. a = n - Period + 1
      BY <3>1, <3>2
    <3> HIDE DEF n, a
    <3>4. a <= n /\ \A i \in a .. n : i \in 1 .. n
      BY <3>1, <3>3
    <3> QED
      BY <3>1, <3>2, <3>3, <3>4
  <2>2. \A i \in a .. n : s[i] \in Values /\ s[i] \in Int
    <3>1. \A i \in 1 .. n : s[i] \in Held
      BY ElementOfSeq
    <3> QED
      BY <2>1, <3>1, RollingAssumption DEF Held
  <2>3. Lined(cs, s, a) /\ Covered(cs, s, a)
    BY DEF ExtremeKept, Queue
  <2>4. /\ Len(cs) \in Nat /\ DOMAIN cs = 1 .. Len(cs)
        /\ \A k \in 1 .. Len(cs) : cs[k][2] \in Int
    BY <2>3, QueueParts
  <2>5. ASSUME NEW p \in a .. n
        PROVE  \E k \in 1 .. Len(cs) : cs[k][2] >= s[p]
    <3>1. \A q \in p .. n : s[q] # NaN
      BY <2>1
    <3> QED
      BY <2>3, <2>4, <3>1 DEF Covered
  <2>6. 1 \in 1 .. Len(cs)
    <3>1. \E k \in 1 .. Len(cs) : TRUE
      BY <2>1, <2>5
    <3> QED
      BY <2>4, <3>1
  <2>7. cs[1][2] \in S
    <3>1. Place(cs[1]) \in a .. n /\ cs[1][2] = s[Place(cs[1])]
      BY <2>3, <2>4, <2>6 DEF Lined
    <3> QED
      BY <3>1
  <2>8. ASSUME NEW p \in a .. n PROVE cs[1][2] >= s[p]
    <3>1. PICK k \in 1 .. Len(cs) : cs[k][2] >= s[p]
      BY <2>5
    <3>2. k = 1 \/ 1 < k
      BY <2>4
    <3>3. \A i, j \in 1 .. Len(cs) : i < j => cs[i][2] > cs[j][2]
      <4>1. \A i, j \in DOMAIN cs : i < j => cs[i][2] > cs[j][2]
        BY <2>3 DEF Lined
      <4> HIDE DEF cs
      <4> QED
        BY <2>4, <4>1
    <3> QED
      <4> HIDE DEF cs
      <4>1. k = 1 \/ cs[1][2] > cs[k][2]
        BY <2>6, <3>2, <3>3
      <4> QED
        BY <2>2, <2>4, <2>6, <3>1, <4>1
  <2>9. Max(S) = cs[1][2]
    <3>1. S \subseteq Int /\ \A y \in S : cs[1][2] >= y
      BY <2>2, <2>8
    <3> HIDE DEF S
    <3> QED
      BY <2>7, <3>1, MaxIs
  <2>10. cs # <<>>
    BY <2>6, EmptySeq
  <2> QED
    BY <1>1, <1>2, <2>1, <2>9, <2>10 DEF ExtremeCurrent
<1>3. CASE ~WholeIn(s)
  BY <1>1, <1>3 DEF ExtremeCurrent
<1> QED
  BY <1>2, <1>3

\* The queue is no longer than the window.
LEMMA QueueFits ==
  ASSUME NEW s \in Seq(Held), NEW cs, Queue(cs, s, Start(s))
  PROVE  Len(cs) <= Period
<1> DEFINE n == Len(s)
           size == Len(cs)
           a == Start(s)
<1>1. /\ n \in Nat /\ Period \in Nat \ {0} /\ a \in Nat \ {0}
      /\ a = IF n < Period THEN 1 ELSE n - Period + 1
  BY SeenType
<1>2. size \in Nat /\ DOMAIN cs = 1 .. size /\ \A k \in 1 .. size : cs[k][1] \in Int
  BY QueueParts DEF Queue
<1>3. \A k \in 1 .. size : Place(cs[k]) \in a .. n /\ cs[k][1] <= n - 1 - (size - k)
  BY <1>2 DEF Queue, Lined
<1> HIDE DEF n, size, a
<1>4. CASE size = 0
  BY <1>1, <1>4 DEF size
<1>5. CASE size # 0
  <2>1. 1 \in 1 .. size
    BY <1>2, <1>5
  <2>2. cs[1][1] \in Int /\ cs[1][1] + 1 >= a /\ cs[1][1] <= n - 1 - (size - 1)
    BY <1>1, <1>2, <1>3, <2>1 DEF Place
  <2>3. size <= Period
    BY <1>1, <1>2, <2>2
  <2> QED
    BY <2>3 DEF size
<1> QED
  BY <1>4, <1>5

Judgments == {0, 100, -100}
Answers == Judgments \cup {200, -200}

Memory == {"candles", "near", "patternIdx", "patternResult", "said"}

\* The pattern that may still be confirmed is the last thing said; where none
\* is left, three candles have passed since candle 0.
Waiting(idx, result, said) ==
  \/ idx = 0 /\ (result = 0 \/ Len(said) > ConfirmationBars)
  \/ /\ idx \in 2 .. Len(said) - 1
     /\ result # 0 /\ said[idx + 1] = result
     /\ \A j \in idx + 2 .. Len(said) : said[j] = 0

\* The answer at i would confirm the one at p.
Announced(said, p, i, answer) ==
  /\ p < i /\ i - p <= ConfirmationBars /\ 2 * said[p] = answer
  /\ \A j \in p + 1 .. i - 1 : said[j] = 0

Confirms(said) ==
  \A i \in DOMAIN said :
    said[i] \in {200, -200} => \E p \in DOMAIN said : Announced(said, p, i, said[i])

Remembers(s) ==
  /\ DOMAIN s = Memory
  /\ s.candles \in Seq(CandleShapes) /\ s.said \in Seq(Answers)
  /\ Len(s.said) = Len(s.candles)
  /\ s.patternResult \in Judgments
  /\ Waiting(s.patternIdx, s.patternResult, s.said) /\ Confirms(s.said)

\* One answer more leaves what was said.
LEMMA SaidMore ==
  ASSUME NEW said \in Seq(Answers), NEW a \in Answers
  PROVE  /\ Append(said, a) \in Seq(Answers) /\ Len(Append(said, a)) = Len(said) + 1
         /\ DOMAIN Append(said, a) = 1 .. Len(said) + 1
         /\ DOMAIN said = 1 .. Len(said) /\ Len(said) \in Nat
         /\ \A i \in 1 .. Len(said) : Append(said, a)[i] = said[i]
         /\ Append(said, a)[Len(said) + 1] = a
  BY AppendProperties, LenProperties

\* Only a confirmation needs an announcement.
LEMMA StillConfirms ==
  ASSUME NEW said \in Seq(Answers), Confirms(said), NEW a \in Answers,
         a \in {200, -200} =>
           \E p \in DOMAIN said : Announced(said, p, Len(said) + 1, a)
  PROVE  Confirms(Append(said, a))
<1> DEFINE n == Len(said)
           more == Append(said, a)
<1>1. /\ n \in Nat /\ DOMAIN said = 1 .. n /\ DOMAIN more = 1 .. n + 1
      /\ \A i \in 1 .. n : more[i] = said[i]
      /\ more[n + 1] = a
  BY SaidMore
<1> HIDE DEF n, more
<1>2. ASSUME NEW i \in 1 .. n + 1, NEW p \in 1 .. n, NEW answer,
             Announced(said, p, i, answer)
      PROVE  Announced(more, p, i, answer)
  <2>1. \A j \in p + 1 .. i - 1 : j \in 1 .. n
    BY <1>1
  <2>2. \A j \in p + 1 .. i - 1 : more[j] = 0
    BY <1>1, <1>2, <2>1 DEF Announced
  <2> QED
    BY <1>1, <1>2, <2>2 DEF Announced
<1>3. SUFFICES ASSUME NEW i \in 1 .. n + 1, more[i] \in {200, -200}
               PROVE  \E p \in 1 .. n : Announced(more, p, i, more[i])
  BY <1>1 DEF Confirms, more
<1>4. CASE i \in 1 .. n
  <2>1. PICK p \in 1 .. n : Announced(said, p, i, said[i])
    BY <1>1, <1>3, <1>4 DEF Confirms
  <2> QED
    BY <1>1, <1>2, <1>4, <2>1
<1>5. CASE i = n + 1
  <2>1. PICK p \in 1 .. n : Announced(said, p, n + 1, a)
    BY <1>1, <1>3, <1>5 DEF n
  <2> QED
    BY <1>1, <1>2, <1>5, <2>1
<1> QED
  BY <1>1, <1>4, <1>5

LEMMA ZeroIsNoConfirmation == 0 \in Answers /\ 0 \notin {200, -200}
  BY DEF Answers, Judgments

\* An answer of zero leaves the pattern waiting.
LEMMA StillWaiting ==
  ASSUME NEW said \in Seq(Answers), NEW idx, NEW result, Waiting(idx, result, said)
  PROVE  Waiting(idx, result, Append(said, 0))
<1> DEFINE n == Len(said)
           more == Append(said, 0)
<1>1. /\ n \in Nat /\ Len(more) = n + 1 /\ more[n + 1] = 0
      /\ \A i \in 1 .. n : more[i] = said[i]
  BY ZeroIsNoConfirmation, SaidMore
<1>2. \/ idx = 0 /\ (result = 0 \/ n > ConfirmationBars)
      \/ /\ idx \in 2 .. n - 1 /\ result # 0 /\ said[idx + 1] = result
         /\ \A j \in idx + 2 .. n : said[j] = 0
  BY DEF Waiting
<1> HIDE DEF n, more
<1>3. SUFFICES Waiting(idx, result, more)
  BY DEF more
<1>4. CASE idx = 0 /\ (result = 0 \/ n > ConfirmationBars)
  BY <1>1, <1>4 DEF Waiting, ConfirmationBars
<1>5. CASE /\ idx \in 2 .. n - 1 /\ result # 0 /\ said[idx + 1] = result
           /\ \A j \in idx + 2 .. n : said[j] = 0
  <2>1. idx + 1 \in 1 .. n
    BY <1>1, <1>5
  <2>2. ASSUME NEW j \in idx + 2 .. n + 1 PROVE more[j] = 0
    <3>1. j = n + 1 \/ (j \in 1 .. n /\ j \in idx + 2 .. n)
      BY <1>1, <1>5
    <3> QED
      BY <1>1, <1>5, <3>1
  <2> QED
    BY <1>1, <1>5, <2>1, <2>2 DEF Waiting
<1> QED
  BY <1>2, <1>4, <1>5

\* A step that judges nothing before the third candle keeps the memory.
LEMMA AdvanceRemembers ==
  ASSUME NEW s, Remembers(s), NEW c \in CandleShapes, NEW near,
         NEW given, given = [s EXCEPT !.candles = Append(@, c), !.near = near],
         NEW judged \in Judgments, Len(s.candles) >= 2,
         NEW r, r = Advance(given, judged, Len(s.candles))
  PROVE  Remembers(r)
<1> DEFINE n == Len(s.candles)
<1>1. /\ DOMAIN given = Memory /\ given.candles = Append(s.candles, c)
      /\ given.said = s.said /\ given.patternIdx = s.patternIdx
      /\ given.patternResult = s.patternResult
  BY DEF Remembers, Memory
<1>2. /\ n \in Nat /\ Len(s.said) = n /\ s.said \in Seq(Answers)
      /\ DOMAIN s.said = 1 .. n /\ s.patternResult \in Judgments
      /\ Append(s.candles, c) \in Seq(CandleShapes)
      /\ Len(Append(s.candles, c)) = n + 1 /\ n >= 2
  BY AppendProperties, LenProperties DEF Remembers
<1>3. Waiting(s.patternIdx, s.patternResult, s.said) /\ Confirms(s.said)
  BY DEF Remembers
<1>4. /\ DOMAIN r = Memory /\ r.candles = Append(s.candles, c)
      /\ \/ /\ judged # 0 /\ r.said = Append(s.said, judged)
            /\ r.patternIdx = n /\ r.patternResult = judged
         \/ /\ judged = 0 /\ n <= s.patternIdx + ConfirmationBars
            /\ s.patternResult > 0 \/ s.patternResult < 0
            /\ r.said = Append(s.said, 2 * s.patternResult)
            /\ r.patternIdx = 0 /\ r.patternResult = s.patternResult
         \/ /\ judged = 0 /\ r.said = Append(s.said, 0)
            /\ r.patternIdx = s.patternIdx
            /\ r.patternResult = s.patternResult
  <2>1. r = Advance(given, judged, n)
    OBVIOUS
  <2> HIDE DEF n
  <2> QED
    BY <1>1, <2>1 DEF Advance, Memory
<1> HIDE DEF n
<1>5. CASE /\ judged # 0 /\ r.said = Append(s.said, judged)
           /\ r.patternIdx = n /\ r.patternResult = judged
  <2>1. /\ r.said \in Seq(Answers) /\ Len(r.said) = n + 1
        /\ r.said[n + 1] = judged
    <3>1. judged \in Answers
      BY DEF Answers
    <3>2. /\ Append(s.said, judged) \in Seq(Answers)
          /\ Len(Append(s.said, judged)) = n + 1
          /\ Append(s.said, judged)[n + 1] = judged
      BY <1>2, <3>1, SaidMore
    <3> QED
      BY <1>5, <3>2
  <2>2. Waiting(r.patternIdx, r.patternResult, r.said)
    BY <1>2, <1>5, <2>1 DEF Waiting, Judgments
  <2>3. Confirms(r.said)
    <3>1. judged \in Answers /\ judged \notin {200, -200}
      BY DEF Judgments, Answers
    <3> QED
      BY <1>2, <1>3, <1>5, <3>1, StillConfirms
  <2> QED
    BY <1>2, <1>4, <1>5, <2>1, <2>2, <2>3 DEF Remembers
<1>6. CASE /\ judged = 0 /\ n <= s.patternIdx + ConfirmationBars
           /\ s.patternResult > 0 \/ s.patternResult < 0
           /\ r.said = Append(s.said, 2 * s.patternResult)
           /\ r.patternIdx = 0 /\ r.patternResult = s.patternResult
  <2>1. /\ s.patternIdx \in 2 .. n - 1
        /\ s.said[s.patternIdx + 1] = s.patternResult
        /\ \A j \in s.patternIdx + 2 .. n : s.said[j] = 0
    BY <1>2, <1>3, <1>6 DEF Waiting, ConfirmationBars
  <2>2. 2 * s.patternResult \in Answers
    BY <1>2, <1>6 DEF Judgments, Answers
  <2>3. r.said \in Seq(Answers) /\ Len(r.said) = n + 1
    <3>1. /\ Append(s.said, 2 * s.patternResult) \in Seq(Answers)
          /\ Len(Append(s.said, 2 * s.patternResult)) = n + 1
      BY <1>2, <2>2, SaidMore
    <3> QED
      BY <1>6, <3>1
  <2>4. Waiting(r.patternIdx, r.patternResult, r.said)
    BY <1>2, <1>6, <2>1, <2>3 DEF Waiting, ConfirmationBars
  <2>5. Announced(s.said, s.patternIdx + 1, n + 1, 2 * s.patternResult)
    BY <1>2, <1>6, <2>1 DEF Announced, ConfirmationBars, Judgments
  <2>6. Confirms(r.said)
    <3>1. s.patternIdx + 1 \in DOMAIN s.said
      BY <1>2, <2>1
    <3> QED
      BY <1>2, <1>3, <1>6, <2>2, <2>5, <3>1, StillConfirms
  <2> QED
    BY <1>2, <1>4, <1>6, <2>3, <2>4, <2>6 DEF Remembers
<1>7. CASE /\ judged = 0 /\ r.said = Append(s.said, 0)
           /\ r.patternIdx = s.patternIdx
           /\ r.patternResult = s.patternResult
  <2>1. r.said \in Seq(Answers) /\ Len(r.said) = n + 1
    <3>1. Append(s.said, 0) \in Seq(Answers) /\ Len(Append(s.said, 0)) = n + 1
      BY <1>2, ZeroIsNoConfirmation, SaidMore
    <3> QED
      BY <1>7, <3>1
  <2>2. Waiting(r.patternIdx, r.patternResult, r.said)
    BY <1>2, <1>3, <1>7, <2>1, StillWaiting
  <2>3. Confirms(r.said)
    BY <1>2, <1>3, <1>7, ZeroIsNoConfirmation, StillConfirms
  <2> QED
    BY <1>2, <1>4, <1>7, <2>1, <2>2, <2>3 DEF Remembers
<1> QED
  BY <1>4, <1>5, <1>6, <1>7

\* Before the first judgment nothing is announced.
LEMMA QuietRemembers ==
  ASSUME NEW s, Remembers(s), NEW c \in CandleShapes, NEW near,
         NEW r, r = [s EXCEPT !.candles = Append(@, c), !.near = near,
                              !.said = Append(@, 0)]
  PROVE  Remembers(r)
<1> DEFINE n == Len(s.candles)
<1>1. /\ DOMAIN r = Memory /\ r.candles = Append(s.candles, c)
      /\ r.said = Append(s.said, 0) /\ r.patternIdx = s.patternIdx
      /\ r.patternResult = s.patternResult
  BY DEF Remembers, Memory
<1>2. /\ n \in Nat /\ Len(s.said) = n /\ s.said \in Seq(Answers)
      /\ DOMAIN s.said = 1 .. n /\ s.patternResult \in Judgments
      /\ r.candles \in Seq(CandleShapes) /\ Len(r.candles) = n + 1
      /\ Waiting(s.patternIdx, s.patternResult, s.said) /\ Confirms(s.said)
  BY <1>1, AppendProperties, LenProperties DEF Remembers
<1>3. r.said \in Seq(Answers) /\ Len(r.said) = n + 1
  BY <1>1, <1>2, ZeroIsNoConfirmation, SaidMore
<1> HIDE DEF n
<1>4. Waiting(r.patternIdx, r.patternResult, r.said)
  BY <1>1, <1>2, <1>3, StillWaiting
<1>5. Confirms(r.said)
  BY <1>1, <1>2, ZeroIsNoConfirmation, StillConfirms
<1> QED
  BY <1>1, <1>2, <1>3, <1>4, <1>5 DEF Remembers

LEMMA LookbackIsLongEnough ==
  /\ TransitionStart(HikkakeLookback) \in Int /\ TransitionStart(HikkakeLookback) >= 2
  /\ TransitionStart(ModifiedLookback) \in Int /\ TransitionStart(ModifiedLookback) >= 2
<1>1. Max({1, NearPeriod}) \in {1, NearPeriod}
  <2>1. NearPeriod \in Nat \ {0}
    BY HikkakeAssumption
  <2>2. \E x \in {1, NearPeriod} : \A y \in {1, NearPeriod} : x >= y
    BY <2>1
  <2> QED
    BY <2>2 DEF Max
<1> QED
  BY <1>1, HikkakeAssumption
  DEF TransitionStart, HikkakeLookback, ModifiedLookback, ConfirmationBars

LEMMA PlainRemembers ==
  ASSUME NEW s, Remembers(s), NEW c \in CandleShapes
  PROVE  Remembers(PlainUpdate(s, c))
<1> DEFINE n == Len(s.candles)
           given == [s EXCEPT !.candles = Append(@, c), !.near = NearUpdate(s.near, c)]
           judged == HikkakeJudge(given.candles, n, given.near.current)
<1>1. n \in Nat
  BY LenProperties DEF Remembers
<1>2. judged \in Judgments
  BY DEF HikkakeJudge, Judgments
<1>3. CASE n >= TransitionStart(HikkakeLookback)
  <2>1. PlainUpdate(s, c) = Advance(given, judged, n)
    BY <1>3 DEF PlainUpdate, HikkakeUpdate
  <2>2. n >= 2
    BY <1>1, <1>3, LookbackIsLongEnough
  <2> QED
    BY <1>2, <2>1, <2>2, AdvanceRemembers
<1>4. CASE ~(n >= TransitionStart(HikkakeLookback))
  <2>1. PlainUpdate(s, c) = [given EXCEPT !.said = Append(@, 0)]
    BY <1>4 DEF PlainUpdate, HikkakeUpdate
  <2>2. PlainUpdate(s, c) = [s EXCEPT !.candles = Append(@, c),
                                      !.near = NearUpdate(s.near, c),
                                      !.said = Append(@, 0)]
    BY <2>1 DEF Remembers, Memory
  <2> QED
    BY <2>2, QuietRemembers
<1> QED
  BY <1>3, <1>4

LEMMA ModifiedRemembers ==
  ASSUME NEW s, Remembers(s), NEW c \in CandleShapes
  PROVE  Remembers(ModifiedUpdate(s, c))
<1> DEFINE n == Len(s.candles)
           given == [s EXCEPT !.candles = Append(@, c), !.near = NearUpdate(s.near, c)]
           judged == ModifiedJudge(given.candles, n, given.near.current)
<1>1. n \in Nat
  BY LenProperties DEF Remembers
<1>2. judged \in Judgments
  BY DEF ModifiedJudge, Judgments
<1>3. CASE n >= TransitionStart(ModifiedLookback)
  <2>1. ModifiedUpdate(s, c) = Advance(given, judged, n)
    BY <1>3 DEF ModifiedUpdate, HikkakeUpdate
  <2>2. n >= 2
    BY <1>1, <1>3, LookbackIsLongEnough
  <2> QED
    BY <1>2, <2>1, <2>2, AdvanceRemembers
<1>4. CASE ~(n >= TransitionStart(ModifiedLookback))
  <2>1. ModifiedUpdate(s, c) = [given EXCEPT !.said = Append(@, 0)]
    BY <1>4 DEF ModifiedUpdate, HikkakeUpdate
  <2>2. ModifiedUpdate(s, c) = [s EXCEPT !.candles = Append(@, c),
                                         !.near = NearUpdate(s.near, c),
                                         !.said = Append(@, 0)]
    BY <2>1 DEF Remembers, Memory
  <2> QED
    BY <2>2, QuietRemembers
<1> QED
  BY <1>3, <1>4

(***************************************************************************)
(* The Near average.                                                       *)
(***************************************************************************)

Spread(c) == c.high - c.low
Buffer == NearPeriod + NearOffset + 2
Kept(n) == IF n < Buffer THEN n ELSE Buffer

\* The places whose ranges the total holds once n candles have been given.
Summed(n) == {k \in 1 .. n : k > n - NearOffset - 1 - NearPeriod /\ k <= n - NearOffset - 1}

\* The ranges are the last of w, which has n.
Buffered(ranges, w, n) ==
  /\ ranges \in Seq(Int) /\ Len(ranges) = Kept(n)
  /\ \A i \in 1 .. Kept(n) : ranges[i] = w[n - Kept(n) + i]

\* x goes on where w stops.
Continues(x, w, n) == \A i \in 1 .. n : w[i] \in Int /\ x[i] = w[i]

\* What enters the total with candle n + 1, and what leaves it.
Enters(x, n) == IF n >= NearOffset + 1 THEN x[n - NearOffset] ELSE 0
Leaves(x, n) == IF n >= NearOffset + 1 + NearPeriod THEN x[n - NearOffset - NearPeriod] ELSE 0

\* What CandleAverageState keeps of the candles it was given.
NearKept(a, cs) ==
  /\ a.seen = Len(cs)
  /\ Buffered(a.ranges, Spreads(cs), Len(cs))
  /\ a.total = SumOver(Spreads(cs), Summed(Len(cs)))
  /\ a.current = IF Len(cs) - NearOffset - 1 < NearPeriod THEN None ELSE a.total

LEMMA SpreadsWeigh ==
  ASSUME NEW cs \in Seq(CandleShapes)
  PROVE  /\ DOMAIN Spreads(cs) = 1 .. Len(cs) /\ Len(cs) \in Nat
         /\ \A k \in 1 .. Len(cs) : Spreads(cs)[k] \in Int /\ Spreads(cs)[k] = Spread(cs[k])
<1>1. DOMAIN cs = 1 .. Len(cs) /\ Len(cs) \in Nat
  BY LenProperties
<1>2. \A k \in 1 .. Len(cs) : cs[k] \in CandleShapes
  BY ElementOfSeq
<1>3. \A c \in CandleShapes : c.high - c.low \in Int
  BY HikkakeAssumption
<1> QED
  BY <1>1, <1>2, <1>3 DEF Spreads, Spread

\* A buffer of the last ranges that makes room for one more.
LEMMA BufferSlides ==
  ASSUME NEW n \in Nat, NEW w, NEW x, NEW ranges, Buffered(ranges, w, n), Continues(x, w, n),
         x[n + 1] \in Int,
         NEW r, r = RecentRanges(Append(ranges, x[n + 1]))
  PROVE  Buffered(r, x, n + 1)
<1>0. /\ ranges \in Seq(Int) /\ Len(ranges) = Kept(n)
      /\ \A i \in 1 .. Kept(n) : ranges[i] = w[n - Kept(n) + i]
      /\ \A i \in 1 .. n : x[i] = w[i]
  BY DEF Buffered, Continues
<1> DEFINE pushed == Append(ranges, x[n + 1])
           b == Kept(n)
<1>1. Buffer \in Nat \ {0} /\ b \in Nat /\ b <= n /\ b <= Buffer
  BY HikkakeAssumption DEF Buffer, NearOffset, Kept
<1>2. /\ pushed \in Seq(Int) /\ Len(pushed) = b + 1
      /\ \A i \in 1 .. b : pushed[i] = ranges[i]
      /\ pushed[b + 1] = x[n + 1]
  BY <1>0, Lengthens
<1>3. r = IF Len(pushed) > Buffer THEN Tail(pushed) ELSE pushed
  BY DEF RecentRanges, Buffer
<1>4. ASSUME NEW i \in 1 .. b PROVE n - b + i \in 1 .. n /\ ranges[i] = x[n - b + i]
  <2>1. ranges[i] = w[n - b + i]
    BY <1>0
  <2> HIDE DEF b
  <2>2. n - b + i \in 1 .. n
    BY <1>1
  <2> QED
    BY <1>0, <2>1, <2>2
<1> HIDE DEF pushed
<1>5. CASE n < Buffer
  <2>1. b = n /\ Kept(n + 1) = n + 1 /\ r = pushed
    BY <1>1, <1>2, <1>3, <1>5 DEF Kept
  <2>2. ASSUME NEW i \in 1 .. n + 1 PROVE pushed[i] = x[n + 1 - (n + 1) + i]
    <3>1. n + 1 - (n + 1) + i = i
      OBVIOUS
    <3>2. CASE i = n + 1
      BY <1>2, <2>1, <3>1, <3>2
    <3>3. CASE i # n + 1
      <4>1. i \in 1 .. b /\ n - b + i = i
        BY <2>1, <3>3
      <4> QED
        BY <1>2, <1>4, <3>1, <4>1
    <3> QED
      BY <3>2, <3>3
  <2> QED
    BY <1>2, <2>1, <2>2 DEF Buffered
<1>6. CASE ~(n < Buffer)
  <2>1. b = Buffer /\ Kept(n + 1) = Buffer
    BY <1>1, <1>6 DEF Kept
  <2>2. r = Tail(pushed) /\ pushed # <<>>
    BY <1>1, <1>2, <1>3, <2>1
  <2> HIDE DEF b
  <2>3. /\ r \in Seq(Int) /\ Len(r) = b
        /\ \A i \in 1 .. b : r[i] = pushed[i + 1]
    <3>1. /\ Tail(pushed) \in Seq(Int) /\ Len(Tail(pushed)) = Len(pushed) - 1
          /\ \A i \in 1 .. Len(Tail(pushed)) : Tail(pushed)[i] = pushed[i + 1]
      BY <1>2, <2>2, HeadTailProperties
    <3>2. Len(pushed) - 1 = b
      BY <1>1, <1>2
    <3> QED
      BY <2>2, <3>1, <3>2
  <2>4. ASSUME NEW i \in 1 .. b PROVE pushed[i + 1] = x[n + 1 - b + i]
    <3>1. CASE i = b
      <4>1. n + 1 - b + i = n + 1
        BY <1>1, <3>1
      <4> QED
        BY <1>2, <3>1, <4>1
    <3>2. CASE i # b
      <4>1. i + 1 \in 1 .. b /\ n - b + (i + 1) = n + 1 - b + i
        BY <1>1, <3>2
      <4>2. pushed[i + 1] = ranges[i + 1] /\ ranges[i + 1] = x[n - b + (i + 1)]
        BY <1>2, <1>4, <4>1
      <4> QED
        BY <4>1, <4>2
    <3> QED
      BY <3>1, <3>2
  <2>5. \A i \in 1 .. b : r[i] = x[n + 1 - b + i]
    BY <2>3, <2>4
  <2>6. Len(r) = Kept(n + 1) /\ \A i \in 1 .. Kept(n + 1) : r[i] = x[n + 1 - Kept(n + 1) + i]
    <3> DEFINE k == Kept(n + 1)
    <3>1. k = b
      BY <2>1
    <3> HIDE DEF k
    <3>2. Len(r) = k /\ \A i \in 1 .. k : r[i] = x[n + 1 - k + i]
      BY <2>3, <2>5, <3>1
    <3> QED
      BY <3>2 DEF k
  <2> QED
    BY <2>3, <2>6 DEF Buffered
<1> QED
  BY <1>5, <1>6

\* The total takes in the range before the new target, and lets go of the one NearPeriod earlier.
LEMMA NearTotalSlides ==
  ASSUME NEW n \in Nat, NEW w, NEW x, Continues(x, w, n),
         NEW total, total = SumOver(w, Summed(n))
  PROVE  total + Enters(x, n) - Leaves(x, n) = SumOver(x, Summed(n + 1))
<1> DEFINE added == Enters(x, n)
           gone == Leaves(x, n)
<1>0. /\ \A i \in 1 .. n : w[i] \in Int /\ x[i] = w[i]
      /\ added = IF n >= NearOffset + 1 THEN x[n - NearOffset] ELSE 0
      /\ gone = IF n >= NearOffset + 1 + NearPeriod THEN x[n - NearOffset - NearPeriod] ELSE 0
  BY DEF Continues, Enters, Leaves
<1> DEFINE a == IF n - 3 - NearPeriod < 0 THEN 1 ELSE n - 3 - NearPeriod + 1
           b == n - 3
<1>1. NearPeriod \in Nat \ {0} /\ NearOffset = 2
  BY HikkakeAssumption DEF NearOffset
<1>2. a \in Nat \ {0} /\ b \in Int
  BY <1>1
<1>3. Summed(n) = a .. b
  BY <1>1 DEF Summed
<1>4. Summed(n + 1) = IF n - 2 - NearPeriod > 0 THEN a + 1 .. b + 1 ELSE a .. b + 1
  BY <1>1 DEF Summed
<1>5. n >= NearOffset + 1 => /\ b + 1 = n - NearOffset /\ a <= b + 1 /\ a .. b + 1 \subseteq 1 .. n
  BY <1>1
<1>6. n >= NearOffset + 1 + NearPeriod <=> n - 2 - NearPeriod > 0
  BY <1>1
<1>7. n - 2 - NearPeriod > 0 => a = n - NearOffset - NearPeriod /\ n >= NearOffset + 1 /\ a <= b + 1
  BY <1>1
<1>8. ~(n >= NearOffset + 1) => a .. b = {} /\ a .. b + 1 = {} /\ ~(n - 2 - NearPeriod > 0)
  BY <1>1
<1> SUFFICES total + added - gone = SumOver(x, Summed(n + 1))
  OBVIOUS
<1> HIDE DEF a, b, added, gone
<1>10. CASE ~(n >= NearOffset + 1)
  <2>1. Summed(n) = {} /\ Summed(n + 1) = {} /\ added = 0 /\ gone = 0
    <3>1. a .. b = {} /\ a .. b + 1 = {} /\ ~(n - 2 - NearPeriod > 0)
      BY <1>8, <1>10
    <3> QED
      BY <1>0, <1>3, <1>4, <1>6, <1>10, <3>1
  <2> QED
    BY <2>1, SumOfNothing
<1>11. CASE n >= NearOffset + 1
  <2>1. /\ Weighs(x, a .. b + 1) /\ Weighs(w, a .. b) /\ \A i \in a .. b : w[i] = x[i]
    <3>1. a .. b \subseteq a .. b + 1
      BY <1>2
    <3> QED
      BY <1>0, <1>5, <1>11, <3>1 DEF Weighs
  <2>2. SumOver(w, a .. b) = SumOver(x, a .. b) /\ SumOver(w, a .. b) \in Int
    <3>1. IsFiniteSet(a .. b)
      BY <1>2, FS_Interval
    <3> QED
      BY <2>1, <3>1, SumOfSame, SumType
  <2>3. SumOver(x, a .. b + 1) = SumOver(x, a .. b) + x[b + 1]
    BY <1>2, <1>5, <1>11, <2>1, SumGrows
  <2>4. added = x[b + 1] /\ b + 1 \in a .. b + 1 /\ x[b + 1] \in Int
    BY <1>0, <1>2, <1>5, <1>11, <2>1 DEF Weighs
  <2>5. CASE n - 2 - NearPeriod > 0
    <3>1. SumOver(x, a + 1 .. b + 1) = SumOver(x, a .. b + 1) - x[a]
      <4>1. b + 1 \in Int /\ a \in Int /\ a <= b + 1
        BY <1>2, <1>7, <2>5
      <4> QED
        BY <2>1, <4>1, SumShrinks
    <3>2. gone = x[a] /\ x[a] \in Int
      BY <1>0, <1>2, <1>6, <1>7, <2>1, <2>5 DEF Weighs
    <3>3. Summed(n + 1) = a + 1 .. b + 1
      BY <1>4, <2>5
    <3> QED
      BY <1>3, <2>2, <2>3, <2>4, <3>1, <3>2, <3>3
  <2>6. CASE ~(n - 2 - NearPeriod > 0)
    <3>1. gone = 0 /\ Summed(n + 1) = a .. b + 1
      BY <1>0, <1>4, <1>6, <2>6
    <3> QED
      BY <1>3, <2>2, <2>3, <2>4, <3>1
  <2> QED
    BY <2>5, <2>6
<1> QED
  BY <1>10, <1>11

LEMMA NearKeeps ==
  ASSUME NEW cs \in Seq(CandleShapes), NEW a, NearKept(a, cs), NEW c \in CandleShapes
  PROVE  NearKept(NearUpdate(a, c), Append(cs, c))
<1> DEFINE n == Len(cs)
           more == Append(cs, c)
           w == Spreads(cs)
           x == Spreads(more)
           r == NearUpdate(a, c)
           ranges == RecentRanges(Append(a.ranges, c.high - c.low))
           target == n - NearOffset
           added == IF target - 1 >= 0 THEN RangeAt(ranges, target - 1, n) ELSE 0
           gone == IF target - 1 >= 0 /\ target - NearPeriod - 1 >= 0
                   THEN RangeAt(ranges, target - NearPeriod - 1, n) ELSE 0
<1>1. /\ more \in Seq(CandleShapes) /\ n \in Nat /\ Len(more) = n + 1
      /\ \A i \in 1 .. n : more[i] = cs[i]
      /\ more[n + 1] = c
  BY Lengthens
<1>2. /\ Continues(x, w, n)
      /\ x[n + 1] = c.high - c.low /\ x[n + 1] \in Int
  <2>1. \A i \in 1 .. n : w[i] \in Int /\ w[i] = Spread(cs[i])
    BY SpreadsWeigh
  <2>2. \A i \in 1 .. n + 1 : x[i] \in Int /\ x[i] = Spread(more[i])
    BY <1>1, SpreadsWeigh
  <2>3. n + 1 \in 1 .. n + 1 /\ \A i \in 1 .. n : i \in 1 .. n + 1
    BY <1>1
  <2> HIDE DEF w, x, more
  <2> QED
    BY <1>1, <2>1, <2>2, <2>3 DEF Spread, Continues
<1>3. a.seen = n /\ Buffered(a.ranges, w, n) /\ a.total = SumOver(w, Summed(n))
  BY DEF NearKept
<1>4. /\ NearPeriod \in Nat \ {0} /\ NearOffset = 2 /\ Buffer = NearPeriod + 4
      /\ Kept(n + 1) = IF n + 1 < Buffer THEN n + 1 ELSE Buffer
  BY HikkakeAssumption DEF NearOffset, Buffer, Kept
<1> HIDE DEF w, x
<1>5. Buffered(ranges, x, n + 1)
  <2>1. ranges = RecentRanges(Append(a.ranges, x[n + 1]))
    BY <1>2
  <2> HIDE DEF ranges, n
  <2> QED
    BY <1>1, <1>2, <1>3, <2>1, BufferSlides
<1>6. /\ r.seen = n + 1 /\ r.ranges = ranges
      /\ r.total = a.total + added - gone
      /\ r.current = IF target < NearPeriod THEN None ELSE r.total
  BY <1>3 DEF NearUpdate
<1> HIDE DEF ranges, r, n
<1>7. /\ Len(ranges) = Kept(n + 1)
      /\ \A i \in 1 .. Kept(n + 1) : ranges[i] = x[(n + 1) - Kept(n + 1) + i]
  BY <1>5 DEF Buffered
<1>8. added = Enters(x, n)
  <2>1. CASE n >= NearOffset + 1
    <3> DEFINE j == n - (target - 1)
    <3>1. /\ target - 1 >= 0 /\ Kept(n + 1) - j \in 1 .. Kept(n + 1)
          /\ (n + 1) - Kept(n + 1) + (Kept(n + 1) - j) = n - NearOffset
      BY <1>1, <1>4, <2>1
    <3>2. added = ranges[Kept(n + 1) - j]
      BY <1>7, <3>1 DEF RangeAt
    <3> DEFINE place == Kept(n + 1) - j
    <3>3. ranges[place] = x[(n + 1) - Kept(n + 1) + place]
      <4>1. place \in 1 .. Kept(n + 1)
        BY <3>1
      <4> HIDE DEF place
      <4> QED
        BY <1>7, <4>1
    <3>4. ranges[place] = x[n - NearOffset]
      BY <3>1, <3>3
    <3> QED
      BY <2>1, <3>2, <3>4 DEF Enters
  <2>2. CASE ~(n >= NearOffset + 1)
    BY <1>1, <1>4, <2>2 DEF Enters
  <2> QED
    BY <2>1, <2>2
<1>11. gone = Leaves(x, n)
  <2>3. CASE n >= NearOffset + 1 + NearPeriod
    <3> DEFINE j == n - (target - NearPeriod - 1)
    <3>1. /\ target - 1 >= 0 /\ target - NearPeriod - 1 >= 0
          /\ Kept(n + 1) - j \in 1 .. Kept(n + 1)
          /\ (n + 1) - Kept(n + 1) + (Kept(n + 1) - j) = n - NearOffset - NearPeriod
      BY <1>1, <1>4, <2>3
    <3>2. gone = ranges[Kept(n + 1) - j]
      BY <1>7, <3>1 DEF RangeAt
    <3> QED
      BY <1>7, <2>3, <3>1, <3>2 DEF Leaves
  <2>4. CASE ~(n >= NearOffset + 1 + NearPeriod)
    BY <1>1, <1>4, <2>4 DEF Leaves
  <2> QED
    BY <2>3, <2>4
<1>9. r.total = SumOver(x, Summed(n + 1))
  <2>1. a.total + Enters(x, n) - Leaves(x, n) = SumOver(x, Summed(n + 1))
    BY <1>1, <1>2, <1>3, NearTotalSlides
  <2> QED
    BY <1>6, <1>8, <1>11, <2>1
<1>10. r.current = IF (n + 1) - NearOffset - 1 < NearPeriod THEN None ELSE r.total
  BY <1>1, <1>4, <1>6
<1> QED
  BY <1>1, <1>5, <1>6, <1>9, <1>10 DEF NearKept, r, x, more

\* What the judgments read is what the property says of it.
LEMMA NearAnswers ==
  ASSUME NEW cs \in Seq(CandleShapes), NEW a, NearKept(a, cs)
  PROVE  LET newest == Len(cs) - 1
             target == newest - NearOffset
         IN  /\ target >= NearPeriod =>
                  a.current = SumOver(Spreads(cs), target - NearPeriod + 1 .. target)
             /\ ~(target >= NearPeriod) => a.current = None
             /\ target >= NearPeriod => a.current = a.total
             /\ \A index \in {target - 1, target - NearPeriod - 1} :
                  index >= 0 => StillHeld(a.ranges, index, newest)
<1> DEFINE n == Len(cs)
           newest == n - 1
           target == newest - NearOffset
<1>1. n \in Nat
  BY LenProperties
<1>2. /\ NearPeriod \in Nat \ {0} /\ NearOffset = 2 /\ Buffer = NearPeriod + 4
      /\ Kept(n) = IF n < Buffer THEN n ELSE Buffer
  BY HikkakeAssumption DEF NearOffset, Buffer, Kept
<1>3. /\ Len(a.ranges) = Kept(n) /\ a.total = SumOver(Spreads(cs), Summed(n))
      /\ a.current = IF n - NearOffset - 1 < NearPeriod THEN None ELSE a.total
  BY DEF NearKept, Buffered
<1> HIDE DEF n
<1>4. target >= NearPeriod => Summed(n) = target - NearPeriod + 1 .. target
  BY <1>1, <1>2 DEF Summed
<1>5. target >= NearPeriod <=> ~(n - NearOffset - 1 < NearPeriod)
  BY <1>1, <1>2
<1>6. \A index \in {target - 1, target - NearPeriod - 1} :
        index >= 0 => newest - index < Kept(n)
  BY <1>1, <1>2
<1> QED
  BY <1>3, <1>4, <1>5, <1>6 DEF StillHeld, n


(***************************************************************************)
(* A state seeded with some candles.  The library's fold is a table over   *)
(* the subsets of the places; the greatest place is taken last.            *)
(***************************************************************************)

Updated(kind, s, c) == IF kind = "plain" THEN PlainUpdate(s, c) ELSE ModifiedUpdate(s, c)

Replay(kind, cs) ==
  IF kind = "plain" THEN FoldLeft(PlainUpdate, NothingSeen, cs)
  ELSE FoldLeft(ModifiedUpdate, NothingSeen, cs)

IsReplay(g, kind, w, S) ==
  g = [s \in SUBSET S |->
         IF s = {} THEN NothingSeen ELSE Updated(kind, g[s \ {Max(s)}], w[Max(s)])]

LEMMA ReplayLine ==
  ASSUME NEW S, NEW kind, NEW w, NEW g, IsReplay(g, kind, w, S)
  PROVE  \A s : s \subseteq S =>
           g[s] = IF s = {} THEN NothingSeen ELSE Updated(kind, g[s \ {Max(s)}], w[Max(s)])
BY DEF IsReplay

\* Places are finitely many numbers.
Places(S) == IsFiniteSet(S) /\ S \subseteq Int

LEMMA Greatest ==
  ASSUME NEW S, Places(S)
  PROVE  \A s : s \subseteq S /\ s # {} => Max(s) \in s
<1> SUFFICES ASSUME NEW s, s \subseteq S, s # {} PROVE Max(s) \in s
  OBVIOUS
<1>1. IsFiniteSet(s)
  BY FS_Subset DEF Places
<1> QED
  BY <1>1, FiniteExtremes DEF Places

LEMMA SmallestPlaces ==
  ASSUME NEW S, Places(S)
  PROVE  \A U \in SUBSET SUBSET S : U # {} => \E t \in U : \A u \in U : u \subseteq t => u = t
<1>1. IsFiniteSet(S)
  BY DEF Places
<1> QED
  BY <1>1, SmallestSubset

\* Two tables agree on the places where the candles do.
LEMMA ReplaysAgree ==
  ASSUME NEW S, Places(S), NEW kind, NEW A, A \subseteq S, NEW B, B \subseteq S,
         NEW w, NEW g, IsReplay(g, kind, w, A), NEW x, NEW h, IsReplay(h, kind, x, B)
  PROVE  \A s : s \subseteq A /\ s \subseteq B /\ (\A i \in s : w[i] = x[i]) => g[s] = h[s]
<1> SUFFICES ASSUME NEW s, s \subseteq A, s \subseteq B, \A i \in s : w[i] = x[i]
             PROVE  g[s] = h[s]
  OBVIOUS
<1> DEFINE T == {t \in SUBSET S : t \subseteq s /\ g[t] # h[t]}
<1> SUFFICES ASSUME s \in T PROVE FALSE
  OBVIOUS
<1>0. \A U \in SUBSET SUBSET S : U # {} => \E t \in U : \A u \in U : u \subseteq t => u = t
  BY SmallestPlaces
<1>1. PICK t \in T : \A u \in T : u \subseteq t => u = t
  <2>1. T \in SUBSET SUBSET S /\ T # {}
    OBVIOUS
  <2> HIDE DEF T
  <2> QED
    BY <1>0, <2>1
<1>2. t \subseteq A /\ t \subseteq B /\ t \subseteq S
  OBVIOUS
<1>8. /\ g[t] = IF t = {} THEN NothingSeen ELSE Updated(kind, g[t \ {Max(t)}], w[Max(t)])
      /\ h[t] = IF t = {} THEN NothingSeen ELSE Updated(kind, h[t \ {Max(t)}], x[Max(t)])
  <2> HIDE DEF T
  <2> QED
    BY <1>2, ReplayLine
<1>3. t # {}
  BY <1>8
<1> DEFINE m == Max(t)
<1>4. m \in t
  BY <1>2, <1>3, Greatest
<1>5. /\ g[t] = Updated(kind, g[t \ {m}], w[m])
      /\ h[t] = Updated(kind, h[t \ {m}], x[m])
  BY <1>3, <1>8
<1> HIDE DEF m
<1>6. t \ {m} \notin T
  BY <1>1, <1>4
<1>7. g[t \ {m}] = h[t \ {m}] /\ w[m] = x[m]
  BY <1>4, <1>6
<1> QED
  BY <1>5, <1>7

LEMMA ReplayExists ==
  ASSUME NEW S, Places(S), NEW kind, NEW w
  PROVE  \E g : IsReplay(g, kind, w, S)
<1> DEFINE T == {t \in SUBSET S : ~ \E g : IsReplay(g, kind, w, t)}
<1> SUFFICES ASSUME S \in T PROVE FALSE
  OBVIOUS
<1>0. \A U \in SUBSET SUBSET S : U # {} => \E t \in U : \A u \in U : u \subseteq t => u = t
  BY SmallestPlaces
<1>1. PICK t \in T : \A u \in T : u \subseteq t => u = t
  <2>1. T \in SUBSET SUBSET S /\ T # {}
    OBVIOUS
  <2> HIDE DEF T
  <2> QED
    BY <1>0, <2>1
<1> DEFINE Below(u) == CHOOSE g : IsReplay(g, kind, w, u)
           Before(u) == u \ {Max(u)}
           new == [u \in SUBSET t |->
                     IF u = {} THEN NothingSeen
                     ELSE Updated(kind, Below(Before(u))[Before(u)], w[Max(u)])]
<1>2. ASSUME NEW u \in SUBSET t, u # t PROVE IsReplay(Below(u), kind, w, u)
  <2>1. \E g : IsReplay(g, kind, w, u)
    BY <1>1, <1>2
  <2> HIDE DEF T
  <2> QED
    BY <2>1
<1>3. ASSUME NEW u \in SUBSET t, u # {}
      PROVE  Max(u) \in u /\ Before(u) \in SUBSET u /\ Before(u) \in SUBSET t /\ Before(u) # t
  <2>1. Max(u) \in u
    BY <1>3, Greatest
  <2> QED
    BY <2>1
<1>4. ASSUME NEW u \in SUBSET t, u # t PROVE new[u] = Below(u)[u]
  <2>1. IsReplay(Below(u), kind, w, u)
    BY <1>2, <1>4
  <2>2. CASE u = {}
    BY <2>1, <2>2, ReplayLine
  <2>3. CASE u # {}
    <3> DEFINE m == Max(u)
               v == Before(u)
    <3>1. m \in u /\ v \in SUBSET u /\ v \in SUBSET t /\ v # t /\ v \in SUBSET v /\ u \in SUBSET u
      BY <1>3, <2>3
    <3>2. Below(u)[u] = Updated(kind, Below(u)[v], w[m])
      BY <2>1, <2>3, <3>1, ReplayLine
    <3>3. IsReplay(Below(v), kind, w, v)
      BY <3>1, <1>2
    <3>4. new[u] = Updated(kind, Below(v)[v], w[m])
      BY <2>3
    <3> HIDE DEF new, m, v, Below, T
    <3>5. u \subseteq S /\ v \subseteq S /\ v \subseteq u /\ v \subseteq v
      BY <3>1, <1>1 DEF T
    <3>6. Below(u)[v] = Below(v)[v]
      <4> DEFINE g == Below(u)
                 h == Below(v)
      <4>1. IsReplay(g, kind, w, u) /\ IsReplay(h, kind, w, v)
        BY <2>1, <3>3
      <4> HIDE DEF g, h
      <4>2. \A s : s \subseteq u /\ s \subseteq v /\ (\A i \in s : w[i] = w[i]) => g[s] = h[s]
        BY <3>5, <4>1, ReplaysAgree
      <4> QED
        BY <3>5, <4>2 DEF g, h
    <3> QED
      BY <3>2, <3>4, <3>6
  <2> QED
    BY <2>2, <2>3
<1>5. ASSUME NEW u \in SUBSET t, u # {}
      PROVE  new[u] = Updated(kind, new[Before(u)], w[Max(u)])
  <2>1. Before(u) \in SUBSET t /\ Before(u) # t
    BY <1>3, <1>5
  <2>2. new[Before(u)] = Below(Before(u))[Before(u)]
    BY <1>4, <2>1
  <2>3. new[u] = Updated(kind, Below(Before(u))[Before(u)], w[Max(u)])
    BY <1>5
  <2> QED
    BY <2>2, <2>3
<1>6. IsReplay(new, kind, w, t)
  <2>1. new[{}] = NothingSeen
    OBVIOUS
  <2> DEFINE line(u) == IF u = {} THEN NothingSeen
                        ELSE Updated(kind, Below(Before(u))[Before(u)], w[Max(u)])
  <2>4. new = [u \in SUBSET t |-> line(u)]
    OBVIOUS
  <2> HIDE DEF line
  <2>2. new = [u \in SUBSET t |-> new[u]]
    <3> HIDE DEF new
    <3> QED
      BY <2>4
  <2> HIDE DEF new
  <2>3. \A u \in SUBSET t :
          new[u] = IF u = {} THEN NothingSeen ELSE Updated(kind, new[u \ {Max(u)}], w[Max(u)])
    BY <1>5, <2>1
  <2> QED
    BY <2>2, <2>3 DEF IsReplay
<1> HIDE DEF new
<1> QED
  BY <1>1, <1>6

LEMMA ReplayHasTable ==
  ASSUME NEW kind, NEW cs \in Seq(CandleShapes)
  PROVE  \E g : IsReplay(g, kind, cs, DOMAIN cs) /\ Replay(kind, cs) = g[DOMAIN cs]
<1> DEFINE S == DOMAIN cs
<1>1. Places(S)
  BY LenProperties, FS_Interval DEF Places
<1> DEFINE p == CHOOSE h : h = [s \in SUBSET S |->
                                  IF s = {} THEN NothingSeen
                                  ELSE PlainUpdate(h[s \ {Max(s)}], cs[Max(s)])]
           m == CHOOSE h : h = [s \in SUBSET S |->
                                  IF s = {} THEN NothingSeen
                                  ELSE ModifiedUpdate(h[s \ {Max(s)}], cs[Max(s)])]
<1>2. CASE kind = "plain"
  <2>1. \A h : IsReplay(h, kind, cs, S)
                 <=> h = [s \in SUBSET S |->
                            IF s = {} THEN NothingSeen
                            ELSE PlainUpdate(h[s \ {Max(s)}], cs[Max(s)])]
    BY <1>2 DEF IsReplay, Updated
  <2>2. IsReplay(p, kind, cs, S)
    <3>1. \E h : IsReplay(h, kind, cs, S)
      BY <1>1, ReplayExists
    <3> HIDE DEF S
    <3> QED
      BY <2>1, <3>1
  <2>3. Replay(kind, cs) = p[S]
    BY <1>2 DEF Replay, FoldLeft, MapThenFoldSet
  <2> HIDE DEF p
  <2> QED
    BY <2>2, <2>3
<1>3. CASE kind # "plain"
  <2>1. \A h : IsReplay(h, kind, cs, S)
                 <=> h = [s \in SUBSET S |->
                            IF s = {} THEN NothingSeen
                            ELSE ModifiedUpdate(h[s \ {Max(s)}], cs[Max(s)])]
    BY <1>3 DEF IsReplay, Updated
  <2>2. IsReplay(m, kind, cs, S)
    <3>1. \E h : IsReplay(h, kind, cs, S)
      BY <1>1, ReplayExists
    <3> HIDE DEF S
    <3> QED
      BY <2>1, <3>1
  <2>3. Replay(kind, cs) = m[S]
    BY <1>3 DEF Replay, FoldLeft, MapThenFoldSet
  <2> HIDE DEF m
  <2> QED
    BY <2>2, <2>3
<1> QED
  BY <1>2, <1>3

\* A state seeded with one candle more is the seeded state updated.
LEMMA ReplayGoesOn ==
  ASSUME NEW kind, NEW cs \in Seq(CandleShapes), NEW c \in CandleShapes
  PROVE  Replay(kind, Append(cs, c)) = Updated(kind, Replay(kind, cs), c)
<1> DEFINE n == Len(cs)
           more == Append(cs, c)
           S == 1 .. n + 1
<1>1. /\ more \in Seq(CandleShapes) /\ n \in Nat /\ DOMAIN cs = 1 .. n /\ DOMAIN more = S
      /\ \A i \in 1 .. n : cs[i] = more[i]
      /\ more[n + 1] = c
  BY Lengthens
<1> HIDE DEF n, more
<1>2. PICK g : IsReplay(g, kind, cs, 1 .. n) /\ Replay(kind, cs) = g[1 .. n]
  BY <1>1, ReplayHasTable
<1>3. PICK h : IsReplay(h, kind, more, S) /\ Replay(kind, more) = h[S]
  BY <1>1, ReplayHasTable
<1>4. Places(S) /\ S \subseteq Int /\ 1 .. n \subseteq S /\ S \subseteq S
  <2>1. 1 \in Int /\ n + 1 \in Int
    BY <1>1
  <2>2. IsFiniteSet(S)
    BY <2>1, FS_Interval
  <2> QED
    BY <1>1, <2>2 DEF Places
<1>5. Max(S) = n + 1 /\ S # {} /\ S \ {n + 1} = 1 .. n
  <2>1. n + 1 \in S /\ \A y \in S : n + 1 >= y
    BY <1>1
  <2>2. S # {} /\ S \ {n + 1} = 1 .. n
    <3>1. \A i : i \in S /\ i # n + 1 <=> i \in 1 .. n
      BY <1>1
    <3> HIDE DEF S
    <3> QED
      BY <2>1, <3>1
  <2> DEFINE top == n + 1
  <2> HIDE DEF S, top
  <2>3. top \in S /\ S \subseteq Int /\ \A y \in S : top >= y
    BY <1>4, <2>1 DEF top
  <2>4. Max(S) = top
    BY <2>3, MaxIs
  <2> QED
    BY <2>2, <2>4 DEF top
<1> HIDE DEF S
<1>6. h[S] = Updated(kind, h[1 .. n], c)
  <2>1. h[S] = IF S = {} THEN NothingSeen ELSE Updated(kind, h[S \ {Max(S)}], more[Max(S)])
    <3>1. S \in SUBSET S
      OBVIOUS
    <3> QED
      BY <1>3, <3>1 DEF IsReplay
  <2> QED
    BY <1>1, <1>4, <1>5, <2>1
<1>7. g[1 .. n] = h[1 .. n]
  <2> DEFINE D == 1 .. n
  <2>1. /\ IsReplay(g, kind, cs, D) /\ IsReplay(h, kind, more, S) /\ Places(S)
        /\ D \subseteq S /\ S \subseteq S /\ D \subseteq D
    BY <1>2, <1>3, <1>4
  <2>2. \A i \in D : cs[i] = more[i]
    BY <1>1
  <2> HIDE DEF D
  <2>3. \A s : s \subseteq D /\ s \subseteq S /\ (\A i \in s : cs[i] = more[i]) => g[s] = h[s]
    BY <2>1, ReplaysAgree
  <2> QED
    BY <2>1, <2>2, <2>3 DEF D
<1> QED
  BY <1>2, <1>3, <1>6, <1>7 DEF more

LEMMA ReplayStarts == \A kind : Replay(kind, <<>>) = NothingSeen
<1> TAKE kind
<1>1. <<>> \in Seq(CandleShapes) /\ DOMAIN <<>> = {}
  BY EmptySeq
<1>2. PICK g : IsReplay(g, kind, <<>>, {}) /\ Replay(kind, <<>>) = g[{}]
  BY <1>1, ReplayHasTable
<1> QED
  BY <1>2, ReplayLine

(***************************************************************************)
(* A state that has seen everything and one seeded with the last candles.  *)
(* From the first transition on both make the same judgments; what the     *)
(* first may still confirm from before that is too old once the look-back  *)
(* is over.                                                                *)
(***************************************************************************)

Ends(all, last) ==
  /\ Len(last) <= Len(all)
  /\ \A i \in 1 .. Len(last) : last[i] = all[Len(all) - Len(last) + i]

\* The same pattern waits in both, or none in the second and an old one at most in the first.
SameWaits(idx, result, seededIdx, seededResult, shift, start) ==
  \/ seededIdx >= start /\ idx = seededIdx + shift /\ result = seededResult
  \/ seededIdx = 0 /\ idx < shift + start

Alike(f, g, start) ==
  /\ Ends(f.candles, g.candles)
  /\ SameWaits(f.patternIdx, f.patternResult, g.patternIdx, g.patternResult,
               Len(f.candles) - Len(g.candles), start)
  /\ Len(g.candles) > start + ConfirmationBars => Last(f.said) = Last(g.said)

Confirmed(idx, result, candles, index) ==
  /\ index <= idx + ConfirmationBars
  /\ \/ result > 0 /\ At(candles, index).close > At(candles, idx - 1).high
     \/ result < 0 /\ At(candles, index).close < At(candles, idx - 1).low

\* What one advance leaves.
Advanced(r, s, judged, candles, index) ==
  /\ r.candles = candles
  /\ judged # 0 => /\ r.patternIdx = index /\ r.patternResult = judged
                   /\ r.said = Append(s.said, judged)
  /\ judged = 0 => /\ r.patternResult = s.patternResult
                   /\ Confirmed(s.patternIdx, s.patternResult, candles, index) =>
                        r.patternIdx = 0 /\ r.said = Append(s.said, 2 * s.patternResult)
                   /\ ~Confirmed(s.patternIdx, s.patternResult, candles, index) =>
                        r.patternIdx = s.patternIdx /\ r.said = Append(s.said, 0)

LEMMA AdvanceDoes ==
  ASSUME NEW s, DOMAIN s = Memory, NEW c, NEW near, NEW judged, NEW index,
         NEW r, r = Advance([s EXCEPT !.candles = Append(@, c), !.near = near], judged, index)
  PROVE  Advanced(r, s, judged, Append(s.candles, c), index)
<1> DEFINE given == [s EXCEPT !.candles = Append(@, c), !.near = near]
<1>1. /\ DOMAIN given = Memory /\ given.candles = Append(s.candles, c)
      /\ given.said = s.said /\ given.patternIdx = s.patternIdx
      /\ given.patternResult = s.patternResult
  BY DEF Memory
<1>2. r = Advance(given, judged, index)
  OBVIOUS
<1> HIDE DEF given
<1> DEFINE confirmed == Confirmed(s.patternIdx, s.patternResult, Append(s.candles, c), index)
<1>3. r = IF judged # 0
          THEN [given EXCEPT !.patternResult = judged, !.patternIdx = index,
                             !.said = Append(@, judged)]
          ELSE IF confirmed
          THEN [given EXCEPT !.patternIdx = 0, !.said = Append(@, 2 * given.patternResult)]
          ELSE [given EXCEPT !.said = Append(@, 0)]
  BY <1>1, <1>2 DEF Advance, Confirmed
<1> HIDE DEF confirmed
<1>4. CASE judged # 0
  BY <1>1, <1>3, <1>4 DEF Memory, Advanced
<1>5. CASE judged = 0 /\ confirmed
  BY <1>1, <1>3, <1>5 DEF Memory, Advanced, confirmed
<1>6. CASE judged = 0 /\ ~confirmed
  BY <1>1, <1>3, <1>6 DEF Memory, Advanced, confirmed
<1> QED
  BY <1>4, <1>5, <1>6

LEMMA EndsAppend ==
  ASSUME NEW all \in Seq(CandleShapes), NEW last \in Seq(CandleShapes), Ends(all, last),
         NEW c \in CandleShapes
  PROVE  Ends(Append(all, c), Append(last, c))
<1> DEFINE n == Len(last)
           N == Len(all)
           a == Append(all, c)
           l == Append(last, c)
<1>1. /\ n \in Nat /\ Len(l) = n + 1 /\ l[n + 1] = c
      /\ \A i \in 1 .. n : l[i] = last[i]
  BY Lengthens
<1>2. /\ N \in Nat /\ Len(a) = N + 1 /\ a[N + 1] = c
      /\ \A i \in 1 .. N : a[i] = all[i]
  BY Lengthens
<1>3. n <= N /\ \A i \in 1 .. n : last[i] = all[N - n + i]
  BY DEF Ends
<1> HIDE DEF n, N, a, l
<1>4. ASSUME NEW i \in 1 .. n + 1 PROVE l[i] = a[N + 1 - (n + 1) + i]
  <2>1. CASE i = n + 1
    <3>1. N + 1 - (n + 1) + i = N + 1
      BY <1>1, <1>2, <2>1
    <3> QED
      BY <1>1, <1>2, <2>1, <3>1
  <2>2. CASE i # n + 1
    <3>1. i \in 1 .. n /\ N - n + i \in 1 .. N /\ N + 1 - (n + 1) + i = N - n + i
      BY <1>1, <1>2, <1>3, <2>2
    <3> QED
      BY <1>1, <1>2, <1>3, <3>1
  <2> QED
    BY <2>1, <2>2
<1>5. n + 1 <= N + 1
  BY <1>1, <1>2, <1>3
<1>6. Ends(a, l)
  BY <1>1, <1>2, <1>4, <1>5 DEF Ends
<1> QED
  BY <1>6 DEF a, l

LEMMA LastSaid ==
  ASSUME NEW said \in Seq(Answers), NEW a \in Answers
  PROVE  Last(Append(said, a)) = a
BY SaidMore DEF Last

\* What a state remembers, in numbers.
LEMMA RememberedNumbers ==
  ASSUME NEW s, Remembers(s)
  PROVE  /\ DOMAIN s = Memory /\ s.candles \in Seq(CandleShapes) /\ s.said \in Seq(Answers)
         /\ Len(s.candles) \in Nat /\ s.patternIdx \in Nat /\ s.patternResult \in Judgments
         /\ \/ s.patternIdx = 0
            \/ s.patternIdx \in 2 .. Len(s.candles) - 1 /\ s.patternResult # 0
         /\ s.patternIdx = 0 => s.patternResult = 0 \/ Len(s.candles) > ConfirmationBars
<1>1. /\ Len(s.candles) \in Nat /\ Len(s.said) = Len(s.candles)
  BY LenProperties DEF Remembers
<1>2. Waiting(s.patternIdx, s.patternResult, s.said)
  BY DEF Remembers
<1> QED
  BY <1>1, <1>2 DEF Waiting, Remembers

\* Before the first transition the seeded state says nothing.
LEMMA AlikeBefore ==
  ASSUME NEW start \in Nat, NEW f, NEW g, Remembers(f), Remembers(g), Alike(f, g, start),
         NEW c \in CandleShapes, Len(g.candles) < start,
         NEW r, r.candles = Append(f.candles, c),
         r.patternIdx \in {f.patternIdx, Len(f.candles), 0},
         NEW q, q.candles = Append(g.candles, c), q.patternIdx = g.patternIdx
  PROVE  Alike(r, q, start)
<1> DEFINE n == Len(g.candles)
           N == Len(f.candles)
<1>1. /\ n \in Nat /\ N \in Nat /\ f.patternIdx \in Nat /\ n < start
      /\ g.patternIdx = 0 \/ g.patternIdx \in 2 .. n - 1
  BY RememberedNumbers
<1>2. Len(r.candles) = N + 1 /\ Len(q.candles) = n + 1
  BY RememberedNumbers, Lengthens
<1>3. Ends(r.candles, q.candles)
  BY RememberedNumbers, EndsAppend DEF Alike
<1>4. n <= N /\ SameWaits(f.patternIdx, f.patternResult, g.patternIdx, g.patternResult, N - n, start)
  BY DEF Alike, Ends
<1>8. r.patternIdx \in {f.patternIdx, N, 0} /\ q.patternIdx = g.patternIdx
  OBVIOUS
<1> HIDE DEF n, N
<1>5. g.patternIdx = 0 /\ f.patternIdx < N - n + start
  BY <1>1, <1>4 DEF SameWaits
<1>6. q.patternIdx = 0 /\ r.patternIdx < (N + 1) - (n + 1) + start
  BY <1>1, <1>4, <1>5, <1>8
<1>7. ~(n + 1 > start + ConfirmationBars)
  BY <1>1 DEF ConfirmationBars
<1> QED
  BY <1>2, <1>3, <1>6, <1>7 DEF Alike, SameWaits

\* From then on both say the same, except that the first may confirm what is too old.
LEMMA AlikeAfter ==
  ASSUME NEW start \in Nat, start >= 2, NEW f, NEW g, Remembers(f), Remembers(g),
         Alike(f, g, start), NEW c \in CandleShapes, Len(g.candles) >= start,
         NEW judged \in Judgments,
         NEW r, Advanced(r, f, judged, Append(f.candles, c), Len(f.candles)),
         NEW q, Advanced(q, g, judged, Append(g.candles, c), Len(g.candles))
  PROVE  Alike(r, q, start)
<1> DEFINE n == Len(g.candles)
           N == Len(f.candles)
           fc == Append(f.candles, c)
           gc == Append(g.candles, c)
<1>1. /\ n \in Nat /\ N \in Nat /\ f.patternIdx \in Nat /\ n >= start
      /\ f.patternResult \in Judgments /\ g.patternResult \in Judgments
      /\ g.patternIdx = 0 \/ g.patternIdx \in 2 .. n - 1
      /\ g.patternIdx = 0 => g.patternResult = 0 \/ n > ConfirmationBars
      /\ f.said \in Seq(Answers) /\ g.said \in Seq(Answers)
  BY RememberedNumbers
<1>2. /\ Len(fc) = N + 1 /\ Len(gc) = n + 1 /\ fc[N + 1] = c /\ gc[n + 1] = c
  BY RememberedNumbers, Lengthens
<1>3. Ends(fc, gc)
  BY RememberedNumbers, EndsAppend DEF Alike
<1>4. n <= N /\ SameWaits(f.patternIdx, f.patternResult, g.patternIdx, g.patternResult, N - n, start)
  BY DEF Alike, Ends
<1>5. Advanced(r, f, judged, fc, N) /\ Advanced(q, g, judged, gc, n)
  OBVIOUS
<1>6. r.candles = fc /\ q.candles = gc
  BY <1>5 DEF Advanced
<1> HIDE DEF n, N, fc, gc
<1>7. ASSUME SameWaits(r.patternIdx, r.patternResult, q.patternIdx, q.patternResult,
                       (N + 1) - (n + 1), start),
             n + 1 > start + ConfirmationBars => Last(r.said) = Last(q.said)
      PROVE  Alike(r, q, start)
  BY <1>2, <1>3, <1>6, <1>7 DEF Alike
<1>8. (N + 1) - (n + 1) = N - n
  BY <1>1
<1>9. \A a \in Answers : Last(Append(f.said, a)) = a /\ Last(Append(g.said, a)) = a
  BY <1>1, LastSaid
<1>10. CASE judged # 0
  <2>1. /\ r.patternIdx = N /\ r.patternResult = judged /\ r.said = Append(f.said, judged)
        /\ q.patternIdx = n /\ q.patternResult = judged /\ q.said = Append(g.said, judged)
    BY <1>5, <1>10 DEF Advanced
  <2>2. judged \in Answers
    BY DEF Answers
  <2>3. Last(r.said) = Last(q.said)
    BY <1>9, <2>1, <2>2
  <2>4. SameWaits(r.patternIdx, r.patternResult, q.patternIdx, q.patternResult, N - n, start)
    <3>1. n >= start /\ N = n + (N - n)
      BY <1>1
    <3> QED
      BY <2>1, <3>1 DEF SameWaits
  <2> QED
    BY <1>7, <1>8, <2>3, <2>4
<1>11. CASE /\ judged = 0
            /\ g.patternIdx >= start /\ f.patternIdx = g.patternIdx + (N - n)
            /\ f.patternResult = g.patternResult
  <2> DEFINE i == g.patternIdx
             j == f.patternIdx
             result == g.patternResult
  <2>1. /\ i \in 2 .. n - 1 /\ j = i + (N - n) /\ i >= start /\ j - 1 + 1 = j /\ i - 1 + 1 = i
        /\ i \in 1 .. n + 1 /\ (N + 1) - (n + 1) + i = j
    <3>1. n \in Nat /\ N \in Nat /\ i >= start /\ j = i + (N - n) /\ (i = 0 \/ i \in 2 .. n - 1)
      BY <1>1, <1>11
    <3> HIDE DEF i, j
    <3> QED
      BY <3>1
  <2>2. At(gc, i - 1) = At(fc, j - 1)
    BY <1>2, <1>3, <2>1 DEF At, Ends
  <2>3. At(gc, n) = At(fc, N)
    BY <1>2 DEF At
  <2>4. n <= i + ConfirmationBars <=> N <= j + ConfirmationBars
    <3> DEFINE shift == N - n
    <3>1. i \in Int /\ shift \in Int /\ N = n + shift /\ j = i + shift
      BY <1>1, <2>1
    <3> HIDE DEF i, j, shift
    <3> QED
      BY <1>1, <3>1 DEF ConfirmationBars
  <2>5. Confirmed(i, result, gc, n) <=> Confirmed(j, result, fc, N)
    <3> HIDE DEF i, j, result
    <3> QED
      BY <2>2, <2>3, <2>4 DEF Confirmed
  <2>6. CASE Confirmed(i, result, gc, n)
    <3>1. /\ r.patternIdx = 0 /\ r.patternResult = result /\ r.said = Append(f.said, 2 * result)
          /\ q.patternIdx = 0 /\ q.patternResult = result /\ q.said = Append(g.said, 2 * result)
      BY <1>5, <1>11, <2>5, <2>6 DEF Advanced
    <3>2. 2 * result \in Answers
      BY <1>1 DEF Judgments, Answers
    <3>3. Last(r.said) = Last(q.said)
      BY <1>9, <3>1, <3>2
    <3>4. 0 < N - n + start
      BY <1>1, <1>4
    <3>5. SameWaits(r.patternIdx, r.patternResult, q.patternIdx, q.patternResult, N - n, start)
      BY <3>1, <3>4 DEF SameWaits
    <3> QED
      BY <1>7, <1>8, <3>3, <3>5
  <2>7. CASE ~Confirmed(i, result, gc, n)
    <3>1. /\ r.patternIdx = j /\ r.patternResult = result /\ r.said = Append(f.said, 0)
          /\ q.patternIdx = i /\ q.patternResult = result /\ q.said = Append(g.said, 0)
      BY <1>5, <1>11, <2>5, <2>7 DEF Advanced
    <3>2. Last(r.said) = Last(q.said)
      BY <1>9, <3>1, ZeroIsNoConfirmation
    <3>3. SameWaits(r.patternIdx, r.patternResult, q.patternIdx, q.patternResult, N - n, start)
      BY <2>1, <3>1 DEF SameWaits
    <3> QED
      BY <1>7, <1>8, <3>2, <3>3
  <2> QED
    BY <2>6, <2>7
<1>12. CASE judged = 0 /\ g.patternIdx = 0 /\ f.patternIdx < N - n + start
  <2>1. ~Confirmed(g.patternIdx, g.patternResult, gc, n)
    <3>1. g.patternResult = 0 \/ ~(n <= 0 + ConfirmationBars)
      BY <1>1, <1>12 DEF ConfirmationBars
    <3> QED
      BY <1>12, <3>1 DEF Confirmed
  <2>2. q.patternIdx = 0 /\ q.said = Append(g.said, 0)
    BY <1>5, <1>12, <2>1 DEF Advanced
  <2>3. r.patternIdx < N - n + start
    <3>1. r.patternIdx \in {0, f.patternIdx}
      BY <1>5, <1>12 DEF Advanced
    <3> QED
      BY <1>1, <1>4, <1>12, <3>1
  <2>4. SameWaits(r.patternIdx, r.patternResult, q.patternIdx, q.patternResult, N - n, start)
    BY <2>2, <2>3 DEF SameWaits
  <2>5. ASSUME n + 1 > start + ConfirmationBars PROVE Last(r.said) = Last(q.said)
    <3>1. ~(N <= f.patternIdx + ConfirmationBars)
      BY <1>1, <1>4, <1>12, <2>5 DEF ConfirmationBars
    <3>2. r.said = Append(f.said, 0)
      BY <1>5, <1>12, <3>1 DEF Advanced, Confirmed
    <3> QED
      BY <1>9, <2>2, <3>2, ZeroIsNoConfirmation
  <2> QED
    BY <1>7, <1>8, <2>4, <2>5
<1> QED
  BY <1>4, <1>10, <1>11, <1>12 DEF SameWaits

\* What is true of every state of a hikkake.
Sound(s) == Remembers(s) /\ NearKept(s.near, s.candles)

Starts(kind) == IF kind = "plain" THEN TransitionStart(HikkakeLookback)
                ELSE TransitionStart(ModifiedLookback)

Judged(kind, candles, index, near) ==
  IF kind = "plain" THEN HikkakeJudge(candles, index, near) ELSE ModifiedJudge(candles, index, near)

\* The modified one compares with the Near average, and looks one candle further back.
UsesNear(kind) == kind # "plain"

LEMMA StartsLateEnough ==
  /\ \A kind : Starts(kind) \in Nat /\ Starts(kind) >= 2
  /\ \A kind : UsesNear(kind) => Starts(kind) >= 3 /\ Starts(kind) >= NearPeriod + 2
<1>1. Max({1, NearPeriod}) \in {1, NearPeriod} /\ Max({1, NearPeriod}) >= 1
      /\ Max({1, NearPeriod}) >= NearPeriod
  <2>1. NearPeriod \in Nat \ {0}
    BY HikkakeAssumption
  <2>2. \E x \in {1, NearPeriod} : \A y \in {1, NearPeriod} : x >= y
    BY <2>1
  <2> QED
    BY <2>2 DEF Max
<1> QED
  BY <1>1, HikkakeAssumption
  DEF UsesNear, Starts, TransitionStart, HikkakeLookback, ModifiedLookback, ConfirmationBars

\* One update, of either pattern.
IsUpdate(r, kind, s, c) ==
  LET near == NearUpdate(s.near, c)
      n == Len(s.candles)
      more == Append(s.candles, c)
  IN  /\ r.near = near /\ r.candles = more
      /\ n >= Starts(kind) => Advanced(r, s, Judged(kind, more, n, near.current), more, n)
      /\ ~(n >= Starts(kind)) => r.patternIdx = s.patternIdx

LEMMA UpdatedDoes ==
  ASSUME NEW kind, NEW s, DOMAIN s = Memory, NEW c
  PROVE  IsUpdate(Updated(kind, s, c), kind, s, c)
<1> DEFINE near == NearUpdate(s.near, c)
           n == Len(s.candles)
           more == Append(s.candles, c)
           r == Updated(kind, s, c)
<1> SUFFICES /\ r.near = near /\ r.candles = more
             /\ n >= Starts(kind) => Advanced(r, s, Judged(kind, more, n, near.current), more, n)
             /\ ~(n >= Starts(kind)) => r.patternIdx = s.patternIdx
  BY DEF IsUpdate
<1> HIDE DEF near
<1> DEFINE given == [s EXCEPT !.candles = Append(@, c), !.near = near]
           judged == Judged(kind, more, n, near.current)
<1>1. /\ DOMAIN given = Memory /\ given.candles = more /\ given.near = near
      /\ given.patternIdx = s.patternIdx
  BY DEF Memory
<1>2. r = IF n >= Starts(kind) THEN Advance(given, judged, n)
          ELSE [given EXCEPT !.said = Append(@, 0)]
  <2>1. CASE kind = "plain"
    <3>1. r = PlainUpdate(s, c)
      BY <2>1 DEF Updated
    <3>2. Starts(kind) = TransitionStart(HikkakeLookback)
          /\ judged = HikkakeJudge(given.candles, n, given.near.current)
      BY <1>1, <2>1 DEF Starts, Judged
    <3> QED
      BY <3>1, <3>2 DEF PlainUpdate, HikkakeUpdate, near
  <2>2. CASE kind # "plain"
    <3>1. r = ModifiedUpdate(s, c)
      BY <2>2 DEF Updated
    <3>2. Starts(kind) = TransitionStart(ModifiedLookback)
          /\ judged = ModifiedJudge(given.candles, n, given.near.current)
      BY <1>1, <2>2 DEF Starts, Judged
    <3> QED
      BY <3>1, <3>2 DEF ModifiedUpdate, HikkakeUpdate, near
  <2> QED
    BY <2>1, <2>2
<1> HIDE DEF r
<1>3. CASE n >= Starts(kind)
  <2>1. r = Advance([s EXCEPT !.candles = Append(@, c), !.near = near], judged, n)
    BY <1>2, <1>3
  <2> HIDE DEF judged
  <2>2. Advanced(r, s, judged, more, n)
    BY <2>1, AdvanceDoes
  <2>3. r.near = near /\ r.candles = more
    <3>1. r = Advance(given, judged, n)
      BY <2>1
    <3> HIDE DEF given
    <3> QED
      BY <1>1, <3>1 DEF Advance, Memory
  <2> QED
    BY <1>3, <2>2, <2>3 DEF judged
<1>4. CASE ~(n >= Starts(kind))
  <2>1. r = [given EXCEPT !.said = Append(@, 0)]
    BY <1>2, <1>4
  <2> HIDE DEF given
  <2> QED
    BY <1>1, <1>4, <2>1 DEF Memory
<1> QED
  BY <1>3, <1>4

LEMMA UpdatedSound ==
  ASSUME NEW kind, NEW s, Sound(s), NEW c \in CandleShapes, NEW r, r = Updated(kind, s, c)
  PROVE  Sound(r) /\ r.candles = Append(s.candles, c)
<1>1. Remembers(s) /\ NearKept(s.near, s.candles)
  BY DEF Sound
<1>2. DOMAIN s = Memory /\ s.candles \in Seq(CandleShapes)
  BY <1>1, RememberedNumbers
<1>3. r.near = NearUpdate(s.near, c) /\ r.candles = Append(s.candles, c)
  <2>1. IsUpdate(r, kind, s, c)
    BY <1>2, UpdatedDoes
  <2> QED
    BY <2>1 DEF IsUpdate
<1>4. Remembers(r)
  BY <1>1, PlainRemembers, ModifiedRemembers DEF Updated
<1>5. NearKept(NearUpdate(s.near, c), Append(s.candles, c))
  BY <1>1, <1>2, NearKeeps
<1> QED
  BY <1>3, <1>4, <1>5 DEF Sound

\* The Near average is the same over the same candles.
LEMMA NearAlike ==
  ASSUME NEW all \in Seq(CandleShapes), NEW last \in Seq(CandleShapes), Ends(all, last),
         NEW a, NearKept(a, all), NEW b, NearKept(b, last), Len(last) >= NearPeriod + 3
  PROVE  a.current = b.current
<1> DEFINE n == Len(last)
           N == Len(all)
           w == Spreads(last)
           x == Spreads(all)
           low == n - NearPeriod - 2
           high == n - 3
           shift == N - n
           I == low .. high
           J == low + shift .. high + shift
           f == [i \in I |-> i + shift]
<1>1. /\ n \in Nat /\ N \in Nat /\ n <= N /\ n >= NearPeriod + 3
      /\ \A i \in 1 .. n : last[i] = all[N - n + i]
      /\ NearPeriod \in Nat \ {0}
  BY LenProperties, HikkakeAssumption DEF Ends
<1>2. /\ \A i \in 1 .. n : w[i] \in Int /\ w[i] = Spread(last[i])
      /\ \A i \in 1 .. N : x[i] \in Int /\ x[i] = Spread(all[i])
  BY SpreadsWeigh
<1>3. /\ b.current = SumOver(w, Summed(n)) /\ a.current = SumOver(x, Summed(N))
  BY <1>1 DEF NearKept, NearOffset
<1> HIDE DEF n, N, w, x
<1>4. low \in Nat \ {0} /\ high \in Nat /\ shift \in Nat /\ low <= high /\ high <= n /\ N = n + shift
  BY <1>1
<1>5. Summed(n) = I /\ Summed(N) = J
  <2>1. ASSUME NEW m \in Nat, m >= NearPeriod + 3
        PROVE  Summed(m) = m - NearPeriod - 2 .. m - 3
    <3>1. \A k : k \in Summed(m) <=> k \in m - NearPeriod - 2 .. m - 3
      BY <1>1, <2>1 DEF Summed, NearOffset
    <3> QED
      BY <3>1
  <2>2. n >= NearPeriod + 3 /\ N >= NearPeriod + 3
    BY <1>1
  <2>3. low + shift = N - NearPeriod - 2 /\ high + shift = N - 3
    BY <1>1
  <2>4. Summed(n) = low .. high
    BY <1>1, <2>1, <2>2
  <2>5. Summed(N) = N - NearPeriod - 2 .. N - 3
    BY <1>1, <2>1, <2>2
  <2> QED
    BY <2>3, <2>4, <2>5
<1> HIDE DEF low, high, shift
<1>6. IsFiniteSet(I)
  <2>1. low \in Int /\ high \in Int
    BY <1>4
  <2> QED
    BY <2>1, FS_Interval
<1>7. \A i \in I : i \in 1 .. n /\ i + shift \in 1 .. N /\ N - n + i = i + shift /\ i + shift \in J
  BY <1>1, <1>4
<1>8. \A i \in I : f[i] = i + shift /\ x[f[i]] = w[i] /\ w[i] \in Int /\ f[i] \in J
  BY <1>1, <1>2, <1>7
<1>9. \A i, j \in I : f[i] = f[j] => i = j
  BY <1>4
<1>10. \A y \in J : \E i \in I : y = f[i]
  <2> SUFFICES ASSUME NEW y \in J PROVE \E i \in I : y = f[i]
    OBVIOUS
  <2>1. y - shift \in I /\ y = (y - shift) + shift
    BY <1>4
  <2> QED
    BY <2>1
<1> HIDE DEF I, J, f
<1>11. Weighs(w, I)
  BY <1>8 DEF Weighs
<1>12. SumOver(x, J) = SumOver(w, I)
  BY <1>6, <1>8, <1>9, <1>10, <1>11, SumRenamed
<1> QED
  BY <1>3, <1>5, <1>12

\* Counted from the newest, the candles are the same.
LEMMA AtAlike ==
  ASSUME NEW all \in Seq(CandleShapes), NEW last \in Seq(CandleShapes), Ends(all, last),
         NEW i \in 0 .. Len(last) - 1, NEW j \in Int, Len(all) - j = Len(last) - i
  PROVE  At(last, i) = At(all, j)
<1> DEFINE n == Len(last)
           N == Len(all)
<1>1. /\ n \in Nat /\ N \in Nat /\ i \in 0 .. n - 1 /\ N - j = n - i
      /\ \A k \in 1 .. n : last[k] = all[N - n + k]
  BY LenProperties DEF Ends
<1> HIDE DEF n, N
<1>2. i + 1 \in 1 .. n /\ N - n + (i + 1) = j + 1
  BY <1>1
<1>3. last[i + 1] = all[j + 1]
  BY <1>1, <1>2
<1> QED
  BY <1>3 DEF At

\* So both make the same judgment.
LEMMA JudgedAlike ==
  ASSUME NEW kind, NEW all \in Seq(CandleShapes), NEW last \in Seq(CandleShapes), Ends(all, last),
         NEW a, NEW b, Len(last) >= 3, UsesNear(kind) => Len(last) >= 4 /\ a = b,
         NEW N, N = Len(all) - 1, NEW n, n = Len(last) - 1
  PROVE  Judged(kind, all, N, a) = Judged(kind, last, n, b)
<1>1. /\ Len(all) \in Nat /\ Len(last) \in Nat /\ N = Len(all) - 1 /\ n = Len(last) - 1
  BY LenProperties
<1>2. \A i \in 0 .. n : \A j \in Int : N - j = n - i => At(last, i) = At(all, j)
  <2> SUFFICES ASSUME NEW i \in 0 .. n, NEW j \in Int, N - j = n - i PROVE At(last, i) = At(all, j)
    OBVIOUS
  <2>1. i \in 0 .. Len(last) - 1 /\ Len(all) - j = Len(last) - i
    BY <1>1
  <2> QED
    BY <2>1, AtAlike
<1>3. /\ n \in 0 .. n /\ N \in Int /\ N - N = n - n
      /\ n - 1 \in 0 .. n /\ N - 1 \in Int /\ N - (N - 1) = n - (n - 1)
      /\ n - 2 \in 0 .. n /\ N - 2 \in Int /\ N - (N - 2) = n - (n - 2)
      /\ UsesNear(kind) => n - 3 \in 0 .. n /\ N - 3 \in Int /\ N - (N - 3) = n - (n - 3)
  BY <1>1
<1>4. /\ At(last, n) = At(all, N) /\ At(last, n - 1) = At(all, N - 1)
      /\ At(last, n - 2) = At(all, N - 2)
      /\ UsesNear(kind) => At(last, n - 3) = At(all, N - 3)
  BY <1>2, <1>3
<1>5. CASE kind = "plain"
  BY <1>4, <1>5 DEF Judged, HikkakeJudge, UsesNear
<1>6. CASE kind # "plain"
  BY <1>4, <1>6 DEF Judged, ModifiedJudge, UsesNear
<1> QED
  BY <1>5, <1>6

LEMMA JudgedType == \A kind, candles, index, near : Judged(kind, candles, index, near) \in Judgments
BY DEF Judged, HikkakeJudge, ModifiedJudge, Judgments

\* An update keeps the two alike.
LEMMA UpdatedAlike ==
  ASSUME NEW kind, NEW f, NEW g, Sound(f), Sound(g), Alike(f, g, Starts(kind)),
         NEW c \in CandleShapes,
         NEW r, r = Updated(kind, f, c), NEW q, q = Updated(kind, g, c)
  PROVE  Alike(r, q, Starts(kind))
<1> DEFINE n == Len(g.candles)
           N == Len(f.candles)
           fc == Append(f.candles, c)
           gc == Append(g.candles, c)
           start == Starts(kind)
           fnear == NearUpdate(f.near, c)
           gnear == NearUpdate(g.near, c)
<1>1. /\ Remembers(f) /\ Remembers(g) /\ Sound(r) /\ Sound(q)
      /\ DOMAIN f = Memory /\ DOMAIN g = Memory
      /\ f.candles \in Seq(CandleShapes) /\ g.candles \in Seq(CandleShapes)
      /\ n \in Nat /\ N \in Nat
  BY RememberedNumbers, UpdatedSound DEF Sound
<1>2. start \in Nat /\ start >= 2 /\ (UsesNear(kind) => start >= 3 /\ start >= NearPeriod + 2)
  BY StartsLateEnough
<1>3. n <= N
  BY DEF Alike, Ends
<1>4. /\ r.near = fnear /\ r.candles = fc
      /\ N >= start => Advanced(r, f, Judged(kind, fc, N, fnear.current), fc, N)
      /\ ~(N >= start) => r.patternIdx = f.patternIdx
  <2>1. IsUpdate(r, kind, f, c)
    BY <1>1, UpdatedDoes
  <2> QED
    BY <2>1 DEF IsUpdate
<1>5. /\ q.near = gnear /\ q.candles = gc
      /\ n >= start => Advanced(q, g, Judged(kind, gc, n, gnear.current), gc, n)
      /\ ~(n >= start) => q.patternIdx = g.patternIdx
  <2>1. IsUpdate(q, kind, g, c)
    BY <1>1, UpdatedDoes
  <2> QED
    BY <2>1 DEF IsUpdate
<1>6. /\ Ends(fc, gc) /\ fc \in Seq(CandleShapes) /\ gc \in Seq(CandleShapes)
      /\ Len(fc) = N + 1 /\ Len(gc) = n + 1 /\ (N + 1) - 1 = N /\ (n + 1) - 1 = n
  BY <1>1, EndsAppend, Lengthens DEF Alike
<1> HIDE DEF fnear, gnear
<1>7. CASE n < start
  <2>1. r.patternIdx \in {f.patternIdx, N, 0}
    BY <1>1, <1>2, <1>4 DEF Advanced
  <2>2. q.patternIdx = g.patternIdx
    BY <1>1, <1>2, <1>5, <1>7
  <2> QED
    BY <1>1, <1>2, <1>4, <1>5, <1>7, <2>1, <2>2, AlikeBefore
<1>8. CASE n >= start
  <2>1. N >= start
    BY <1>1, <1>2, <1>3, <1>8
  <2>2. UsesNear(kind) => n + 1 >= 4 /\ fnear.current = gnear.current
    <3> SUFFICES ASSUME UsesNear(kind) PROVE n + 1 >= 4 /\ fnear.current = gnear.current
      OBVIOUS
    <3>3. NearPeriod \in Nat
      BY HikkakeAssumption
    <3>1. n + 1 >= 4 /\ n + 1 >= NearPeriod + 3
      <4>1. start >= 3 /\ start >= NearPeriod + 2 /\ n >= start /\ start \in Nat /\ n \in Nat
        BY <1>1, <1>2, <1>8
      <4> HIDE DEF n, start
      <4> QED
        BY <3>3, <4>1
    <3>2. NearKept(fnear, fc) /\ NearKept(gnear, gc)
      BY <1>1, <1>4, <1>5 DEF Sound
    <3> HIDE DEF fc, gc
    <3> QED
      BY <1>6, <3>1, <3>2, NearAlike
  <2>3. Judged(kind, fc, N, fnear.current) = Judged(kind, gc, n, gnear.current)
    <3> DEFINE x == fnear.current
               y == gnear.current
    <3>1. Len(gc) >= 3 /\ N = Len(fc) - 1 /\ n = Len(gc) - 1
      BY <1>1, <1>2, <1>6, <1>8
    <3>2. UsesNear(kind) => Len(gc) >= 4 /\ x = y
      BY <1>6, <2>2
    <3> HIDE DEF fc, gc, x, y, n, N
    <3> QED
      BY <1>6, <3>1, <3>2, JudgedAlike DEF x, y
  <2> DEFINE judged == Judged(kind, gc, n, gnear.current)
  <2>4. judged \in Judgments
    BY JudgedType
  <2>5. Advanced(r, f, judged, fc, N) /\ Advanced(q, g, judged, gc, n)
    BY <1>4, <1>5, <1>8, <2>1, <2>3
  <2> HIDE DEF judged
  <2> QED
    BY <1>1, <1>2, <1>8, <2>4, <2>5, AlikeAfter
<1> QED
  BY <1>1, <1>2, <1>7, <1>8

(***************************************************************************)
(* Enough of a past.                                                       *)
(***************************************************************************)

\* The last m candles.
Latest(cs, m) == SubSeq(cs, Len(cs) - m + 1, Len(cs))

LEMMA LatestType ==
  ASSUME NEW cs \in Seq(CandleShapes), NEW m \in 0 .. Len(cs)
  PROVE  /\ Latest(cs, m) \in Seq(CandleShapes) /\ Len(Latest(cs, m)) = m
         /\ \A i \in 1 .. m : Latest(cs, m)[i] = cs[Len(cs) - m + i]
<1> DEFINE n == Len(cs)
           low == n - m + 1
<1>1. n \in Nat /\ m \in Nat /\ m <= n /\ low \in Int /\ low \in 1 .. n + 1
  BY LenProperties
<1>2. \A i \in low .. n : cs[i] \in CandleShapes
  <2>1. \A i \in 1 .. n : cs[i] \in CandleShapes
    BY ElementOfSeq
  <2> QED
    BY <1>1, <2>1
<1> HIDE DEF n, low
<1>3. /\ SubSeq(cs, low, n) \in Seq(CandleShapes)
      /\ Len(SubSeq(cs, low, n)) = IF low <= n THEN n - low + 1 ELSE 0
      /\ \A i \in 1 .. n - low + 1 : SubSeq(cs, low, n)[i] = cs[low + i - 1]
  BY <1>1, <1>2, SubSeqProperties
<1> DEFINE l == SubSeq(cs, low, n)
<1>4. Latest(cs, m) = l
  BY DEF Latest, low, n
<1>5. n - low + 1 = m /\ (low <= n <=> m > 0) /\ \A i \in 1 .. m : low + i - 1 = n - m + i
  BY <1>1 DEF low
<1> HIDE DEF l
<1>6. /\ l \in Seq(CandleShapes) /\ Len(l) = IF low <= n THEN n - low + 1 ELSE 0
      /\ \A i \in 1 .. n - low + 1 : l[i] = cs[low + i - 1]
  BY <1>3 DEF l
<1>7. Len(l) = m
  BY <1>1, <1>5, <1>6
<1>8. \A i \in 1 .. m : l[i] = cs[n - m + i]
  BY <1>5, <1>6
<1> QED
  BY <1>4, <1>6, <1>7, <1>8 DEF n

\* The last m + 1 candles are the last m of before, and the new one.
LEMMA LatestAppend ==
  ASSUME NEW cs \in Seq(CandleShapes), NEW c \in CandleShapes, NEW m \in 0 .. Len(cs)
  PROVE  Latest(Append(cs, c), m + 1) = Append(Latest(cs, m), c)
<1> DEFINE n == Len(cs)
           more == Append(cs, c)
           s == Latest(more, m + 1)
           l == Latest(cs, m)
           t == Append(l, c)
<1>1. /\ more \in Seq(CandleShapes) /\ n \in Nat /\ Len(more) = n + 1 /\ more[n + 1] = c
      /\ \A i \in 1 .. n : more[i] = cs[i]
  BY Lengthens
<1>2. m \in Nat /\ m <= n /\ m + 1 \in 0 .. n + 1
  BY <1>1
<1>3. /\ l \in Seq(CandleShapes) /\ Len(l) = m
      /\ \A i \in 1 .. m : l[i] = cs[n - m + i]
  BY LatestType
<1>4. /\ s \in Seq(CandleShapes) /\ Len(s) = m + 1
      /\ \A i \in 1 .. m + 1 : s[i] = more[(n + 1) - (m + 1) + i]
  <2>1. m + 1 \in 0 .. Len(more) /\ Len(more) = n + 1
    BY <1>1, <1>2
  <2> HIDE DEF more, n
  <2>2. /\ s \in Seq(CandleShapes) /\ Len(s) = m + 1
        /\ \A i \in 1 .. m + 1 : s[i] = more[Len(more) - (m + 1) + i]
    BY <1>1, <2>1, LatestType
  <2> HIDE DEF s
  <2> QED
    BY <2>1, <2>2
<1> HIDE DEF l
<1>5. /\ t \in Seq(CandleShapes) /\ Len(t) = m + 1 /\ t[m + 1] = c
      /\ \A i \in 1 .. m : t[i] = l[i]
  BY <1>3, Lengthens
<1> HIDE DEF n, more, s, t
<1>6. ASSUME NEW i \in 1 .. m + 1 PROVE s[i] = t[i]
  <2>1. CASE i = m + 1
    <3>1. (n + 1) - (m + 1) + i = n + 1
      BY <1>1, <1>2, <2>1
    <3> QED
      BY <1>1, <1>4, <1>5, <2>1, <3>1
  <2>2. CASE i # m + 1
    <3>1. i \in 1 .. m /\ n - m + i \in 1 .. n /\ (n + 1) - (m + 1) + i = n - m + i
      BY <1>1, <1>2, <2>2
    <3>2. s[i] = more[n - m + i] /\ t[i] = l[i] /\ l[i] = cs[n - m + i] /\ more[n - m + i] = cs[n - m + i]
      BY <1>1, <1>3, <1>4, <1>5, <3>1
    <3> QED
      BY <3>2
  <2> QED
    BY <2>1, <2>2
<1>7. s = t
  BY <1>4, <1>5, <1>6, SeqEqual
<1> QED
  BY <1>7 DEF s, t, l, more

\* What the state s makes of cs and a state seeded with the last m of cs have in common.
SeededWith(kind, s, cs, m) ==
  /\ Sound(Replay(kind, Latest(cs, m)))
  /\ Replay(kind, Latest(cs, m)).candles = Latest(cs, m)
  /\ Alike(s, Replay(kind, Latest(cs, m)), Starts(kind))

AnySeed(kind, s, cs) == \A m \in 0 .. Len(cs) : SeededWith(kind, s, cs, m)

LEMMA NothingIsSound == Sound(NothingSeen) /\ NothingSeen.candles = <<>>
<1>1. Remembers(NothingSeen) /\ NothingSeen.candles = <<>> /\ NothingSeen.near = NearBlank
  BY EmptySeq DEF Remembers, NothingSeen, Memory, Judgments, Answers, Waiting, Confirms
<1>2. Summed(0) = {} /\ Kept(0) = 0 /\ 0 - NearOffset - 1 < NearPeriod
  BY HikkakeAssumption DEF Summed, Kept, Buffer, NearOffset
<1>3. Len(<<>>) = 0
  BY EmptySeq
<1>4. Buffered(<<>>, Spreads(<<>>), 0)
  BY <1>2, EmptySeq DEF Buffered
<1>5. NearKept(NearBlank, <<>>)
  BY <1>2, <1>3, <1>4, SumOfNothing DEF NearKept, NearBlank
<1> QED
  BY <1>1, <1>5 DEF Sound

\* Every state is like one that has seen nothing.
LEMMA NothingIsAlike ==
  ASSUME NEW kind, NEW s, Sound(s)
  PROVE  SeededWith(kind, s, s.candles, 0)
<1> DEFINE n == Len(s.candles)
           start == Starts(kind)
<1>1. /\ n \in Nat /\ s.patternIdx \in Nat
      /\ s.patternIdx = 0 \/ s.patternIdx \in 2 .. n - 1
      /\ s.candles \in Seq(CandleShapes)
  BY RememberedNumbers DEF Sound
<1>2. start \in Nat /\ start >= 2
  BY StartsLateEnough
<1>3. Latest(s.candles, 0) = <<>>
  <2>1. 0 \in 0 .. n
    BY <1>1
  <2>2. Latest(s.candles, 0) \in Seq(CandleShapes) /\ Len(Latest(s.candles, 0)) = 0
    BY <1>1, <2>1, LatestType
  <2> QED
    BY <2>2, EmptySeq
<1>4. Replay(kind, Latest(s.candles, 0)) = NothingSeen
  BY <1>3, ReplayStarts
<1>5. Alike(s, NothingSeen, start)
  <2>1. NothingSeen.patternIdx = 0 /\ NothingSeen.candles = <<>> /\ Len(<<>>) = 0
    BY EmptySeq DEF NothingSeen
  <2>2. s.patternIdx < n - 0 + start
    <3>1. s.patternIdx <= n
      BY <1>1
    <3> DEFINE idx == s.patternIdx
    <3>2. idx \in Nat /\ idx <= n /\ n \in Nat
      BY <1>1, <3>1
    <3> HIDE DEF n, start, idx
    <3>3. idx < n - 0 + start
      BY <1>2, <3>2
    <3> QED
      BY <3>3 DEF idx
  <2>3. ~(0 > start + ConfirmationBars)
    BY <1>2 DEF ConfirmationBars
  <2>4. Ends(s.candles, <<>>)
    <3>1. 0 <= n
      BY <1>1
    <3> QED
      BY <2>1, <3>1 DEF Ends
  <2> QED
    BY <2>1, <2>2, <2>3, <2>4 DEF Alike, SameWaits
<1> QED
  BY <1>3, <1>4, <1>5, NothingIsSound DEF SeededWith

\* One candle more for both.
LEMMA SeedGoesOn ==
  ASSUME NEW kind, NEW s, Sound(s), NEW cs, s.candles = cs, NEW c \in CandleShapes,
         NEW m \in 0 .. Len(cs), SeededWith(kind, s, cs, m)
  PROVE  SeededWith(kind, Updated(kind, s, c), Append(cs, c), m + 1)
<1> DEFINE l == Latest(cs, m)
           g == Replay(kind, l)
           q == Updated(kind, g, c)
           r == Updated(kind, s, c)
<1>1. cs \in Seq(CandleShapes)
  BY RememberedNumbers DEF Sound
<1>2. l \in Seq(CandleShapes) /\ Latest(Append(cs, c), m + 1) = Append(l, c)
  BY <1>1, LatestType, LatestAppend
<1>3. Sound(g) /\ g.candles = l /\ Alike(s, g, Starts(kind))
  BY DEF SeededWith
<1> HIDE DEF l
<1>4. Replay(kind, Append(l, c)) = q
  BY <1>2, ReplayGoesOn
<1> HIDE DEF g, q, r
<1>5. Sound(q) /\ q.candles = Append(l, c)
  BY <1>3, UpdatedSound DEF q
<1>6. Alike(r, q, Starts(kind))
  BY <1>3, UpdatedAlike DEF q, r
<1> QED
  BY <1>2, <1>4, <1>5, <1>6 DEF SeededWith, r

LEMMA AnySeedGoesOn ==
  ASSUME NEW kind, NEW s, Sound(s), NEW cs, s.candles = cs, NEW c \in CandleShapes,
         AnySeed(kind, s, cs)
  PROVE  AnySeed(kind, Updated(kind, s, c), Append(cs, c))
<1> DEFINE r == Updated(kind, s, c)
           more == Append(cs, c)
<1>1. cs \in Seq(CandleShapes)
  BY RememberedNumbers DEF Sound
<1>2. Sound(r) /\ r.candles = more
  BY UpdatedSound
<1>3. Len(cs) \in Nat /\ Len(more) = Len(cs) + 1
  BY <1>1, Lengthens
<1>4. SeededWith(kind, r, more, 0)
  BY <1>2, NothingIsAlike
<1>5. \A m \in 0 .. Len(cs) : SeededWith(kind, r, more, m + 1)
  BY SeedGoesOn DEF AnySeed
<1> HIDE DEF r, more
<1>6. ASSUME NEW m \in 0 .. Len(cs) + 1 PROVE SeededWith(kind, r, more, m)
  <2>1. CASE m = 0
    BY <1>4, <2>1
  <2>2. CASE m # 0
    <3>1. m - 1 \in 0 .. Len(cs) /\ (m - 1) + 1 = m
      BY <1>3, <2>2
    <3>2. SeededWith(kind, r, more, (m - 1) + 1)
      BY <1>5, <3>1
    <3> QED
      BY <3>1, <3>2
  <2> QED
    BY <2>1, <2>2
<1>7. AnySeed(kind, r, more)
  BY <1>3, <1>6 DEF AnySeed
<1> QED
  BY <1>7 DEF r, more

\* Once the look-back is over, both give the same answer.
LEMMA SeedAnswersAlike ==
  ASSUME NEW kind, NEW s, Sound(s), NEW cs, s.candles = cs, AnySeed(kind, s, cs),
         NEW lookback \in Nat, lookback = Starts(kind) + ConfirmationBars, Len(cs) > lookback
  PROVE  Answered(s, lookback) = Answered(Replay(kind, SubSeq(cs, Len(cs) - lookback, Len(cs))), lookback)
<1> DEFINE m == lookback + 1
           g == Replay(kind, Latest(cs, m))
<1>1. cs \in Seq(CandleShapes) /\ Len(cs) \in Nat
  BY RememberedNumbers DEF Sound
<1>2. m \in 0 .. Len(cs) /\ Len(cs) - m + 1 = Len(cs) - lookback
  BY <1>1
<1>3. Latest(cs, m) = SubSeq(cs, Len(cs) - lookback, Len(cs))
  BY <1>2 DEF Latest
<1>4. SeededWith(kind, s, cs, m)
  BY <1>2 DEF AnySeed
<1>5. Len(Latest(cs, m)) = m
  BY <1>1, <1>2, LatestType
<1>6. Len(g.candles) = m /\ m > lookback /\ lookback \in Nat
  BY <1>4, <1>5 DEF SeededWith
<1>7. Alike(s, g, Starts(kind))
  BY <1>4 DEF SeededWith
<1> HIDE DEF g, m
<1>8. Last(s.said) = Last(g.said)
  BY <1>6, <1>7 DEF Alike
<1>9. Answered(s, lookback) = Last(s.said) /\ Answered(g, lookback) = Last(g.said)
  BY <1>1, <1>6 DEF Answered
<1> QED
  BY <1>3, <1>8, <1>9 DEF g
(***************************************************************************)
(* All together.                                                           *)
(***************************************************************************)

\* What a state remembers has its type.
LEMMA RememberedType ==
  ASSUME NEW s, Remembers(s)
  PROVE  /\ s.patternIdx \in 0 .. Len(s.candles) /\ s.patternResult \in {0, 100, -100}
         /\ Range(s.said) \subseteq {0, 100, -100, 200, -200}
<1> DEFINE n == Len(s.candles)
<1>1. n \in Nat /\ Len(s.said) = n /\ s.said \in Seq(Answers) /\ s.patternResult \in Judgments
      /\ Waiting(s.patternIdx, s.patternResult, s.said)
  BY LenProperties DEF Remembers
<1> HIDE DEF n
<1>2. s.patternIdx \in 0 .. n
  BY <1>1 DEF Waiting
<1>3. Range(s.said) \subseteq Answers
  BY <1>1, ElementOfSeq, LenProperties DEF Range
<1> QED
  BY <1>1, <1>2, <1>3 DEF Judgments, Answers, n

\* The sums, counts, queues and buffers that the states keep say of every series what the
\* series says itself, and a hikkake is like one that was given the last candles only: inductive.
WindowsKept ==
  /\ series \in Seq(Held) /\ Len(series) <= Longest
  /\ MeanKept(mean, series) /\ ExtremeKept(highest, series)

CandlesKept ==
  /\ tape \in Seq(CandleShapes) /\ Len(tape) <= LongestTape
  /\ \A s \in {plain, modified} : Sound(s) /\ s.candles = tape
  /\ AnySeed("plain", plain, tape) /\ AnySeed("modified", modified, tape)

LEMMA WindowsStart == RollingInit => WindowsKept
<1> SUFFICES ASSUME RollingInit PROVE WindowsKept
  OBVIOUS
<1>1. series = <<>> /\ Len(series) = 0 /\ series \in Seq(Held)
  BY EmptySeq DEF RollingInit
<1>3. Size(0) = 0
  BY RollingAssumption DEF Size
<1>2. Seen(series) = {} /\ Missing(series) = {} /\ Start(series) = 1
  <2>1. Start(series) = 1 /\ 1 .. 0 = {}
    BY <1>1, <1>3 DEF Start
  <2> QED
    BY <1>1, <2>1 DEF Seen, Missing
<1>4. Slid(<<>>, series)
  BY <1>1, <1>3, EmptySeq DEF Slid
<1>5. Queue(<<>>, series, Start(series))
  BY <1>1, <1>2 DEF Queue, Lined, Covered
<1>6. SumOver(Numbers(series), {}) = 0 /\ Cardinality({}) = 0
  BY SumOfNothing, FS_EmptySet
<1>7. /\ mean.window = <<>> /\ mean.total = 0 /\ mean.invalid = 0
      /\ highest.index = -1 /\ highest.window = <<>> /\ highest.invalid = 0
      /\ highest.candidates = <<>>
  BY DEF RollingInit
<1>8. MeanKept(mean, series)
  BY <1>2, <1>4, <1>6, <1>7 DEF MeanKept
<1>9. ExtremeKept(highest, series)
  BY <1>1, <1>2, <1>4, <1>5, <1>6, <1>7 DEF ExtremeKept
<1> QED
  BY <1>1, <1>8, <1>9, RollingAssumption DEF WindowsKept

LEMMA WindowsStay == WindowsKept /\ [RollingNext]_rollingVars => WindowsKept'
<1> SUFFICES ASSUME WindowsKept, [RollingNext]_rollingVars PROVE WindowsKept'
  OBVIOUS
<1>1. CASE RollingNext
  <2>1. PICK v \in Held : Push(v)
    BY <1>1 DEF RollingNext, Held
  <2>2. /\ Append(series, v) \in Seq(Held) /\ Len(Append(series, v)) = Len(series) + 1
        /\ Len(series) \in Nat
    BY Lengthens DEF WindowsKept
  <2>3. MeanKept(SmaUpdate(mean, v), Append(series, v))
    BY MeanKeeps DEF WindowsKept
  <2>4. ExtremeKept(ExtremeUpdate(highest, v), Append(series, v))
    BY ExtremeKeeps DEF WindowsKept
  <2> QED
    BY <2>1, <2>2, <2>3, <2>4, RollingAssumption DEF Push, WindowsKept
<1>2. CASE UNCHANGED rollingVars
  BY <1>2 DEF rollingVars, WindowsKept
<1> QED
  BY <1>1, <1>2

LEMMA CandlesStart == HikkakeInit => CandlesKept
<1> SUFFICES ASSUME HikkakeInit PROVE CandlesKept
  OBVIOUS
<1>1. tape = <<>> /\ Len(tape) = 0 /\ tape \in Seq(CandleShapes)
  BY EmptySeq DEF HikkakeInit
<1>2. Sound(NothingSeen) /\ NothingSeen.candles = tape
  BY <1>1, NothingIsSound
<1>3. \A kind : AnySeed(kind, NothingSeen, tape)
  BY <1>1, <1>2, NothingIsAlike DEF AnySeed
<1> QED
  BY <1>1, <1>2, <1>3, HikkakeAssumption DEF HikkakeInit, CandlesKept

LEMMA CandlesStay == CandlesKept /\ [HikkakeNext]_hikkakeVars => CandlesKept'
<1> SUFFICES ASSUME CandlesKept, [HikkakeNext]_hikkakeVars PROVE CandlesKept'
  OBVIOUS
<1>1. CASE HikkakeNext
  <2>1. PICK c \in CandleShapes : Give(c)
    BY <1>1 DEF HikkakeNext
  <2>2. /\ tape' \in Seq(CandleShapes) /\ Len(tape') <= LongestTape
    BY <2>1, Lengthens, LenProperties, HikkakeAssumption DEF Give, CandlesKept
  <2>3. /\ Sound(plain) /\ plain.candles = tape /\ AnySeed("plain", plain, tape)
        /\ Sound(modified) /\ modified.candles = tape /\ AnySeed("modified", modified, tape)
    BY DEF CandlesKept
  <2>4. /\ plain' = Updated("plain", plain, c) /\ modified' = Updated("modified", modified, c)
        /\ tape' = Append(tape, c)
    BY <2>1 DEF Give, Updated
  <2>5. Sound(plain') /\ plain'.candles = tape' /\ AnySeed("plain", plain', tape')
    <3> DEFINE s == plain
               r == Updated("plain", s, c)
    <3>3. Sound(s) /\ s.candles = tape
      BY <2>3
    <3> HIDE DEF s
    <3>1. Sound(r) /\ r.candles = Append(s.candles, c)
      BY <3>3, UpdatedSound
    <3>2. AnySeed("plain", Updated("plain", plain, c), Append(tape, c))
      BY <2>3, AnySeedGoesOn
    <3> QED
      BY <2>4, <3>1, <3>2, <3>3 DEF s
  <2>6. Sound(modified') /\ modified'.candles = tape' /\ AnySeed("modified", modified', tape')
    <3> DEFINE s == modified
               r == Updated("modified", s, c)
    <3>3. Sound(s) /\ s.candles = tape
      BY <2>3
    <3> HIDE DEF s
    <3>1. Sound(r) /\ r.candles = Append(s.candles, c)
      BY <3>3, UpdatedSound
    <3>2. AnySeed("modified", Updated("modified", modified, c), Append(tape, c))
      BY <2>3, AnySeedGoesOn
    <3> QED
      BY <2>4, <3>1, <3>2, <3>3 DEF s
  <2> QED
    BY <2>2, <2>5, <2>6 DEF CandlesKept
<1>2. CASE UNCHANGED hikkakeVars
  BY <1>2 DEF hikkakeVars, CandlesKept
<1> QED
  BY <1>1, <1>2

LEMMA WindowsAgree ==
  WindowsKept => RollingTypeOK /\ MeanIsOfTheWindow /\ ExtremeIsOfTheWindow
<1> SUFFICES ASSUME WindowsKept PROVE RollingTypeOK /\ MeanIsOfTheWindow /\ ExtremeIsOfTheWindow
  OBVIOUS
<1>1. series \in Seq(Held) /\ Len(series) <= Longest
      /\ MeanKept(mean, series) /\ ExtremeKept(highest, series)
  BY DEF WindowsKept
<1>2. MeanIsOfTheWindow
  BY <1>1, MeanAnswers DEF MeanIsOfTheWindow, Whole, WholeIn, Recent, SumFunctionOnSet, SumOver
<1>3. ExtremeIsOfTheWindow
  BY <1>1, ExtremeAnswers DEF ExtremeIsOfTheWindow, Whole, WholeIn, Recent
<1>4. /\ mean.window \in Seq(Held) /\ Len(mean.window) <= Period
      /\ mean.total = SumOver(Numbers(series), Seen(series))
      /\ mean.invalid = Cardinality(Missing(series))
      /\ highest.invalid = Cardinality(Missing(series))
      /\ Queue(highest.candidates, series, Start(series))
  <2>1. Size(Len(series)) <= Period
    BY <1>1, SeenType
  <2> QED
    BY <1>1, <2>1 DEF MeanKept, ExtremeKept, Slid
<1>5. mean.total \in Int
  <2>1. Weighs(Numbers(series), Seen(series)) /\ IsFiniteSet(Seen(series))
    BY <1>1, NumbersWeigh, SeenType DEF Seen
  <2> QED
    BY <1>4, <2>1, SumType
<1>6. mean.invalid \in Nat /\ highest.invalid \in 0 .. Period
  BY <1>1, <1>4, NothingMissing, SeenType
<1>7. Len(highest.candidates) <= Period
  BY <1>1, <1>4, QueueFits
<1> QED
  BY <1>1, <1>2, <1>3, <1>4, <1>5, <1>6, <1>7 DEF RollingTypeOK, Held

LEMMA CandlesAgree == CandlesKept => HikkakeTypeOK /\ NearTotalIsOfItsWindow
<1> SUFFICES ASSUME CandlesKept PROVE HikkakeTypeOK /\ NearTotalIsOfItsWindow
  OBVIOUS
<1>1. HikkakeTypeOK
  <2>1. tape \in Seq(CandleShapes) /\ Len(tape) <= LongestTape
    BY DEF CandlesKept
  <2>2. ASSUME NEW s \in {plain, modified}
        PROVE  /\ s.candles = tape
               /\ s.patternIdx \in 0 .. Len(tape) /\ s.patternResult \in {0, 100, -100}
               /\ Range(s.said) \subseteq {0, 100, -100, 200, -200}
    <3>1. Remembers(s) /\ s.candles = tape
      BY DEF CandlesKept, Sound
    <3>2. /\ s.patternIdx \in 0 .. Len(s.candles) /\ s.patternResult \in {0, 100, -100}
          /\ Range(s.said) \subseteq {0, 100, -100, 200, -200}
      BY <3>1, RememberedType
    <3> QED
      BY <3>1, <3>2
  <2> QED
    BY <2>1, <2>2 DEF HikkakeTypeOK
<1>2. tape \in Seq(CandleShapes) /\ NearKept(modified.near, tape)
  BY DEF CandlesKept, Sound
<1>3. NearTotalIsOfItsWindow
  <2> DEFINE newest == Len(tape) - 1
             target == newest - NearOffset
             a == modified.near
  <2>1. /\ target >= NearPeriod =>
             a.current = SumOver(Spreads(tape), target - NearPeriod + 1 .. target)
        /\ ~(target >= NearPeriod) => a.current = None
        /\ target >= NearPeriod => a.current = a.total
        /\ \A index \in {target - 1, target - NearPeriod - 1} :
             index >= 0 => StillHeld(a.ranges, index, newest)
    BY <1>2, NearAnswers
  <2> QED
    BY <2>1 DEF NearTotalIsOfItsWindow, SumFunctionOnSet, SumOver
<1> QED
  BY <1>1, <1>3

LEMMA KeptTogether == RunningSpec => [](WindowsKept /\ CandlesKept)
<1>1. RunningInit => WindowsKept /\ CandlesKept
  BY WindowsStart, CandlesStart DEF RunningInit
<1>2. WindowsKept /\ CandlesKept /\ [RunningNext]_runningVars => (WindowsKept /\ CandlesKept)'
  BY WindowsStay, CandlesStay DEF RunningNext, runningVars, rollingVars, hikkakeVars
<1> QED
  BY <1>1, <1>2, PTL DEF RunningSpec

\* For every series and every period: what SmaState, RollingExtremeState and the Near average
\* of the hikkakes keep up, value by value, is the sum, the largest value and the total range
\* of the values that stand in the window, and the queue never outgrows it.
THEOREM ValuesAgree == RunningSpec => []RunningValuesAgree
<1>1. WindowsKept /\ CandlesKept => RunningValuesAgree
  BY WindowsAgree, CandlesAgree DEF RunningValuesAgree
<1> QED
  BY <1>1, KeptTogether, PTL

\* A confirmation follows the match it confirms by at most three candles, points
\* the same way, and nothing has been announced or confirmed in between: of both
\* patterns, for every tape (update_integer and _advance).
THEOREM EachMatchIsConfirmedOnce == RunningSpec => []ConfirmedOnceWithinThree
<1>1. CandlesKept => ConfirmedOnceWithinThree
  <2>1. ASSUME NEW s, Confirms(s.said), NEW i \in DOMAIN s.said,
               s.said[i] \in {200, -200}
        PROVE  \E p \in DOMAIN s.said : /\ p < i /\ i - p <= ConfirmationBars
                                        /\ 2 * s.said[p] = s.said[i]
                                        /\ \A j \in p + 1 .. i - 1 : s.said[j] = 0
    <3>1. PICK p \in DOMAIN s.said : Announced(s.said, p, i, s.said[i])
      BY <2>1 DEF Confirms
    <3> QED
      BY <3>1 DEF Announced
  <2> QED
    BY <2>1 DEF CandlesKept, Sound, Remembers, ConfirmedOnceWithinThree
<1> QED
  BY <1>1, KeptTogether, PTL

\* min_history candles are enough of a past: whatever came before them, a state that has seen
\* it answers as one seeded with those candles alone, on every tape and for every Near period
\* (both variants of TalibHikkakeState).
THEOREM HistoryIsForgotten == RunningSpec => []HistoryBeyondMinIsForgotten
<1>1. CandlesKept => HistoryBeyondMinIsForgotten
  <2> SUFFICES ASSUME CandlesKept PROVE HistoryBeyondMinIsForgotten
    OBVIOUS
  <2>1. /\ Sound(plain) /\ plain.candles = tape /\ AnySeed("plain", plain, tape)
        /\ Sound(modified) /\ modified.candles = tape /\ AnySeed("modified", modified, tape)
    BY DEF CandlesKept
  <2>2. /\ HikkakeLookback \in Nat /\ HikkakeLookback = Starts("plain") + ConfirmationBars
        /\ ModifiedLookback \in Nat /\ ModifiedLookback = Starts("modified") + ConfirmationBars
    <3>1. /\ Starts("plain") = HikkakeLookback - 3 /\ HikkakeLookback = 5
          /\ Starts("modified") = ModifiedLookback - 3 /\ ModifiedLookback = Max({1, NearPeriod}) + 5
      BY DEF Starts, TransitionStart, HikkakeLookback, ModifiedLookback, ConfirmationBars
    <3>2. Max({1, NearPeriod}) \in Nat
      <4>1. NearPeriod \in Nat /\ \E x \in {1, NearPeriod} : \A y \in {1, NearPeriod} : x >= y
        BY HikkakeAssumption
      <4> QED
        BY <4>1 DEF Max
    <3> DEFINE most == Max({1, NearPeriod})
    <3> HIDE DEF most
    <3>3. ModifiedLookback = most + 5 /\ most \in Nat
      BY <3>1, <3>2 DEF most
    <3> QED
      BY <3>1, <3>3 DEF ConfirmationBars
  <2>3. Len(tape) > HikkakeLookback =>
          Answered(plain, HikkakeLookback)
            = Answered(Replay("plain", SubSeq(tape, Len(tape) - HikkakeLookback, Len(tape))),
                       HikkakeLookback)
    BY <2>1, <2>2, SeedAnswersAlike
  <2>4. Len(tape) > ModifiedLookback =>
          Answered(modified, ModifiedLookback)
            = Answered(Replay("modified", SubSeq(tape, Len(tape) - ModifiedLookback, Len(tape))),
                       ModifiedLookback)
    BY <2>1, <2>2, SeedAnswersAlike
  <2>5. /\ Seeded(HikkakeLookback, PlainUpdate)
             = Replay("plain", SubSeq(tape, Len(tape) - HikkakeLookback, Len(tape)))
        /\ Seeded(ModifiedLookback, ModifiedUpdate)
             = Replay("modified", SubSeq(tape, Len(tape) - ModifiedLookback, Len(tape)))
    BY DEF Seeded, Replay
  <2> QED
    BY <2>3, <2>4, <2>5 DEF HistoryBeyondMinIsForgotten
<1> QED
  BY <1>1, KeptTogether, PTL
=============================================================================
