---------------------------- MODULE SeriesTerms ----------------------------
(***************************************************************************)
(* The calculations indicators are built from, and the two ways the        *)
(* library runs them: a batch function over a whole series, and a state    *)
(* that is given one candle at a time.                                     *)
(*                                                                         *)
(* A number is abstracted to the candles it is computed from: <<a, b>> for *)
(* one that depends on candle a, on candle b and on none outside a..b, and *)
(* Nan for the NaN of a series that has not begun.  What the number is,    *)
(* and the substitutes safe_divide gives for a zero denominator, are left  *)
(* out: a zero denominator never makes a NaN.                              *)
(*                                                                         *)
(* A term says how a series is computed from others.  `fed' marks a state  *)
(* whose owner returns before updating it when the input is NaN.           *)
(***************************************************************************)
EXTENDS Integers, Sequences, FiniteSetsExt, SequencesExt

Nan == <<0, 0>>
Defined(v) == v # Nan

\* Nan if any of the values is, as every `if isnan(a) or isnan(b)' has it.
Span(vs) == IF Nan \in vs THEN Nan
            ELSE <<Min({v[1] : v \in vs}), Max({v[2] : v \in vs})>>

\* A sequence given entry by entry.
Entire(s) == s \o <<>>

Term(op, n, of) == [op |-> op, n |-> n, of |-> of, fed |-> FALSE]
Fed(t) == [t EXCEPT !.fed = TRUE]

Price == Term("price", 1, <<>>)
Combine(ts) == Term("combine", 1, ts)
Window(t, n) == Term("window", n, <<t>>)
Recursive(t, n) == Term("recursive", n, <<t>>)
Change(t, n) == Term("change", n, <<t>>)
Delay(t, n) == Term("delay", n, <<t>>)
Held(t) == Term("held", 1, <<t>>)
WithPrior(t) == Term("prior", 1, <<t>>)
\* Not answered for the first n candles, whatever the inputs are.
After(t, n) == Term("after", n, <<t>>)

(***************************************************************************)
(* The state of each term: what it remembers, how an observation changes   *)
(* it, and what it answers.                                                *)
(***************************************************************************)

Latest(s, n) == IF Len(s) <= n THEN s ELSE SubSeq(s, Len(s) - n + 1, Len(s))

Blank(t) == CASE t.op = "recursive" -> [seed |-> <<>>, value |-> Nan]
              [] t.op = "after" -> 0
              [] OTHER -> <<>>

RecursiveUpdate(m, x, n) ==
  IF ~Defined(x) THEN IF Defined(m.value) THEN m ELSE [m EXCEPT !.seed = <<>>]
  ELSE IF Defined(m.value) THEN [m EXCEPT !.value = Span({m.value, x})]
  ELSE IF Len(m.seed) + 1 = n THEN [seed |-> <<>>, value |-> Span(Range(m.seed) \cup {x})]
  ELSE [m EXCEPT !.seed = Append(m.seed, x)]

Remember(t, m, x) ==
  CASE t.op = "window" -> Latest(Append(m, x), t.n)
    [] t.op \in {"change", "delay"} -> Latest(Append(m, x), t.n + 1)
    [] t.op = "prior" -> Latest(Append(m, x), 2)
    [] t.op = "held" -> IF Defined(x) THEN <<x>> ELSE m
    [] t.op = "recursive" -> RecursiveUpdate(m, x, t.n)
    [] t.op = "after" -> m + 1
    [] OTHER -> m

WindowValue(m, n) == IF Len(m) = n THEN Span(Range(m)) ELSE Nan
ChangeValue(m, n) == IF Len(m) = n + 1 THEN Span({m[1], m[n + 1]}) ELSE Nan
DelayValue(m, n) == IF Len(m) <= n THEN Nan ELSE m[1]

Answer(t, m, x) ==
  CASE t.op = "window" -> WindowValue(m, t.n)
    [] t.op = "change" -> ChangeValue(m, t.n)
    [] t.op = "delay" -> DelayValue(m, t.n)
    [] t.op = "prior" -> Span(Range(m))
    [] t.op = "held" -> IF m = <<>> THEN Nan ELSE m[1]
    [] t.op = "recursive" -> IF Defined(x) THEN m.value ELSE Nan
    [] t.op = "after" -> IF m > t.n THEN x ELSE Nan
    [] OTHER -> x

\* The state of a term and of the terms it is computed from, after a reset.
RECURSIVE Fresh(_)
Fresh(t) == [mem |-> Blank(t), of |-> Entire([k \in DOMAIN t.of |-> Fresh(t.of[k])])]

\* update(): the inputs first, then the term, unless it is not fed a NaN.
RECURSIVE Update(_, _, _)
Update(t, s, i) ==
  LET inputs == Entire([k \in DOMAIN t.of |-> Update(t.of[k], s.of[k], i)])
      x == IF t.of = <<>> THEN <<i, i>> ELSE Span({inputs[k].out : k \in DOMAIN t.of})
      skipped == t.fed /\ ~Defined(x)
      mem == IF skipped THEN s.mem ELSE Remember(t, s.mem, x)
  IN  [state |-> [mem |-> mem, of |-> Entire([k \in DOMAIN t.of |-> inputs[k].state])],
       out |-> IF skipped THEN Nan ELSE Answer(t, mem, x)]

(***************************************************************************)
(* The batch function of each term, over the candles first..last.          *)
(***************************************************************************)

BatchWindow(x, n) ==
  [k \in DOMAIN x |-> IF k < n THEN Nan ELSE Span({x[j] : j \in k - n + 1 .. k})]

BatchRecursive(x, n) ==
  LET seeds == {k \in DOMAIN x : k >= n /\ \A j \in k - n + 1 .. k : Defined(x[j])}
  IN  [k \in DOMAIN x |-> IF \E s \in seeds : s <= k /\ Defined(x[k])
                          THEN Span({x[Min(seeds) - n + 1], x[k]}) ELSE Nan]

\* (For a mutation: the change is taken over one candle too few.)
BatchChangeShort(x, n) == [k \in DOMAIN x |-> IF k < n \/ k = 1 THEN Nan ELSE Span({x[k - n + 1], x[k]})]

BatchChange(x, n) == [k \in DOMAIN x |-> IF k <= n THEN Nan ELSE Span({x[k - n], x[k]})]
BatchDelay(x, n) == [k \in DOMAIN x |-> IF k <= n THEN Nan ELSE x[k - n]]

RECURSIVE Batch(_, _, _)
Batch(t, first, last) ==
  LET inputs == Entire([k \in DOMAIN t.of |-> Batch(t.of[k], first, last)])
      x == Entire([i \in 1 .. last - first + 1 |->
                     IF t.of = <<>> THEN <<first + i - 1, first + i - 1>>
                     ELSE Span({inputs[k][i] : k \in DOMAIN t.of})])
  IN  Entire(CASE t.op = "window" -> BatchWindow(x, t.n)
               [] t.op = "recursive" -> BatchRecursive(x, t.n)
               [] t.op = "change" -> BatchChange(x, t.n)
               [] t.op = "delay" -> BatchDelay(x, t.n)
               [] t.op = "after" -> [k \in DOMAIN x |-> IF k > t.n THEN x[k] ELSE Nan]
               [] t.op = "prior" -> [k \in DOMAIN x |-> Span({x[Max({1, k - 1})], x[k]})]
               [] t.op = "held" -> [k \in DOMAIN x |->
                     LET known == {j \in 1 .. k : Defined(x[j])}
                     IN  IF known = {} THEN Nan ELSE x[Max(known)]]
               [] OTHER -> x)

\* A term whose values reach back no further than its windows: no recursion, and no true range,
\* which for the first candle does without the close before it.
RECURSIVE Windowed(_)
Windowed(t) == t.op \notin {"recursive", "prior", "held"} /\ \A k \in DOMAIN t.of : Windowed(t.of[k])
=============================================================================
