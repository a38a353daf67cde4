--------------------------- MODULE RollingWindows ---------------------------
(***************************************************************************)
(* The rolling mean and the rolling extreme that most indicators stand on, *)
(* with the running sums, the count of invalid values and the queue of     *)
(* candidates they keep instead of looking at the window again.            *)
(*                                                                         *)
(* Values are small integers and NaN; a mean is left as its sum.           *)
(***************************************************************************)
EXTENDS Integers, Sequences, FiniteSetsExt, SequencesExt

CONSTANTS
  Values,   \* the numbers a series can hold
  NaN,
  Period,
  Longest   \* bound: length of the series

ASSUME RollingAssumption == /\ Values \subseteq Int
                            /\ NaN \notin Values
                            /\ Period \in Nat \ {0}
                            /\ Longest \in Nat

VARIABLES
  series,   \* everything the states have been given
  mean,     \* SmaState
  highest   \* RollingExtremeState

rollingVars == <<series, mean, highest>>

\* A window with its newest value, and what falls out of it.
Pushed(window, v) == Append(window, v)
Popped(window) == IF Len(window) > Period THEN Tail(window) ELSE window
Dropped(window) == IF Len(window) > Period THEN <<Head(window)>> ELSE <<>>

\* (For a mutation: a NaN that leaves the window stays counted.)
NeverForgiven(m, v) ==
  LET window == Pushed(m.window, v)
      gone == Dropped(window)
  IN  [window |-> Popped(window),
       total |-> m.total + (IF v = NaN THEN 0 ELSE v)
                   - (IF gone = <<>> \/ gone = <<NaN>> THEN 0 ELSE gone[1]),
       invalid |-> m.invalid + (IF v = NaN THEN 1 ELSE 0)]

SmaUpdate(m, v) ==
  LET window == Pushed(m.window, v)
      gone == Dropped(window)
  IN  [window |-> Popped(window),
       total |-> m.total + (IF v = NaN THEN 0 ELSE v)
                   - (IF gone = <<>> \/ gone = <<NaN>> THEN 0 ELSE gone[1]),
       invalid |-> m.invalid + (IF v = NaN THEN 1 ELSE 0) - (IF gone = <<NaN>> THEN 1 ELSE 0)]

SmaCurrent(m) == IF Len(m.window) = Period /\ m.invalid = 0 THEN m.total ELSE NaN

\* Candidates are <<index, value>>, oldest and largest first; a newcomer pushes out from the
\* back all that are no larger.
Outlasting(candidates, v) ==
  LET larger == {k \in DOMAIN candidates : candidates[k][2] > v}
  IN  SubSeq(candidates, 1, IF larger = {} THEN 0 ELSE Max(larger))

\* The front loses the candidates that have left the window.
Current(candidates, index) ==
  LET fresh == {k \in DOMAIN candidates : candidates[k][1] > index - Period}
  IN  IF fresh = {} THEN <<>> ELSE SubSeq(candidates, Min(fresh), Len(candidates))

ExtremeUpdate(h, v) ==
  LET index == h.index + 1
      window == Pushed(h.window, v)
      queued == IF v = NaN THEN <<>> ELSE Append(Outlasting(h.candidates, v), <<index, v>>)
  IN  [index |-> index,
       window |-> Popped(window),
       invalid |-> h.invalid + (IF v = NaN THEN 1 ELSE 0)
                     - (IF Dropped(window) = <<NaN>> THEN 1 ELSE 0),
       candidates |-> Current(queued, index)]

ExtremeCurrent(h) ==
  IF Len(h.window) = Period /\ h.invalid = 0 /\ h.candidates # <<>>
  THEN h.candidates[1][2] ELSE NaN

RollingTypeOK ==
  /\ series \in Seq(Values \cup {NaN}) /\ Len(series) <= Longest
  /\ mean.window \in Seq(Values \cup {NaN}) /\ Len(mean.window) <= Period
  /\ mean.total \in Int /\ mean.invalid \in Nat
  /\ highest.invalid \in 0 .. Period
  /\ Len(highest.candidates) <= Period

RollingInit ==
  /\ series = <<>>
  /\ mean = [window |-> <<>>, total |-> 0, invalid |-> 0]
  /\ highest = [index |-> -1, window |-> <<>>, invalid |-> 0, candidates |-> <<>>]

Push(v) ==
  /\ Len(series) < Longest
  /\ series' = Append(series, v)
  /\ mean' = SmaUpdate(mean, v)
  /\ highest' = ExtremeUpdate(highest, v)

RollingNext == \E v \in Values \cup {NaN} : Push(v)

(***************************************************************************)
(* Properties                                                              *)
(***************************************************************************)

\* Where the last Period values stand.
Recent == Len(series) - Period + 1 .. Len(series)
Whole == Len(series) >= Period /\ \A i \in Recent : series[i] # NaN

\* The running sum, with values added and taken away for as long as the series is, is the sum
\* of the last Period values whenever all of them are numbers, and NaN otherwise: a NaN that
\* has left the window leaves no trace.
MeanIsOfTheWindow ==
  SmaCurrent(mean) = IF Whole THEN SumFunctionOnSet(series, Recent) ELSE NaN

\* The front of the candidate queue is the largest of the last Period values, whatever was
\* pushed out, expired, or cleared by a NaN on the way.
ExtremeIsOfTheWindow ==
  ExtremeCurrent(highest) = IF Whole THEN Max({series[i] : i \in Recent}) ELSE NaN
=============================================================================
