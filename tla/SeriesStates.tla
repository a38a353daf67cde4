---------------------------- MODULE SeriesStates ----------------------------
(***************************************************************************)
(* The incremental state of one registered indicator or pattern, as the    *)
(* two services use it: seeded by a replay of warm-up candles, asked       *)
(* whether it is warm, then given one candle at a time.  The batch         *)
(* function over the same candles is what the state is held against.       *)
(*                                                                         *)
(* Candles are numbered as they close.  A run seeds a state with at least  *)
(* min_history - 1 candles before the first update, and with more when     *)
(* another spec of the run asks for more.                                  *)
(***************************************************************************)
EXTENDS CandlePatterns

CONSTANTS
  Specs,     \* the registered specs, by name
  Surplus,   \* how many candles more than min_history another spec may ask for
  Updates,   \* bound: candles observed after the seed
  Seedings   \* bound: how often a state is seeded

VARIABLES
  subject,  \* the name of the spec whose state is followed
  spec,     \* that spec
  phase,    \* "made", "seeding" while seed() replays, then "live"
  first,    \* the first candle the state was seeded with
  last,     \* the last candle it has seen, first - 1 if none
  live,     \* candles observed since the seed
  outputs,  \* the states behind the outputs
  gate,     \* the states behind warmed_up
  answer,   \* the value the last candle gave
  warm      \* what warmed_up says

vars == <<subject, spec, phase, first, last, live, outputs, gate, answer, warm>>

Candles == last - first + 1

\* A candle through every term.
Through(terms, states, i) == Entire([k \in DOMAIN terms |-> Update(terms[k], states[k], i)])

\* The states of the terms after a reset.
Blanks(terms) == Entire([k \in DOMAIN terms |-> Fresh(terms[k])])

TypeOK ==
  /\ phase \in {"made", "seeding", "live"}
  /\ first \in 1 .. Seedings
  /\ last \in Nat /\ last >= first - 1
  /\ live \in 0 .. Updates
  /\ DOMAIN outputs = DOMAIN spec.state
  /\ DOMAIN gate = DOMAIN spec.warm
  /\ DOMAIN answer = DOMAIN spec.state
  /\ \A k \in DOMAIN answer : answer[k] \in Seq(Nat) /\ Len(answer[k]) = 2
  /\ warm \in BOOLEAN

\* make_state: nothing has been seen.
Init ==
  /\ subject \in DOMAIN Specs /\ spec = Specs[subject]
  /\ phase = "made"
  /\ first = 1 /\ last = 0 /\ live = 0
  /\ outputs = Blanks(spec.state)
  /\ gate = Blanks(spec.warm)
  /\ answer = [k \in DOMAIN spec.state |-> Nan]
  /\ warm = FALSE

\* (For a mutation: a used state is seeded without a reset.)
SeedOnTop ==
  /\ \/ phase = "made"
     \/ phase = "live" /\ first < Seedings
  /\ phase' = "seeding"
  /\ first' = IF phase = "made" THEN first ELSE first + 1
  /\ last' = first' - 1
  /\ live' = 0
  /\ gate' = Blanks(spec.warm)
  /\ answer' = [k \in DOMAIN spec.state |-> Nan]
  /\ warm' = FALSE
  /\ UNCHANGED <<subject, spec, outputs>>

\* seed: a reset, however the state was used before, and the replay begins.
Seed ==
  /\ \/ phase = "made"
     \/ phase = "live" /\ first < Seedings
  /\ phase' = "seeding"
  /\ first' = IF phase = "made" THEN first ELSE first + 1
  /\ last' = first' - 1
  /\ live' = 0
  /\ outputs' = Blanks(spec.state)
  /\ gate' = Blanks(spec.warm)
  /\ answer' = [k \in DOMAIN spec.state |-> Nan]
  /\ warm' = FALSE
  /\ UNCHANGED <<subject, spec>>

\* update: exactly one more candle.
Take ==
  LET u == Through(spec.state, outputs, last + 1)
      w == Through(spec.warm, gate, last + 1)
  IN  /\ last' = last + 1
      /\ outputs' = Entire([k \in DOMAIN u |-> u[k].state])
      /\ answer' = Entire([k \in DOMAIN u |-> u[k].out])
      /\ gate' = Entire([k \in DOMAIN w |-> w[k].state])
      /\ warm' = (\A k \in DOMAIN w : Defined(w[k].out))
      /\ UNCHANGED <<subject, spec, first>>

Replay ==
  /\ phase = "seeding" /\ Candles < spec.history + Surplus
  /\ Take
  /\ UNCHANGED <<phase, live>>

SeedEnds ==
  /\ phase = "seeding" /\ Candles >= spec.history - 1
  /\ phase' = "live"
  /\ UNCHANGED <<subject, spec, first, last, live, outputs, gate, answer, warm>>

Observe ==
  /\ phase = "live" /\ live < Updates
  /\ live' = live + 1
  /\ Take
  /\ UNCHANGED phase

Next == Seed \/ Replay \/ SeedEnds \/ Observe

StatesSpec == Init /\ [][Next]_vars

(***************************************************************************)
(* Properties                                                              *)
(***************************************************************************)

\* The state answers for every candle what the batch function, given the same candles at once,
\* has in that place: the backtest, which replays, and the reports, which compute a series,
\* see the same numbers, however the candles were divided between seed and update.
IncrementalMatchesBatch ==
  phase = "live" /\ Candles > 0 =>
    \A k \in DOMAIN answer : answer[k] = Last(Batch(spec.batch[k], first, last))

\* warmed_up turns true with the registered min_history'th candle, not one earlier or later,
\* and from then on every output has a value: a service that fetches min_history candles
\* neither refuses to start nor starts on NaN.  (percent_b of a flat window, whose value the
\* arithmetic leaves undefined, is the one the registry lists.)
ReadyAtMinHistory ==
  /\ warm <=> Candles >= spec.history
  /\ warm => \A k \in DOMAIN answer : Defined(answer[k])

\* No output depends on a candle that has not closed, or on one from before the seed; and what
\* has no recursion in it depends on the last min_history candles only, so the extra candles
\* that another spec of the run asks for cannot change it.
NothingOutsideTheWindow ==
  /\ TypeOK
  /\ \A k \in DOMAIN answer :
       Defined(answer[k]) =>
         /\ answer[k][1] >= first /\ answer[k][2] <= last
         /\ Windowed(spec.state[k]) => answer[k][1] > last - spec.history
=============================================================================
