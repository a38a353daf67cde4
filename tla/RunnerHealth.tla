--------------------------- MODULE RunnerHealth ---------------------------
(***************************************************************************)
(* The liveness record every polling runner keeps, RunnerObservability of  *)
(* service-commons: one record per runner, changed by the runner and read  *)
(* by health checks at any time.  Times are minutes, counters that no      *)
(* verdict reads are left out, and a failure streak is counted only up to  *)
(* the threshold at which it starts to matter.                             *)
(***************************************************************************)
EXTENDS Integers

CONSTANTS
    StaleAfter,   \* stale_after_seconds, in minutes
    Threshold     \* failure_streak_threshold

ASSUME HealthAssumption == StaleAfter \in Nat \ {0} /\ Threshold \in Nat \ {0}

Streak == 0 .. Threshold

HealthRecords(Times) ==
    [running : BOOLEAN, reference : Times, errors : Streak, rewarms : Streak]

\* A runner that has not been started.
NewHealth == [running |-> FALSE, reference |-> 0, errors |-> 0, rewarms |-> 0]

\* (For a mutation: the streak passes the threshold.)
LongerForEver(streak) == streak + 1

Longer(streak) == IF streak < Threshold THEN streak + 1 ELSE streak

MarkRunning(h, time) ==
    [running |-> TRUE, reference |-> time, errors |-> 0, rewarms |-> 0]

MarkStopped(h) == [h EXCEPT !.running = FALSE]

\* (For a mutation: a new poll starts with a clean slate.)
RecordPollAfresh(h, time) == [h EXCEPT !.reference = time, !.errors = 0, !.rewarms = 0]

RecordPoll(h, time) == [h EXCEPT !.reference = time]

RecordPollError(h) == [h EXCEPT !.errors = Longer(@)]

RecordGapRewarmup(h) == [h EXCEPT !.rewarms = Longer(@)]

\* A completed cycle always ends a streak of errors; it ends a streak of
\* re-warmups only when it did not need one.
RecordPollSuccess(h, gapRewarmed) ==
    [h EXCEPT !.errors = 0, !.rewarms = IF gapRewarmed THEN @ ELSE 0]

StaleReason(h, time) ==
    IF ~h.running THEN "none"
    ELSE IF time - h.reference > StaleAfter THEN "poll_stalled"
    ELSE IF h.errors >= Threshold THEN "poll_errors"
    ELSE IF h.rewarms >= Threshold THEN "gap_rewarmups"
    ELSE "none"

Healthy(h, time) == h.running /\ StaleReason(h, time) = "none"
============================================================================
