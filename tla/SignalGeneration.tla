-------------------------- MODULE SignalGeneration --------------------------
(***************************************************************************)
(* services/signal-service: one SignalGenerationService and the            *)
(* SignalPollingRunner that drives it.  The service reads crypto_data,     *)
(* keeps indicator states in memory and writes signal_db.  It judges the   *)
(* candles of Span minutes; a second series of SeriesSpan minutes and a    *)
(* paired series that needs the candle of a reference symbol follow along. *)
(* A state is the sequence of the candles it was given; the cursor of the  *)
(* other series is kept apart from its state, because it moves later.      *)
(***************************************************************************)
EXTENDS CandleStore, RunnerHealth

CONSTANTS
    Span,          \* the execution timeframe
    SeriesSpan,    \* the timeframe of the other series
    Warmup,        \* required_warmups of the execution stream
    SeriesWarmup,  \* ... and of the other stream
    PairWarmup,    \* min_history of the paired series
    MaxFaults,     \* bound on failed reads, failed stores and raising strategies
    MaxStarts      \* bound on the processes started one after the other

ASSUME SignalAssumption ==
    /\ Span \in Nat \ {0} /\ SeriesSpan \in Nat \ {0}
    /\ Warmup \in Nat \ {0} /\ SeriesWarmup \in Nat \ {0}
    /\ PairWarmup \in Nat \ {0}
    /\ MaxFaults \in Nat /\ MaxStarts \in Nat \ {0}

VARIABLES
    reference,     \* the complete candles of the reference symbol in the table
    runner,        \* where the runner is, and the minute of its last poll
    health,        \* its RunnerObservability
    service,       \* the memory of the service
    call,          \* the call of the service in progress
    missing,       \* the candles _gap_reports says are missing
    signals,       \* trading_signals, in the order of signal_id
    judged,        \* history: the candles this process judged, in order
    faults, starts

signalVars == <<reference, runner, health, service, call, missing, signals,
                judged, faults, starts>>

Candles == {m \in Minutes : m % Span = 0}
Never == -1        \* no close time yet

Cleared ==
    [config |-> FALSE, confirmed |-> <<>>, state |-> <<>>, series |-> <<>>,
     seriesLast |-> Never, paired |-> <<>>, lastClose |-> Never,
     reported |-> Never]

NoCall == [step |-> "none", op |-> "none", at |-> 0, candle |-> 0, history |-> <<>>]

TypeOK ==
    /\ now \in Minutes /\ stored \subseteq Minutes
    /\ reference \subseteq Candles
    /\ runner.pc \in {"new", "running", "dead"} /\ runner.polled \in Minutes
    /\ health \in HealthRecords(Minutes)
    /\ service.config \in BOOLEAN
    /\ \A s \in {service.confirmed, service.state, service.paired} :
          s \in Seq(Candles)
    /\ service.series \in Seq(Minutes) /\ service.seriesLast \in {Never} \cup Minutes
    /\ {service.lastClose, service.reported} \subseteq {Never} \cup 0 .. Horizon + 1
    /\ call.step \in {"none", "read", "warm", "seed", "advance", "pair", "judge", "store"}
    /\ call.op \in {"none", "start", "poll", "rewarm"}
    /\ call.at \in Minutes /\ call.candle \in Candles /\ call.history \in Seq(Candles)
    /\ missing \subseteq Candles
    /\ signals \in Seq(Candles) /\ judged \in Seq(Candles)
    /\ faults \in 0 .. MaxFaults /\ starts \in 0 .. MaxStarts

Init ==
    /\ StoreInit
    /\ reference = {c \in Candles : c + Span <= Now0}
    /\ runner = [pc |-> "new", polled |-> Now0]
    /\ health = NewHealth
    /\ service = Cleared
    /\ call = NoCall
    /\ missing = {} /\ signals = <<>> /\ judged = <<>>
    /\ faults = 0 /\ starts = 0

---------------------------------------------------------------------------
(* What the service reads.                                                 *)

CloseOf(candle) == candle + Span

\* _confirmed_history and _confirmed_increment
History(boundary) == InOrder(CompleteBuckets(Span, 0, boundary))
Fresh(after, boundary) == InOrder(CompleteBuckets(Span, after, boundary))

\* _series_history of the other timeframe, and what is new in it
SeriesHistory(boundary) == InOrder(CompleteBuckets(SeriesSpan, 0, boundary))

\* (For a mutation: the cursor is the candle that is to be read next.)
SeriesFrom(last, boundary) ==
    InOrder(CompleteBuckets(SeriesSpan, last, boundary))

SeriesAfter(last, boundary) ==
    InOrder(CompleteBuckets(SeriesSpan, last + SeriesSpan, boundary))

\* The last n elements of a sequence that has as many.
LastOf(s, n) == SubSeq(s, Len(s) - n + 1, Len(s))

\* (For a mutation: the last pair of neighbours is not compared.)
GapsButLast(window) ==
    {c \in Candles : \E i \in 1 .. Len(window) - 2 :
                        window[i] < c /\ c < window[i + 1]}

\* _report_series_gaps: the candles missing between neighbours.
GapsWithin(window) ==
    {c \in Candles : \E i \in 1 .. Len(window) - 1 :
                        window[i] < c /\ c < window[i + 1]}

Fail == faults < MaxFaults /\ faults' = faults + 1

---------------------------------------------------------------------------
(* The end of a call, as the runner sees it.                               *)

\* The call has returned: a start lets the loop begin, a poll or a re-warm
\* completes the cycle.
Returns ==
    /\ call' = NoCall
    /\ health' = IF call.op = "start" THEN health
                 ELSE RecordPollSuccess(health, call.op = "rewarm")
    /\ UNCHANGED runner

\* The call has raised: the start of a process ends it, a poll or a re-warm is
\* counted and the loop goes on.
Raises ==
    /\ call' = NoCall
    /\ IF call.op = "start"
       THEN /\ runner' = [runner EXCEPT !.pc = "dead"]
            /\ health' = MarkStopped(health)
       ELSE /\ health' = RecordPollError(health)
            /\ UNCHANGED runner

---------------------------------------------------------------------------
(* start and rewarm.                                                       *)

Start ==
    /\ runner.pc = "new" /\ starts < MaxStarts
    /\ runner' = [pc |-> "running", polled |-> now]
    /\ health' = MarkRunning(health, now)
    /\ call' = [NoCall EXCEPT !.step = "warm", !.op = "start", !.at = now]
    /\ starts' = starts + 1
    /\ UNCHANGED <<now, stored, reference, service, missing, signals, judged, faults>>

\* The history of the execution stream.  Too little of it raises before the
\* session is configured; otherwise the session is configured, the gaps of the
\* decision window are reported and the window without its last candle
\* becomes the confirmed candles.
WarmExecution ==
    /\ call.step = "warm"
    /\ LET history == History(call.at)
           window == LastOf(history, Warmup + 1)
       IN  IF Len(history) < Warmup + 1
           THEN Raises /\ UNCHANGED <<service, missing>>
           ELSE /\ service' = [Cleared EXCEPT !.config = TRUE,
                                 !.confirmed = Front(window),
                                 !.state = Front(window)]
                /\ missing' = missing \cup GapsWithin(window)
                /\ call' = [call EXCEPT !.step = "seed", !.candle = Last(window),
                                        !.history = history]
                /\ UNCHANGED <<runner, health>>
    /\ UNCHANGED <<now, stored, reference, signals, judged, faults, starts>>

\* The states of the other stream and of the pairs are seeded.  Whatever
\* raises here finds the session configured.
WarmSeries ==
    /\ call.step = "seed"
    /\ LET series == SeriesHistory(call.at)
           pairs == InOrder({c \in ToSet(call.history) \cap reference :
                               CloseOf(c) < CloseOf(call.candle)})
       IN  IF Len(series) < SeriesWarmup \/ Len(pairs) < PairWarmup
           THEN Raises /\ UNCHANGED service
           ELSE /\ service' = [service EXCEPT
                                 !.series = series, !.seriesLast = Last(series),
                                 !.paired = LastOf(pairs, PairWarmup)]
                /\ call' = [call EXCEPT !.step = "advance", !.history = <<>>]
                /\ UNCHANGED <<runner, health>>
    /\ UNCHANGED <<now, stored, reference, missing, signals, judged, faults, starts>>

---------------------------------------------------------------------------
(* poll.                                                                   *)

PollDue == runner.polled < now \/ now = Horizon

Poll ==
    /\ runner.pc = "running" /\ call.step = "none" /\ PollDue
    /\ runner' = [runner EXCEPT !.polled = now]
    /\ health' = RecordPoll(health, now)
    /\ call' = [NoCall EXCEPT !.step = "read", !.op = "poll", !.at = now]
    /\ UNCHANGED <<now, stored, reference, service, missing, signals, judged,
                   faults, starts>>

\* No new candle: what should have closed since the last report is reported
\* missing, once.
NothingFresh ==
    LET from == IF service.reported > service.lastClose THEN service.reported
                                                        ELSE service.lastClose
        count == (call.at - from) \div Span
    IN  /\ missing' = missing \cup {c \in Candles : from <= c /\ CloseOf(c) <= call.at}
        /\ service' = IF count > 0
                      THEN [service EXCEPT !.reported = from + count * Span]
                      ELSE service

\* (For a mutation: a backlog is an error like any other.)
RefuseBacklog(fresh) ==
    /\ call' = NoCall
    /\ health' = RecordPollError(health)
    /\ UNCHANGED <<service, missing>>

\* A discontinuity or a backlog: the runner counts a re-warmup and calls
\* rewarm, which drops everything and starts over.
Recover(fresh) ==
    /\ missing' = missing \cup GapsWithin(<<service.lastClose - Span>> \o fresh)
    /\ service' = Cleared
    /\ call' = [call EXCEPT !.step = "warm", !.op = "rewarm"]
    /\ health' = RecordGapRewarmup(health)

\* A session without a configuration or without a judged candle raises.
ReadFresh ==
    /\ call.step = "read"
    /\ IF ~service.config \/ service.lastClose = Never
       THEN Raises /\ UNCHANGED <<service, missing>>
       ELSE LET fresh == Fresh(service.lastClose, call.at)
            IN  \/ /\ fresh = <<>>
                   /\ NothingFresh /\ Returns
                \/ /\ Len(fresh) > 1 \/ (Len(fresh) = 1 /\ Head(fresh) > service.lastClose)
                   /\ Recover(fresh) /\ UNCHANGED runner
                \/ /\ Len(fresh) = 1 /\ Head(fresh) = service.lastClose
                   /\ call' = [call EXCEPT !.step = "advance", !.candle = Head(fresh)]
                   /\ UNCHANGED <<runner, health, service, missing>>
    /\ UNCHANGED <<now, stored, reference, signals, judged, faults, starts>>

---------------------------------------------------------------------------
(* _process.                                                               *)

\* What _advance_non_execution_series reads: the candles behind the cursor of
\* the other series, up to the close of the candle.
SeriesNews == SeriesAfter(service.seriesLast, CloseOf(call.candle))

\* The candle joins the confirmed ones.  Of the candles read, the first ones are
\* given to the state of the other series, and the cursor has followed the
\* first `moved` of them.
Given(given, moved) ==
    /\ call.step = "advance"
    /\ service' = [service EXCEPT
                     !.confirmed = Append(@, call.candle),
                     !.series = @ \o SubSeq(SeriesNews, 1, given),
                     !.seriesLast = IF moved = 0 THEN @ ELSE SeriesNews[moved]]

Advance ==
    /\ Given(Len(SeriesNews), Len(SeriesNews))
    /\ call' = [call EXCEPT !.step = "pair"]
    /\ UNCHANGED <<now, stored, reference, runner, health, missing, signals,
                   judged, faults, starts>>

\* The paired state takes a candle only with its reference, and only once.
PairedWith(pairs) ==
    IF call.candle \in reference /\ call.candle > Last(pairs)
    THEN Append(pairs, call.candle) ELSE pairs

\* The states of the execution stream take the candle.
Pair ==
    /\ call.step = "pair"
    /\ service' = [service EXCEPT !.state = Append(@, call.candle),
                                  !.paired = PairedWith(@)]
    /\ call' = [call EXCEPT !.step = "judge"]
    /\ UNCHANGED <<now, stored, reference, runner, health, missing, signals,
                   judged, faults, starts>>

\* The strategy has its say; the candle is behind the session from here on,
\* whatever becomes of the signal.
Judge ==
    /\ call.step = "judge"
    /\ service' = [service EXCEPT
                     !.lastClose = CloseOf(call.candle),
                     !.reported = IF @ > CloseOf(call.candle) THEN @
                                  ELSE CloseOf(call.candle)]
    /\ judged' = Append(judged, call.candle)
    /\ \/ call' = [call EXCEPT !.step = "store"] /\ UNCHANGED <<runner, health>>
       \/ Returns
    /\ UNCHANGED <<now, stored, reference, missing, signals, faults, starts>>

\* (For a mutation: no unique key.)
InsertedAgain(table, candle) == Append(table, candle)

\* ON CONFLICT DO NOTHING on the close time of the candle
Inserted(table, candle) ==
    IF \E i \in 1 .. Len(table) : table[i] = candle THEN table
    ELSE Append(table, candle)

Store ==
    /\ call.step = "store"
    /\ signals' = Inserted(signals, call.candle)
    /\ Returns
    /\ UNCHANGED <<now, stored, reference, service, missing, judged, faults, starts>>

---------------------------------------------------------------------------
(* Faults.                                                                 *)

\* A read, an indicator value that is not finite, the strategy or the store
\* raises.  What the step had done to the memory before it raised stays.  In
\* the other series that is the candle whose value was refused, with the cursor
\* still before it; in the execution stream the candle has reached the states
\* that come before the one that raises, and a paired state has moved its own
\* cursor by then.  An invalid signal and a failed store leave the candle
\* behind.
CallFails ==
    /\ call.step # "none" /\ Fail
    /\ \/ Given(0, 0)
       \/ \E given \in 1 .. Len(SeriesNews) : Given(given, given - 1)
       \/ /\ call.step = "pair"
          /\ \E state \in {service.state, Append(service.state, call.candle)},
                paired \in {service.paired, PairedWith(service.paired)} :
                service' = [service EXCEPT !.state = state, !.paired = paired]
       \/ call.step \notin {"advance", "pair"} /\ UNCHANGED service
    /\ Raises
    /\ UNCHANGED <<now, stored, reference, missing, signals, judged, starts>>

\* The process ends, or has ended, and a new one is started later.
Crash ==
    /\ runner.pc # "new" /\ starts < MaxStarts
    /\ runner' = [runner EXCEPT !.pc = "new"]
    /\ health' = NewHealth
    /\ service' = Cleared
    /\ call' = NoCall
    /\ missing' = {} /\ judged' = <<>>
    /\ UNCHANGED <<now, stored, reference, signals, faults, starts>>

\* The collector of the reference symbol commits a candle, perhaps late.
ReferenceArrives ==
    /\ \E c \in Candles \ reference :
          CloseOf(c) <= now /\ reference' = reference \cup {c}
    /\ UNCHANGED <<now, stored, runner, health, service, call, missing, signals,
                   judged, faults, starts>>

ServiceStep ==
    \/ Start \/ WarmExecution \/ WarmSeries
    \/ Poll \/ ReadFresh \/ Advance \/ Pair \/ Judge \/ Store

Next ==
    \/ ServiceStep \/ CallFails \/ Crash \/ ReferenceArrives
    \/ StoreNext /\ UNCHANGED signalVars

vars == <<now, stored, signalVars>>

Spec == Init /\ [][Next]_vars

\* Time passes and the runner polls for ever; nothing is assumed of the
\* collectors, of faults and of restarts.
FairSpec == Spec /\ WF_vars(ServiceStep) /\ WF_vars(Tick /\ UNCHANGED signalVars)

---------------------------------------------------------------------------
(* Properties.                                                             *)

Increasing(s) == \A i \in 1 .. Len(s) - 1 : s[i] < s[i + 1]

\* The wallet consumes signals in the order of signal_id; that this is the
\* order of their candles, with one signal per candle, rests on the cursor of
\* the session, on what a re-warm and a new process judge first, and on the
\* unique key (SignalGenerationService._process, PostgresSignalSink.store).
SignalsInOrder == Increasing(signals)

\* A process gives the strategy every candle at most once and never goes back,
\* whatever fails between the read, the strategy and the store (_last_close).
JudgedOnce == Increasing(judged)

\* The memory of the service and what it has stored are well-formed and in order.
SessionInv == TypeOK /\ SignalsInOrder /\ JudgedOnce

\* Wherever the candles the strategy sees skip one, the skipped one has been
\* reported (_report_series_gaps, _report_poll_gaps): no session runs across a
\* silent gap, not even after a failed call or a re-warm.
GapsAreReported ==
    \A i \in 1 .. Len(service.confirmed) - 1 :
        {c \in Candles : service.confirmed[i] < c /\ c < service.confirmed[i + 1]}
            \subseteq missing

\* The positions at which the state of the other series is not given a later
\* candle than the one before.
StepsBack == {i \in 1 .. Len(service.series) - 1 :
                 service.series[i] >= service.series[i + 1]}

\* The other streams follow the judged candle.  The state of the other series
\* goes back only to candles a failed call had given it (the state is updated,
\* the value refused, and the cursor has not moved), once for each such call;
\* a paired state never goes back.  At a judgement the state of the other series
\* has been given everything up to its cursor and nothing after it, and neither
\* stream is ahead of the judged candle (_advance_non_execution_series, the
\* guard on _paired_last_close).  A start or a re-warm reads the other timeframe
\* up to the decision time, which may be later than the close.
OtherSeriesInStep ==
    /\ Cardinality(StepsBack) <= faults
    /\ Increasing(service.paired)
    /\ call.step = "judge" =>
          /\ Last(service.series) = service.seriesLast
          /\ \A i \in 1 .. Len(service.series) : service.series[i] <= service.seriesLast
          /\ service.seriesLast + SeriesSpan
               <= IF call.op = "poll" THEN CloseOf(call.candle) ELSE call.at
          /\ Last(service.paired) <= call.candle

\* A signal stands for a candle all of whose minutes are stored: the
\* completeness rule of the resampling and the boundary of every read.
SignalsRestOnWholeCandles ==
    \A i \in 1 .. Len(signals) :
        /\ CloseOf(signals[i]) <= now
        /\ signals[i] .. CloseOf(signals[i]) - 1 \subseteq stored

\* A session that a failed re-warm has left without a judged candle: every
\* later poll raises.
Lost ==
    /\ runner.pc = "running" /\ call.step = "none"
    /\ ~service.config \/ service.lastClose = Never

\* A lost session does not stay unnoticed: the runner keeps polling, and its
\* health turns bad (SignalPollingRunner.run, RunnerObservability).
LostSessionsShow ==
    Lost ~> (~Healthy(health, now) \/ runner.pc # "running")

\* When a complete candle lies ahead of the session, the session catches up
\* with the table, directly or through a re-warm, unless it is lost or the
\* process ends (SignalPollingRunner.run).
Behind ==
    /\ runner.pc = "running"
    /\ CompleteBuckets(Span, IF service.lastClose = Never THEN 0 ELSE service.lastClose, now)
          # {}

SessionCatchesUp == Behind ~> (~Behind \/ Lost)
============================================================================
