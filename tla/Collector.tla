----------------------------- MODULE Collector -----------------------------
(***************************************************************************)
(* services/collector: the live collector of one symbol, and the bounded   *)
(* backfills an operator starts in processes of their own.  They share     *)
(* nothing but the tables.  Every request to the exchange and every        *)
(* statement is a step, so the clock, the other process and a crash fall   *)
(* between them.                                                           *)
(***************************************************************************)
EXTENDS Integers, FiniteSets, RunnerHealth

CONSTANTS
    Horizon,        \* the clock stops there: the bound of the model
    Now0,           \* the minute in progress when the model starts
    Gaps0,          \* the closed minutes that are missing from the table then
    FetchLimit,     \* rows of a live poll, 2 or 3
    PageLimit,      \* rows of a backfill page
    FundingEvery,   \* minutes between two funding settlements
    Requests,       \* the [kind, start, end] an operator may ask backfills for
    MaxBackfills,   \* bound on the backfills an operator starts
    MaxOutages      \* bound on failed requests, failed statements and crashes

ASSUME CollectorAssumption ==
    /\ FetchLimit \in {2, 3} /\ PageLimit \in Nat \ {0}
    /\ FundingEvery \in Nat \ {0}
    /\ \A r \in Requests :
          /\ r.kind \in {"ohlcv", "funding"}
          /\ {r.start, r.end} \subseteq 0 .. Horizon /\ r.start < r.end
    /\ MaxBackfills \in Nat /\ MaxOutages \in Nat
    /\ Now0 \in Nat \ {0} /\ Horizon \in Nat /\ Now0 <= Horizon
    /\ Gaps0 \subseteq 0 .. Now0 - 1 /\ Gaps0 # 0 .. Now0 - 1

VARIABLES
    now,            \* the minute in progress
    rows,           \* what the table holds of each minute
    universe,       \* is the symbol active in config_db.symbols?
    live,           \* the loop of LiveCollector and the poll in hand
    liveHealth,
    found,          \* the minutes the live collector reported missing
    backfill,       \* the backfill in hand
    funding,        \* the funding settlements stored in funding_rates
    bridged,        \* history: minutes that a backfill turned into holes
    backfills,      \* how many backfills have been started
    outages         \* how many faults have happened

collectorVars == <<universe, live, liveHealth, found, backfill, funding,
                   bridged, backfills, outages>>

Minutes == 0 .. Horizon

\* A row is final, or it carries the values of a minute still in progress.
Rows == [Minutes -> {"absent", "partial", "final"}]

StoredMinutes == {m \in Minutes : rows[m] # "absent"}

\* The table as its readers see it.
Store == INSTANCE CandleStore WITH stored <- StoredMinutes

TypeOK ==
    /\ now \in Minutes /\ rows \in Rows
    /\ universe \in BOOLEAN
    /\ live.pc \in {"off", "idle", "fetched", "compared"}
    /\ live.polled \in Minutes /\ DOMAIN live.batch \subseteq Minutes
    /\ liveHealth \in HealthRecords(Minutes)
    /\ found \subseteq Minutes /\ bridged \subseteq Minutes
    /\ backfill.pc \in {"off", "page", "sift", "save", "done"}
    /\ backfill.kind \in {"ohlcv", "funding"}
    /\ {backfill.start, backfill.end, backfill.cursor} \subseteq 0 .. Horizon + 1
    /\ DOMAIN backfill.page \subseteq Minutes
    /\ funding \subseteq Minutes
    /\ backfills \in 0 .. MaxBackfills /\ outages \in 0 .. MaxOutages

NoBatch == [m \in {} |-> "final"]

Init ==
    /\ now = Now0
    /\ rows = [m \in Minutes |->
                 IF m < Now0 /\ m \notin Gaps0 THEN "final" ELSE "absent"]
    /\ universe = FALSE
    /\ live = [pc |-> "off", polled |-> Now0, batch |-> NoBatch]
    /\ liveHealth = NewHealth
    /\ found = {} /\ bridged = {} /\ funding = {}
    /\ backfill = [pc |-> "off", kind |-> "ohlcv", start |-> 0, end |-> 0,
                   cursor |-> 0, page |-> NoBatch]
    /\ backfills = 0 /\ outages = 0

---------------------------------------------------------------------------
(* The exchange.                                                           *)

\* The minutes it lists end with the one in progress, or one behind it.
Newest == {now, now - 1}

\* A listed row carries the values the minute has so far.
Listed(minutes) == [m \in minutes |-> IF m < now THEN "final" ELSE "partial"]

LowestOf(S) == CHOOSE m \in S : \A n \in S : m <= n
HighestOf(S) == CHOOSE m \in S : \A n \in S : m >= n

\* INSERT ... ON CONFLICT DO UPDATE of a batch of minutes with their values.
Upserted(batch) ==
    [m \in Minutes |-> IF m \in DOMAIN batch THEN batch[m] ELSE rows[m]]

Fault == outages < MaxOutages /\ outages' = outages + 1

---------------------------------------------------------------------------
(* The live collector.                                                     *)

\* load_symbol finds exactly one active target, or run() raises.
LiveStart ==
    /\ live.pc = "off" /\ universe
    /\ live' = [pc |-> "idle", polled |-> now, batch |-> NoBatch]
    /\ liveHealth' = MarkRunning(liveHealth, now)
    /\ UNCHANGED <<now, rows, universe, found, backfill, funding, bridged,
                   backfills, outages>>

\* One poll per minute.  When the clock of the model has stopped, minutes
\* still pass but nothing new is listed.
Due(polled) == polled < now \/ now = Horizon

\* (For a mutation: the row in progress is not dropped.)
AllOf(newest) ==
    Listed({m \in Minutes : newest - FetchLimit < m /\ m <= newest})

\* fetch_completed_candles: the last FetchLimit rows without the final one.
CompletedOf(newest) ==
    Listed({m \in Minutes : newest - FetchLimit < m /\ m < newest})

LivePoll ==
    /\ live.pc = "idle" /\ Due(live.polled)
    /\ \E newest \in Newest :
          live' = [pc |-> "fetched", polled |-> now,
                   batch |-> CompletedOf(newest)]
    /\ liveHealth' = RecordPoll(liveHealth, now)
    /\ UNCHANGED <<now, rows, universe, found, backfill, funding, bridged,
                   backfills, outages>>

\* (For a mutation: only the gaps between the new rows.)
GapsBetween(latest, fresh) ==
    IF fresh = {} THEN {} ELSE (LowestOf(fresh) .. HighestOf(fresh)) \ fresh

\* detect_gaps: what lies between the latest stored minute and the new rows,
\* and between those.
GapsBefore(latest, fresh) ==
    IF fresh = {} THEN {} ELSE (latest + 1 .. HighestOf(fresh)) \ fresh

\* latest_open_time, the rows newer than it, and the gaps they reveal; a poll
\* without news ends here.
LiveCompare ==
    /\ live.pc = "fetched"
    /\ LET latest == HighestOf(StoredMinutes)
           fresh == {m \in DOMAIN live.batch : m > latest}
       IN  /\ found' = found \cup GapsBefore(latest, fresh)
           /\ live' = [live EXCEPT
                         !.pc = IF fresh = {} THEN "idle" ELSE "compared",
                         !.batch = [m \in fresh |-> live.batch[m]]]
           /\ liveHealth' = IF fresh = {} THEN RecordPollSuccess(liveHealth, FALSE)
                                          ELSE liveHealth
    /\ UNCHANGED <<now, rows, universe, backfill, funding, bridged, backfills,
                   outages>>

LiveUpsert ==
    /\ live.pc = "compared"
    /\ rows' = Upserted(live.batch)
    /\ live' = [live EXCEPT !.pc = "idle", !.batch = NoBatch]
    /\ liveHealth' = RecordPollSuccess(liveHealth, FALSE)
    /\ UNCHANGED <<now, universe, found, backfill, funding, bridged, backfills,
                   outages>>

\* Any exception of collect_once is counted and the loop goes on.
LiveFails ==
    /\ live.pc \in {"fetched", "compared"} /\ Fault
    /\ live' = [live EXCEPT !.pc = "idle", !.batch = NoBatch]
    /\ liveHealth' = RecordPollError(liveHealth)
    /\ UNCHANGED <<now, rows, universe, found, backfill, funding, bridged,
                   backfills>>

LiveCrash ==
    /\ live.pc # "off" /\ Fault
    /\ live' = [live EXCEPT !.pc = "off", !.batch = NoBatch]
    /\ liveHealth' = MarkStopped(liveHealth)
    /\ UNCHANGED <<now, rows, universe, found, backfill, funding, bridged,
                   backfills>>

---------------------------------------------------------------------------
(* Backfills.                                                              *)

\* The symbol must be active; a selected one that is not is registered, as
\* the exchange lists it.
BackfillStart(request, selected) ==
    /\ backfill.pc \in {"off", "done"} /\ backfills < MaxBackfills
    /\ universe \/ selected
    /\ universe' = TRUE
    /\ backfill' = [pc |-> "page", kind |-> request.kind,
                    start |-> request.start, end |-> request.end,
                    cursor |-> request.start, page |-> NoBatch]
    /\ backfills' = backfills + 1
    /\ UNCHANGED <<now, rows, live, liveHealth, found, funding, bridged, outages>>

\* The first PageLimit of the listed times from the cursor on.
PageOf(times) ==
    {t \in times : t >= backfill.cursor
                   /\ Cardinality({u \in times : backfill.cursor <= u /\ u < t})
                        < PageLimit}

BackfillFetch ==
    /\ backfill.pc = "page"
    /\ \E newest \in Newest :
          LET times == IF backfill.kind = "ohlcv" THEN 0 .. newest
                       ELSE {t \in 0 .. newest : t % FundingEvery = 0}
          IN  backfill' = [backfill EXCEPT !.pc = "sift",
                                           !.page = Listed(PageOf(times))]
    /\ UNCHANGED <<now, rows, universe, live, liveHealth, found, funding,
                   bridged, backfills, outages>>

\* (For a mutation: the minute in progress counts as over.)
KeptWithOpen(page) == {m \in DOMAIN page : backfill.kind = "ohlcv" => m <= now}

\* The rows whose minute is over; settlements are kept as they are.
KeptOf(page) == {m \in DOMAIN page : backfill.kind = "ohlcv" => m + 1 <= now}

\* The clock is read when the page has arrived.  A page of which nothing is
\* kept ends the run.
BackfillSift ==
    /\ backfill.pc = "sift"
    /\ LET kept == KeptOf(backfill.page)
       IN  backfill' = [backfill EXCEPT
                          !.pc = IF kept = {} THEN "done" ELSE "save",
                          !.page = [m \in kept |-> backfill.page[m]]]
    /\ UNCHANGED <<now, rows, universe, live, liveHealth, found, funding,
                   bridged, backfills, outages>>

\* Missing minutes with a stored one on both sides.
HolesOf(table) ==
    {m \in Minutes : /\ table[m] = "absent"
                     /\ \E n \in Minutes : n < m /\ table[n] # "absent"
                     /\ \E n \in Minutes : n > m /\ table[n] # "absent"}

\* (For a mutation: the cursor moves by the size of a page.)
CursorByPages(page) == backfill.cursor + PageLimit

NextCursor(page) == HighestOf(DOMAIN page) + 1

\* The rows of [start, end) are upserted, and the cursor moves past the page.
BackfillSave ==
    /\ backfill.pc = "save"
    /\ LET inRange == {m \in DOMAIN backfill.page :
                         backfill.start <= m /\ m < backfill.end}
           cursor == NextCursor(backfill.page)
           batch == [m \in inRange |-> backfill.page[m]]
       IN  /\ IF backfill.kind = "ohlcv"
              THEN rows' = Upserted(batch) /\ UNCHANGED funding
              ELSE funding' = funding \cup inRange /\ UNCHANGED rows
           /\ backfill' = [backfill EXCEPT
                             !.pc = IF cursor < backfill.end THEN "page" ELSE "done",
                             !.cursor = cursor, !.page = NoBatch]
    /\ bridged' = bridged \cup (HolesOf(rows') \ HolesOf(rows))
    /\ UNCHANGED <<now, universe, live, liveHealth, found, backfills, outages>>

\* A failed request or statement ends the process; nothing of its progress is
\* kept but the pages it stored.
BackfillDies ==
    /\ backfill.pc \in {"page", "sift", "save"} /\ Fault
    /\ backfill' = [backfill EXCEPT !.pc = "off", !.page = NoBatch]
    /\ UNCHANGED <<now, rows, universe, live, liveHealth, found, funding,
                   bridged, backfills>>

---------------------------------------------------------------------------
\* A minute may end at any time, also between the response of the exchange
\* and the reading of the clock.
CollectorTick ==
    /\ now < Horizon
    /\ now' = now + 1
    /\ UNCHANGED <<rows, collectorVars>>

LiveStep == LiveStart \/ LivePoll \/ LiveCompare \/ LiveUpsert

BackfillStep == BackfillFetch \/ BackfillSift \/ BackfillSave

Next ==
    \/ LiveStep \/ LiveFails \/ LiveCrash
    \/ \E request \in Requests, selected \in BOOLEAN :
          BackfillStart(request, selected)
    \/ BackfillStep \/ BackfillDies
    \/ CollectorTick

vars == <<now, rows, collectorVars>>

Spec == Init /\ [][Next]_vars

---------------------------------------------------------------------------
(* Properties.                                                             *)

\* Only confirmed candles are stored: fetch_completed_candles drops the last
\* row it gets, and fetch_ohlcv_page what is still open.  Neither reads a
\* clock of the exchange, so this rests on where each reads its own.
OnlyConfirmedRows == \A m \in Minutes : rows[m] # "partial"

\* To its readers the collector is a table in which the rows of closed minutes
\* appear and stay, whatever the polls, the backfills, the faults and the clock
\* do: no row of a minute in progress is ever written, although upsert_batch
\* writes what was listed some time before, and none is lost by overwriting.
ImplementsStore == Store!StoreSpec

\* The live collector leaves the values of a minute in progress in no row: it
\* drops the last row it is listed, and however long it then holds the others,
\* they were over when they were listed.  Where a row with such values appears,
\* or takes the place of a final one, a backfill wrote it.
LiveStoresFinalRows ==
    [][\A m \in Minutes :
          rows'[m] = "partial" /\ rows[m] # "partial" => BackfillSave]_vars

\* A backfill leaves no minute of its range behind its cursor, whatever the
\* size of the pages, the lag of the listing and the live collector do; so a
\* run that reaches its end has stored the whole range (HistoricalBackfill.run
\* and FundingBackfill.run).
BackfillLeavesNothing ==
    backfill.pc # "off" =>
        LET passed == {t \in Minutes : /\ backfill.start <= t /\ t < backfill.end
                                       /\ t < backfill.cursor}
        IN  IF backfill.kind = "ohlcv" THEN passed \subseteq StoredMinutes
            ELSE {t \in passed : t % FundingEvery = 0} \subseteq funding

\* A hole inside the table was there from the start, was reported by the live
\* collector before it wrote beyond it (detect_gaps in collect_once), or was
\* made by a backfill that wrote past the latest row: only a backfill can hide
\* an outage from the live collector.
HolesAreReported == HolesOf(rows) \subseteq found \cup bridged \cup Gaps0
============================================================================
