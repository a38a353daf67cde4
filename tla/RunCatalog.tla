---------------------------- MODULE RunCatalog ----------------------------
(***************************************************************************)
(* The catalog of backtest runs (backtest_db), the directory of Evidence   *)
(* files, the processes that run engines against both, and the operator    *)
(* who purges runs.  A statement, with the commit that follows it, is a    *)
(* step; so is everything an engine writes to Evidence between two of      *)
(* them.  What a run computes is left out: it goes through, or it raises.  *)
(* Runs are numbered by the sequence that issues run_id.                   *)
(***************************************************************************)
EXTENDS Integers, FiniteSets

CONSTANTS
    Runners,     \* the processes and threads that run engines, one at a time
    None,        \* a NULL
    MaxRuns,     \* bound on issued runs
    MaxTime,     \* bound on the clock of the database
    MaxEvents    \* bound on what happens from outside: time that passes, a
                 \* purge asked for, an exception a run meets by itself

ASSUME CatalogAssumption ==
    /\ {MaxRuns, MaxTime, MaxEvents} \subseteq Nat
    /\ None \notin 0 .. MaxTime

VARIABLES
    clock,    \* CURRENT_TIMESTAMP of a transaction that starts now
    issued,   \* backtest_run_seq
    rows,     \* backtest_run, with its summary and prereg, by run
    files,    \* the runs with <run_id>.sqlite in the Evidence root
    engine,   \* what each runner is doing
    purge,    \* the purge in hand
    outcome,  \* history: how Engine.run ended, for each issued run
    early,    \* history: runs whose file a purge looked for before it existed
    events    \* how many such events have happened

catalogVars == <<clock, issued, rows, files, engine, purge, outcome, early,
                 events>>

Runs == 1 .. MaxRuns
Times == 0 .. MaxTime

\* hash stands for evidence_hash, with finished_at one of the two fields by
\* which a finished run is told from one in flight.
RowRecords ==
    [status : {"RUNNING", "EVALUATED", "ORPHANED"}, started : Times,
     finished : Times \cup {None}, hash : BOOLEAN, error : BOOLEAN,
     prereg : BOOLEAN, summary : BOOLEAN, aggregate : BOOLEAN]

Phases == {"off", "sweep", "swept", "registered", "bound", "replay",
           "concluded", "sealed", "returned", "raised"}
InRun == Phases \ {"off", "returned", "raised"}

CatalogTypeOK ==
    /\ clock \in Times /\ issued \in 0 .. MaxRuns
    /\ DOMAIN rows \subseteq 1 .. issued
    /\ \A run \in DOMAIN rows : rows[run] \in RowRecords
    /\ files \subseteq 1 .. issued /\ early \subseteq Runs
    /\ engine \in [Runners -> [pc : Phases, run : 0 .. MaxRuns, since : Times,
                               sweeps : 0 .. 2]]
    /\ purge \in [pc : {"off", "looked", "unlinked"}, run : 0 .. MaxRuns]
    /\ outcome \in [Runs -> {"open", "returned", "raised"}]
    /\ events \in 0 .. MaxEvents

CatalogInit ==
    /\ clock = 0 /\ issued = 0
    /\ rows = [run \in {} |-> None]
    /\ files = {}
    /\ engine = [r \in Runners |-> [pc |-> "off", run |-> 0, since |-> 0, sweeps |-> 0]]
    /\ purge = [pc |-> "off", run |-> 0]
    /\ outcome = [run \in Runs |-> "open"]
    /\ early = {} /\ events = 0

Event == events < MaxEvents /\ events' = events + 1

Tick ==
    /\ Event /\ clock < MaxTime
    /\ clock' = clock + 1
    /\ UNCHANGED <<issued, rows, files, engine, purge, outcome, early>>

---------------------------------------------------------------------------
(* The statements of BacktestCatalogStore.                                 *)

Registered(time) ==
    [status |-> "RUNNING", started |-> time, finished |-> None, hash |-> FALSE,
     error |-> FALSE, prereg |-> FALSE, summary |-> FALSE, aggregate |-> FALSE]

\* The rows a sweep takes whose transaction started at since; the statement
\* sees the rows committed before it runs, later than that.
Orphans(since) ==
    {run \in DOMAIN rows : /\ rows[run].status = "RUNNING" /\ ~rows[run].hash
                           /\ rows[run].started < since}

Orphaned(row, since) ==
    [row EXCEPT !.status = "ORPHANED", !.error = TRUE,
                !.finished = IF @ = None THEN since ELSE @]

\* ck_backtest_run_timestamps.
TimestampsHold(row) == row.finished = None \/ row.finished >= row.started

\* (For a mutation: only a run still marked RUNNING is evaluated.)
EvaluatedIfRunning(row) ==
    IF row.status = "RUNNING"
    THEN [row EXCEPT !.status = "EVALUATED", !.hash = TRUE, !.error = FALSE,
                     !.finished = clock, !.summary = TRUE]
    ELSE [row EXCEPT !.summary = TRUE]

Evaluated(row) ==
    [row EXCEPT !.status = "EVALUATED", !.hash = TRUE, !.error = FALSE,
                !.finished = clock, !.summary = TRUE]

---------------------------------------------------------------------------
(* Engine.run.                                                             *)

Moves(r, pc) == engine' = [engine EXCEPT ![r].pc = pc]

\* An exception leaves Engine.run; what it has stored stays.
Raises(r) ==
    /\ Moves(r, "raised")
    /\ outcome' = IF engine[r].run = 0 THEN outcome
                  ELSE [outcome EXCEPT ![engine[r].run] = "raised"]
    /\ UNCHANGED <<rows, files>>

\* A run is started, by a sweep of several runs with a sweep of its own first.
Starts(r, sweeps) ==
    /\ engine[r].pc \in {"off", "returned", "raised"}
    /\ engine' = [engine EXCEPT ![r] =
          [pc |-> "sweep", run |-> 0, since |-> clock, sweeps |-> sweeps]]

\* reconcile_orphaned.  The transaction has started at since.
Reconcile(r) ==
    LET e == engine[r]
        swept == [run \in DOMAIN rows |->
                     IF run \in Orphans(e.since) THEN Orphaned(rows[run], e.since)
                     ELSE rows[run]]
    IN
    /\ e.pc = "sweep"
    /\ IF \A run \in DOMAIN swept : TimestampsHold(swept[run])
       THEN /\ rows' = swept
            /\ engine' = [engine EXCEPT ![r] = IF e.sweeps > 1
                  THEN [e EXCEPT !.sweeps = e.sweeps - 1, !.since = clock]
                  ELSE [e EXCEPT !.sweeps = 0, !.pc = "swept"]]
            /\ UNCHANGED <<files, outcome>>
       ELSE Raises(r)
    /\ UNCHANGED <<clock, issued, purge, early, events>>

Register(r) ==
    /\ engine[r].pc = "swept" /\ issued < MaxRuns
    /\ issued' = issued + 1
    /\ rows' = [run \in DOMAIN rows \cup {issued + 1} |->
                   IF run = issued + 1 THEN Registered(clock) ELSE rows[run]]
    /\ engine' = [engine EXCEPT ![r].pc = "registered", ![r].run = issued + 1]
    /\ UNCHANGED <<clock, files, purge, outcome, early, events>>

\* bind creates the file and its schema.
Bind(r) ==
    /\ engine[r].pc = "registered"
    /\ files' = files \cup {engine[r].run}
    /\ Moves(r, "bound")
    /\ UNCHANGED <<clock, issued, rows, purge, outcome, early, events>>

\* Writing to a file that has been unlinked raises: SQLite notices it.
FileHeld(r) == engine[r].run \in files
RowHeld(r) == engine[r].run \in DOMAIN rows

\* The local run, the indicator and source records, then save_prereg, which
\* references the row.
SavePrereg(r) ==
    /\ engine[r].pc = "bound"
    /\ IF FileHeld(r) /\ RowHeld(r)
       THEN /\ rows' = [rows EXCEPT ![engine[r].run].prereg = TRUE]
            /\ Moves(r, "replay")
            /\ UNCHANGED <<files, outcome>>
       ELSE Raises(r)
    /\ UNCHANGED <<clock, issued, purge, early, events>>

\* The candle loop, the metrics, the gate and the decision, up to
\* determinism_reference, which tolerates that the row is gone.
Replay(r) ==
    /\ engine[r].pc = "replay"
    /\ IF FileHeld(r)
       THEN Moves(r, "concluded") /\ UNCHANGED <<rows, files, outcome>>
       ELSE Raises(r)
    /\ UNCHANGED <<clock, issued, purge, early, events>>

\* finalize of Evidence: derivations, audit and hash.
Seal(r) ==
    /\ engine[r].pc = "concluded"
    /\ IF FileHeld(r)
       THEN Moves(r, "sealed") /\ UNCHANGED <<rows, files, outcome>>
       ELSE Raises(r)
    /\ UNCHANGED <<clock, issued, purge, early, events>>

\* upsert_summary: the summary references the row.
UpsertSummary(r) ==
    /\ engine[r].pc = "sealed"
    /\ IF RowHeld(r)
       THEN /\ rows' = [rows EXCEPT ![engine[r].run] = Evaluated(@)]
            /\ outcome' = [outcome EXCEPT ![engine[r].run] = "returned"]
            /\ Moves(r, "returned")
            /\ UNCHANGED files
       ELSE Raises(r)
    /\ UNCHANGED <<clock, issued, purge, early, events>>

\* Data, strategy, database and disk may fail at any point of a run.
RunFails(r) ==
    /\ Event /\ engine[r].pc \in InRun
    /\ Raises(r)
    /\ UNCHANGED <<clock, issued, purge, early>>

EngineStep(r) ==
    \/ Reconcile(r) \/ Register(r) \/ Bind(r) \/ SavePrereg(r) \/ Replay(r)
    \/ Seal(r) \/ UpsertSummary(r)

---------------------------------------------------------------------------
(* purge_run of the web API: look up, unlink, delete.                      *)

PurgeLook ==
    /\ Event /\ purge.pc = "off"
    /\ \E run \in DOMAIN rows : purge' = [pc |-> "looked", run |-> run]
    /\ UNCHANGED <<clock, issued, rows, files, engine, outcome, early>>

\* (For a mutation: the row goes first.)
DeleteRowFirst ==
    /\ purge.pc = "looked"
    /\ rows' = [run \in DOMAIN rows \ {purge.run} |-> rows[run]]
    /\ purge' = [purge EXCEPT !.pc = "unlinked"]
    /\ UNCHANGED <<clock, issued, files, engine, outcome, early, events>>

\* remove_evidence_artifact, with the sidecars.
Unlink ==
    /\ purge.pc = "looked"
    /\ files' = files \ {purge.run}
    /\ early' = IF purge.run \in files THEN early ELSE early \cup {purge.run}
    /\ purge' = [purge EXCEPT !.pc = "unlinked"]
    /\ UNCHANGED <<clock, issued, rows, engine, outcome, events>>

\* The row, and by cascade its summary, prereg and tags; or the statement
\* fails, and all of them stay.
DeleteRow ==
    /\ purge.pc = "unlinked"
    /\ \/ rows' = [run \in DOMAIN rows \ {purge.run} |-> rows[run]]
       \/ UNCHANGED rows
    /\ purge' = [pc |-> "off", run |-> 0]
    /\ UNCHANGED <<clock, issued, files, engine, outcome, early, events>>

PurgeStep == Unlink \/ DeleteRow

---------------------------------------------------------------------------

\* A run that went through is EVALUATED and whole in the catalog, with no
\* trace of a sweep of another process that took it for an orphan while it
\* was in flight (upsert_summary clears the message); and no other run is.
FinishedMeansEvaluated ==
    \A run \in DOMAIN rows :
        /\ outcome[run] = "returned" =>
              /\ rows[run].status = "EVALUATED" /\ ~rows[run].error
              /\ rows[run].hash /\ rows[run].summary /\ rows[run].prereg
        /\ rows[run].hash => outcome[run] = "returned"

\* No Evidence file is left that no row points at, except by a purge that
\* looked for the file before the run had created it (purge_run: Evidence
\* goes first).
NoFileIsLost == files \subseteq DOMAIN rows \cup early
===========================================================================
