---------------------------- MODULE WebJobsProofs ----------------------------
(***************************************************************************)
(* What the registries, the worker, the data tasks and the streams keep    *)
(* true, for any plans, clients, retention and sizes of sweep, while the   *)
(* command line and an operator work on the same catalog.                  *)
(*                                                                         *)
(* The first part is about the catalog alone: what the engines, the sweeps *)
(* and the purges keep true of the rows and the Evidence files, one lemma  *)
(* per action, with no job in sight.  The second adds the jobs.            *)
(***************************************************************************)
EXTENDS WebJobs, SequenceTheorems, FiniteSetTheorems, TLAPS

-----------------------------------------------------------------------------
(* The catalog                                                             *)

EngineStates == [pc : Phases, run : 0 .. MaxRuns, since : Times, sweeps : 0 .. 2]

Owning == {"registered", "bound", "replay", "concluded", "sealed"}

\* Between two runs, and before it registers one, a runner has no run_id.
NoRunYet == \A r \in Runners : engine[r].pc \in {"sweep", "swept"} => engine[r].run = 0

\* A run in flight is open, and belongs to one runner.
RunsAreOpen ==
    /\ \A r \in Runners : engine[r].pc \in Owning =>
          engine[r].run \in 1 .. issued /\ outcome[engine[r].run] = "open"
    /\ \A r, s \in Runners :
          engine[r].pc \in Owning /\ engine[s].pc \in Owning /\ engine[r].run = engine[s].run
              => r = s

\* A runner whose Engine.run has returned holds the run that did.
ReturnedIsReturned ==
    \A r \in Runners : engine[r].pc = "returned" =>
        engine[r].run \in 1 .. issued /\ outcome[engine[r].run] = "returned"

NothingBeforeIssue == \A run \in Runs : run > issued => outcome[run] = "open"

\* Past save_prereg, the row of a run, if it is still there, has its prereg.
PreregBeforeReplay ==
    \A r \in Runners :
        engine[r].pc \in {"replay", "concluded", "sealed"} /\ engine[r].run \in DOMAIN rows
            => rows[engine[r].run].prereg

\* Before bind there is no file; its row is there, or a purge has looked for
\* the file too early.
RegisteredHasNoFile ==
    \A r \in Runners : engine[r].pc = "registered" =>
        engine[r].run \notin files /\ engine[r].run \in DOMAIN rows \cup early

\* Between Unlink and DeleteRow there is no file, unless it came after the
\* look, and no engine is about to create one unnoticed.
UnlinkedIsGone ==
    /\ purge.pc # "off" => purge.run \in 1 .. issued
    /\ purge.pc = "unlinked" /\ purge.run \notin early =>
          /\ purge.run \notin files
          /\ \A r \in Runners : engine[r].pc = "registered" => engine[r].run # purge.run

\* Every part is needed: the two safety properties are not inductive alone.
CatalogInv ==
    /\ CatalogTypeOK /\ NoRunYet /\ RunsAreOpen /\ ReturnedIsReturned
    /\ NothingBeforeIssue /\ PreregBeforeReplay
    /\ RegisteredHasNoFile /\ UnlinkedIsGone
    /\ FinishedMeansEvaluated /\ NoFileIsLost

-----------------------------------------------------------------------------
(* Rows                                                                    *)

\* A registered run is a row in flight, with nothing of its end in it.
LEMMA RegisteredRow ==
    ASSUME NEW time \in Times
    PROVE  Registered(time) \in RowRecords /\ ~Registered(time).hash
BY DEF Registered, RowRecords

\* A sweep gives a row an end and a message and leaves the rest of it alone.
LEMMA OrphanedRow ==
    ASSUME NEW row \in RowRecords, NEW since \in Times
    PROVE  /\ Orphaned(row, since) \in RowRecords
           /\ Orphaned(row, since).hash = row.hash
           /\ Orphaned(row, since).prereg = row.prereg
BY DEF Orphaned, RowRecords

\* upsert_summary leaves a whole row, whatever a sweep has made of it before.
LEMMA EvaluatedRow ==
    ASSUME NEW row \in RowRecords, clock \in Times
    PROVE  /\ Evaluated(row) \in RowRecords
           /\ Evaluated(row).status = "EVALUATED" /\ ~Evaluated(row).error
           /\ Evaluated(row).hash /\ Evaluated(row).summary
           /\ Evaluated(row).prereg = row.prereg
BY DEF Evaluated, RowRecords

-----------------------------------------------------------------------------
(* The initial state                                                       *)

LEMMA CatalogInitInv == CatalogInit => CatalogInv
<1> SUFFICES ASSUME CatalogInit PROVE CatalogInv
  OBVIOUS
<1>1. CatalogTypeOK
  BY CatalogAssumption DEF CatalogInit, CatalogTypeOK, Times, Runs, Phases
<1>2. /\ NoRunYet /\ RunsAreOpen /\ ReturnedIsReturned /\ NothingBeforeIssue
      /\ PreregBeforeReplay /\ RegisteredHasNoFile
  BY DEF CatalogInit, NoRunYet, RunsAreOpen, ReturnedIsReturned, NothingBeforeIssue,
         PreregBeforeReplay, RegisteredHasNoFile, Owning
<1>3. UnlinkedIsGone /\ FinishedMeansEvaluated /\ NoFileIsLost
  BY DEF CatalogInit, UnlinkedIsGone, FinishedMeansEvaluated, NoFileIsLost
<1> QED
  BY <1>1, <1>2, <1>3 DEF CatalogInv

-----------------------------------------------------------------------------
(* What a runner does outside Engine.run                                   *)

\* A runner without a run in hand is started or put away, and the row of a
\* sweep may get its aggregate: the invariant does not depend on either.
LEMMA RunnerFreed ==
    ASSUME CatalogInv, NEW r \in Runners,
           engine[r].pc \in {"off", "returned", "raised"},
           Moves(r, "off") \/ Starts(r, 1) \/ Starts(r, 2),
           \/ rows' = rows
           \/ \E run \in DOMAIN rows : rows' = [rows EXCEPT ![run].aggregate = TRUE],
           UNCHANGED <<clock, issued, files, purge, outcome, early>>,
           events' \in 0 .. MaxEvents
    PROVE  CatalogInv'
<1> USE DEF CatalogInv
<1>1. /\ DOMAIN rows' = DOMAIN rows
      /\ \A run \in DOMAIN rows :
            /\ rows'[run] \in RowRecords
            /\ rows'[run].status = rows[run].status /\ rows'[run].error = rows[run].error
            /\ rows'[run].hash = rows[run].hash /\ rows'[run].summary = rows[run].summary
            /\ rows'[run].prereg = rows[run].prereg
  <2>1. CASE rows' = rows
    BY <2>1 DEF CatalogTypeOK
  <2>2. CASE \E run \in DOMAIN rows : rows' = [rows EXCEPT ![run].aggregate = TRUE]
    <3> PICK run \in DOMAIN rows : rows' = [rows EXCEPT ![run].aggregate = TRUE]
      BY <2>2
    <3>1. rows' = [other \in DOMAIN rows |->
                      IF other = run THEN [rows[run] EXCEPT !.aggregate = TRUE]
                      ELSE rows[other]]
      OBVIOUS
    <3>2. rows[run] \in RowRecords
      BY DEF CatalogTypeOK
    <3>3. LET row == [rows[run] EXCEPT !.aggregate = TRUE] IN
          /\ row \in RowRecords
          /\ row.status = rows[run].status /\ row.error = rows[run].error
          /\ row.hash = rows[run].hash /\ row.summary = rows[run].summary
          /\ row.prereg = rows[run].prereg
      BY <3>2 DEF RowRecords
    <3> QED
      BY <3>1, <3>3 DEF CatalogTypeOK
  <2> QED
    BY <2>1, <2>2
<1>2. /\ engine' \in [Runners -> EngineStates]
      /\ engine'[r].pc \in {"off", "sweep"}
      /\ engine'[r].pc = "sweep" => engine'[r].run = 0
      /\ \A s \in Runners \ {r} : engine'[s] = engine[s]
  BY CatalogAssumption DEF CatalogTypeOK, Moves, EngineStates, Starts, Phases, Times
<1>3. CatalogTypeOK'
  BY <1>1, <1>2 DEF CatalogTypeOK, EngineStates
<1>4. NoRunYet' /\ RunsAreOpen' /\ ReturnedIsReturned' /\ NothingBeforeIssue'
  BY <1>2 DEF NoRunYet, RunsAreOpen, ReturnedIsReturned, NothingBeforeIssue, Owning
<1>5. PreregBeforeReplay' /\ RegisteredHasNoFile' /\ UnlinkedIsGone'
  BY <1>1, <1>2 DEF PreregBeforeReplay, RegisteredHasNoFile, UnlinkedIsGone
<1>6. FinishedMeansEvaluated' /\ NoFileIsLost'
  BY <1>1 DEF FinishedMeansEvaluated, NoFileIsLost
<1> QED
  BY <1>3, <1>4, <1>5, <1>6

\* Time passes.
LEMMA TickKeeps == CatalogInv /\ Tick => CatalogInv'
<1> SUFFICES ASSUME CatalogInv, Tick PROVE CatalogInv'
  OBVIOUS
<1>1. CatalogTypeOK'
  BY CatalogAssumption DEF CatalogInv, CatalogTypeOK, Tick, Event, Times
<1> QED
  BY <1>1 DEF CatalogInv, Tick, NoRunYet, RunsAreOpen, ReturnedIsReturned,
              NothingBeforeIssue, PreregBeforeReplay, RegisteredHasNoFile, UnlinkedIsGone,
              FinishedMeansEvaluated, NoFileIsLost

-----------------------------------------------------------------------------
(* Engine.run                                                              *)

\* An exception that leaves Engine.run takes no other runner's run with it,
\* and no run that has returned.
LEMMA RaisesKeeps ==
    ASSUME CatalogInv, NEW r \in Runners, engine[r].pc \in InRun, Raises(r),
           UNCHANGED <<clock, issued, purge, early>>, events' \in 0 .. MaxEvents
    PROVE  CatalogInv'
<1> USE DEF CatalogInv
<1>1. /\ engine' \in [Runners -> EngineStates]
      /\ engine'[r].pc = "raised"
      /\ \A s \in Runners \ {r} : engine'[s] = engine[s]
  BY DEF CatalogTypeOK, Raises, Moves, EngineStates, Phases
<1>2. UNCHANGED <<rows, files>>
  BY DEF Raises
<1>3. engine[r].pc \in Owning \/ engine[r].run = 0
  BY DEF NoRunYet, InRun, Phases, Owning
<1>4. /\ outcome' \in [Runs -> {"open", "returned", "raised"}]
      /\ \A run \in Runs : \/ outcome'[run] = outcome[run]
                           \/ /\ run = engine[r].run /\ outcome[run] = "open"
                              /\ outcome'[run] = "raised" /\ engine[r].pc \in Owning
                              /\ run \in 1 .. issued
  <2>1. CASE engine[r].run = 0
    BY <2>1 DEF CatalogTypeOK, Raises
  <2>2. CASE engine[r].run # 0
    <3>1. outcome' = [outcome EXCEPT ![engine[r].run] = "raised"]
      BY <2>2 DEF Raises
    <3>2. /\ engine[r].run \in 1 .. issued /\ outcome[engine[r].run] = "open"
          /\ engine[r].pc \in Owning
      BY <1>3, <2>2 DEF RunsAreOpen
    <3> QED
      BY <3>1, <3>2 DEF CatalogTypeOK
  <2> QED
    BY <2>1, <2>2
<1>5. CatalogTypeOK'
  BY <1>1, <1>2, <1>4 DEF CatalogTypeOK, EngineStates
<1>6. 1 .. issued \subseteq Runs
  BY CatalogAssumption DEF CatalogTypeOK, Runs
<1>7. RunsAreOpen'
  BY <1>1, <1>4, <1>6 DEF RunsAreOpen, Owning
<1>8. ReturnedIsReturned' /\ NoRunYet' /\ NothingBeforeIssue'
  <2>1. ReturnedIsReturned' /\ NoRunYet'
    BY <1>1, <1>4, <1>6 DEF ReturnedIsReturned, NoRunYet
  <2>2. \A run \in Runs : run > issued => outcome'[run] = "open"
    BY <1>4 DEF NothingBeforeIssue, CatalogTypeOK
  <2> QED
    BY <2>1, <2>2 DEF NothingBeforeIssue
<1>9. PreregBeforeReplay' /\ RegisteredHasNoFile' /\ UnlinkedIsGone'
  BY <1>1, <1>2 DEF PreregBeforeReplay, RegisteredHasNoFile, UnlinkedIsGone
<1>10. FinishedMeansEvaluated' /\ NoFileIsLost'
  BY <1>2, <1>4, <1>6 DEF FinishedMeansEvaluated, NoFileIsLost, CatalogTypeOK
<1> QED
  BY <1>5, <1>7, <1>8, <1>9, <1>10

\* A step inside a run that touches neither rows nor files nor outcomes.
LEMMA GoesOnKeeps ==
    ASSUME CatalogInv, NEW r \in Runners, NEW pc,
           \/ engine[r].pc = "replay" /\ pc = "concluded"
           \/ engine[r].pc = "concluded" /\ pc = "sealed",
           Moves(r, pc),
           UNCHANGED <<clock, issued, rows, files, purge, outcome, early, events>>
    PROVE  CatalogInv'
<1> USE DEF CatalogInv
<1>1. /\ engine' \in [Runners -> EngineStates]
      /\ engine'[r].pc = pc /\ engine'[r].run = engine[r].run
      /\ \A s \in Runners \ {r} : engine'[s] = engine[s]
  BY DEF CatalogTypeOK, Moves, EngineStates, Phases
<1>2. CatalogTypeOK'
  BY <1>1 DEF CatalogTypeOK, EngineStates
<1>3. NoRunYet' /\ RunsAreOpen' /\ ReturnedIsReturned' /\ NothingBeforeIssue'
  BY <1>1 DEF NoRunYet, RunsAreOpen, ReturnedIsReturned, NothingBeforeIssue, Owning
<1>4. PreregBeforeReplay' /\ RegisteredHasNoFile' /\ UnlinkedIsGone'
  BY <1>1 DEF PreregBeforeReplay, RegisteredHasNoFile, UnlinkedIsGone
<1>5. FinishedMeansEvaluated' /\ NoFileIsLost'
  BY DEF FinishedMeansEvaluated, NoFileIsLost
<1> QED
  BY <1>2, <1>3, <1>4, <1>5

\* A sweep takes no run that has returned, whatever its row says of the time
\* (reconcile_orphaned): its hash is set.
LEMMA ReconcileKeeps ==
    ASSUME CatalogInv, NEW r \in Runners, Reconcile(r)
    PROVE  CatalogInv'
<1> USE DEF CatalogInv
<1> DEFINE e == engine[r]
           swept == [run \in DOMAIN rows |->
                        IF run \in Orphans(e.since) THEN Orphaned(rows[run], e.since)
                        ELSE rows[run]]
<1>1. e.pc = "sweep" /\ e.run = 0 /\ e.since \in Times /\ e.sweeps \in 0 .. 2
  BY DEF Reconcile, NoRunYet, CatalogTypeOK
<1>2. CASE Raises(r)
  BY <1>1, <1>2, RaisesKeeps DEF Reconcile, InRun, Phases, CatalogTypeOK
<1>3. CASE ~Raises(r)
  <2>1. /\ rows' = swept
        /\ engine' = [engine EXCEPT ![r] = IF e.sweeps > 1
              THEN [e EXCEPT !.sweeps = e.sweeps - 1, !.since = clock]
              ELSE [e EXCEPT !.sweeps = 0, !.pc = "swept"]]
        /\ UNCHANGED <<clock, issued, files, purge, outcome, early, events>>
    BY <1>3 DEF Reconcile
  <2>2. /\ DOMAIN rows' = DOMAIN rows
        /\ \A run \in DOMAIN rows :
              /\ rows'[run] \in RowRecords
              /\ rows'[run].hash = rows[run].hash
              /\ rows'[run].prereg = rows[run].prereg
              /\ rows[run].hash => rows'[run] = rows[run]
    <3>1. \A run \in DOMAIN rows : rows[run] \in RowRecords
      BY DEF CatalogTypeOK
    <3>2. \A run \in DOMAIN rows : /\ Orphaned(rows[run], e.since) \in RowRecords
                                   /\ Orphaned(rows[run], e.since).hash = rows[run].hash
                                   /\ Orphaned(rows[run], e.since).prereg = rows[run].prereg
      BY <1>1, <3>1, OrphanedRow
    <3> QED
      BY <2>1, <3>1, <3>2 DEF Orphans
  <2>3. /\ engine' \in [Runners -> EngineStates]
        /\ engine'[r].pc \in {"sweep", "swept"} /\ engine'[r].run = 0
        /\ \A s \in Runners \ {r} : engine'[s] = engine[s]
    <3>1. engine \in [Runners -> EngineStates] /\ e \in EngineStates /\ clock \in Times
      BY DEF CatalogTypeOK, EngineStates
    <3>2. [e EXCEPT !.sweeps = 0] \in EngineStates
      BY <3>1 DEF EngineStates
    <3>3. /\ [e EXCEPT !.sweeps = 0, !.pc = "swept"] \in EngineStates
          /\ [e EXCEPT !.sweeps = 0, !.pc = "swept"].pc = "swept"
          /\ [e EXCEPT !.sweeps = 0, !.pc = "swept"].run = e.run
      BY <3>1, <3>2 DEF EngineStates, Phases
    <3>4. CASE e.sweeps > 1
      <4>1. [e EXCEPT !.sweeps = e.sweeps - 1] \in EngineStates
        BY <3>1, <3>4 DEF EngineStates
      <4>2. /\ [e EXCEPT !.sweeps = e.sweeps - 1, !.since = clock] \in EngineStates
            /\ [e EXCEPT !.sweeps = e.sweeps - 1, !.since = clock].pc = "sweep"
            /\ [e EXCEPT !.sweeps = e.sweeps - 1, !.since = clock].run = e.run
        BY <1>1, <3>1, <4>1 DEF EngineStates
      <4>3. engine' = [engine EXCEPT ![r] = [e EXCEPT !.sweeps = e.sweeps - 1, !.since = clock]]
        BY <2>1, <3>4
      <4> QED
        BY <1>1, <3>1, <4>2, <4>3
    <3>5. CASE ~(e.sweeps > 1)
      <4>1. engine' = [engine EXCEPT ![r] = [e EXCEPT !.sweeps = 0, !.pc = "swept"]]
        BY <2>1, <3>5
      <4> QED
        BY <1>1, <3>1, <3>3, <4>1
    <3> QED
      BY <3>4, <3>5
  <2>4. CatalogTypeOK'
    BY <2>1, <2>2, <2>3 DEF CatalogTypeOK, EngineStates
  <2>5. NoRunYet' /\ RunsAreOpen' /\ ReturnedIsReturned' /\ NothingBeforeIssue'
    BY <2>1, <2>3 DEF NoRunYet, RunsAreOpen, ReturnedIsReturned, NothingBeforeIssue, Owning
  <2>6. PreregBeforeReplay' /\ RegisteredHasNoFile' /\ UnlinkedIsGone'
    BY <2>1, <2>2, <2>3 DEF PreregBeforeReplay, RegisteredHasNoFile, UnlinkedIsGone
  <2>7. FinishedMeansEvaluated' /\ NoFileIsLost'
    BY <2>1, <2>2 DEF FinishedMeansEvaluated, NoFileIsLost
  <2> QED
    BY <2>4, <2>5, <2>6, <2>7
<1> QED
  BY <1>2, <1>3

\* A new run is open, has no file and belongs to nobody else.
LEMMA RegisterKeeps ==
    ASSUME CatalogInv, NEW r \in Runners, Register(r)
    PROVE  CatalogInv'
<1> USE DEF CatalogInv
<1>1. /\ engine[r].pc = "swept" /\ issued \in Nat /\ issued + 1 \in Runs
      /\ issued' = issued + 1
      /\ UNCHANGED <<clock, files, purge, outcome, early, events>>
  BY CatalogAssumption DEF Register, CatalogTypeOK, Runs
<1>2. /\ DOMAIN rows' = DOMAIN rows \cup {issued + 1} /\ issued + 1 \notin DOMAIN rows
      /\ \A run \in DOMAIN rows : rows'[run] = rows[run]
      /\ rows'[issued + 1] = Registered(clock)
  BY <1>1 DEF Register, CatalogTypeOK
<1>3. /\ engine' \in [Runners -> EngineStates]
      /\ engine'[r].pc = "registered" /\ engine'[r].run = issued + 1
      /\ \A s \in Runners \ {r} : engine'[s] = engine[s]
  <2>1. engine \in [Runners -> EngineStates]
    BY DEF CatalogTypeOK, EngineStates
  <2>2. [engine[r] EXCEPT !.pc = "registered"] \in EngineStates
    BY <2>1 DEF EngineStates, Phases
  <2>3. issued + 1 \in 0 .. MaxRuns
    BY <1>1 DEF Runs
  <2>4. /\ [engine[r] EXCEPT !.pc = "registered", !.run = issued + 1] \in EngineStates
        /\ [engine[r] EXCEPT !.pc = "registered", !.run = issued + 1].pc = "registered"
        /\ [engine[r] EXCEPT !.pc = "registered", !.run = issued + 1].run = issued + 1
    BY <2>2, <2>3 DEF EngineStates
  <2>5. engine' = [engine EXCEPT ![r] =
                      [engine[r] EXCEPT !.pc = "registered", !.run = issued + 1]]
    BY <2>1 DEF Register
  <2> QED
    BY <2>1, <2>4, <2>5
<1>4. Registered(clock) \in RowRecords /\ ~Registered(clock).hash
  BY RegisteredRow DEF CatalogTypeOK
<1>5. outcome[issued + 1] = "open"
  BY <1>1 DEF NothingBeforeIssue
<1>6. CatalogTypeOK'
  <2>1. \A run \in DOMAIN rows' : rows'[run] \in RowRecords
    BY <1>2, <1>4 DEF CatalogTypeOK
  <2>2. DOMAIN rows' \subseteq 1 .. issued' /\ files' \subseteq 1 .. issued' /\ issued' \in 0 .. MaxRuns
    BY <1>1, <1>2 DEF CatalogTypeOK, Runs
  <2> QED
    BY <1>1, <1>3, <2>1, <2>2 DEF CatalogTypeOK, EngineStates
<1>7. NoRunYet' /\ ReturnedIsReturned' /\ NothingBeforeIssue'
  BY <1>1, <1>3 DEF NoRunYet, ReturnedIsReturned, NothingBeforeIssue, Runs
<1>8. RunsAreOpen'
  BY <1>1, <1>3, <1>5 DEF RunsAreOpen, Owning
<1>9. PreregBeforeReplay' /\ RegisteredHasNoFile'
  <2>1. ASSUME NEW s \in Runners, engine'[s].pc \in Owning, s # r
        PROVE  engine[s].run # issued + 1
    BY <1>1, <1>3, <2>1 DEF RunsAreOpen
  <2>2. PreregBeforeReplay'
    BY <1>2, <1>3, <2>1 DEF PreregBeforeReplay, Owning
  <2>3. issued + 1 \notin files
    BY <1>1 DEF CatalogTypeOK
  <2> QED
    BY <1>1, <1>2, <1>3, <2>2, <2>3 DEF RegisteredHasNoFile
<1>10. UnlinkedIsGone'
  BY <1>1, <1>3 DEF UnlinkedIsGone
<1>11. FinishedMeansEvaluated'
  BY <1>1, <1>2, <1>4, <1>5 DEF FinishedMeansEvaluated
<1>12. NoFileIsLost'
  BY <1>1, <1>2 DEF NoFileIsLost
<1> QED
  BY <1>6, <1>7, <1>8, <1>9, <1>10, <1>11, <1>12

\* The file a run creates has its row, or a purge that came before it.
LEMMA BindKeeps ==
    ASSUME CatalogInv, NEW r \in Runners, Bind(r)
    PROVE  CatalogInv'
<1> USE DEF CatalogInv
<1>1. /\ engine[r].pc = "registered" /\ files' = files \cup {engine[r].run}
      /\ engine[r].run \in 1 .. issued
      /\ UNCHANGED <<clock, issued, rows, purge, outcome, early, events>>
  BY DEF Bind, RunsAreOpen, Owning
<1>2. /\ engine' \in [Runners -> EngineStates]
      /\ engine'[r].pc = "bound" /\ engine'[r].run = engine[r].run
      /\ \A s \in Runners \ {r} : engine'[s] = engine[s]
  BY DEF Bind, Moves, CatalogTypeOK, EngineStates, Phases
<1>3. CatalogTypeOK'
  BY <1>1, <1>2 DEF CatalogTypeOK, EngineStates
<1>4. NoRunYet' /\ RunsAreOpen' /\ ReturnedIsReturned' /\ NothingBeforeIssue'
  BY <1>1, <1>2 DEF NoRunYet, RunsAreOpen, ReturnedIsReturned, NothingBeforeIssue, Owning
<1>5. PreregBeforeReplay' /\ UnlinkedIsGone'
  BY <1>1, <1>2 DEF PreregBeforeReplay, UnlinkedIsGone
<1>6. RegisteredHasNoFile'
  BY <1>1, <1>2 DEF RegisteredHasNoFile, RunsAreOpen, Owning
<1>7. FinishedMeansEvaluated' /\ NoFileIsLost'
  BY <1>1 DEF FinishedMeansEvaluated, NoFileIsLost, RegisteredHasNoFile
<1> QED
  BY <1>3, <1>4, <1>5, <1>6, <1>7

\* The prereg needs the row: without it, or without the file, the run raises.
LEMMA SavePreregKeeps ==
    ASSUME CatalogInv, NEW r \in Runners, SavePrereg(r)
    PROVE  CatalogInv'
<1> USE DEF CatalogInv
<1>1. engine[r].pc = "bound" /\ UNCHANGED <<clock, issued, purge, early, events>>
  BY DEF SavePrereg
<1>2. CASE Raises(r)
  BY <1>1, <1>2, RaisesKeeps DEF InRun, Phases, CatalogTypeOK
<1>3. CASE ~Raises(r)
  <2> DEFINE mine == engine[r].run
  <2>1. /\ mine \in DOMAIN rows /\ rows' = [rows EXCEPT ![mine].prereg = TRUE]
        /\ Moves(r, "replay") /\ UNCHANGED <<files, outcome>>
    BY <1>3 DEF SavePrereg, RowHeld
  <2>2. /\ DOMAIN rows' = DOMAIN rows
        /\ \A run \in DOMAIN rows :
              /\ rows'[run] \in RowRecords
              /\ rows'[run].hash = rows[run].hash
              /\ run # mine => rows'[run] = rows[run]
        /\ rows'[mine].prereg
    <3>1. rows[mine] \in RowRecords
      BY <2>1 DEF CatalogTypeOK
    <3>2. LET row == [rows[mine] EXCEPT !.prereg = TRUE] IN
          row \in RowRecords /\ row.hash = rows[mine].hash /\ row.prereg
      BY <3>1 DEF RowRecords
    <3> QED
      BY <2>1, <3>2 DEF CatalogTypeOK
  <2>3. /\ engine' \in [Runners -> EngineStates]
        /\ engine'[r].pc = "replay" /\ engine'[r].run = mine
        /\ \A s \in Runners \ {r} : engine'[s] = engine[s]
    BY <2>1 DEF Moves, CatalogTypeOK, EngineStates, Phases
  <2>4. CatalogTypeOK'
    BY <1>1, <2>1, <2>2, <2>3 DEF CatalogTypeOK, EngineStates
  <2>5. NoRunYet' /\ RunsAreOpen' /\ ReturnedIsReturned' /\ NothingBeforeIssue'
    BY <1>1, <2>1, <2>3 DEF NoRunYet, RunsAreOpen, ReturnedIsReturned, NothingBeforeIssue, Owning
  <2>6. PreregBeforeReplay' /\ RegisteredHasNoFile' /\ UnlinkedIsGone'
    BY <1>1, <2>1, <2>2, <2>3 DEF PreregBeforeReplay, RegisteredHasNoFile, UnlinkedIsGone
  <2>7. outcome[mine] = "open"
    BY <1>1 DEF RunsAreOpen, Owning
  <2>8. FinishedMeansEvaluated' /\ NoFileIsLost'
    BY <1>1, <2>1, <2>2, <2>7 DEF FinishedMeansEvaluated, NoFileIsLost
  <2> QED
    BY <2>4, <2>5, <2>6, <2>8
<1> QED
  BY <1>2, <1>3

\* A run whose row is still there at the end is whole in the catalog.
LEMMA UpsertSummaryKeeps ==
    ASSUME CatalogInv, NEW r \in Runners, UpsertSummary(r)
    PROVE  CatalogInv'
<1> USE DEF CatalogInv
<1>1. engine[r].pc = "sealed" /\ UNCHANGED <<clock, issued, purge, early, events>>
  BY DEF UpsertSummary
<1>2. CASE Raises(r)
  BY <1>1, <1>2, RaisesKeeps DEF InRun, Phases, CatalogTypeOK
<1>3. CASE ~Raises(r)
  <2> DEFINE mine == engine[r].run
  <2>1. /\ mine \in DOMAIN rows /\ rows' = [rows EXCEPT ![mine] = Evaluated(rows[mine])]
        /\ outcome' = [outcome EXCEPT ![mine] = "returned"]
        /\ Moves(r, "returned") /\ UNCHANGED files
    BY <1>3 DEF UpsertSummary, RowHeld
  <2>2. /\ DOMAIN rows' = DOMAIN rows
        /\ \A run \in DOMAIN rows : rows'[run] \in RowRecords
        /\ \A run \in DOMAIN rows \ {mine} : rows'[run] = rows[run]
        /\ rows'[mine].status = "EVALUATED" /\ ~rows'[mine].error
        /\ rows'[mine].hash /\ rows'[mine].summary /\ rows'[mine].prereg
    <3>1. rows[mine] \in RowRecords /\ rows[mine].prereg /\ clock \in Times
      BY <1>1, <2>1 DEF CatalogTypeOK, PreregBeforeReplay
    <3>2. LET row == Evaluated(rows[mine]) IN
          /\ row \in RowRecords /\ row.status = "EVALUATED" /\ ~row.error
          /\ row.hash /\ row.summary /\ row.prereg
      BY <3>1, EvaluatedRow
    <3> QED
      BY <2>1, <3>2 DEF CatalogTypeOK
  <2>3. /\ engine' \in [Runners -> EngineStates]
        /\ engine'[r].pc = "returned" /\ engine'[r].run = mine
        /\ \A s \in Runners \ {r} : engine'[s] = engine[s]
    BY <2>1 DEF Moves, CatalogTypeOK, EngineStates, Phases
  <2>4. mine \in 1 .. issued /\ 1 .. issued \subseteq Runs
    BY <2>1, CatalogAssumption DEF CatalogTypeOK, Runs
  <2>5. /\ outcome' \in [Runs -> {"open", "returned", "raised"}]
        /\ \A run \in Runs \ {mine} : outcome'[run] = outcome[run]
        /\ outcome'[mine] = "returned"
    BY <2>1, <2>4 DEF CatalogTypeOK
  <2>6. CatalogTypeOK'
    BY <1>1, <2>1, <2>2, <2>3, <2>5 DEF CatalogTypeOK, EngineStates
  <2>7. RunsAreOpen' /\ NoRunYet' /\ ReturnedIsReturned'
    BY <1>1, <2>3, <2>4, <2>5 DEF RunsAreOpen, NoRunYet, ReturnedIsReturned, Owning
  <2>8. NothingBeforeIssue'
    <3>1. \A run \in Runs : run > issued => outcome'[run] = "open"
      BY <2>4, <2>5 DEF NothingBeforeIssue, CatalogTypeOK
    <3> QED
      BY <1>1, <3>1 DEF NothingBeforeIssue
  <2>9. PreregBeforeReplay' /\ RegisteredHasNoFile' /\ UnlinkedIsGone'
    BY <1>1, <2>1, <2>2, <2>3 DEF PreregBeforeReplay, RegisteredHasNoFile, UnlinkedIsGone
  <2>10. FinishedMeansEvaluated'
    BY <2>2, <2>4, <2>5 DEF FinishedMeansEvaluated, CatalogTypeOK
  <2>11. NoFileIsLost'
    BY <1>1, <2>1, <2>2 DEF NoFileIsLost
  <2> QED
    BY <2>6, <2>7, <2>8, <2>9, <2>10, <2>11
<1> QED
  BY <1>2, <1>3

-----------------------------------------------------------------------------
(* purge_run                                                               *)

LEMMA PurgeLookKeeps == CatalogInv /\ PurgeLook => CatalogInv'
<1> SUFFICES ASSUME CatalogInv, PurgeLook PROVE CatalogInv'
  OBVIOUS
<1> USE DEF CatalogInv
<1>1. /\ UNCHANGED <<clock, issued, rows, files, engine, outcome, early>>
      /\ purge' \in [pc : {"off", "looked", "unlinked"}, run : 0 .. MaxRuns]
      /\ purge'.pc = "looked" /\ purge'.run \in 1 .. issued
      /\ events' \in 0 .. MaxEvents
  BY CatalogAssumption DEF PurgeLook, Event, CatalogTypeOK
<1>2. CatalogTypeOK' /\ UnlinkedIsGone'
  BY <1>1 DEF CatalogTypeOK, EngineStates, UnlinkedIsGone
<1> QED
  BY <1>1, <1>2 DEF NoRunYet, RunsAreOpen, ReturnedIsReturned, NothingBeforeIssue,
                    PreregBeforeReplay, RegisteredHasNoFile, FinishedMeansEvaluated,
                    NoFileIsLost

\* Evidence goes first: a file that is there has been created by its run, so
\* no engine will create it again.
LEMMA UnlinkKeeps == CatalogInv /\ Unlink => CatalogInv'
<1> SUFFICES ASSUME CatalogInv, Unlink PROVE CatalogInv'
  OBVIOUS
<1> USE DEF CatalogInv
<1>1. /\ purge.pc = "looked" /\ purge.run \in 1 .. issued
      /\ files' = files \ {purge.run}
      /\ early' = IF purge.run \in files THEN early ELSE early \cup {purge.run}
      /\ purge' = [purge EXCEPT !.pc = "unlinked"]
      /\ UNCHANGED <<clock, issued, rows, engine, outcome, events>>
  BY DEF Unlink, UnlinkedIsGone
<1>2. CatalogTypeOK'
  <2>1. early' \subseteq Runs
    BY <1>1, CatalogAssumption DEF CatalogTypeOK, Runs
  <2>2. purge' \in [pc : {"off", "looked", "unlinked"}, run : 0 .. MaxRuns]
    BY <1>1 DEF CatalogTypeOK
  <2> QED
    BY <1>1, <2>1, <2>2 DEF CatalogTypeOK
<1>3. RegisteredHasNoFile' /\ NoFileIsLost'
  BY <1>1 DEF RegisteredHasNoFile, NoFileIsLost
<1>4. UnlinkedIsGone'
  <2>1. purge'.run = purge.run
    BY <1>1 DEF CatalogTypeOK
  <2> QED
    BY <1>1, <2>1 DEF UnlinkedIsGone, RegisteredHasNoFile
<1> QED
  BY <1>1, <1>2, <1>3, <1>4 DEF NoRunYet, RunsAreOpen, ReturnedIsReturned,
       NothingBeforeIssue, PreregBeforeReplay, FinishedMeansEvaluated

LEMMA DeleteRowKeeps == CatalogInv /\ DeleteRow => CatalogInv'
<1> SUFFICES ASSUME CatalogInv, DeleteRow PROVE CatalogInv'
  OBVIOUS
<1> USE DEF CatalogInv
<1>1. /\ purge.pc = "unlinked" /\ purge' = [pc |-> "off", run |-> 0]
      /\ UNCHANGED <<clock, issued, files, engine, outcome, early, events>>
  BY DEF DeleteRow
<1>2. /\ DOMAIN rows' \subseteq DOMAIN rows
      /\ \A run \in DOMAIN rows : run = purge.run \/ run \in DOMAIN rows'
      /\ \A run \in DOMAIN rows' : rows'[run] = rows[run]
  BY DEF DeleteRow
<1>3. CatalogTypeOK'
  <2>1. purge' \in [pc : {"off", "looked", "unlinked"}, run : 0 .. MaxRuns]
    BY <1>1, CatalogAssumption
  <2> QED
    BY <1>1, <1>2, <2>1 DEF CatalogTypeOK
<1>4. RegisteredHasNoFile' /\ UnlinkedIsGone' /\ NoFileIsLost'
  BY <1>1, <1>2 DEF RegisteredHasNoFile, UnlinkedIsGone, NoFileIsLost
<1>5. PreregBeforeReplay' /\ FinishedMeansEvaluated'
  BY <1>1, <1>2 DEF PreregBeforeReplay, FinishedMeansEvaluated
<1> QED
  BY <1>1, <1>3, <1>4, <1>5 DEF NoRunYet, RunsAreOpen, ReturnedIsReturned,
       NothingBeforeIssue

-----------------------------------------------------------------------------
(* All of it                                                               *)

CatalogNext ==
    \/ Tick \/ PurgeLook \/ Unlink \/ DeleteRow
    \/ \E r \in Runners : EngineStep(r) \/ RunFails(r)

LEMMA EngineStepKeeps ==
    ASSUME CatalogInv, NEW r \in Runners, EngineStep(r) \/ RunFails(r)
    PROVE  CatalogInv'
<1>1. CASE Reconcile(r) \/ Register(r) \/ Bind(r) \/ SavePrereg(r) \/ UpsertSummary(r)
  BY <1>1, ReconcileKeeps, RegisterKeeps, BindKeeps, SavePreregKeeps, UpsertSummaryKeeps
<1>2. CASE Replay(r)
  <2>1. CASE Raises(r)
    BY <1>2, <2>1, RaisesKeeps DEF Replay, InRun, Phases, CatalogInv, CatalogTypeOK
  <2> QED
    BY <1>2, <2>1, GoesOnKeeps DEF Replay
<1>3. CASE Seal(r)
  <2>1. CASE Raises(r)
    BY <1>3, <2>1, RaisesKeeps DEF Seal, InRun, Phases, CatalogInv, CatalogTypeOK
  <2> QED
    BY <1>3, <2>1, GoesOnKeeps DEF Seal
<1>4. CASE RunFails(r)
  <2>1. events' \in 0 .. MaxEvents
    BY <1>4, CatalogAssumption DEF RunFails, Event, CatalogInv, CatalogTypeOK
  <2> QED
    BY <1>4, <2>1, RaisesKeeps DEF RunFails
<1> QED
  BY <1>1, <1>2, <1>3, <1>4 DEF EngineStep

LEMMA CatalogNextKeeps == CatalogInv /\ CatalogNext => CatalogInv'
BY TickKeeps, PurgeLookKeeps, UnlinkKeeps, DeleteRowKeeps, EngineStepKeeps DEF CatalogNext

\* What has returned stays so, and its row, until it is purged, as it was:
\* the sweeps of other processes, which take the rows of runs in flight, and
\* the exceptions of other runs do not reach it.
LEMMA ReturnedRunsAreLeftAlone ==
    ASSUME CatalogInv, CatalogNext, NEW run \in Runs, outcome[run] = "returned"
    PROVE  /\ outcome'[run] = "returned"
           /\ run \in DOMAIN rows' => run \in DOMAIN rows /\ rows'[run] = rows[run]
<1> USE DEF CatalogInv
<1>1. CASE Tick \/ PurgeLook \/ Unlink \/ DeleteRow
  BY <1>1 DEF Tick, PurgeLook, Unlink, DeleteRow
<1>2. ASSUME NEW r \in Runners, engine[r].pc \in InRun, Raises(r)
      PROVE  outcome'[run] = "returned" /\ rows' = rows
  BY <1>2 DEF Raises, RunsAreOpen, NoRunYet, Owning, InRun, Phases, CatalogTypeOK
<1>3. ASSUME NEW r \in Runners, EngineStep(r) \/ RunFails(r), ~Raises(r)
      PROVE  /\ outcome'[run] = "returned"
             /\ run \in DOMAIN rows' => run \in DOMAIN rows /\ rows'[run] = rows[run]
  <2>1. CASE Reconcile(r)
    <3>1. run \in DOMAIN rows => rows[run].hash
      BY DEF FinishedMeansEvaluated
    <3> QED
      BY <1>3, <2>1, <3>1 DEF Reconcile, Orphans
  <2>2. CASE Register(r)
    <3>1. run # issued + 1
      BY <2>2 DEF Register, NothingBeforeIssue, CatalogTypeOK
    <3> QED
      BY <2>2, <3>1 DEF Register
  <2>3. CASE SavePrereg(r) \/ UpsertSummary(r)
    <3>1. run # engine[r].run
      BY <2>3 DEF SavePrereg, UpsertSummary, RunsAreOpen, Owning
    <3> QED
      BY <1>3, <2>3, <3>1 DEF SavePrereg, UpsertSummary, CatalogTypeOK
  <2>4. CASE Bind(r) \/ Replay(r) \/ Seal(r)
    BY <1>3, <2>4 DEF Bind, Replay, Seal
  <2> QED
    BY <1>3, <2>1, <2>2, <2>3, <2>4 DEF EngineStep, RunFails
<1>4. ASSUME NEW r \in Runners, EngineStep(r) \/ RunFails(r), Raises(r)
      PROVE  engine[r].pc \in InRun
  BY <1>4 DEF EngineStep, RunFails, Reconcile, Register, Bind, SavePrereg, Replay, Seal,
              UpsertSummary, InRun, Phases
<1> QED
  BY <1>1, <1>2, <1>3, <1>4 DEF CatalogNext

-----------------------------------------------------------------------------
(* The inductive invariant                                                 *)

Kinds == {"dry", "data"}
JobRecords == [status : {"QUEUED", "RUNNING"} \cup Terminal, revision : 0 .. 2,
               run : 0 .. MaxRuns]
StreamStates == [pc : {"none", "look", "arm", "wait", "closed"}, job : Jobs \cup {0},
                 revision : -1 .. 2, saw : {"", "QUEUED", "RUNNING"} \cup Terminal]

NoRepeats(s) == \A i, j \in DOMAIN s : s[i] = s[j] => i = j

Submitted ==
    /\ plan \in Plans /\ app \in {"up", "data", "executor", "down"}
    /\ submitted \in 0 .. Len(plan)
    /\ DOMAIN jobs \subseteq 1 .. submitted
    /\ \A job \in DOMAIN jobs : jobs[job] \in JobRecords

\* The revision tells each state of a job apart from those before it.
RevisionsRunWithStatus ==
    \A job \in DOMAIN jobs :
        /\ jobs[job].status = "QUEUED" => jobs[job].revision = 0
        /\ jobs[job].status = "RUNNING" => jobs[job].revision = 1

\* The finished jobs of a registry, each once.
FinishedAreListed ==
    /\ finished \in [Kinds -> Seq(Jobs)]
    /\ \A kind \in Kinds :
          /\ NoRepeats(finished[kind])
          /\ ToSet(finished[kind]) = {job \in DOMAIN jobs : /\ KindOf(job) = kind
                                                            /\ jobs[job].status \in Terminal}

\* A job that is gone left a full registry behind, and it stays full.
GoneFromAFullRegistry ==
    \A job \in 1 .. submitted : job \notin DOMAIN jobs =>
        Len(finished[KindOf(job)]) >= MaxRetained

RegistryInv ==
    /\ Submitted /\ RevisionsRunWithStatus /\ FinishedAreListed /\ GoneFromAFullRegistry

\* A stream that is open follows a job there is or was.
StreamInv ==
    /\ stream \in [Clients -> StreamStates] /\ wakes \subseteq Jobs
    /\ \A c \in Clients :
          /\ app # "down" /\ stream[c].pc # "none" => stream[c].job \in 1 .. submitted
          /\ app = "down" => stream[c].pc = "closed"
    /\ StreamsTellTheEnd

\* What is in the executor's queue is queued, what the worker has in hand is
\* running, and neither is a data job.
WorkInv ==
    /\ line \in Seq(Jobs) /\ NoRepeats(line)
    /\ \A job \in ToSet(line) : /\ KindOf(job) = "dry" /\ job \in DOMAIN jobs
                                /\ jobs[job].status = "QUEUED"
    /\ work \in [job : Jobs \cup {0}, owed : 0 .. SweepRuns, first : 0 .. MaxRuns]
    /\ work.job # 0 => /\ KindOf(work.job) = "dry" /\ work.job \in DOMAIN jobs
                       /\ jobs[work.job].status = "RUNNING"

\* A task belongs to a data job that has been submitted, and its state to
\* that of the job.
TasksMatchJobs ==
    \A job \in Jobs :
        /\ task[job] # "none" => KindOf(job) = "data" /\ job <= submitted
        /\ task[job] \in {"new", "waiting", "cancelled"} =>
              job \in DOMAIN jobs /\ jobs[job].status = "QUEUED"
        /\ task[job] \in {"running", "stopping"} =>
              job \in DOMAIN jobs /\ jobs[job].status = "RUNNING"

\* The gate holds only tasks that wait, each once.
GateHoldsWaiting ==
    /\ gate \in Seq(Jobs) /\ NoRepeats(gate)
    /\ \A job \in ToSet(gate) : task[job] = "waiting"

\* shutdown_data_jobs leaves no task to enter the gate, and before it none is
\* cancelled: so the process that a cancelled task stops stays the only one.
OneAtTheGate ==
    /\ app = "up" => \A job \in Jobs : task[job] \notin {"cancelled", "stopping"}
    /\ app # "up" => \A job \in Jobs : task[job] \notin {"new", "waiting", "running"}
    /\ \A job, other \in Jobs : CollectorRuns(job) /\ CollectorRuns(other) => job = other

TaskInv ==
    /\ task \in [Jobs -> {"none", "new", "waiting", "running", "cancelled", "stopping", "done"}]
    /\ TasksMatchJobs /\ GateHoldsWaiting /\ OneAtTheGate

\* The run a grid is going to name has returned.
FirstHasReturned == work.first # 0 => work.first \in Runs /\ outcome[work.first] = "returned"

ReportsAreTrue == SuccessIsInTheCatalog /\ FirstHasReturned

\* No safety property of WebJobs is inductive alone.
JobsIInv ==
    CatalogInv /\ RegistryInv /\ StreamInv /\ WorkInv /\ TaskInv /\ ReportsAreTrue

-----------------------------------------------------------------------------
(* Sequences without repetition                                            *)

LEMMA NoElements ==
    ASSUME NEW S
    PROVE  <<>> \in Seq(S) /\ NoRepeats(<<>>) /\ ToSet(<<>>) = {}
<1>1. <<>> \in Seq(S) /\ DOMAIN <<>> = 1 .. 0
  BY EmptySeq, LenProperties
<1> QED
  BY <1>1 DEF ToSet, NoRepeats

\* What comes last joins the elements.
LEMMA AppendOnce ==
    ASSUME NEW S, NEW s \in Seq(S), NEW e \in S, NoRepeats(s), e \notin ToSet(s)
    PROVE  /\ Append(s, e) \in Seq(S) /\ NoRepeats(Append(s, e))
           /\ ToSet(Append(s, e)) = ToSet(s) \cup {e}
           /\ Len(Append(s, e)) = Len(s) + 1
<1> DEFINE t == Append(s, e)
<1>1. /\ t \in Seq(S) /\ Len(t) = Len(s) + 1
      /\ \A i \in 1 .. Len(s) : t[i] = s[i]
      /\ t[Len(s) + 1] = e
  BY AppendProperties
<1>2. DOMAIN s = 1 .. Len(s) /\ DOMAIN t = 1 .. Len(s) + 1 /\ Len(s) \in Nat
  BY <1>1, LenProperties
<1> HIDE DEF t
<1>3. NoRepeats(t)
  BY <1>1, <1>2 DEF NoRepeats, ToSet
<1>4. ToSet(t) = ToSet(s) \cup {e}
  BY <1>1, <1>2 DEF ToSet
<1> QED
  BY <1>1, <1>3, <1>4 DEF t

\* What comes first leaves them.
LEMMA TailOnce ==
    ASSUME NEW S, NEW s \in Seq(S), s # <<>>, NoRepeats(s)
    PROVE  /\ Head(s) \in S /\ Head(s) \in ToSet(s)
           /\ Tail(s) \in Seq(S) /\ NoRepeats(Tail(s))
           /\ ToSet(Tail(s)) = ToSet(s) \ {Head(s)}
<1> DEFINE t == Tail(s)
<1>1. /\ Head(s) \in S /\ t \in Seq(S) /\ Len(t) = Len(s) - 1
      /\ \A i \in 1 .. Len(t) : t[i] = s[i + 1]
  BY HeadTailProperties
<1>2. /\ DOMAIN s = 1 .. Len(s) /\ DOMAIN t = 1 .. Len(s) - 1 /\ Len(s) \in Nat
      /\ Len(s) > 0 /\ Head(s) = s[1]
  BY <1>1, LenProperties, EmptySeq
<1> HIDE DEF t
<1>3. NoRepeats(t)
  <2>1. ASSUME NEW i \in DOMAIN t, NEW j \in DOMAIN t, t[i] = t[j] PROVE i = j
    <3>1. /\ i + 1 \in DOMAIN s /\ j + 1 \in DOMAIN s
          /\ s[i + 1] = s[j + 1] /\ i \in Int /\ j \in Int
      BY <1>1, <1>2, <2>1
    <3>2. i + 1 = j + 1
      BY <3>1 DEF NoRepeats
    <3> QED
      BY <3>1, <3>2
  <2> QED
    BY <2>1 DEF NoRepeats
<1>4. ToSet(t) = ToSet(s) \ {Head(s)}
  <2>1. \A x \in ToSet(s) : x # Head(s) => x \in ToSet(t)
    <3> TAKE x \in ToSet(s)
    <3>1. PICK i \in 1 .. Len(s) : x = s[i]
      BY <1>2 DEF ToSet
    <3>2. x # Head(s) => i - 1 \in DOMAIN t /\ t[i - 1] = x
      BY <1>1, <1>2, <3>1
    <3> QED
      BY <3>2 DEF ToSet
  <2>2. \A x \in ToSet(t) : x \in ToSet(s) /\ x # Head(s)
    BY <1>1, <1>2 DEF ToSet, NoRepeats
  <2> QED
    BY <2>1, <2>2
<1>5. Head(s) \in ToSet(s)
  BY <1>2 DEF ToSet
<1> QED
  BY <1>1, <1>3, <1>4, <1>5 DEF t

\* The front of s, up to n, and the rest of it share no element.
SplitAt(s, n, front, rest) ==
    /\ \A x \in ToSet(front) : \E i \in 1 .. n : x = s[i]
    /\ NoRepeats(rest) /\ Len(rest) = Len(s) - n
    /\ ToSet(front) \subseteq ToSet(s) /\ ToSet(rest) = ToSet(s) \ ToSet(front)

\* Cut in two, the parts share nothing.
LEMMA CutOnce ==
    ASSUME NEW S, NEW s \in Seq(S), NEW n \in 1 .. Len(s), NoRepeats(s)
    PROVE  /\ SubSeq(s, n + 1, Len(s)) \in Seq(S)
           /\ SplitAt(s, n, SubSeq(s, 1, n), SubSeq(s, n + 1, Len(s)))
<1> DEFINE front == SubSeq(s, 1, n)
           rest == SubSeq(s, n + 1, Len(s))
<1>1. /\ Len(s) \in Nat /\ DOMAIN s = 1 .. Len(s)
      /\ \A i \in 1 .. Len(s) : s[i] \in S
  BY LenProperties, ElementOfSeq
<1>2. /\ front \in Seq(S) /\ Len(front) = n
      /\ \A i \in 1 .. n : front[i] = s[i]
  BY <1>1, SubSeqProperties
<1>3. /\ rest \in Seq(S) /\ Len(rest) = Len(s) - n
      /\ \A i \in 1 .. Len(s) - n : rest[i] = s[n + i]
  <2>1. \A i \in n + 1 .. Len(s) : s[i] \in S
    BY <1>1
  <2>2. n + 1 \in Int /\ Len(s) \in Int
    BY <1>1
  <2>3. /\ rest \in Seq(S)
        /\ Len(rest) = IF n + 1 <= Len(s) THEN Len(s) - (n + 1) + 1 ELSE 0
        /\ \A i \in 1 .. Len(s) - (n + 1) + 1 : rest[i] = s[n + 1 + i - 1]
    BY <2>1, <2>2, SubSeqProperties
  <2>4. /\ Len(s) - (n + 1) + 1 = Len(s) - n
        /\ \A i \in 1 .. Len(s) - n : n + 1 + i - 1 = n + i
        /\ ~(n + 1 <= Len(s)) => Len(s) - n = 0
    <3>1. ASSUME NEW m \in Nat, n \in 1 .. m
          PROVE  /\ m - (n + 1) + 1 = m - n
                 /\ \A i \in 1 .. m - n : n + 1 + i - 1 = n + i
                 /\ ~(n + 1 <= m) => m - n = 0
      <4> n \in Int
        BY <3>1
      <4> QED
        BY <3>1
    <3> QED
      BY <1>1, <3>1
  <2> HIDE DEF rest
  <2>5. Len(rest) = Len(s) - n
    <3>1. CASE n + 1 <= Len(s)
      BY <2>3, <2>4, <3>1
    <3>2. CASE ~(n + 1 <= Len(s))
      <4>1. Len(rest) = 0
        BY <2>3, <3>2
      <4> QED
        BY <2>4, <3>2, <4>1
    <3> QED
      BY <3>1, <3>2
  <2>6. ASSUME NEW i \in 1 .. Len(s) - n PROVE rest[i] = s[n + i]
    <3>1. rest[i] = s[n + 1 + i - 1]
      BY <2>3, <2>4
    <3> QED
      BY <2>4, <3>1
  <2> QED
    BY <2>3, <2>5, <2>6
<1>4. DOMAIN front = 1 .. n /\ DOMAIN rest = 1 .. Len(s) - n
  BY <1>2, <1>3, LenProperties
<1> HIDE DEF front, rest
<1>5. /\ \A x \in ToSet(front) : \E i \in 1 .. n : x = s[i]
      /\ ToSet(front) \subseteq ToSet(s)
  BY <1>1, <1>2, <1>4 DEF ToSet
<1>6. NoRepeats(rest)
  <2>1. ASSUME NEW i \in DOMAIN rest, NEW j \in DOMAIN rest, rest[i] = rest[j] PROVE i = j
    <3>1. /\ n + i \in DOMAIN s /\ n + j \in DOMAIN s
          /\ s[n + i] = s[n + j] /\ i \in Int /\ j \in Int
      BY <1>1, <1>3, <1>4, <2>1
    <3>2. n + i = n + j
      BY <3>1 DEF NoRepeats
    <3> QED
      BY <1>1, <3>1, <3>2
  <2> QED
    BY <2>1 DEF NoRepeats
<1>7. ToSet(rest) = ToSet(s) \ ToSet(front)
  <2>1. ASSUME NEW x \in ToSet(s), x \notin ToSet(front) PROVE x \in ToSet(rest)
    <3>1. PICK i \in 1 .. Len(s) : x = s[i]
      BY <1>1 DEF ToSet
    <3>2. i > n
      BY <1>1, <1>2, <1>4, <2>1, <3>1 DEF ToSet
    <3>3. i - n \in 1 .. Len(s) - n /\ n + (i - n) = i
      BY <1>1, <3>1, <3>2
    <3>4. i - n \in DOMAIN rest /\ rest[i - n] = s[n + (i - n)]
      BY <1>3, <1>4, <3>3
    <3>5. rest[i - n] = x
      BY <3>1, <3>3, <3>4
    <3> QED
      BY <3>4, <3>5 DEF ToSet
  <2>2. ASSUME NEW x \in ToSet(rest) PROVE x \in ToSet(s) /\ x \notin ToSet(front)
    <3>1. PICK i \in 1 .. Len(s) - n : x = s[n + i]
      BY <1>3, <1>4 DEF ToSet
    <3>2. n + i \in DOMAIN s
      BY <1>1, <3>1
    <3>3. \A j \in 1 .. n : s[j] # x
      BY <1>1, <3>1, <3>2 DEF NoRepeats
    <3> QED
      BY <1>5, <3>1, <3>2, <3>3 DEF ToSet
  <2> QED
    BY <2>1, <2>2
<1> QED
  BY <1>3, <1>5, <1>6, <1>7 DEF front, rest, SplitAt

-----------------------------------------------------------------------------
(* The registries                                                          *)

\* Every job of the plan is of one of the two registries.
LEMMA PlanTypes ==
    ASSUME plan \in Plans
    PROVE  Len(plan) \in Nat /\ Jobs = 1 .. Len(plan) /\ \A job \in Jobs : KindOf(job) \in Kinds
BY JobsAssumption, LenProperties DEF Jobs, KindOf, Kinds

\* register forgets only finished jobs, and leaves as many as are retained.
LEMMA RegisterJobKeeps ==
    ASSUME RegistryInv, StreamInv, submitted < Len(plan), submitted' = submitted + 1,
           RegisterJob(submitted + 1), UNCHANGED <<plan, app, stream, wakes>>
    PROVE  /\ RegistryInv' /\ StreamInv'
           /\ submitted + 1 \in Jobs \ DOMAIN jobs
           /\ submitted + 1 \in DOMAIN jobs' /\ jobs'[submitted + 1].status = "QUEUED"
           /\ \A job \in DOMAIN jobs' \ {submitted + 1} :
                 job \in DOMAIN jobs /\ jobs'[job] = jobs[job]
           /\ \A job \in DOMAIN jobs : jobs[job].status \notin Terminal => job \in DOMAIN jobs'
           /\ \A job \in DOMAIN jobs \ DOMAIN jobs' :
                 /\ jobs[job].status \in Terminal
                 /\ \E i \in DOMAIN finished[KindOf(job)] :
                       /\ finished[KindOf(job)][i] = job
                       /\ Len(finished[KindOf(job)]) - i >= MaxRetained
<1> DEFINE new == submitted + 1
           kind == KindOf(new)
           list == finished[kind]
           dropped == ToSet(SubSeq(list, 1, Excess(kind)))
<1> USE DEF RegistryInv
<1>1. /\ Len(plan) \in Nat /\ Jobs = 1 .. Len(plan) /\ \A job \in Jobs : KindOf(job) \in Kinds
      /\ submitted \in Nat /\ new \in Jobs /\ kind \in Kinds
      /\ list \in Seq(Jobs) /\ NoRepeats(list) /\ Len(list) \in Nat
      /\ DOMAIN list = 1 .. Len(list)
  BY PlanTypes, LenProperties DEF Submitted, FinishedAreListed
<1>2. MaxRetained \in Nat /\ Excess(kind) = Len(list) - MaxRetained
  BY JobsAssumption DEF Excess
<1>3. /\ DOMAIN jobs' = (DOMAIN jobs \ dropped) \cup {new}
      /\ jobs'[new] = [status |-> "QUEUED", revision |-> 0, run |-> 0]
      /\ \A job \in DOMAIN jobs' \ {new} : jobs'[job] = jobs[job]
      /\ finished' = IF Excess(kind) > 0
                     THEN [finished EXCEPT ![kind] = SubSeq(list, Excess(kind) + 1, Len(list))]
                     ELSE finished
  BY DEF RegisterJob
<1>4. new \notin DOMAIN jobs
  BY <1>1 DEF Submitted
<1>5. /\ finished' \in [Kinds -> Seq(Jobs)] /\ NoRepeats(finished'[kind])
      /\ ToSet(finished'[kind]) = ToSet(list) \ dropped
      /\ dropped \subseteq ToSet(list)
      /\ \A other \in Kinds \ {kind} : finished'[other] = finished[other]
      /\ dropped # {} => Len(finished'[kind]) = MaxRetained
      /\ dropped = {} => Len(finished'[kind]) = Len(list)
      /\ \A job \in dropped : \E i \in DOMAIN list :
            list[i] = job /\ Len(list) - i >= MaxRetained
  <2>1. CASE Excess(kind) > 0
    <3> DEFINE n == Excess(kind)
               rest == SubSeq(list, n + 1, Len(list))
    <3>1. n \in 1 .. Len(list)
      BY <1>1, <1>2, <2>1
    <3>2. /\ \A x \in dropped : \E i \in 1 .. n : x = list[i]
          /\ dropped \subseteq ToSet(list)
          /\ rest \in Seq(Jobs) /\ NoRepeats(rest) /\ Len(rest) = Len(list) - n
          /\ ToSet(rest) = ToSet(list) \ dropped
      <4>1. ASSUME NEW s \in Seq(Jobs), NoRepeats(s), NEW m \in 1 .. Len(s)
            PROVE  /\ SubSeq(s, m + 1, Len(s)) \in Seq(Jobs)
                   /\ SplitAt(s, m, SubSeq(s, 1, m), SubSeq(s, m + 1, Len(s)))
        BY <4>1, CutOnce
      <4> QED
        BY <1>1, <3>1, <4>1 DEF SplitAt
    <3>3. finished \in [Kinds -> Seq(Jobs)] /\ finished' = [finished EXCEPT ![kind] = rest]
      BY <1>3, <2>1 DEF FinishedAreListed
    <3>4. Len(rest) = MaxRetained
      BY <1>1, <1>2, <3>2
    <3>5. \A job \in dropped : \E i \in DOMAIN list :
             list[i] = job /\ Len(list) - i >= MaxRetained
      <4> TAKE job \in dropped
      <4>1. PICK i \in 1 .. n : job = list[i]
        BY <3>2
      <4>2. i \in DOMAIN list /\ Len(list) - i >= MaxRetained
        BY <1>1, <1>2, <3>1, <4>1
      <4> QED
        BY <4>1, <4>2
    <3>6. dropped # {}
      <4>1. list[1] = SubSeq(list, 1, n)[1] /\ 1 \in DOMAIN SubSeq(list, 1, n)
        BY <1>1, <3>1, SubSeqProperties, ElementOfSeq, LenProperties
      <4> QED
        BY <4>1 DEF ToSet
    <3> HIDE DEF rest, list, dropped, n
    <3> QED
      BY <1>1, <3>2, <3>3, <3>4, <3>5, <3>6
  <2>2. CASE ~(Excess(kind) > 0)
    <3>1. dropped = {}
      <4>1. SubSeq(list, 1, Excess(kind)) = <<>>
        BY <1>1, <1>2, <2>2, SubSeqEmpty
      <4> QED
        BY <4>1, NoElements
    <3>2. finished' = finished
      BY <1>3, <2>2
    <3> QED
      BY <1>1, <3>1, <3>2 DEF FinishedAreListed
  <2> QED
    BY <2>1, <2>2
<1>6. \A job \in dropped : job \in DOMAIN jobs /\ KindOf(job) = kind /\ jobs[job].status \in Terminal
  BY <1>1, <1>5 DEF FinishedAreListed
<1> HIDE DEF dropped, list
<1>7. Submitted'
  <2>1. jobs'[new] \in JobRecords
    BY <1>3, CatalogAssumption DEF JobRecords
  <2>2. \A job \in DOMAIN jobs' : jobs'[job] \in JobRecords'
    BY <1>3, <2>1 DEF Submitted, JobRecords
  <2>3. DOMAIN jobs' \subseteq 1 .. submitted' /\ submitted' \in 0 .. Len(plan')
    BY <1>1, <1>3 DEF Submitted
  <2> QED
    BY <2>2, <2>3 DEF Submitted
<1>8. RevisionsRunWithStatus'
  BY <1>3 DEF RevisionsRunWithStatus
<1>9. FinishedAreListed'
  <2>1. \A other \in Kinds :
           ToSet(finished'[other]) = {job \in DOMAIN jobs' : /\ KindOf(job) = other
                                                             /\ jobs'[job].status \in Terminal}
    BY <1>3, <1>4, <1>5, <1>6 DEF FinishedAreListed, Terminal, list
  <2>2. \A job : KindOf(job)' = KindOf(job)
    BY DEF KindOf
  <2>3. Jobs' = Jobs
    BY DEF Jobs
  <2> QED
    BY <1>5, <2>1, <2>2, <2>3 DEF FinishedAreListed
<1>10. \A job \in 1 .. submitted : job \notin DOMAIN jobs' =>
          Len(finished'[KindOf(job)]) >= MaxRetained
  <2> TAKE job \in 1 .. submitted
  <2> HAVE job \notin DOMAIN jobs'
  <2>1. KindOf(job) \in Kinds
    BY <1>1
  <2>2. CASE job \in dropped
    BY <1>2, <1>5, <1>6, <2>2
  <2>3. CASE job \notin dropped
    <3>1. Len(finished[KindOf(job)]) >= MaxRetained
      BY <1>3, <2>3 DEF GoneFromAFullRegistry
    <3> QED
      BY <1>2, <1>5, <2>1, <3>1 DEF list
  <2> QED
    BY <2>2, <2>3
<1>11. GoneFromAFullRegistry'
  <2>1. \A job \in 1 .. submitted' : job \in 1 .. submitted \/ job = new
    BY <1>1
  <2> QED
    BY <1>3, <1>10, <2>1 DEF GoneFromAFullRegistry, KindOf
<1>12. StreamInv'
  <2>1. \A c \in Clients : app # "down" /\ stream[c].pc # "none" => stream[c].job \in 1 .. submitted'
    BY <1>1 DEF StreamInv
  <2>2. StreamsTellTheEnd'
    <3> SUFFICES ASSUME NEW c \in Clients, app # "down", stream[c].pc = "closed",
                        stream[c].saw \notin Terminal
                 PROVE  /\ stream[c].job \notin DOMAIN jobs'
                        /\ Len(finished'[KindOf(stream[c].job)]) >= MaxRetained
      BY DEF StreamsTellTheEnd, KindOf
    <3>1. stream[c].job \in 1 .. submitted /\ stream[c].job \notin DOMAIN jobs
      BY DEF StreamInv, StreamsTellTheEnd
    <3>2. stream[c].job \notin DOMAIN jobs'
      BY <1>1, <1>3, <3>1
    <3> QED
      BY <1>10, <3>1, <3>2
  <2> QED
    BY <2>1, <2>2 DEF StreamInv, StreamStates, Jobs
<1>13. /\ \A job \in DOMAIN jobs : jobs[job].status \notin Terminal => job \in DOMAIN jobs'
       /\ \A job \in DOMAIN jobs \ DOMAIN jobs' : job \in dropped
  BY <1>3, <1>6
<1>14. \A job \in DOMAIN jobs \ DOMAIN jobs' :
          /\ jobs[job].status \in Terminal
          /\ \E i \in DOMAIN finished[KindOf(job)] :
                /\ finished[KindOf(job)][i] = job
                /\ Len(finished[KindOf(job)]) - i >= MaxRetained
  BY <1>5, <1>6, <1>13 DEF list
<1>15. /\ new \in Jobs \ DOMAIN jobs
       /\ new \in DOMAIN jobs' /\ jobs'[new].status = "QUEUED"
       /\ \A job \in DOMAIN jobs' \ {new} : job \in DOMAIN jobs /\ jobs'[job] = jobs[job]
  BY <1>1, <1>3, <1>4
<1> QED
  BY <1>7, <1>8, <1>9, <1>11, <1>12, <1>13, <1>14, <1>15

\* update moves one job that has not finished, forgets none, and lists it
\* when it finishes.
LEMMA UpdateKeeps ==
    ASSUME RegistryInv, StreamInv,
           NEW job \in DOMAIN jobs, NEW status, NEW run \in 0 .. MaxRuns,
           \/ jobs[job].status = "QUEUED" /\ status \in {"RUNNING", "FAILED"}
           \/ jobs[job].status = "RUNNING" /\ status \in Terminal,
           Update(job, status, run), UNCHANGED <<plan, app, submitted, stream>>
    PROVE  /\ RegistryInv' /\ StreamInv'
           /\ DOMAIN jobs' = DOMAIN jobs
           /\ jobs'[job].status = status /\ jobs'[job].run = run
           /\ \A other \in DOMAIN jobs \ {job} : jobs'[other] = jobs[other]
<1> DEFINE kind == KindOf(job)
<1> USE DEF RegistryInv
<1>1. /\ Len(plan) \in Nat /\ Jobs = 1 .. Len(plan) /\ job \in Jobs /\ kind \in Kinds
      /\ jobs[job] \in JobRecords /\ jobs[job].status \notin Terminal
      /\ status \in {"RUNNING"} \cup Terminal
      /\ \A other \in Jobs : KindOf(other) \in Kinds
  BY PlanTypes DEF Submitted, Terminal
<1>2. /\ DOMAIN jobs' = DOMAIN jobs
      /\ jobs'[job] = [status |-> status, revision |-> jobs[job].revision + 1, run |-> run]
      /\ \A other \in DOMAIN jobs \ {job} : jobs'[other] = jobs[other]
      /\ wakes' = wakes \cup {job}
  BY DEF Update
<1>3. jobs[job].revision \in 0 .. 1 /\ (status = "RUNNING" => jobs[job].revision = 0)
  BY <1>1 DEF RevisionsRunWithStatus, Terminal
<1>4. jobs'[job] \in JobRecords
  BY <1>1, <1>2, <1>3 DEF JobRecords
<1>5. Submitted'
  BY <1>2, <1>4 DEF Submitted, JobRecords
<1>6. RevisionsRunWithStatus'
  BY <1>1, <1>2, <1>3 DEF RevisionsRunWithStatus, Terminal
<1>7. /\ \A other : KindOf(other)' = KindOf(other)
      /\ Jobs' = Jobs
  BY DEF KindOf, Jobs
<1>8. /\ FinishedAreListed'
      /\ \A other \in Kinds : Len(finished'[other]) >= Len(finished[other])
  <2>1. finished \in [Kinds -> Seq(Jobs)] /\ \A other \in Kinds : Len(finished[other]) \in Nat
    BY LenProperties DEF FinishedAreListed
  <2>2. CASE status = "RUNNING"
    <3>1. finished' = finished
      BY <2>2 DEF Update, Terminal
    <3>2. {x \in DOMAIN jobs' : jobs'[x].status \in Terminal} =
              {x \in DOMAIN jobs : jobs[x].status \in Terminal}
      BY <1>1, <1>2, <2>2 DEF Terminal
    <3>3. \A other \in Kinds :
             ToSet(finished'[other]) = {x \in DOMAIN jobs' : /\ KindOf(x) = other
                                                             /\ jobs'[x].status \in Terminal}
      BY <3>1, <3>2 DEF FinishedAreListed
    <3>4. FinishedAreListed'
      BY <1>7, <3>1, <3>3 DEF FinishedAreListed
    <3> QED
      BY <2>1, <3>1, <3>4
  <2>3. CASE status \in Terminal
    <3> DEFINE list == finished[kind]
    <3>1. /\ list \in Seq(Jobs) /\ NoRepeats(list) /\ job \notin ToSet(list)
      BY <1>1 DEF FinishedAreListed
    <3>2. /\ Append(list, job) \in Seq(Jobs) /\ NoRepeats(Append(list, job))
          /\ ToSet(Append(list, job)) = ToSet(list) \cup {job}
          /\ Len(Append(list, job)) = Len(list) + 1
      BY <1>1, <3>1, AppendOnce
    <3>3. finished' = [finished EXCEPT ![kind] = Append(list, job)]
      BY <2>3 DEF Update
    <3>4. \A other \in Kinds :
             ToSet(finished'[other]) = {x \in DOMAIN jobs' : /\ KindOf(x) = other
                                                             /\ jobs'[x].status \in Terminal}
      BY <1>1, <1>2, <2>1, <2>3, <3>2, <3>3 DEF FinishedAreListed
    <3>5. finished' \in [Kinds -> Seq(Jobs)] /\ \A other \in Kinds : NoRepeats(finished'[other])
      BY <1>1, <2>1, <3>2, <3>3 DEF FinishedAreListed
    <3>6. \A other \in Kinds : Len(finished'[other]) >= Len(finished[other])
      BY <1>1, <2>1, <3>2, <3>3
    <3> QED
      BY <1>7, <3>4, <3>5, <3>6 DEF FinishedAreListed
  <2> QED
    BY <1>1, <2>2, <2>3
<1>9. \A other \in 1 .. submitted : other \notin DOMAIN jobs' =>
         Len(finished'[KindOf(other)]) >= MaxRetained
  <2> TAKE other \in 1 .. submitted
  <2> HAVE other \notin DOMAIN jobs'
  <2>1. other \in Jobs /\ KindOf(other) \in Kinds
    BY <1>1 DEF Submitted
  <2>2. /\ Len(finished[KindOf(other)]) \in Nat /\ Len(finished'[KindOf(other)]) \in Nat
    BY <1>7, <1>8, <2>1, LenProperties DEF FinishedAreListed
  <2>3. Len(finished[KindOf(other)]) >= MaxRetained
    BY <1>2 DEF GoneFromAFullRegistry
  <2> QED
    BY <1>8, <2>1, <2>2, <2>3, JobsAssumption
<1>10. GoneFromAFullRegistry'
  BY <1>7, <1>9 DEF GoneFromAFullRegistry
<1>11. StreamInv'
  <2>1. StreamsTellTheEnd'
    BY <1>2, <1>7, <1>9 DEF StreamInv, StreamsTellTheEnd
  <2> QED
    BY <1>1, <1>2, <1>7, <2>1 DEF StreamInv, StreamStates
<1> QED
  BY <1>2, <1>5, <1>6, <1>8, <1>10, <1>11

-----------------------------------------------------------------------------
(* What a step leaves alone                                                *)

LEMMA CatalogStands == CatalogInv /\ UNCHANGED catalogVars => CatalogInv'
BY DEF CatalogInv, catalogVars, CatalogTypeOK, NoRunYet, RunsAreOpen, ReturnedIsReturned,
       NothingBeforeIssue, PreregBeforeReplay, RegisteredHasNoFile, UnlinkedIsGone,
       FinishedMeansEvaluated, NoFileIsLost

LEMMA RegistryStands ==
    ASSUME RegistryInv, app' \in {"up", "data", "executor", "down"},
           UNCHANGED <<plan, submitted, jobs, finished>>
    PROVE  RegistryInv'
<1>1. \A job : KindOf(job)' = KindOf(job)
  BY DEF KindOf
<1> QED
  BY <1>1 DEF RegistryInv, Submitted, RevisionsRunWithStatus, FinishedAreListed,
              GoneFromAFullRegistry, JobRecords, Jobs

LEMMA StreamsStand ==
    ASSUME StreamInv, UNCHANGED <<plan, app, submitted, jobs, finished, stream>>,
           wakes' \subseteq wakes
    PROVE  StreamInv'
<1>1. \A job : KindOf(job)' = KindOf(job)
  BY DEF KindOf
<1> QED
  BY <1>1 DEF StreamInv, StreamStates, StreamsTellTheEnd, Jobs

\* The worker's jobs do not mind what happens to finished and to data jobs.
LEMMA WorkStands ==
    ASSUME WorkInv, UNCHANGED <<plan, line, work>>,
           \A job \in DOMAIN jobs : KindOf(job) = "dry" /\ jobs[job].status \notin Terminal =>
               job \in DOMAIN jobs' /\ jobs'[job].status = jobs[job].status
    PROVE  WorkInv'
<1>1. \A job : KindOf(job)' = KindOf(job)
  BY DEF KindOf
<1> QED
  BY <1>1 DEF WorkInv, Jobs, Terminal

\* The tasks do not mind what happens to finished jobs, dry runs and sweeps.
LEMMA TasksStand ==
    ASSUME TaskInv, UNCHANGED <<plan, app, task, gate>>,
           submitted \in Int, submitted' \in Int, submitted <= submitted', Len(plan) \in Nat,
           \A job \in DOMAIN jobs : KindOf(job) = "data" /\ jobs[job].status \notin Terminal =>
               job \in DOMAIN jobs' /\ jobs'[job].status = jobs[job].status
    PROVE  TaskInv'
<1>1. \A job : KindOf(job)' = KindOf(job)
  BY DEF KindOf
<1>2. \A job : CollectorRuns(job)' = CollectorRuns(job)
  BY DEF CollectorRuns
<1>3. Jobs' = Jobs /\ Jobs \subseteq Int
  BY DEF Jobs
<1>4. TasksMatchJobs'
  BY <1>1, <1>3 DEF TaskInv, TasksMatchJobs, Terminal
<1>5. GateHoldsWaiting' /\ OneAtTheGate'
  BY <1>2, <1>3 DEF TaskInv, GateHoldsWaiting, OneAtTheGate
<1> QED
  BY <1>3, <1>4, <1>5 DEF TaskInv

\* A success reported stays true as long as what has returned is left alone.
LEMMA SuccessStands ==
    ASSUME ReportsAreTrue, UNCHANGED plan, work'.first \in {0, work.first},
           \A job \in DOMAIN jobs' :
               \/ job \in DOMAIN jobs /\ jobs'[job] = jobs[job]
               \/ jobs'[job].status # "SUCCEEDED"
               \/ KindOf(job) = "data",
           \A run \in Runs : outcome[run] = "returned" =>
               /\ outcome'[run] = "returned"
               /\ run \in DOMAIN rows' => run \in DOMAIN rows /\ rows'[run] = rows[run]
    PROVE  ReportsAreTrue'
<1>1. \A job : KindOf(job)' = KindOf(job)
  BY DEF KindOf
<1>2. SuccessIsInTheCatalog'
  BY <1>1 DEF ReportsAreTrue, SuccessIsInTheCatalog
<1>3. FirstHasReturned'
  BY DEF ReportsAreTrue, FirstHasReturned
<1> QED
  BY <1>2, <1>3 DEF ReportsAreTrue

-----------------------------------------------------------------------------
(* Engines, sweeps, purges and the command line                            *)

LEMMA JobsStand ==
    ASSUME RegistryInv, StreamInv, WorkInv, TaskInv, UNCHANGED jobVars
    PROVE  RegistryInv' /\ StreamInv' /\ WorkInv' /\ TaskInv'
<1> USE DEF jobVars
<1>1. /\ app \in {"up", "data", "executor", "down"} /\ submitted \in Int
      /\ Len(plan) \in Nat
  BY PlanTypes DEF RegistryInv, Submitted
<1>2. RegistryInv' /\ StreamInv'
  BY <1>1, RegistryStands, StreamsStand
<1>3. WorkInv' /\ TaskInv'
  BY <1>1, WorkStands, TasksStand
<1> QED
  BY <1>2, <1>3

LEMMA CatalogStepKeeps == JobsIInv /\ CatalogStep => JobsIInv'
<1> SUFFICES ASSUME JobsIInv, CatalogStep PROVE JobsIInv'
  OBVIOUS
<1> USE DEF JobsIInv
<1>1. CatalogNext /\ UNCHANGED jobVars
  BY DEF CatalogStep, CatalogNext
<1>2. CatalogInv'
  BY <1>1, CatalogNextKeeps
<1>3. ReportsAreTrue'
  BY <1>1, ReturnedRunsAreLeftAlone, SuccessStands DEF jobVars
<1> QED
  BY <1>1, <1>2, <1>3, JobsStand

LEMMA CommandLineKeeps == JobsIInv /\ CommandLine => JobsIInv'
<1> SUFFICES ASSUME JobsIInv, CommandLine PROVE JobsIInv'
  OBVIOUS
<1> USE DEF JobsIInv
<1>1. /\ UNCHANGED <<clock, issued, rows, files, purge, outcome, early>> /\ UNCHANGED jobVars
      /\ events' \in 0 .. MaxEvents
  BY CatalogAssumption DEF CommandLine, Event, CatalogInv, CatalogTypeOK
<1>2. PICK r \in Runners : engine[r].pc = "off" /\ Starts(r, 1)
  BY DEF CommandLine
<1>3. CatalogInv'
  BY <1>1, <1>2, RunnerFreed
<1>4. ReportsAreTrue'
  BY <1>1, SuccessStands DEF jobVars
<1> QED
  BY <1>1, <1>3, <1>4, JobsStand

-----------------------------------------------------------------------------
(* Dry runs and sweeps                                                     *)

\* A job is submitted into one registry; the other side does not notice.
LEMMA SubmitKeeps == JobsIInv /\ Submit => JobsIInv'
<1> SUFFICES ASSUME JobsIInv, Submit PROVE JobsIInv'
  OBVIOUS
<1> USE DEF JobsIInv
<1> DEFINE new == submitted + 1
<1>1. /\ app = "up" /\ submitted < Len(plan) /\ submitted' = submitted + 1
      /\ RegisterJob(submitted + 1)
      /\ UNCHANGED <<catalogVars, plan, app, work, gate, stream, wakes>>
  BY DEF Submit
<1>2. /\ RegistryInv' /\ StreamInv'
      /\ new \in Jobs \ DOMAIN jobs /\ new \in DOMAIN jobs' /\ jobs'[new].status = "QUEUED"
      /\ \A job \in DOMAIN jobs' \ {new} : job \in DOMAIN jobs /\ jobs'[job] = jobs[job]
      /\ \A job \in DOMAIN jobs : jobs[job].status \notin Terminal => job \in DOMAIN jobs'
  BY <1>1, RegisterJobKeeps
<1>3. \A job \in DOMAIN jobs : jobs[job].status \notin Terminal =>
         job \in DOMAIN jobs' /\ jobs'[job].status = jobs[job].status
  BY <1>2
<1>4. /\ submitted \in Nat /\ Len(plan) \in Nat /\ Jobs = 1 .. Len(plan)
      /\ \A job \in Jobs : KindOf(job) \in Kinds
      /\ DOMAIN jobs \subseteq 1 .. submitted
  BY PlanTypes DEF RegistryInv, Submitted
<1>5. \A job : KindOf(job)' = KindOf(job)
  BY <1>1 DEF KindOf
<1>6. CatalogInv' /\ ReportsAreTrue'
  <2>1. ReportsAreTrue'
    BY <1>1, <1>2, SuccessStands DEF catalogVars
  <2> QED
    BY <1>1, <2>1, CatalogStands
<1>7. CASE KindOf(new) = "dry"
  <2>1. line' = Append(line, new) /\ UNCHANGED task
    BY <1>7 DEF Submit
  <2>2. TaskInv'
    BY <1>1, <1>3, <1>4, <2>1, TasksStand
  <2>3. line \in Seq(Jobs) /\ NoRepeats(line) /\ new \notin ToSet(line)
    BY <1>2 DEF WorkInv
  <2>4. /\ line' \in Seq(Jobs) /\ NoRepeats(line')
        /\ ToSet(line') = ToSet(line) \cup {new}
    BY <1>2, <2>1, <2>3, AppendOnce
  <2>5. WorkInv'
    BY <1>1, <1>2, <1>3, <1>5, <1>7, <2>4 DEF WorkInv, Terminal, Jobs
  <2> QED
    BY <1>2, <1>6, <2>2, <2>5
<1>8. CASE KindOf(new) = "data"
  <2>1. task' = [task EXCEPT ![new] = "new"] /\ UNCHANGED line
    BY <1>8 DEF Submit
  <2>2. WorkInv'
    BY <1>1, <1>3, <2>1, WorkStands
  <2>3. /\ task[new] = "none"
        /\ \A job \in Jobs \ {new} : task'[job] = task[job]
        /\ task'[new] = "new"
        /\ task' \in [Jobs -> {"none", "new", "waiting", "running", "cancelled", "stopping",
                               "done"}]
    BY <1>2, <1>4, <2>1 DEF TaskInv, TasksMatchJobs
  <2>4. TasksMatchJobs'
    <3>1. ASSUME NEW job \in Jobs
          PROVE  /\ task'[job] # "none" => KindOf(job) = "data" /\ job <= submitted'
                 /\ task'[job] \in {"new", "waiting", "cancelled"} =>
                       job \in DOMAIN jobs' /\ jobs'[job].status = "QUEUED"
                 /\ task'[job] \in {"running", "stopping"} =>
                       job \in DOMAIN jobs' /\ jobs'[job].status = "RUNNING"
      <4>1. CASE job = new
        BY <1>1, <1>2, <1>4, <1>8, <2>3, <4>1
      <4>2. CASE job # new
        BY <1>1, <1>3, <1>4, <2>3, <4>2 DEF TaskInv, TasksMatchJobs, Terminal
      <4> QED
        BY <4>1, <4>2
    <3> QED
      BY <1>1, <1>5, <3>1 DEF TasksMatchJobs, Jobs
  <2>5. GateHoldsWaiting' /\ OneAtTheGate'
    <3>1. GateHoldsWaiting'
      <4>1. ToSet(gate) \subseteq Jobs
        BY LenProperties DEF TaskInv, GateHoldsWaiting, ToSet
      <4> QED
        BY <1>1, <2>3, <4>1 DEF TaskInv, GateHoldsWaiting, Jobs
    <3>2. OneAtTheGate'
      BY <1>1, <2>3 DEF TaskInv, OneAtTheGate, CollectorRuns, Jobs
    <3> QED
      BY <3>1, <3>2
  <2>6. TaskInv'
    BY <1>1, <2>3, <2>4, <2>5 DEF TaskInv, Jobs
  <2> QED
    BY <1>2, <1>6, <2>2, <2>6
<1> QED
  BY <1>2, <1>4, <1>7, <1>8 DEF Kinds

\* The worker takes the head of the queue, and no other job changes.
LEMMA TakeJobKeeps == JobsIInv /\ TakeJob => JobsIInv'
<1> SUFFICES ASSUME JobsIInv, TakeJob PROVE JobsIInv'
  OBVIOUS
<1> USE DEF JobsIInv
<1> DEFINE job == Head(line)
<1>1. /\ line # <<>> /\ line' = Tail(line) /\ work'.job = job
      /\ work' \in [job : {job}, owed : {1, SweepRuns}, first : {0}]
      /\ Starts(Worker, 1) \/ Starts(Worker, 2)
      /\ Update(job, "RUNNING", 0)
      /\ UNCHANGED <<clock, issued, rows, files, purge, outcome, early, events,
                     plan, app, submitted, task, gate, stream>>
  BY DEF TakeJob, NoWork
<1>2. /\ job \in Jobs /\ job \in ToSet(line)
      /\ line' \in Seq(Jobs) /\ NoRepeats(line') /\ ToSet(line') = ToSet(line) \ {job}
  BY <1>1, TailOnce DEF WorkInv
<1>3. job \in DOMAIN jobs /\ jobs[job].status = "QUEUED" /\ KindOf(job) = "dry"
  BY <1>2 DEF WorkInv
<1>4. /\ RegistryInv' /\ StreamInv' /\ DOMAIN jobs' = DOMAIN jobs
      /\ jobs'[job].status = "RUNNING"
      /\ \A other \in DOMAIN jobs \ {job} : jobs'[other] = jobs[other]
  <2>1. 0 \in 0 .. MaxRuns
    BY CatalogAssumption
  <2> QED
    BY <1>1, <1>3, <2>1, UpdateKeeps
<1>5. /\ submitted \in Int /\ Len(plan) \in Nat
      /\ \A other : KindOf(other)' = KindOf(other)
  BY <1>1, PlanTypes DEF RegistryInv, Submitted, KindOf
<1>6. TaskInv'
  BY <1>1, <1>3, <1>4, <1>5, TasksStand
<1>7. WorkInv'
  <2>1. work' \in [job : Jobs \cup {0}, owed : 0 .. SweepRuns, first : 0 .. MaxRuns]
    BY <1>1, <1>2, CatalogAssumption, JobsAssumption
  <2> QED
    BY <1>1, <1>2, <1>3, <1>4, <1>5, <2>1 DEF WorkInv, Jobs
<1>8. ReportsAreTrue'
  <2>1. work'.first = 0
    BY <1>1
  <2> QED
    BY <1>1, <1>4, <2>1, SuccessStands
<1>9. CatalogInv'
  <2>1. engine[Worker].pc \in {"off", "returned", "raised"}
    BY <1>1 DEF Starts
  <2>2. events' \in 0 .. MaxEvents
    BY <1>1 DEF CatalogInv, CatalogTypeOK
  <2> QED
    BY <1>1, <2>1, <2>2, RunnerFreed, JobsAssumption
<1> QED
  BY <1>4, <1>6, <1>7, <1>8, <1>9

\* The job in hand ends, one way or the other.
LEMMA FinishJobKeeps ==
    ASSUME JobsIInv, work.job # 0, NEW status \in Terminal, NEW run \in 0 .. MaxRuns,
           FinishJob(status, run), UNCHANGED <<plan, app, submitted, line, task, gate, stream>>
    PROVE  /\ RegistryInv' /\ StreamInv' /\ WorkInv' /\ TaskInv'
           /\ work.job \in DOMAIN jobs /\ KindOf(work.job) = "dry"
           /\ DOMAIN jobs' = DOMAIN jobs
           /\ jobs'[work.job].status = status /\ jobs'[work.job].run = run
           /\ \A other \in DOMAIN jobs \ {work.job} : jobs'[other] = jobs[other]
           /\ work'.first = 0
<1> USE DEF JobsIInv
<1>1. /\ work.job \in DOMAIN jobs /\ KindOf(work.job) = "dry"
      /\ jobs[work.job].status = "RUNNING"
  BY DEF WorkInv
<1>2. /\ RegistryInv' /\ StreamInv' /\ DOMAIN jobs' = DOMAIN jobs
      /\ jobs'[work.job].status = status /\ jobs'[work.job].run = run
      /\ \A other \in DOMAIN jobs \ {work.job} : jobs'[other] = jobs[other]
  BY <1>1, UpdateKeeps DEF FinishJob
<1>3. /\ submitted \in Int /\ Len(plan) \in Nat
      /\ \A other : KindOf(other)' = KindOf(other)
  BY PlanTypes DEF RegistryInv, Submitted, KindOf
<1>4. TaskInv'
  BY <1>1, <1>2, <1>3, TasksStand
<1>5. WorkInv'
  <2>1. work' = [job |-> 0, owed |-> 0, first |-> 0]
    BY DEF FinishJob, NoWork
  <2>2. work.job \notin ToSet(line)
    BY <1>1 DEF WorkInv
  <2>3. /\ work' \in [job : Jobs \cup {0}, owed : 0 .. SweepRuns, first : 0 .. MaxRuns]
        /\ work'.job = 0
    <3>1. 0 \in 0 .. SweepRuns /\ 0 \in 0 .. MaxRuns
      BY CatalogAssumption, JobsAssumption
    <3> QED
      BY <2>1, <3>1
  <2> QED
    BY <1>2, <1>3, <2>2, <2>3 DEF WorkInv, Jobs
<1>6. work'.first = 0
  BY DEF FinishJob, NoWork
<1> QED
  BY <1>1, <1>2, <1>4, <1>5, <1>6

\* A dry run or a grid that succeeds names a run that has returned, and a
\* sweep one whose row has got its aggregate.
LEMMA JobGoesOnKeeps == JobsIInv /\ JobGoesOn => JobsIInv'
<1> SUFFICES ASSUME JobsIInv, JobGoesOn PROVE JobsIInv'
  OBVIOUS
<1> USE DEF JobsIInv
<1> DEFINE last == engine[Worker].run
           run == Representative
<1>1. /\ work.job # 0 /\ engine[Worker].pc = "returned" /\ Worker \in Runners
      /\ UNCHANGED <<clock, issued, files, purge, outcome, early, events,
                     plan, app, submitted, line, task, gate, stream>>
  BY JobsAssumption DEF JobGoesOn
<1>2. /\ last \in Runs /\ outcome[last] = "returned"
      /\ run \in Runs /\ outcome[run] = "returned" /\ run \in 0 .. MaxRuns /\ 0 \in 0 .. MaxRuns
      /\ run \in DOMAIN rows => rows[run].status = "EVALUATED" /\ rows[run].summary
      /\ events \in 0 .. MaxEvents
  <2>1. last \in 1 .. issued /\ outcome[last] = "returned"
    BY <1>1 DEF CatalogInv, ReturnedIsReturned
  <2>2. last \in Runs
    BY <2>1, CatalogAssumption DEF CatalogInv, CatalogTypeOK, Runs
  <2>3. run \in Runs /\ outcome[run] = "returned"
    BY <2>1, <2>2 DEF Representative, ReportsAreTrue, FirstHasReturned
  <2> HIDE DEF run
  <2> QED
    BY <2>1, <2>2, <2>3, CatalogAssumption DEF CatalogInv, CatalogTypeOK, FinishedMeansEvaluated, Runs
<1> HIDE DEF run
<1>3. \A job : KindOf(job)' = KindOf(job)
  BY <1>1 DEF KindOf
<1>4. CASE /\ work.owed > 1
           /\ work' = [work EXCEPT !.owed = @ - 1, !.first = IF @ = 0 THEN last ELSE @]
           /\ Starts(Worker, 1) /\ UNCHANGED <<rows, jobs, finished, wakes>>
  <2>1. CatalogInv'
    BY <1>1, <1>2, <1>4, RunnerFreed
  <2>2. /\ work' \in [job : Jobs \cup {0}, owed : 0 .. SweepRuns, first : 0 .. MaxRuns]
        /\ work'.job = work.job /\ work'.first \in {last, work.first}
    <3>1. last \in 0 .. MaxRuns
      BY <1>2 DEF Runs
    <3>2. work \in [job : Jobs \cup {0}, owed : 0 .. SweepRuns, first : 0 .. MaxRuns]
      BY DEF WorkInv
    <3>3. work.owed - 1 \in 0 .. SweepRuns
      BY <1>4, <3>2, JobsAssumption
    <3>4. PICK first \in {last, work.first} :
             work' = [work EXCEPT !.owed = work.owed - 1, !.first = first]
      BY <1>4
    <3> QED
      BY <3>1, <3>2, <3>3, <3>4
  <2>3. WorkInv'
    BY <1>1, <1>3, <1>4, <2>2 DEF WorkInv, Jobs
  <2>4. /\ app \in {"up", "data", "executor", "down"} /\ submitted \in Int
        /\ Len(plan) \in Nat
    BY PlanTypes DEF RegistryInv, Submitted
  <2>5. RegistryInv' /\ StreamInv' /\ TaskInv'
    BY <1>1, <1>4, <2>4, RegistryStands, StreamsStand, TasksStand
  <2>6. ReportsAreTrue'
    <3>1. SuccessIsInTheCatalog'
      BY <1>1, <1>3, <1>4 DEF ReportsAreTrue, SuccessIsInTheCatalog
    <3>2. FirstHasReturned'
      BY <1>1, <1>2, <2>2 DEF ReportsAreTrue, FirstHasReturned
    <3> QED
      BY <3>1, <3>2 DEF ReportsAreTrue
  <2> QED
    BY <2>1, <2>3, <2>5, <2>6
<1>5. CASE /\ plan[work.job] # "sweep" /\ FinishJob("SUCCEEDED", run)
           /\ Moves(Worker, "off") /\ UNCHANGED rows
  <2>1. /\ RegistryInv' /\ StreamInv' /\ WorkInv' /\ TaskInv'
        /\ DOMAIN jobs' = DOMAIN jobs /\ jobs'[work.job].run = run
        /\ \A other \in DOMAIN jobs \ {work.job} : jobs'[other] = jobs[other]
        /\ work'.first = 0
    BY <1>1, <1>2, <1>5, FinishJobKeeps DEF Terminal
  <2>2. ReportsAreTrue'
    BY <1>1, <1>2, <1>3, <1>5, <2>1 DEF ReportsAreTrue, SuccessIsInTheCatalog, FirstHasReturned
  <2>3. CatalogInv'
    BY <1>1, <1>2, <1>5, RunnerFreed
  <2> QED
    BY <2>1, <2>2, <2>3
<1>6. CASE /\ plan[work.job] = "sweep" /\ AggregateFinds(run)
           /\ rows' = [rows EXCEPT ![run].aggregate = TRUE]
           /\ FinishJob("SUCCEEDED", run) /\ Moves(Worker, "off")
  <2>1. /\ RegistryInv' /\ StreamInv' /\ WorkInv' /\ TaskInv'
        /\ DOMAIN jobs' = DOMAIN jobs /\ jobs'[work.job].run = run
        /\ \A other \in DOMAIN jobs \ {work.job} : jobs'[other] = jobs[other]
        /\ work'.first = 0
    BY <1>1, <1>2, <1>6, FinishJobKeeps DEF Terminal
  <2>2. run \in DOMAIN rows /\ rows' = [rows EXCEPT ![run].aggregate = TRUE]
    BY <1>6 DEF AggregateFinds
  <2>3. /\ DOMAIN rows' = DOMAIN rows
        /\ \A other \in DOMAIN rows \ {run} : rows'[other] = rows[other]
        /\ rows'[run].status = rows[run].status /\ rows'[run].summary = rows[run].summary
        /\ rows'[run].aggregate
    <3>1. rows[run] \in RowRecords
      BY <2>2 DEF CatalogInv, CatalogTypeOK
    <3>2. /\ [rows[run] EXCEPT !.aggregate = TRUE].status = rows[run].status
          /\ [rows[run] EXCEPT !.aggregate = TRUE].summary = rows[run].summary
          /\ [rows[run] EXCEPT !.aggregate = TRUE].aggregate
      BY <3>1 DEF RowRecords
    <3> QED
      BY <2>2, <3>2
  <2>4. ReportsAreTrue'
    BY <1>1, <1>2, <1>3, <2>1, <2>2, <2>3
    DEF ReportsAreTrue, SuccessIsInTheCatalog, FirstHasReturned
  <2>5. CatalogInv'
    BY <1>1, <1>2, <1>6, <2>2, RunnerFreed
  <2> QED
    BY <2>1, <2>4, <2>5
<1>7. CASE FinishJob("FAILED", 0) /\ UNCHANGED rows /\ Moves(Worker, "off")
  <2>1. /\ RegistryInv' /\ StreamInv' /\ WorkInv' /\ TaskInv'
        /\ DOMAIN jobs' = DOMAIN jobs /\ jobs'[work.job].status = "FAILED"
        /\ \A other \in DOMAIN jobs \ {work.job} : jobs'[other] = jobs[other]
        /\ work'.first = 0
    BY <1>1, <1>2, <1>7, FinishJobKeeps DEF Terminal
  <2>2. ReportsAreTrue'
    BY <1>1, <1>7, <2>1, SuccessStands
  <2>3. CatalogInv'
    BY <1>1, <1>2, <1>7, RunnerFreed
  <2> QED
    BY <2>1, <2>2, <2>3
<1> QED
  BY <1>4, <1>5, <1>6, <1>7 DEF JobGoesOn, run

LEMMA JobFailsKeeps == JobsIInv /\ JobFails => JobsIInv'
<1> SUFFICES ASSUME JobsIInv, JobFails PROVE JobsIInv'
  OBVIOUS
<1> USE DEF JobsIInv
<1>1. /\ work.job # 0 /\ engine[Worker].pc = "raised" /\ Worker \in Runners
      /\ FinishJob("FAILED", 0) /\ Moves(Worker, "off")
      /\ UNCHANGED <<clock, issued, rows, files, purge, outcome, early, events,
                     plan, app, submitted, line, task, gate, stream>>
  BY JobsAssumption DEF JobFails
<1>2. 0 \in 0 .. MaxRuns /\ events \in 0 .. MaxEvents
  BY CatalogAssumption DEF CatalogInv, CatalogTypeOK
<1>3. /\ RegistryInv' /\ StreamInv' /\ WorkInv' /\ TaskInv'
      /\ DOMAIN jobs' = DOMAIN jobs /\ jobs'[work.job].status = "FAILED"
      /\ \A other \in DOMAIN jobs \ {work.job} : jobs'[other] = jobs[other]
      /\ work'.first = 0
  BY <1>1, <1>2, FinishJobKeeps DEF Terminal
<1>4. ReportsAreTrue'
  BY <1>1, <1>3, SuccessStands
<1>5. CatalogInv'
  BY <1>1, <1>2, RunnerFreed
<1> QED
  BY <1>3, <1>4, <1>5

-----------------------------------------------------------------------------
(* Data jobs                                                               *)

\* What a step of a task leaves alone.
LEMMA TaskStepKeeps ==
    ASSUME JobsIInv, TaskInv', RegistryInv', StreamInv',
           UNCHANGED <<catalogVars, plan, app, submitted, line, work, stream>>,
           \/ UNCHANGED <<jobs, finished, wakes>>
           \/ \E job \in DOMAIN jobs :
                 /\ KindOf(job) = "data" /\ DOMAIN jobs' = DOMAIN jobs
                 /\ \A other \in DOMAIN jobs \ {job} : jobs'[other] = jobs[other]
    PROVE  JobsIInv'
<1> USE DEF JobsIInv
<1>1. WorkInv'
  BY WorkStands
<1>2. CatalogInv'
  BY CatalogStands
<1>3. ReportsAreTrue'
  BY SuccessStands DEF catalogVars
<1> QED
  BY <1>1, <1>2, <1>3

\* A task that starts goes to the end of the gate, where it is not yet.
LEMMA StartTaskKeeps ==
    ASSUME JobsIInv, NEW job \in Jobs, StartTask(job)
    PROVE  JobsIInv'
<1> USE DEF JobsIInv
<1>1. /\ task[job] = "new" /\ task' = [task EXCEPT ![job] = "waiting"]
      /\ gate' = Append(gate, job)
      /\ UNCHANGED <<catalogVars, plan, app, submitted, jobs, finished, line, work, stream, wakes>>
  BY DEF StartTask
<1>2. /\ task' \in [Jobs -> {"none", "new", "waiting", "running", "cancelled", "stopping",
                             "done"}]
      /\ task'[job] = "waiting" /\ \A other \in Jobs \ {job} : task'[other] = task[other]
      /\ \A other \in Jobs : CollectorRuns(other)' = CollectorRuns(other)
  BY <1>1 DEF TaskInv, CollectorRuns
<1>3. /\ gate' \in Seq(Jobs) /\ NoRepeats(gate') /\ ToSet(gate') = ToSet(gate) \cup {job}
  <2>1. job \notin ToSet(gate) /\ gate \in Seq(Jobs) /\ NoRepeats(gate)
    BY <1>1 DEF TaskInv, GateHoldsWaiting
  <2> QED
    BY <1>1, <2>1, AppendOnce
<1>4. ToSet(gate) \subseteq Jobs
  BY LenProperties DEF TaskInv, GateHoldsWaiting, ToSet
<1>5. \A other : KindOf(other)' = KindOf(other)
  BY <1>1 DEF KindOf
<1>6. TasksMatchJobs'
  BY <1>1, <1>2, <1>5 DEF TaskInv, TasksMatchJobs, Jobs
<1>7. GateHoldsWaiting'
  BY <1>1, <1>2, <1>3, <1>4 DEF TaskInv, GateHoldsWaiting, Jobs
<1>8. OneAtTheGate'
  BY <1>1, <1>2 DEF TaskInv, OneAtTheGate, Jobs
<1>9. RegistryInv' /\ StreamInv'
  <2>1. app \in {"up", "data", "executor", "down"}
    BY DEF RegistryInv, Submitted
  <2> QED
    BY <1>1, <2>1, RegistryStands, StreamsStand
<1> QED
  BY <1>1, <1>2, <1>6, <1>7, <1>8, <1>9, TaskStepKeeps DEF TaskInv, Jobs

\* The job at the head of the gate enters a gate that is free, while the
\* application is up: no process of a cancelled job can be left beside it.
LEMMA EnterGateKeeps ==
    ASSUME JobsIInv, NEW job \in Jobs, EnterGate(job)
    PROVE  JobsIInv'
<1> USE DEF JobsIInv
<1>1. /\ task[job] = "waiting" /\ gate # <<>> /\ Head(gate) = job /\ GateFree
      /\ gate' = Tail(gate) /\ task' = [task EXCEPT ![job] = "running"]
      /\ Update(job, "RUNNING", 0)
      /\ UNCHANGED <<catalogVars, plan, app, submitted, line, work, stream>>
  BY DEF EnterGate
<1>2. /\ job \in DOMAIN jobs /\ jobs[job].status = "QUEUED" /\ KindOf(job) = "data"
      /\ job <= submitted
  BY <1>1 DEF TaskInv, TasksMatchJobs
<1>3. /\ RegistryInv' /\ StreamInv' /\ DOMAIN jobs' = DOMAIN jobs
      /\ jobs'[job].status = "RUNNING"
      /\ \A other \in DOMAIN jobs \ {job} : jobs'[other] = jobs[other]
  <2>1. 0 \in 0 .. MaxRuns
    BY CatalogAssumption
  <2> QED
    BY <1>1, <1>2, <2>1, UpdateKeeps
<1>4. /\ task' \in [Jobs -> {"none", "new", "waiting", "running", "cancelled", "stopping",
                             "done"}]
      /\ task'[job] = "running" /\ \A other \in Jobs \ {job} : task'[other] = task[other]
  BY <1>1 DEF TaskInv
<1>5. /\ gate' \in Seq(Jobs) /\ NoRepeats(gate') /\ ToSet(gate') = ToSet(gate) \ {job}
      /\ ToSet(gate) \subseteq Jobs
  <2>1. gate \in Seq(Jobs) /\ NoRepeats(gate)
    BY DEF TaskInv, GateHoldsWaiting
  <2>2. ToSet(gate) \subseteq Jobs
    BY <2>1, LenProperties DEF ToSet
  <2> QED
    BY <1>1, <2>1, <2>2, TailOnce
<1>6. \A other : KindOf(other)' = KindOf(other)
  BY <1>1 DEF KindOf
<1>7. TasksMatchJobs'
  BY <1>1, <1>2, <1>3, <1>4, <1>6 DEF TaskInv, TasksMatchJobs, Jobs
<1>8. GateHoldsWaiting'
  BY <1>1, <1>4, <1>5 DEF TaskInv, GateHoldsWaiting, Jobs
<1>9. OneAtTheGate'
  <2>1. app = "up"
    BY <1>1 DEF TaskInv, OneAtTheGate
  <2>2. \A other \in Jobs : ~CollectorRuns(other)
    <3>1. \A other \in Jobs : task[other] = "running" => other \in DataJobs
      BY DEF TaskInv, TasksMatchJobs, KindOf, DataJobs
    <3> QED
      BY <1>1, <2>1, <3>1 DEF TaskInv, OneAtTheGate, CollectorRuns, GateFree
  <2>3. \A other \in Jobs : CollectorRuns(other)' => other = job
    BY <1>4, <2>2 DEF CollectorRuns
  <2> QED
    BY <1>1, <1>4, <2>1, <2>3 DEF TaskInv, OneAtTheGate, Jobs
<1> QED
  BY <1>1, <1>2, <1>3, <1>4, <1>7, <1>8, <1>9, TaskStepKeeps DEF TaskInv, Jobs

\* A task is done when its job is.
LEMMA FinishDataJobKeeps ==
    ASSUME JobsIInv, NEW job \in Jobs, FinishDataJob(job)
    PROVE  JobsIInv'
<1> USE DEF JobsIInv
<1>1. /\ task[job] \in {"running", "cancelled", "stopping"}
      /\ task' = [task EXCEPT ![job] = "done"]
      /\ UNCHANGED <<catalogVars, plan, app, submitted, line, work, gate, stream>>
  BY DEF FinishDataJob
<1>2. PICK status \in Terminal : /\ Update(job, status, 0)
                                 /\ task[job] # "running" => status = "FAILED"
  BY DEF FinishDataJob, Terminal
<1>3. /\ job \in DOMAIN jobs /\ KindOf(job) = "data" /\ job <= submitted
      /\ \/ jobs[job].status = "QUEUED" /\ status = "FAILED"
         \/ jobs[job].status = "RUNNING" /\ status \in Terminal
  BY <1>1, <1>2 DEF TaskInv, TasksMatchJobs
<1>4. /\ RegistryInv' /\ StreamInv' /\ DOMAIN jobs' = DOMAIN jobs
      /\ \A other \in DOMAIN jobs \ {job} : jobs'[other] = jobs[other]
  <2>1. 0 \in 0 .. MaxRuns
    BY CatalogAssumption
  <2> QED
    BY <1>1, <1>2, <1>3, <2>1, UpdateKeeps
<1>5. /\ task' \in [Jobs -> {"none", "new", "waiting", "running", "cancelled", "stopping",
                             "done"}]
      /\ task'[job] = "done" /\ \A other \in Jobs \ {job} : task'[other] = task[other]
  BY <1>1 DEF TaskInv
<1>6. \A other : KindOf(other)' = KindOf(other)
  BY <1>1 DEF KindOf
<1>7. TasksMatchJobs'
  BY <1>1, <1>3, <1>4, <1>5, <1>6 DEF TaskInv, TasksMatchJobs, Jobs
<1>8. GateHoldsWaiting'
  <2>1. job \notin ToSet(gate) /\ ToSet(gate) \subseteq Jobs
    BY <1>1, LenProperties DEF TaskInv, GateHoldsWaiting, ToSet
  <2> QED
    BY <1>1, <1>5, <2>1 DEF TaskInv, GateHoldsWaiting, Jobs
<1>9. OneAtTheGate'
  BY <1>1, <1>5 DEF TaskInv, OneAtTheGate, CollectorRuns, Jobs
<1> QED
  BY <1>1, <1>3, <1>4, <1>5, <1>7, <1>8, <1>9, TaskStepKeeps DEF TaskInv, Jobs

-----------------------------------------------------------------------------
(* The end of the lifespan                                                 *)

\* Whoever runs a process at shutdown is the one who goes on running one.
LEMMA ShutdownDataJobsKeeps == JobsIInv /\ ShutdownDataJobs => JobsIInv'
<1> SUFFICES ASSUME JobsIInv, ShutdownDataJobs PROVE JobsIInv'
  OBVIOUS
<1> USE DEF JobsIInv
<1>1. /\ app = "up" /\ app' = "data" /\ gate' = <<>>
      /\ events' \in 0 .. MaxEvents
      /\ UNCHANGED <<clock, issued, rows, files, engine, purge, outcome, early>>
      /\ UNCHANGED <<plan, submitted, jobs, finished, line, work, stream, wakes>>
  BY CatalogAssumption DEF ShutdownDataJobs, Event, CatalogInv, CatalogTypeOK
<1>2. \A job \in Jobs :
         task'[job] = IF task[job] = "new" THEN "done"
                      ELSE IF task[job] = "waiting" THEN "cancelled"
                      ELSE IF task[job] = "running" THEN "stopping"
                      ELSE task[job]
  BY DEF ShutdownDataJobs, Cancelled
<1>3. task' \in [Jobs -> {"none", "new", "waiting", "running", "cancelled", "stopping", "done"}]
  <2>1. \A job \in Jobs : task'[job] \in {"none", "new", "waiting", "running", "cancelled",
                                          "stopping", "done"}
    BY <1>2 DEF TaskInv
  <2> QED
    BY <2>1 DEF ShutdownDataJobs
<1>4. \A other : KindOf(other)' = KindOf(other)
  BY <1>1 DEF KindOf
<1>5. TasksMatchJobs'
  BY <1>1, <1>2, <1>4 DEF TaskInv, TasksMatchJobs, Jobs
<1>6. GateHoldsWaiting'
  <2>1. <<>> \in Seq(Jobs) /\ NoRepeats(<<>>) /\ ToSet(<<>>) = {}
    BY NoElements
  <2> QED
    BY <1>1, <2>1 DEF GateHoldsWaiting, Jobs
<1>7. OneAtTheGate'
  <2>1. \A job \in Jobs : CollectorRuns(job)' <=> CollectorRuns(job)
    BY <1>1, <1>2 DEF TaskInv, OneAtTheGate, CollectorRuns
  <2>2. \A job \in Jobs : task'[job] \notin {"new", "waiting", "running"}
    BY <1>2
  <2> QED
    BY <1>1, <2>1, <2>2 DEF TaskInv, OneAtTheGate, Jobs
<1>8. RegistryInv' /\ WorkInv' /\ ReportsAreTrue'
  BY <1>1, RegistryStands, WorkStands, SuccessStands
<1>9. StreamInv'
  BY <1>1, <1>4 DEF StreamInv, StreamStates, StreamsTellTheEnd, Jobs
<1>10. CatalogInv'
  BY <1>1 DEF CatalogInv, CatalogTypeOK, NoRunYet, RunsAreOpen, ReturnedIsReturned,
       NothingBeforeIssue, PreregBeforeReplay, RegisteredHasNoFile, UnlinkedIsGone,
       FinishedMeansEvaluated, NoFileIsLost
<1> QED
  BY <1>1, <1>3, <1>5, <1>6, <1>7, <1>8, <1>9, <1>10 DEF TaskInv, Jobs

LEMMA ShutdownExecutorKeeps == JobsIInv /\ ShutdownExecutor => JobsIInv'
<1> SUFFICES ASSUME JobsIInv, ShutdownExecutor PROVE JobsIInv'
  OBVIOUS
<1> USE DEF JobsIInv
<1>1. /\ app = "data" /\ app' = "executor" /\ line' = <<>>
      /\ UNCHANGED <<catalogVars, plan, submitted, jobs, finished, work, task, gate, stream, wakes>>
  BY DEF ShutdownExecutor
<1>2. \A other : KindOf(other)' = KindOf(other) /\ CollectorRuns(other)' = CollectorRuns(other)
  BY <1>1 DEF KindOf, CollectorRuns
<1>3. WorkInv'
  <2>1. <<>> \in Seq(Jobs) /\ NoRepeats(<<>>) /\ ToSet(<<>>) = {}
    BY NoElements
  <2> QED
    BY <1>1, <1>2, <2>1 DEF WorkInv, Jobs
<1>4. TaskInv'
  BY <1>1, <1>2 DEF TaskInv, TasksMatchJobs, GateHoldsWaiting, OneAtTheGate, Jobs
<1>5. StreamInv'
  BY <1>1, <1>2 DEF StreamInv, StreamStates, StreamsTellTheEnd, Jobs
<1>6. RegistryInv' /\ CatalogInv' /\ ReportsAreTrue'
  BY <1>1, RegistryStands, CatalogStands, SuccessStands DEF catalogVars
<1> QED
  BY <1>3, <1>4, <1>5, <1>6

LEMMA GoDownKeeps == JobsIInv /\ GoDown => JobsIInv'
<1> SUFFICES ASSUME JobsIInv, GoDown PROVE JobsIInv'
  OBVIOUS
<1> USE DEF JobsIInv
<1>1. /\ app = "executor" /\ app' = "down"
      /\ stream' = [c \in Clients |-> [stream[c] EXCEPT !.pc = "closed"]]
      /\ UNCHANGED <<catalogVars, plan, submitted, jobs, finished, line, work, task, gate, wakes>>
  BY DEF GoDown
<1>2. \A other : KindOf(other)' = KindOf(other) /\ CollectorRuns(other)' = CollectorRuns(other)
  BY <1>1 DEF KindOf, CollectorRuns
<1>3. TaskInv'
  BY <1>1, <1>2 DEF TaskInv, TasksMatchJobs, GateHoldsWaiting, OneAtTheGate, Jobs
<1>4. StreamInv'
  <2>1. \A c \in Clients : stream'[c] \in StreamStates /\ stream'[c].pc = "closed"
    BY <1>1 DEF StreamInv, StreamStates
  <2>2. stream' \in [Clients -> StreamStates']
    BY <1>1, <2>1 DEF StreamStates, Jobs
  <2> QED
    BY <1>1, <2>1, <2>2 DEF StreamInv, StreamsTellTheEnd, Jobs
<1>5. RegistryInv' /\ WorkInv' /\ CatalogInv' /\ ReportsAreTrue'
  BY <1>1, RegistryStands, WorkStands, CatalogStands, SuccessStands DEF catalogVars
<1> QED
  BY <1>3, <1>4, <1>5

-----------------------------------------------------------------------------
(* The event streams                                                       *)

\* A step of a stream is harmless when each stream it leaves behind follows a
\* job there is or was, and each it closes has told the end or lost its job.
LEMMA StreamStepKeeps ==
    ASSUME JobsIInv, app # "down",
           UNCHANGED <<clock, issued, rows, files, engine, purge, outcome, early>>,
           UNCHANGED <<plan, app, submitted, jobs, finished, line, work, task, gate>>,
           events' \in 0 .. MaxEvents, wakes' \subseteq wakes,
           stream' \in [Clients -> StreamStates],
           \A c \in Clients :
               \/ stream'[c] = stream[c]
               \/ /\ stream'[c].job \in 1 .. submitted
                  /\ \/ stream'[c].pc # "closed"
                     \/ stream'[c].saw \in Terminal
                     \/ stream'[c].job \notin DOMAIN jobs
    PROVE  JobsIInv'
<1> USE DEF JobsIInv
<1>1. \A other : KindOf(other)' = KindOf(other)
  BY DEF KindOf
<1>2. CatalogInv'
  BY DEF CatalogInv, CatalogTypeOK, NoRunYet, RunsAreOpen, ReturnedIsReturned,
       NothingBeforeIssue, PreregBeforeReplay, RegisteredHasNoFile, UnlinkedIsGone,
       FinishedMeansEvaluated, NoFileIsLost
<1>3. RegistryInv' /\ WorkInv' /\ TaskInv' /\ ReportsAreTrue'
  <2>1. /\ app \in {"up", "data", "executor", "down"} /\ submitted \in Int /\ Len(plan) \in Nat
    BY PlanTypes DEF RegistryInv, Submitted
  <2> QED
    BY <2>1, RegistryStands, WorkStands, TasksStand, SuccessStands
<1>4. StreamsTellTheEnd'
  <2> SUFFICES ASSUME NEW c \in Clients, stream'[c].pc = "closed", stream'[c].saw \notin Terminal
               PROVE  /\ stream'[c].job \notin DOMAIN jobs
                      /\ Len(finished[KindOf(stream'[c].job)]) >= MaxRetained
    BY <1>1 DEF StreamsTellTheEnd
  <2>1. CASE stream'[c] = stream[c]
    BY <2>1 DEF StreamInv, StreamsTellTheEnd
  <2>2. CASE stream'[c].job \in 1 .. submitted /\ stream'[c].job \notin DOMAIN jobs
    BY <2>2 DEF RegistryInv, GoneFromAFullRegistry
  <2> QED
    BY <2>1, <2>2
<1>5. StreamInv'
  BY <1>4 DEF StreamInv, StreamStates, Jobs
<1> QED
  BY <1>2, <1>3, <1>5

LEMMA FollowKeeps ==
    ASSUME JobsIInv, NEW c \in Clients, Follow(c)
    PROVE  JobsIInv'
<1> USE DEF JobsIInv
<1>1. /\ app = "up"
      /\ UNCHANGED <<clock, issued, rows, files, engine, purge, outcome, early>>
      /\ UNCHANGED <<plan, app, submitted, jobs, finished, line, work, task, gate, wakes>>
  BY DEF Follow
<1>6. events' \in 0 .. MaxEvents
  <2>1. events < MaxEvents /\ events' = events + 1
    BY DEF Follow, Event
  <2> QED
    BY <2>1, CatalogAssumption DEF CatalogInv, CatalogTypeOK
<1>2. PICK job \in DOMAIN jobs :
         stream' = [stream EXCEPT ![c] =
             [pc |-> "look", job |-> job, revision |-> -1, saw |-> ""]]
  BY DEF Follow
<1>3. job \in 1 .. submitted /\ job \in Jobs
  BY PlanTypes DEF RegistryInv, Submitted
<1>4. [pc |-> "look", job |-> job, revision |-> -1, saw |-> ""] \in StreamStates
  BY <1>3 DEF StreamStates
<1>5. /\ stream' \in [Clients -> StreamStates]
      /\ \A d \in Clients : \/ stream'[d] = stream[d]
                            \/ stream'[d].job \in 1 .. submitted /\ stream'[d].pc # "closed"
  BY <1>2, <1>3, <1>4 DEF StreamInv
<1> QED
  BY <1>1, <1>5, <1>6, StreamStepKeeps

\* A stream that moves on without having read anything keeps its job.
LEMMA StreamToKeeps ==
    ASSUME JobsIInv, NEW c \in Clients, stream[c].pc \in {"look", "arm", "wait"},
           NEW pc \in {"look", "arm", "wait", "closed"}, StreamTo(c, pc),
           pc = "closed" => stream[c].job \notin DOMAIN jobs,
           UNCHANGED <<catalogVars, plan, app, submitted, jobs, finished, line, work, task,
                       gate, wakes>>
    PROVE  JobsIInv'
<1> USE DEF JobsIInv
<1>1. app # "down" /\ stream[c].job \in 1 .. submitted /\ stream[c] \in StreamStates
  BY DEF StreamInv
<1>2. /\ [stream[c] EXCEPT !.pc = pc] \in StreamStates
      /\ [stream[c] EXCEPT !.pc = pc].pc = pc
      /\ [stream[c] EXCEPT !.pc = pc].job = stream[c].job
  BY <1>1 DEF StreamStates
<1>3. stream' = [stream EXCEPT ![c] = [stream[c] EXCEPT !.pc = pc]]
  BY DEF StreamTo, StreamInv
<1>4. /\ stream' \in [Clients -> StreamStates]
      /\ \A d \in Clients :
            \/ stream'[d] = stream[d]
            \/ /\ stream'[d].job \in 1 .. submitted
               /\ \/ stream'[d].pc # "closed"
                  \/ stream'[d].job \notin DOMAIN jobs
  BY <1>1, <1>2, <1>3 DEF StreamInv
<1>5. events \in 0 .. MaxEvents
  BY DEF CatalogInv, CatalogTypeOK
<1> QED
  BY <1>1, <1>4, <1>5, StreamStepKeeps DEF catalogVars

\* A stream that reads a finished job sends it before it closes.
LEMMA LookKeeps ==
    ASSUME JobsIInv, NEW c \in Clients, Look(c)
    PROVE  JobsIInv'
<1> USE DEF JobsIInv
<1> DEFINE job == stream[c].job
<1>1. /\ stream[c].pc = "look"
      /\ UNCHANGED <<catalogVars, plan, app, submitted, jobs, finished, line, work, task,
                     gate, wakes>>
  BY DEF Look
<1>2. CASE job \notin DOMAIN jobs /\ StreamTo(c, "closed")
  BY <1>1, <1>2, StreamToKeeps
<1>3. CASE StreamTo(c, "arm")
  BY <1>1, <1>3, StreamToKeeps
<1>4. CASE /\ job \in DOMAIN jobs
           /\ stream' = [stream EXCEPT ![c] =
                 [pc |-> IF jobs[job].status \in Terminal THEN "closed" ELSE "arm",
                  job |-> job, revision |-> jobs[job].revision, saw |-> jobs[job].status]]
  <2> DEFINE sent == [pc |-> IF jobs[job].status \in Terminal THEN "closed" ELSE "arm",
                      job |-> job, revision |-> jobs[job].revision, saw |-> jobs[job].status]
  <2>1. app # "down" /\ job \in 1 .. submitted /\ job \in Jobs /\ jobs[job] \in JobRecords
    BY <1>1, <1>4, PlanTypes DEF StreamInv, RegistryInv, Submitted
  <2>2. /\ sent \in StreamStates /\ sent.job = job
        /\ sent.pc # "closed" \/ sent.saw \in Terminal
    <3>1. stream[c] \in StreamStates
      BY DEF StreamInv
    <3>2. jobs[job].revision \in -1 .. 2
      BY <2>1 DEF JobRecords
    <3> QED
      BY <2>1, <3>1, <3>2 DEF StreamStates, JobRecords, Terminal
  <2> HIDE DEF sent
  <2>3. /\ stream' \in [Clients -> StreamStates]
        /\ \A d \in Clients :
              \/ stream'[d] = stream[d]
              \/ /\ stream'[d].job \in 1 .. submitted
                 /\ stream'[d].pc # "closed" \/ stream'[d].saw \in Terminal
    BY <1>4, <2>1, <2>2 DEF StreamInv, sent
  <2>4. events \in 0 .. MaxEvents
    BY DEF CatalogInv, CatalogTypeOK
  <2> QED
    BY <1>1, <2>1, <2>3, <2>4, StreamStepKeeps DEF catalogVars
<1> QED
  BY <1>2, <1>3, <1>4 DEF Look

LEMMA SetEventKeeps ==
    ASSUME JobsIInv, NEW job \in Jobs, SetEvent(job)
    PROVE  JobsIInv'
<1> USE DEF JobsIInv
<1>1. /\ app # "down" /\ wakes' = wakes \ {job}
      /\ stream' = [c \in Clients |-> IF stream[c].pc = "wait" /\ stream[c].job = job
                                      THEN [stream[c] EXCEPT !.pc = "arm"] ELSE stream[c]]
      /\ UNCHANGED <<catalogVars, plan, app, submitted, jobs, finished, line, work, task, gate>>
  BY DEF SetEvent
<1>2. \A c \in Clients :
         /\ stream'[c] \in StreamStates
         /\ \/ stream'[c] = stream[c]
            \/ stream'[c].job \in 1 .. submitted /\ stream'[c].pc # "closed"
  <2> TAKE c \in Clients
  <2>1. stream[c] \in StreamStates
    BY DEF StreamInv
  <2>2. CASE stream[c].pc = "wait" /\ stream[c].job = job
    <3>1. stream[c].job \in 1 .. submitted
      BY <1>1, <2>2 DEF StreamInv
    <3>2. stream'[c] = [stream[c] EXCEPT !.pc = "arm"]
      BY <1>1, <2>2
    <3> QED
      BY <2>1, <3>1, <3>2 DEF StreamStates
  <2>3. CASE ~(stream[c].pc = "wait" /\ stream[c].job = job)
    BY <1>1, <2>1, <2>3
  <2> QED
    BY <2>2, <2>3
<1>3. stream' \in [Clients -> StreamStates]
  BY <1>1, <1>2
<1>4. events \in 0 .. MaxEvents
  BY DEF CatalogInv, CatalogTypeOK
<1> QED
  BY <1>1, <1>2, <1>3, <1>4, StreamStepKeeps DEF catalogVars

-----------------------------------------------------------------------------
(* The invariant is inductive                                              *)

LEMMA JobsIInvInit == Init => JobsIInv
<1> SUFFICES ASSUME Init PROVE JobsIInv
  OBVIOUS
<1>1. CatalogInv
  BY CatalogInitInv DEF Init
<1>2. plan \in Plans /\ app = "up" /\ submitted = 0 /\ DOMAIN jobs = {}
  BY DEF Init
<1>3. <<>> \in Seq(Jobs) /\ NoRepeats(<<>>) /\ ToSet(<<>>) = {}
  BY NoElements
<1>4. RegistryInv
  <2>1. Len(plan) \in Nat
    BY <1>2, PlanTypes
  <2>2. Submitted
    BY <1>2, <2>1 DEF Submitted
  <2>3. 1 .. submitted = {}
    BY <1>2
  <2>4. FinishedAreListed
    <3>1. /\ finished \in [Kinds -> Seq(Jobs)]
          /\ \A kind \in Kinds : finished[kind] = <<>>
      BY <1>3 DEF Init, Kinds
    <3> QED
      BY <1>2, <1>3, <3>1 DEF FinishedAreListed
  <2> QED
    BY <1>2, <2>2, <2>3, <2>4 DEF RegistryInv, RevisionsRunWithStatus, GoneFromAFullRegistry
<1>5. StreamInv
  <2>1. stream \in [Clients -> StreamStates] /\ \A c \in Clients : stream[c].pc = "none"
    <3> DEFINE idle == [pc |-> "none", job |-> 0, revision |-> -1, saw |-> ""]
    <3>1. idle \in StreamStates /\ idle.pc = "none"
      <4>1. -1 \in -1 .. 2
        OBVIOUS
      <4> QED
        BY <4>1 DEF StreamStates
    <3>2. stream = [c \in Clients |-> idle]
      BY DEF Init
    <3> HIDE DEF idle
    <3> QED
      BY <3>1, <3>2
  <2>2. wakes = {}
    BY DEF Init
  <2> QED
    BY <1>2, <2>1, <2>2 DEF StreamInv, StreamsTellTheEnd
<1>6. WorkInv
  <2>1. line = <<>> /\ work = NoWork
    BY DEF Init
  <2>2. line \in Seq(Jobs) /\ NoRepeats(line) /\ ToSet(line) = {}
    BY <1>3, <2>1
  <2>3. /\ work \in [job : Jobs \cup {0}, owed : 0 .. SweepRuns, first : 0 .. MaxRuns]
        /\ work.job = 0
    <3>1. 0 \in 0 .. SweepRuns /\ 0 \in 0 .. MaxRuns
      BY CatalogAssumption, JobsAssumption
    <3> QED
      BY <2>1, <3>1 DEF NoWork
  <2> QED
    BY <2>2, <2>3 DEF WorkInv
<1>7. TaskInv
  <2>1. gate = <<>> /\ task = [job \in Jobs |-> "none"]
    BY DEF Init
  <2>2. gate \in Seq(Jobs) /\ NoRepeats(gate) /\ ToSet(gate) = {}
    BY <1>3, <2>1
  <2>3. task \in [Jobs -> {"none"}]
    BY <2>1
  <2> QED
    BY <1>2, <2>2, <2>3
    DEF TaskInv, TasksMatchJobs, GateHoldsWaiting, OneAtTheGate, CollectorRuns
<1>8. ReportsAreTrue
  BY <1>2 DEF Init, NoWork, ReportsAreTrue, SuccessIsInTheCatalog, FirstHasReturned
<1> QED
  BY <1>1, <1>4, <1>5, <1>6, <1>7, <1>8 DEF JobsIInv

LEMMA JobsIInvNext == JobsIInv /\ [Next]_vars => JobsIInv'
<1> SUFFICES ASSUME JobsIInv, [Next]_vars PROVE JobsIInv'
  OBVIOUS
<1>1. CASE CatalogStep \/ CommandLine
  BY <1>1, CatalogStepKeeps, CommandLineKeeps
<1>2. CASE Submit \/ TakeJob \/ JobGoesOn \/ JobFails
  BY <1>2, SubmitKeeps, TakeJobKeeps, JobGoesOnKeeps, JobFailsKeeps
<1>3. CASE LoopStep
  <2>1. ASSUME NEW c \in Clients, WaitForChange(c) PROVE JobsIInv'
    BY <2>1, StreamToKeeps DEF WaitForChange
  <2> QED
    BY <1>3, <2>1, StartTaskKeeps, EnterGateKeeps, FinishDataJobKeeps, SetEventKeeps, LookKeeps,
       ShutdownExecutorKeeps, GoDownKeeps DEF LoopStep
<1>4. CASE ShutdownDataJobs
  BY <1>4, ShutdownDataJobsKeeps
<1>5. ASSUME NEW c \in Clients, Follow(c) \/ KeepAlive(c) PROVE JobsIInv'
  BY <1>5, FollowKeeps, StreamToKeeps DEF KeepAlive
<1>6. CASE UNCHANGED vars
  <2>1. UNCHANGED catalogVars /\ UNCHANGED jobVars
    BY <1>6 DEF vars
  <2> QED
    BY <2>1, CatalogStands, JobsStand, SuccessStands DEF JobsIInv, catalogVars, jobVars
<1> QED
  BY <1>1, <1>2, <1>3, <1>4, <1>5, <1>6 DEF Next

-----------------------------------------------------------------------------
(* What it says of the properties                                          *)

\* One collector: all that run are the same.
LEMMA AtMostOne ==
    ASSUME NEW S, \A x, y \in S : x = y
    PROVE  Cardinality(S) <= 1
<1>1. CASE S = {}
  BY <1>1, FS_EmptySet
<1>2. CASE S # {}
  <2>1. PICK x \in S : S = {x}
    BY <1>2
  <2> QED
    BY <2>1, FS_Singleton
<1> QED
  BY <1>1, <1>2

LEMMA JobsIInvImpliesJobsInv == JobsIInv => JobsInv
<1> SUFFICES ASSUME JobsIInv PROVE JobsInv
  OBVIOUS
<1> USE DEF JobsIInv
<1>1. TypeOK
  <2>1. CatalogTypeOK
    BY DEF CatalogInv
  <2>2. /\ plan \in Plans /\ app \in {"up", "data", "executor", "down"}
        /\ submitted \in 0 .. Len(plan) /\ DOMAIN jobs \subseteq 1 .. submitted
        /\ \A job \in DOMAIN jobs :
              jobs[job] \in [status : {"QUEUED", "RUNNING"} \cup Terminal, revision : 0 .. 2,
                             run : 0 .. MaxRuns]
    BY DEF RegistryInv, Submitted, JobRecords
  <2>3. \A kind \in {"dry", "data"} :
           ToSet(finished[kind]) = {job \in DOMAIN jobs : /\ KindOf(job) = kind
                                                          /\ jobs[job].status \in Terminal}
    BY DEF RegistryInv, FinishedAreListed, Kinds
  <2>4. ToSet(line) \subseteq DOMAIN jobs /\ ToSet(gate) \subseteq DOMAIN jobs
    <3>1. ToSet(gate) \subseteq Jobs
      BY LenProperties DEF TaskInv, GateHoldsWaiting, ToSet
    <3> QED
      BY <3>1 DEF WorkInv, TaskInv, GateHoldsWaiting, TasksMatchJobs
  <2> QED
    BY <2>1, <2>2, <2>3, <2>4 DEF TypeOK, WorkInv, TaskInv, StreamInv, StreamStates
<1>2. OneCollector
  <2>1. \A x, y \in {job \in DataJobs : CollectorRuns(job)} : x = y
    BY DEF TaskInv, OneAtTheGate, DataJobs
  <2> QED
    BY <2>1, AtMostOne DEF OneCollector
<1> QED
  BY <1>1, <1>2 DEF JobsInv

\* Only a registration forgets, and only old jobs.
LEMMA OnlySubmitForgets ==
    ASSUME JobsIInv, [Next]_vars, ~Submit
    PROVE  DOMAIN jobs \subseteq DOMAIN jobs'
<1>1. UNCHANGED jobs \/ \E job, status, run : Update(job, status, run)
  BY DEF Next, vars, jobVars, CatalogStep, CommandLine, TakeJob, JobGoesOn, FinishJob, JobFails,
         LoopStep, StartTask, EnterGate, FinishDataJob, SetEvent, Look, WaitForChange,
         ShutdownExecutor, GoDown, ShutdownDataJobs, Follow, KeepAlive
<1> QED
  BY <1>1 DEF Update

-----------------------------------------------------------------------------
(* The theorems                                                            *)

LEMMA JobsIInvHolds == FairSpec => []JobsIInv
<1> QED
  BY JobsIInvInit, JobsIInvNext, PTL DEF FairSpec

\* The registries, the tasks and the gate agree, and one collector process at
\* most runs, also while the application shuts down (_execution_limit,
\* shutdown_data_jobs).
THEOREM JobsAgree == FairSpec => []JobsInv
BY JobsIInvHolds, JobsIInvImpliesJobsInv, PTL

\* A run that went through is whole in the catalog, and no other run has a
\* hash there (upsert_summary, reconcile_orphaned).
THEOREM FinishedIsEvaluated == FairSpec => []FinishedMeansEvaluated
<1>1. JobsIInv => FinishedMeansEvaluated
  BY DEF JobsIInv, CatalogInv
<1> QED
  BY <1>1, JobsIInvHolds, PTL

\* Only a purge that came too early leaves a file without a row (purge_run).
THEOREM EveryFileHasARow == FairSpec => []NoFileIsLost
<1>1. JobsIInv => NoFileIsLost
  BY DEF JobsIInv, CatalogInv
<1> QED
  BY <1>1, JobsIInvHolds, PTL

\* What a job reports as its success is in the catalog until it is purged
\* (_run_job, _run_sweep_job).
THEOREM SuccessIsTrue == FairSpec => []SuccessIsInTheCatalog
<1>1. JobsIInv => SuccessIsInTheCatalog
  BY DEF JobsIInv, ReportsAreTrue
<1> QED
  BY <1>1, JobsIInvHolds, PTL

\* No stream closes on its client before the end of the job has been sent,
\* unless the job has been forgotten (get_job_events, wait_for_change).
THEOREM StreamsAreHonest == FairSpec => []StreamsTellTheEnd
<1>1. JobsIInv => StreamsTellTheEnd
  BY DEF JobsIInv, StreamInv
<1> QED
  BY <1>1, JobsIInvHolds, PTL

\* A job is forgotten only after it has finished and a full registry of
\* others has finished behind it (_drop_oldest_finished).
THEOREM ForgottenJobsAreOld == FairSpec => OnlyOldJobsAreForgotten
<1>1. ASSUME JobsIInv, [Next]_vars
      PROVE  \A job \in DOMAIN jobs \ DOMAIN jobs' :
                /\ jobs[job].status \in Terminal
                /\ \E i \in DOMAIN finished[KindOf(job)] :
                      /\ finished[KindOf(job)][i] = job
                      /\ Len(finished[KindOf(job)]) - i >= MaxRetained
  <2>1. CASE Submit
    BY <1>1, <2>1, RegisterJobKeeps DEF JobsIInv, Submit
  <2>2. CASE ~Submit
    BY <1>1, <2>2, OnlySubmitForgets
  <2> QED
    BY <2>1, <2>2
<1> QED
  BY <1>1, JobsIInvHolds, PTL DEF FairSpec, OnlyOldJobsAreForgotten
=============================================================================
