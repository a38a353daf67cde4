------------------------------ MODULE WebJobs ------------------------------
(***************************************************************************)
(* The jobs of the web API: dry runs, grids and sweeps, which one worker   *)
(* thread runs in turn against the catalog, and data jobs, each of which   *)
(* runs a collector process behind a gate for one; the two registries that *)
(* keep their states, the event streams that follow them, and the shutdown *)
(* of the application. Beside it a backtest is started from the command    *)
(* line, and an operator purges runs. Jobs are numbered in the order in    *)
(* which they are submitted; updated_at only orders finished jobs, so the  *)
(* order is kept instead.                                                  *)
(***************************************************************************)
EXTENDS RunCatalog, Sequences, SequencesExt

CONSTANTS
    Worker,       \* the thread of the executor
    Plans,        \* what clients may submit: sequences of "run", "grid", "sweep", "data"
    SweepRuns,    \* the runs of a grid, or of a sweep: the folds of a walk
                  \* forward, the two sides of a split
    MaxRetained,  \* MAX_RETAINED_FINISHED_JOBS, and the same of data jobs
    Clients       \* the clients that follow a job

ASSUME JobsAssumption ==
    /\ Worker \in Runners /\ \A p \in Plans : p \in Seq({"run", "grid", "sweep", "data"})
    /\ SweepRuns \in Nat \ {0} /\ MaxRetained \in Nat

VARIABLES
    plan,       \* the kinds of the jobs clients submit, in order
    app,        \* the lifespan of the application
    submitted,  \* how many jobs have been submitted
    jobs,       \* _states of both registries
    finished,   \* the finished jobs of each registry, in the order of updated_at
    line,       \* the queue of the executor
    work,       \* the job the worker has in hand, the runs it still owes, and
                \* the first it has made
    task,       \* the task of each data job
    gate,       \* the data jobs that wait for the semaphore, in order
    stream,     \* what each client follows
    wakes       \* jobs whose event.set() is scheduled on the loop

jobVars == <<plan, app, submitted, jobs, finished, line, work, task, gate, stream, wakes>>
vars == <<catalogVars, jobVars>>

Jobs == 1 .. Len(plan)
Terminal == {"SUCCEEDED", "FAILED"}
KindOf(job) == IF plan[job] = "data" THEN "data" ELSE "dry"

NoWork == [job |-> 0, owed |-> 0, first |-> 0]

TypeOK ==
    /\ CatalogTypeOK /\ plan \in Plans
    /\ app \in {"up", "data", "executor", "down"} /\ submitted \in 0 .. Len(plan)
    /\ DOMAIN jobs \subseteq 1 .. submitted
    /\ \A job \in DOMAIN jobs :
          jobs[job] \in [status : {"QUEUED", "RUNNING"} \cup Terminal, revision : 0 .. 2,
                         run : 0 .. MaxRuns]
    /\ \A kind \in {"dry", "data"} :
          ToSet(finished[kind]) = {job \in DOMAIN jobs : /\ KindOf(job) = kind
                                                         /\ jobs[job].status \in Terminal}
    /\ ToSet(line) \subseteq DOMAIN jobs /\ ToSet(gate) \subseteq DOMAIN jobs
    /\ work \in [job : Jobs \cup {0}, owed : 0 .. SweepRuns, first : 0 .. MaxRuns]
    /\ task \in [Jobs -> {"none", "new", "waiting", "running",
                       "cancelled", "stopping", "done"}]
    /\ stream \in [Clients -> [pc : {"none", "look", "arm", "wait", "closed"},
                               job : Jobs \cup {0}, revision : -1 .. 2,
                               saw : {"", "QUEUED", "RUNNING"} \cup Terminal]]
    /\ wakes \subseteq Jobs

Init ==
    /\ CatalogInit
    /\ plan \in Plans /\ app = "up" /\ submitted = 0
    /\ jobs = [job \in {} |-> None]
    /\ finished = [kind \in {"dry", "data"} |-> <<>>]
    /\ line = <<>> /\ gate = <<>>
    /\ work = NoWork
    /\ task = [job \in Jobs |-> "none"]
    /\ stream = [c \in Clients |-> [pc |-> "none", job |-> 0, revision |-> -1, saw |-> ""]]
    /\ wakes = {}

---------------------------------------------------------------------------
(* The registries.                                                         *)

\* (For a mutation: one too many.)
ExcessByOne(kind) == Len(finished[kind]) - MaxRetained + 1

\* How many finished jobs _drop_oldest_finished forgets, the oldest first;
\* none when it is not positive.
Excess(kind) == Len(finished[kind]) - MaxRetained

\* register, of the next job of the plan.
RegisterJob(job) ==
    LET kind == KindOf(job)
        dropped == ToSet(SubSeq(finished[kind], 1, Excess(kind)))
    IN
    /\ jobs' = [other \in (DOMAIN jobs \ dropped) \cup {job} |->
                   IF other = job THEN [status |-> "QUEUED", revision |-> 0, run |-> 0]
                   ELSE jobs[other]]
    /\ finished' = IF Excess(kind) > 0
                   THEN [finished EXCEPT ![kind] = SubSeq(@, Excess(kind) + 1, Len(@))]
                   ELSE finished

\* update: the event is set later, by the loop.  A data job keeps no run.
Update(job, status, run) ==
    /\ jobs' = [jobs EXCEPT ![job] = [status |-> status, revision |-> @.revision + 1,
                                      run |-> run]]
    /\ finished' = IF status \in Terminal
                   THEN [finished EXCEPT ![KindOf(job)] = Append(@, job)] ELSE finished
    /\ wakes' = wakes \cup {job}

---------------------------------------------------------------------------
(* Dry runs, grids and sweeps.                                             *)

Submit ==
    /\ app = "up" /\ submitted < Len(plan)
    /\ submitted' = submitted + 1
    /\ RegisterJob(submitted + 1)
    /\ IF KindOf(submitted + 1) = "dry"
       THEN line' = Append(line, submitted + 1) /\ UNCHANGED task
       ELSE task' = [task EXCEPT ![submitted + 1] = "new"] /\ UNCHANGED line
    /\ UNCHANGED <<catalogVars, plan, app, work, gate, stream, wakes>>

\* _run_job and _run_sweep_job, up to the first engine.
TakeJob ==
    /\ work.job = 0 /\ line # <<>> /\ app # "down"
    /\ line' = Tail(line)
    /\ LET several == plan[Head(line)] \in {"grid", "sweep"} IN
       /\ work' = [NoWork EXCEPT !.job = Head(line),
                                 !.owed = IF several THEN SweepRuns ELSE 1]
       /\ Starts(Worker, IF several THEN 2 ELSE 1)
    /\ Update(Head(line), "RUNNING", 0)
    /\ UNCHANGED <<clock, issued, rows, files, purge, outcome, early, events,
                   plan, app, submitted, task, gate, stream>>

\* record_harness_aggregate finds the summary of the representative run.
AggregateFinds(run) == run \in DOMAIN rows /\ rows[run].summary

FinishJob(status, run) ==
    /\ Update(work.job, status, run)
    /\ work' = NoWork

\* The run a job names: of a grid it is the first one, of a sweep the last.
Representative ==
    IF plan[work.job] = "grid" /\ work.first # 0 THEN work.first ELSE engine[Worker].run

\* A run has returned: the next one of a grid or a sweep, or the end of the
\* job.  Only a sweep records an aggregate and so asks the catalog again; a
\* dry run and a grid report what their engines returned.
JobGoesOn ==
    /\ work.job # 0 /\ engine[Worker].pc = "returned"
    /\ \/ /\ work.owed > 1
          /\ work' = [work EXCEPT !.owed = @ - 1,
                                  !.first = IF @ = 0 THEN engine[Worker].run ELSE @]
          /\ Starts(Worker, 1)
          /\ UNCHANGED <<rows, jobs, finished, wakes>>
       \/ /\ work.owed = 1 /\ plan[work.job] # "sweep"
          /\ FinishJob("SUCCEEDED", Representative)
          /\ Moves(Worker, "off")
          /\ UNCHANGED rows
       \/ /\ work.owed = 1 /\ plan[work.job] = "sweep" /\ AggregateFinds(Representative)
          /\ rows' = [rows EXCEPT ![Representative].aggregate = TRUE]
          /\ FinishJob("SUCCEEDED", Representative)
          /\ Moves(Worker, "off")
       \/ /\ work.owed = 1 /\ plan[work.job] = "sweep" /\ ~AggregateFinds(Representative)
          /\ FinishJob("FAILED", 0)
          /\ Moves(Worker, "off")
          /\ UNCHANGED rows
    /\ UNCHANGED <<clock, issued, files, purge, outcome, early, events,
                   plan, app, submitted, line, task, gate, stream>>

\* (For a mutation: the exception is swallowed.)
JobFailsQuietly ==
    /\ work.job # 0 /\ engine[Worker].pc = "raised"
    /\ FinishJob("SUCCEEDED", engine[Worker].run)
    /\ Moves(Worker, "off")
    /\ UNCHANGED <<clock, issued, rows, files, purge, outcome, early, events,
                   plan, app, submitted, line, task, gate, stream>>

JobFails ==
    /\ work.job # 0 /\ engine[Worker].pc = "raised"
    /\ FinishJob("FAILED", 0)
    /\ Moves(Worker, "off")
    /\ UNCHANGED <<clock, issued, rows, files, purge, outcome, early, events,
                   plan, app, submitted, line, task, gate, stream>>

\* A backtest from the command line, in a process of its own.
CommandLine ==
    /\ Event
    /\ \E r \in Runners \ {Worker} : engine[r].pc = "off" /\ Starts(r, 1)
    /\ UNCHANGED <<clock, issued, rows, files, purge, outcome, early>>
    /\ UNCHANGED jobVars

---------------------------------------------------------------------------
(* Data jobs.                                                              *)

DataJobs == {job \in Jobs : plan[job] = "data"}
CollectorRuns(job) == task[job] \in {"running", "stopping"}

StartTask(job) ==
    /\ task[job] = "new"
    /\ task' = [task EXCEPT ![job] = "waiting"]
    /\ gate' = Append(gate, job)
    /\ UNCHANGED <<catalogVars, plan, app, submitted, jobs, finished, line, work, stream, wakes>>

\* (For a mutation: a gate for two.)
GateFreeForTwo == Cardinality({job \in DataJobs : task[job] = "running"}) < 2

\* The semaphore is left before a cancelled job stops its process.
GateFree == \A job \in DataJobs : task[job] # "running"

EnterGate(job) ==
    /\ task[job] = "waiting" /\ gate # <<>> /\ Head(gate) = job /\ GateFree
    /\ gate' = Tail(gate)
    /\ task' = [task EXCEPT ![job] = "running"]
    /\ Update(job, "RUNNING", 0)
    /\ UNCHANGED <<catalogVars, plan, app, submitted, line, work, stream>>

\* The collector exits with 0, is refused or fails, or cannot be launched; or
\* its task, cancelled, has stopped it.
FinishDataJob(job) ==
    /\ \/ /\ task[job] = "running"
          /\ \E status \in Terminal : Update(job, status, 0)
       \/ /\ task[job] \in {"cancelled", "stopping"}
          /\ Update(job, "FAILED", 0)
    /\ task' = [task EXCEPT ![job] = "done"]
    /\ UNCHANGED <<catalogVars, plan, app, submitted, line, work, gate, stream>>

---------------------------------------------------------------------------
(* The end of the lifespan.                                                *)

\* shutdown_data_jobs cancels every task: one that has not taken its first
\* step never runs at all.
Cancelled == [new |-> "done", waiting |-> "cancelled", running |-> "stopping"]

ShutdownDataJobs ==
    /\ Event /\ app = "up"
    /\ app' = "data"
    /\ task' = [job \in Jobs |-> IF task[job] \in DOMAIN Cancelled
                                 THEN Cancelled[task[job]] ELSE task[job]]
    /\ gate' = <<>>
    /\ UNCHANGED <<clock, issued, rows, files, engine, purge, outcome, early>>
    /\ UNCHANGED <<plan, submitted, jobs, finished, line, work, stream, wakes>>

\* The jobs in the queue are cancelled, the one in hand is waited for.
ShutdownExecutor ==
    /\ app = "data"
    /\ \A job \in Jobs : task[job] \in {"none", "done"}
    /\ app' = "executor" /\ line' = <<>>
    /\ UNCHANGED <<catalogVars, plan, submitted, jobs, finished, work, task, gate, stream, wakes>>

\* The process ends, and with it the streams.
GoDown ==
    /\ app = "executor" /\ work.job = 0
    /\ app' = "down"
    /\ stream' = [c \in Clients |-> [stream[c] EXCEPT !.pc = "closed"]]
    /\ UNCHANGED <<catalogVars, plan, submitted, jobs, finished, line, work, task, gate, wakes>>

---------------------------------------------------------------------------
(* The event streams: get_job_events and get_data_job_events.              *)

StreamTo(c, pc) == stream' = [stream EXCEPT ![c].pc = pc]

Follow(c) ==
    /\ Event /\ app = "up" /\ stream[c].pc = "none"
    /\ \E job \in DOMAIN jobs : stream' = [stream EXCEPT ![c] =
          [pc |-> "look", job |-> job, revision |-> -1, saw |-> ""]]
    /\ UNCHANGED <<clock, issued, rows, files, engine, purge, outcome, early>>
    /\ UNCHANGED <<plan, app, submitted, jobs, finished, line, work, task, gate, wakes>>

\* (For a mutation: a finished job ends the stream before it is sent.)
LookBeforeSending(c) ==
    LET job == stream[c].job IN
    /\ stream[c].pc = "look"
    /\ stream' = [stream EXCEPT ![c] =
          IF job \notin DOMAIN jobs \/ jobs[job].status \in Terminal
          THEN [@ EXCEPT !.pc = "closed"]
          ELSE [pc |-> "arm", job |-> job, revision |-> jobs[job].revision,
                saw |-> jobs[job].status]]
    /\ UNCHANGED <<catalogVars, plan, app, submitted, jobs, finished, line, work, task, gate, wakes>>

\* The state is sent when its revision is another one than the last sent.
Look(c) ==
    LET job == stream[c].job IN
    /\ stream[c].pc = "look"
    /\ \/ job \notin DOMAIN jobs /\ StreamTo(c, "closed")
       \/ /\ job \in DOMAIN jobs /\ jobs[job].revision # stream[c].revision
          /\ stream' = [stream EXCEPT ![c] =
                [pc |-> IF jobs[job].status \in Terminal THEN "closed" ELSE "arm",
                 job |-> job, revision |-> jobs[job].revision, saw |-> jobs[job].status]]
       \/ /\ job \in DOMAIN jobs /\ jobs[job].revision = stream[c].revision
          /\ StreamTo(c, "arm")
    /\ UNCHANGED <<catalogVars, plan, app, submitted, jobs, finished, line, work, task, gate, wakes>>

\* (For a mutation: it waits without having looked again.)
WaitAtOnce(c) ==
    /\ stream[c].pc = "arm"
    /\ StreamTo(c, "wait")
    /\ UNCHANGED <<catalogVars, plan, app, submitted, jobs, finished, line, work, task, gate, wakes>>

\* wait_for_change: the event is cleared, then the state is read; the event
\* is awaited only if the state is not newer than the one sent.
WaitForChange(c) ==
    LET job == stream[c].job IN
    /\ stream[c].pc = "arm"
    /\ StreamTo(c, IF job \in DOMAIN jobs /\ jobs[job].revision <= stream[c].revision
                   THEN "wait" ELSE "look")
    /\ UNCHANGED <<catalogVars, plan, app, submitted, jobs, finished, line, work, task, gate, wakes>>

\* The loop runs the scheduled event.set(): every stream that waits is woken.
SetEvent(job) ==
    /\ job \in wakes /\ app # "down"
    /\ wakes' = wakes \ {job}
    /\ stream' = [c \in Clients |-> IF stream[c].pc = "wait" /\ stream[c].job = job
                                    THEN [stream[c] EXCEPT !.pc = "arm"] ELSE stream[c]]
    /\ UNCHANGED <<catalogVars, plan, app, submitted, jobs, finished, line, work, task, gate>>

\* Fifteen seconds have passed.
KeepAlive(c) ==
    /\ stream[c].pc = "wait"
    /\ StreamTo(c, "look")
    /\ UNCHANGED <<catalogVars, plan, app, submitted, jobs, finished, line, work, task, gate, wakes>>

---------------------------------------------------------------------------

CatalogStep ==
    /\ \/ Tick \/ PurgeLook \/ Unlink \/ DeleteRow
       \/ \E r \in Runners : EngineStep(r) \/ RunFails(r)
    /\ UNCHANGED jobVars

WorkerStep ==
    \/ TakeJob \/ JobGoesOn \/ JobFails
    \/ EngineStep(Worker) /\ UNCHANGED jobVars

LoopStep ==
    \/ \E job \in Jobs : StartTask(job) \/ EnterGate(job) \/ FinishDataJob(job) \/ SetEvent(job)
    \/ \E c \in Clients : Look(c) \/ WaitForChange(c)
    \/ ShutdownExecutor \/ GoDown

Next ==
    \/ CatalogStep \/ CommandLine \/ Submit \/ TakeJob \/ JobGoesOn \/ JobFails
    \/ LoopStep \/ ShutdownDataJobs
    \/ \E c \in Clients : Follow(c) \/ KeepAlive(c)

\* The worker thread is never starved, and the loop runs what is ready; when
\* a client follows or a keepalive is due is left open.
FairSpec == /\ Init /\ [][Next]_vars
            /\ WF_vars(WorkerStep)
            /\ WF_vars(\E job \in Jobs : SetEvent(job))
            /\ WF_vars(\E job \in Jobs : StartTask(job) \/ EnterGate(job) \/ FinishDataJob(job))
            /\ WF_vars(\E c \in Clients : Look(c) \/ WaitForChange(c))
            /\ WF_vars(ShutdownExecutor \/ GoDown)

---------------------------------------------------------------------------

\* A job that reports success names a run that has returned: it is evaluated
\* in the catalog, and with the aggregate if the job is a sweep, unless the
\* operator has purged it.  For a dry run or a grid the purge may also have
\* come before the report, which does not look; a grid has no aggregate to
\* show (_run_job, _run_sweep_job, Harness.sweep).
SuccessIsInTheCatalog ==
    \A job \in DOMAIN jobs :
        LET run == jobs[job].run IN
        jobs[job].status = "SUCCEEDED" /\ KindOf(job) = "dry" =>
            /\ run \in Runs /\ outcome[run] = "returned"
            /\ run \in DOMAIN rows =>
                  /\ rows[run].status = "EVALUATED" /\ rows[run].summary
                  /\ plan[job] = "sweep" => rows[run].aggregate

\* A data job is the only one with a collector process, also while the
\* application shuts down (_execution_limit).
OneCollector == Cardinality({job \in DataJobs : CollectorRuns(job)}) <= 1

\* The registries, the tasks and the gate agree.
JobsInv == TypeOK /\ OneCollector

\* A stream is closed, while the application is up, only when its client has
\* been sent how the job ended, or when as many finished jobs as are
\* retained have finished after it (_drop_oldest_finished).
StreamsTellTheEnd ==
    \A c \in Clients :
        app # "down" /\ stream[c].pc = "closed" =>
            \/ stream[c].saw \in Terminal
            \/ /\ stream[c].job \notin DOMAIN jobs
               /\ Len(finished[KindOf(stream[c].job)]) >= MaxRetained

\* A job is forgotten only when it has finished and as many others as are
\* retained have finished behind it; one that still has to run, or is
\* running, is never forgotten (_drop_oldest_finished).
OnlyOldJobsAreForgotten ==
    [][\A job \in DOMAIN jobs \ DOMAIN jobs' :
          /\ jobs[job].status \in Terminal
          /\ \E i \in DOMAIN finished[KindOf(job)] :
                /\ finished[KindOf(job)][i] = job
                /\ Len(finished[KindOf(job)]) - i >= MaxRetained]_vars

\* Every stream ends, without the help of a keepalive: no change of the state
\* of a job passes a waiting stream by (update and wait_for_change).
StreamsEnd ==
    (\E c \in Clients : stream[c].pc \in {"look", "arm", "wait"})
        ~> (\A c \in Clients : stream[c].pc \notin {"look", "arm", "wait"})
===========================================================================
