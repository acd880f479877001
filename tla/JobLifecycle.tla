---------------------------- MODULE JobLifecycle ----------------------------
(***************************************************************************)
(* The background jobs of the backend: the jobs table and its repository   *)
(* functions, the service loop that reuses or replaces an unfinished job,  *)
(* and run_job, the coroutine that carries a job from queued to a result.  *)
(*                                                                         *)
(* Every repository function is one SQLite transaction and one step here.  *)
(* A worker is one server process: its event loop runs one coroutine at a  *)
(* time and a coroutine gives way only at an await, so while loop[w] holds *)
(* a request between two transactions nothing else moves on that loop.     *)
(* Other workers and the threads that execute runners do move.             *)
(***************************************************************************)
EXTENDS Naturals, FiniteSets

CONSTANTS
  Worker,      \* server processes sharing the database
  JobId,       \* job identifiers: a bound on the rows that exist at a time
  Pc,          \* registered PCs
  NoPc,        \* the pc_id of a job that has none
  NoWorker,
  NoJob,
  Threads,     \* size of a worker's thread pool (asyncio.to_thread)
  StaleAfter,  \* ACTIVE_JOB_STALE_AFTER_SECONDS, in ticks
  MaxRows,     \* JOB_MAX_ROWS
  MaxFaults,   \* bound on restarts and failed database writes
  Timely       \* TRUE: a live task's row is never left untouched past StaleAfter

ASSUME JobAssumption ==
  /\ Threads \in Nat \ {0}
  /\ StaleAfter \in Nat \ {0}
  /\ MaxRows \in Nat \ {0}
  /\ MaxFaults \in Nat
  /\ Timely \in BOOLEAN
  /\ NoWorker \notin Worker
  /\ NoJob \notin JobId
  /\ NoPc \notin Pc
  /\ IsFiniteSet(JobId)

VARIABLES
  row,     \* row[j]: the jobs table; age is the time since updated_at
  before,  \* <<j, k>>: j has an earlier created_at than k
  task,    \* task[j]: the run_job coroutine of j and the worker it lives on
  loop,    \* loop[w]: the request w's event loop is in the middle of
  faults   \* restarts and write errors so far

vars == <<row, before, task, loop, faults>>

RefreshAll == [kind |-> "status_refresh_all", pc |-> NoPc]
Shutdown(p) == [kind |-> "shutdown", pc |-> p]
Wol(p) == [kind |-> "wol", pc |-> p]
NoWork == [kind |-> "none", pc |-> NoPc]

\* Work requested through create_or_get_active_job: one job at a time.
Exclusive == {RefreshAll} \cup {Shutdown(p) : p \in Pc}
Work == Exclusive \cup {Wol(p) : p \in Pc}

NoRow == [state |-> "absent", work |-> NoWork, age |-> 0]
NoTask == [stage |-> "none", worker |-> NoWorker]
Idle == [stage |-> "idle", work |-> NoWork, job |-> NoJob]
Retry(wk) == [stage |-> "lookup", work |-> wk, job |-> NoJob]
Recovering(wk, j) == [stage |-> "recover", work |-> wk, job |-> j]

ActiveState == {"queued", "running"}
TerminalState == {"succeeded", "failed"}
Active(j) == row[j].state \in ActiveState
Live(j) == task[j].stage # "none"
-----------------------------------------------------------------------------
Init ==
  /\ row = [j \in JobId |-> NoRow]
  /\ before = {}
  /\ task = [j \in JobId |-> NoTask]
  /\ loop = [w \in Worker |-> Idle]
  /\ faults = 0

\* A uuid4: never the identifier of a row, a task or a request under way.
Fresh(j) == row[j] = NoRow /\ ~Live(j) /\ \A w \in Worker : loop[w].job # j

\* Bound: a request starts only while every request under way and this one
\* can still be given an identifier.
IdsLeft == Cardinality({w \in Worker : loop[w] # Idle})
             < Cardinality({j \in JobId : Fresh(j)})

\* The rows "ORDER BY created_at DESC LIMIT MaxRows" returns.
Newest(rows, order) ==
  {k \in rows : Cardinality({l \in rows : <<k, l>> \in order}) < MaxRows}

\* Plausible bug: only running jobs are protected from pruning.
PrunableUnlessRunning(k) == row[k].state \in TerminalState \cup {"queued"}

\* WHERE state NOT IN ('queued', 'running').
Prunable(k) == row[k].state \in TerminalState

\* INSERT of a queued row. _prune_old_jobs removes finished rows created
\* before a cutoff (any prefix of the creation order, for some cutoff), then
\* _prune_excess_jobs those beyond the newest MaxRows rows.
Insert(j, wk) ==
  LET rows    == {k \in JobId : row[k] # NoRow} \cup {j}
      order   == before \cup {<<k, j>> : k \in rows \ {j}}
      done    == {k \in rows \ {j} : Prunable(k)}
  IN \E old \in SUBSET done :
       /\ \A k \in old, l \in done : <<l, k>> \in order => l \in old
       /\ LET gone == old \cup (done \ Newest(rows \ old, order))
          IN /\ row' = [k \in JobId |->
                          IF k = j THEN [state |-> "queued", work |-> wk, age |-> 0]
                          ELSE IF k \in gone THEN NoRow
                          ELSE row[k]]
             /\ before' = {p \in order : p[1] \notin gone /\ p[2] \notin gone}

\* asyncio.create_task(run_job(j)), on the loop that handled the request.
Spawn(j, w) == task' = [task EXCEPT ![j] = [stage |-> "spawned", worker |-> w]]

\* Plausible bug: a queued job is not seen as unfinished.
RunningFor(wk) == {j \in JobId : row[j].state = "running" /\ row[j].work = wk}

\* WHERE job_type = wk.kind AND state IN ('queued', 'running')
\* AND (pc_id IS NULL OR json_extract(payload, '$.pc_id') = wk.pc).
ActiveFor(wk) == {j \in JobId : Active(j) /\ row[j].work = wk}

\* ORDER BY created_at DESC LIMIT 1.
Latest(S) == {j \in S : \A k \in S : <<j, k>> \notin before}

\* Plausible bugs: <= for < in the comparison; queued rows never stale.
StaleTooEarly(j) == Active(j) /\ row[j].age >= StaleAfter
StaleWhenRunning(j) == row[j].state = "running" /\ row[j].age > StaleAfter

IsStale(j) == Active(j) /\ row[j].age > StaleAfter

\* UPDATE jobs SET state = s, updated_at = now WHERE id = j.
Mark(j, s) ==
  row' = [row EXCEPT ![j] = IF @ = NoRow THEN NoRow
                            ELSE [@ EXCEPT !.state = s, !.age = 0]]
-----------------------------------------------------------------------------
\* POST /pcs/{id}/wol: a new job for every request, then its task.
CreateJob(w, wk) ==
  /\ loop[w] = Idle
  /\ IdsLeft
  /\ \E j \in JobId : Fresh(j) /\ Insert(j, wk) /\ Spawn(j, w)
  /\ UNCHANGED <<loop, faults>>

\* The BEGIN IMMEDIATE transaction: take the newest unfinished job of this
\* work or insert one. A stale one sends the request to recovery.
CreateOrGetActiveJob(w, wk) ==
  /\ loop[w] \in {Idle, Retry(wk)}
  /\ loop[w] = Idle => IdsLeft
  /\ \/ /\ ActiveFor(wk) = {}
        /\ \E j \in JobId : Fresh(j) /\ Insert(j, wk) /\ Spawn(j, w)
        /\ loop' = [loop EXCEPT ![w] = Idle]
     \/ /\ \E j \in Latest(ActiveFor(wk)) :
             loop' = [loop EXCEPT ![w] = IF IsStale(j) THEN Recovering(wk, j) ELSE Idle]
        /\ UNCHANGED <<row, before, task>>
  /\ UNCHANGED faults

\* mark_failed_if_active on the stale job, then around the loop again.
MarkFailedIfActive(w) ==
  /\ loop[w].stage = "recover"
  /\ IF Active(loop[w].job) THEN Mark(loop[w].job, "failed") ELSE UNCHANGED row
  /\ loop' = [loop EXCEPT ![w] = Retry(loop[w].work)]
  /\ UNCHANGED <<before, task, faults>>

\* A coroutine of task j can only run while its loop is between requests.
Scheduled(j, stage) ==
  /\ task[j].stage = stage
  /\ loop[task[j].worker] = Idle

\* run_job up to the await: the row becomes running before a thread is free.
MarkRunning(j) ==
  /\ Scheduled(j, "spawned")
  /\ Mark(j, "running")
  /\ task' = [task EXCEPT ![j].stage = "waiting"]
  /\ UNCHANGED <<before, loop, faults>>

ThreadsBusy(w) == {j \in JobId : task[j] = [stage |-> "executing", worker |-> w]}

\* Plausible bug: a runner starts without a free pool thread.
StartRunnerUnpooled(j) ==
  /\ task[j].stage = "waiting"
  /\ task' = [task EXCEPT ![j].stage = "executing"]
  /\ UNCHANGED <<row, before, loop, faults>>

\* A pool thread picks the runner up.
StartRunner(j) ==
  /\ task[j].stage = "waiting"
  /\ Cardinality(ThreadsBusy(task[j].worker)) < Threads
  /\ task' = [task EXCEPT ![j].stage = "executing"]
  /\ UNCHANGED <<row, before, loop, faults>>

\* The runner returns a result or raises; the thread is free again.
RunnerEnds(j, outcome) ==
  /\ task[j].stage = "executing"
  /\ task' = [task EXCEPT ![j].stage = outcome]
  /\ UNCHANGED <<row, before, loop, faults>>

\* Plausible bug: no except clause, an exception leaves the job running.
RecordSuccessOnly(j) ==
  /\ Scheduled(j, "returned")
  /\ Mark(j, "succeeded")
  /\ task' = [task EXCEPT ![j] = NoTask]
  /\ UNCHANGED <<before, loop, faults>>

\* After the await: mark_succeeded, or mark_failed in the except clause.
RecordResult(j) ==
  /\ \/ Scheduled(j, "returned") /\ Mark(j, "succeeded")
     \/ Scheduled(j, "raised") /\ Mark(j, "failed")
  /\ task' = [task EXCEPT ![j] = NoTask]
  /\ UNCHANGED <<before, loop, faults>>

Fault == faults < MaxFaults /\ faults' = faults + 1

\* A write raises (database is locked): mark_running is outside the try, so
\* the coroutine dies with the row queued; a failed mark_succeeded is caught
\* and becomes mark_failed; when that fails too the row stays running.
WriteFails(j) ==
  /\ Fault
  /\ \/ /\ Scheduled(j, "spawned") \/ Scheduled(j, "raised")
        /\ task' = [task EXCEPT ![j] = NoTask]
     \/ /\ Scheduled(j, "returned")
        /\ task' = [task EXCEPT ![j].stage = "raised"]
  /\ UNCHANGED <<row, before, loop>>

\* The process stops at any point and starts again: its tasks, its threads
\* and the request it was handling are gone, the rows stay.
Restart(w) ==
  /\ Fault
  /\ task' = [j \in JobId |-> IF task[j].worker = w THEN NoTask ELSE task[j]]
  /\ loop' = [loop EXCEPT ![w] = Idle]
  /\ UNCHANGED <<row, before>>

\* The wall clock advances; only the age of unfinished jobs is ever looked at.
Older(j) == IF Active(j) /\ row[j].age <= StaleAfter
            THEN [row[j] EXCEPT !.age = @ + 1] ELSE row[j]

\* Too weak an assumption: the task may still report after StaleAfter.
TickTooLate ==
  /\ Timely => \A j \in JobId : Live(j) => row[j].age <= StaleAfter
  /\ row' = [j \in JobId |-> Older(j)]
  /\ UNCHANGED <<before, task, loop, faults>>

\* With Timely, a task still to report keeps the clock from passing StaleAfter.
Tick ==
  /\ Timely => \A j \in JobId : Live(j) => row[j].age < StaleAfter
  /\ row' = [j \in JobId |-> Older(j)]
  /\ UNCHANGED <<before, task, loop, faults>>
-----------------------------------------------------------------------------
TaskStep(j) ==
  \/ MarkRunning(j)
  \/ StartRunner(j)
  \/ \E outcome \in {"returned", "raised"} : RunnerEnds(j, outcome)
  \/ RecordResult(j)
  \/ WriteFails(j)

WorkerStep(w) ==
  \/ \E p \in Pc : CreateJob(w, Wol(p))
  \/ \E wk \in Exclusive : CreateOrGetActiveJob(w, wk)
  \/ MarkFailedIfActive(w)
  \/ Restart(w)

Next ==
  \/ \E w \in Worker : WorkerStep(w)
  \/ \E j \in JobId : TaskStep(j)
  \/ Tick

Spec == Init /\ [][Next]_vars

\* The event loop serves its ready coroutines in order and the pool its queue
\* in order, so a step enabled again and again is taken; every runner has
\* bounded loops and timeouts; the clock advances; the status monitor of each
\* worker requests a refresh every 60 s and survives its exceptions.
Fairness ==
  /\ WF_vars(Tick)
  /\ \A w \in Worker :
       /\ WF_vars(MarkFailedIfActive(w))
       /\ \A wk \in Exclusive :
            WF_vars(loop[w] = Retry(wk) /\ CreateOrGetActiveJob(w, wk))
       /\ SF_vars(CreateOrGetActiveJob(w, RefreshAll))
  /\ \A j \in JobId :
       /\ SF_vars(MarkRunning(j))
       /\ SF_vars(StartRunner(j))
       /\ WF_vars(\E outcome \in {"returned", "raised"} : RunnerEnds(j, outcome))
       /\ SF_vars(RecordResult(j))

FairSpec == Spec /\ Fairness
-----------------------------------------------------------------------------
Row == [state: {"absent"} \cup ActiveState \cup TerminalState,
        work: Work \cup {NoWork}, age: 0 .. StaleAfter + 1]
Task == [stage: {"none", "spawned", "waiting", "executing", "returned", "raised"},
         worker: Worker \cup {NoWorker}]
Request == {Idle} \cup {Retry(wk) : wk \in Exclusive}
             \cup {Recovering(wk, j) : wk \in Exclusive, j \in JobId}

\* Types, and a worker never executes more runners than its pool has threads.
TypeOK ==
  /\ row \in [JobId -> Row]
  /\ before \subseteq JobId \X JobId
  /\ task \in [JobId -> Task]
  /\ loop \in [Worker -> Request]
  /\ faults \in 0 .. MaxFaults
  /\ \A w \in Worker : Cardinality(ThreadsBusy(w)) <= Threads

\* Two unfinished jobs never carry the same exclusive work, whatever requests
\* of several workers interleave between the lookup, the recovery and the
\* insertion (create_or_get_active_job, BEGIN IMMEDIATE).
AtMostOneActive ==
  \A wk \in Exclusive : \A j, k \in ActiveFor(wk) : j = k

\* Two threads never execute the same exclusive work: one PC is never sent
\* two shutdowns at a time and the statuses are never refreshed twice at once
\* (the comment in request_pc_shutdown).
NoDoubleRunner ==
  \A j, k \in JobId :
    /\ task[j].stage = "executing" /\ task[k].stage = "executing"
    /\ row[j].work = row[k].work /\ row[j].work \in Exclusive
    => j = k

\* The same for the case that comment speaks of, the shutdowns alone: checked
\* where the clock may run past a live job.
NoDoubleShutdown ==
  \A j, k \in JobId, p \in Pc :
    /\ task[j].stage = "executing" /\ task[k].stage = "executing"
    /\ row[j].work = Shutdown(p) /\ row[k].work = Shutdown(p)
    => j = k

\* A job whose task is alive is failed by nobody but that task: recovery takes
\* only jobs whose worker was restarted or lost (ACTIVE_JOB_STALE_ERROR).
OnlyOwnTaskFails ==
  [][\A j \in JobId : Active(j) /\ Live(j) /\ row'[j].state = "failed" => ~Live(j)']_vars

\* The inductive invariant behind them. A live task owns an unfinished row
\* that is not stale; a row under recovery has lost its task.
TaskOwnsRow ==
  \A j \in JobId :
    /\ task[j] = NoTask \/ (Live(j) /\ task[j].worker \in Worker)
    /\ Live(j) => Active(j) /\ row[j].age <= StaleAfter
    /\ row[j].state = "absent" => row[j] = NoRow
RecoveryIsOrphaned ==
  \A w \in Worker : loop[w].stage = "recover" => ~Live(loop[w].job)
JobInv == TaskOwnsRow /\ RecoveryIsOrphaned /\ AtMostOneActive

\* The table keeps the promise of SingleFlight: a job opens once, closes once,
\* never reopens, is forgotten only when closed, and exclusive work is single.
Phase(state) == IF state \in ActiveState THEN "open"
                ELSE IF state \in TerminalState THEN "closed" ELSE "absent"
Slot == [j \in JobId |-> [phase |-> Phase(row[j].state), work |-> row[j].work]]
SF == INSTANCE SingleFlight WITH slot <- Slot
SingleFlightSpec == SF!Spec

\* The "while True" of create_or_get_active_job ends: a request that met a
\* stale job returns (or its worker restarts).
RequestReturns ==
  \A w \in Worker : loop[w].stage = "recover" ~> loop[w] = Idle

\* Unless a process stops or a write fails, every job reaches a result.
JobSettles == \A j \in JobId : (Active(j) /\ faults = 0) ~> (~Active(j) \/ faults > 0)

\* Restarts and lost writes never wedge the status refresh for good: an
\* unfinished refresh ends, by its own task or by the monitor's recovery (as
\* long as there is an identifier left for the next one).
RefreshRecovers ==
  \A j \in JobId :
    (Active(j) /\ row[j].work = RefreshAll)
      ~> (~Active(j) \/ \A k \in JobId : row[k].state # "absent")

\* Both hold: neither requests nor refreshes wait for ever
\* (create_or_get_active_job, enqueue_status_refresh_all_job).
RequestsGoOn == RequestReturns /\ RefreshRecovers
=============================================================================
