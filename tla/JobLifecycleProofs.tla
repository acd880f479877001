------------------------ MODULE JobLifecycleProofs --------------------------
(***************************************************************************)
(* Theorems about JobLifecycle, for every set of workers, identifiers and  *)
(* PCs: its types, the inductive invariant JobInv and what follows from    *)
(* it, and that the jobs table implements SingleFlight.                    *)
(***************************************************************************)
EXTENDS JobLifecycle, FiniteSetTheorems, TLAPS

USE JobAssumption

\* What an insertion does to the table, whatever is pruned with it: the new
\* row is queued, any other row stays or, if finished, is removed.
LEMMA InsertFacts ==
  ASSUME NEW j \in JobId, NEW wk \in Work, TypeOK, Insert(j, wk)
  PROVE  /\ row' \in [JobId -> Row]
         /\ before' \subseteq JobId \X JobId
         /\ row'[j] = [state |-> "queued", work |-> wk, age |-> 0]
         /\ \A k \in JobId \ {j} :
              row'[k] = row[k] \/ (row'[k] = NoRow /\ row[k].state \in TerminalState)
  <1> DEFINE rows == {k \in JobId : row[k] # NoRow} \cup {j}
             order == before \cup {<<k, j>> : k \in rows \ {j}}
             done == {k \in rows \ {j} : Prunable(k)}
             new == [state |-> "queued", work |-> wk, age |-> 0]
  <1>1. PICK old \in SUBSET done :
          LET gone == old \cup (done \ Newest(rows \ old, order))
          IN /\ row' = [k \in JobId |-> IF k = j THEN new
                                        ELSE IF k \in gone THEN NoRow ELSE row[k]]
             /\ before' = {p \in order : p[1] \notin gone /\ p[2] \notin gone}
    BY DEF Insert
  <1> DEFINE gone == old \cup (done \ Newest(rows \ old, order))
  <1>2. gone \subseteq done
    BY <1>1
  <1>3. new \in Row /\ NoRow \in Row
    BY DEF Row, NoRow, ActiveState
  <1>4. row' = [k \in JobId |-> IF k = j THEN new ELSE IF k \in gone THEN NoRow ELSE row[k]]
    BY <1>1
  <1>5. row' \in [JobId -> Row]
    BY <1>3, <1>4 DEF TypeOK
  <1>6. before' \subseteq JobId \X JobId
    BY <1>1 DEF TypeOK
  <1>7. ASSUME NEW k \in JobId \ {j}
        PROVE  row'[k] = row[k] \/ (row'[k] = NoRow /\ row[k].state \in TerminalState)
    BY <1>2, <1>4 DEF Prunable
  <1> QED
    BY <1>4, <1>5, <1>6, <1>7

LEMMA MarkFacts ==
  ASSUME NEW j \in JobId, NEW s \in ActiveState \cup TerminalState, TypeOK, Mark(j, s)
  PROVE  /\ row' \in [JobId -> Row]
         /\ \A k \in JobId \ {j} : row'[k] = row[k]
         /\ row[j] = NoRow => row'[j] = NoRow
         /\ row[j] # NoRow => /\ row'[j].state = s /\ row'[j].age = 0
                              /\ row'[j].work = row[j].work
  <1>1. NoRow \in Row /\ row[j] \in Row /\ row \in [JobId -> Row]
    BY DEF Row, NoRow, TypeOK
  <1>2. [row[j] EXCEPT !.state = s, !.age = 0] \in Row
    <2>1. 0 \in 0 .. StaleAfter + 1
      OBVIOUS
    <2> QED
      BY <1>1, <2>1 DEF Row
  <1>3. row' = [row EXCEPT ![j] = IF row[j] = NoRow THEN NoRow
                                  ELSE [row[j] EXCEPT !.state = s, !.age = 0]]
    BY DEF Mark
  <1>4. CASE row[j] = NoRow
    BY <1>1, <1>3, <1>4
  <1>5. CASE row[j] # NoRow
    <2>1. row'[j] = [row[j] EXCEPT !.state = s, !.age = 0]
      BY <1>1, <1>3, <1>5
    <2>2. row'[j].state = s /\ row'[j].age = 0 /\ row'[j].work = row[j].work
      BY <1>1, <2>1 DEF Row
    <2> QED
      BY <1>1, <1>2, <1>3, <1>5, <2>2
  <1> QED
    BY <1>4, <1>5

\* A step that starts no runner cannot overfill a pool.
LEMMA PoolShrinks ==
  ASSUME TypeOK,
         \A w \in Worker : ThreadsBusy(w)' \subseteq ThreadsBusy(w)
  PROVE  \A w \in Worker : Cardinality(ThreadsBusy(w)') <= Threads
  <1> SUFFICES ASSUME NEW w \in Worker
               PROVE  Cardinality(ThreadsBusy(w)') <= Threads
    OBVIOUS
  <1>1. IsFiniteSet(ThreadsBusy(w))
    BY FS_Subset DEF ThreadsBusy
  <1>2. /\ Cardinality(ThreadsBusy(w)') <= Cardinality(ThreadsBusy(w))
        /\ Cardinality(ThreadsBusy(w)') \in Nat /\ Cardinality(ThreadsBusy(w)) \in Nat
    BY <1>1, FS_Subset, FS_CardinalityType
  <1> QED
    BY <1>2 DEF TypeOK

\* The task of the other jobs is untouched by a step on the task of j.
LEMMA PoolOfOthers ==
  ASSUME TypeOK, NEW j \in JobId, NEW t \in Task, t.stage # "executing",
         task' = [task EXCEPT ![j] = t]
  PROVE  \A w \in Worker : ThreadsBusy(w)' \subseteq ThreadsBusy(w)
  BY DEF ThreadsBusy, TypeOK

LEMMA CreateJobType ==
  ASSUME TypeOK, NEW w \in Worker, NEW p \in Pc, CreateJob(w, Wol(p))
  PROVE  TypeOK'
  <1>1. PICK j \in JobId : Insert(j, Wol(p)) /\ Spawn(j, w)
    BY DEF CreateJob
  <1>2. row' \in [JobId -> Row] /\ before' \subseteq JobId \X JobId
    BY <1>1, InsertFacts DEF Work
  <1>3. /\ task' \in [JobId -> Task]
        /\ \A v \in Worker : ThreadsBusy(v)' \subseteq ThreadsBusy(v)
    BY <1>1 DEF Spawn, Task, TypeOK, ThreadsBusy
  <1> QED
    BY <1>2, <1>3, PoolShrinks DEF CreateJob, TypeOK

LEMMA CreateOrGetActiveJobType ==
  ASSUME TypeOK, NEW w \in Worker, NEW wk \in Exclusive, CreateOrGetActiveJob(w, wk)
  PROVE  TypeOK'
  <1>1. CASE \E j \in JobId : Insert(j, wk) /\ Spawn(j, w) /\ loop' = [loop EXCEPT ![w] = Idle]
    <2>1. PICK j \in JobId : Insert(j, wk) /\ Spawn(j, w) /\ loop' = [loop EXCEPT ![w] = Idle]
      BY <1>1
    <2>2. row' \in [JobId -> Row] /\ before' \subseteq JobId \X JobId
      BY <2>1, InsertFacts DEF Work
    <2>3. /\ task' \in [JobId -> Task]
          /\ \A v \in Worker : ThreadsBusy(v)' \subseteq ThreadsBusy(v)
      BY <2>1 DEF Spawn, Task, TypeOK, ThreadsBusy
    <2> QED
      BY <2>1, <2>2, <2>3, PoolShrinks DEF CreateOrGetActiveJob, TypeOK, Request
  <1>2. CASE /\ UNCHANGED <<row, before, task>>
             /\ \E j \in JobId : loop' = [loop EXCEPT ![w] =
                                    IF IsStale(j) THEN Recovering(wk, j) ELSE Idle]
    <2>1. loop' \in [Worker -> Request]
      BY <1>2 DEF TypeOK, Request
    <2>2. \A v \in Worker : ThreadsBusy(v)' = ThreadsBusy(v)
      BY <1>2 DEF ThreadsBusy
    <2> QED
      BY <1>2, <2>1, <2>2 DEF CreateOrGetActiveJob, TypeOK
  <1> QED
    BY <1>1, <1>2 DEF CreateOrGetActiveJob, Latest, ActiveFor

LEMMA MarkFailedIfActiveType ==
  ASSUME TypeOK, NEW w \in Worker, MarkFailedIfActive(w)
  PROVE  TypeOK'
  <1>1. PICK wk \in Exclusive, j \in JobId : loop[w] = Recovering(wk, j)
    BY DEF MarkFailedIfActive, TypeOK, Request, Idle, Retry
  <1>2. row' \in [JobId -> Row]
    <2>1. loop[w].job = j
      BY <1>1 DEF Recovering
    <2>2. CASE Mark(j, "failed")
      BY <2>2, MarkFacts DEF TerminalState
    <2> QED
      BY <2>1, <2>2 DEF MarkFailedIfActive, TypeOK
  <1>3. loop' \in [Worker -> Request]
    BY <1>1 DEF MarkFailedIfActive, TypeOK, Request, Recovering
  <1>4. \A v \in Worker : ThreadsBusy(v)' = ThreadsBusy(v)
    BY DEF MarkFailedIfActive, ThreadsBusy
  <1> QED
    BY <1>2, <1>3, <1>4 DEF MarkFailedIfActive, TypeOK

LEMMA RestartType ==
  ASSUME TypeOK, NEW w \in Worker, Restart(w)
  PROVE  TypeOK'
  <1>1. /\ task' \in [JobId -> Task]
        /\ \A v \in Worker : ThreadsBusy(v)' \subseteq ThreadsBusy(v)
    BY DEF Restart, TypeOK, Task, NoTask, ThreadsBusy
  <1>2. faults' \in 0 .. MaxFaults
    BY DEF Restart, Fault, TypeOK
  <1> QED
    BY <1>1, <1>2, PoolShrinks DEF Restart, TypeOK, Request

LEMMA StartRunnerType ==
  ASSUME TypeOK, NEW j \in JobId, StartRunner(j)
  PROVE  TypeOK'
  <1>1. task' \in [JobId -> Task]
    BY DEF StartRunner, TypeOK, Task
  <1>2. ASSUME NEW w \in Worker
        PROVE  Cardinality(ThreadsBusy(w)') <= Threads
    <2>1. IsFiniteSet(ThreadsBusy(w)) /\ Cardinality(ThreadsBusy(w)) \in Nat
      BY FS_Subset, FS_CardinalityType DEF ThreadsBusy
    <2>2. CASE w = task[j].worker
      <3>1. ThreadsBusy(w)' \subseteq ThreadsBusy(w) \cup {j}
        BY DEF StartRunner, ThreadsBusy, TypeOK
      <3>2. /\ IsFiniteSet(ThreadsBusy(w) \cup {j})
            /\ Cardinality(ThreadsBusy(w) \cup {j}) <= Threads
        <4>1. Cardinality(ThreadsBusy(w)) < Threads
          BY <2>2 DEF StartRunner
        <4>2. /\ IsFiniteSet(ThreadsBusy(w) \cup {j})
              /\ Cardinality(ThreadsBusy(w) \cup {j}) \in
                   {Cardinality(ThreadsBusy(w)), Cardinality(ThreadsBusy(w)) + 1}
          BY <2>1, FS_AddElement
        <4> QED
          BY <2>1, <4>1, <4>2
      <3>3. /\ Cardinality(ThreadsBusy(w)') <= Cardinality(ThreadsBusy(w) \cup {j})
            /\ Cardinality(ThreadsBusy(w)') \in Nat
            /\ Cardinality(ThreadsBusy(w) \cup {j}) \in Nat
        BY <3>1, <3>2, FS_Subset, FS_CardinalityType
      <3> QED
        BY <3>2, <3>3
    <2>3. CASE w # task[j].worker
      <3>1. ThreadsBusy(w)' = ThreadsBusy(w)
        BY <2>3 DEF StartRunner, ThreadsBusy, TypeOK, Task
      <3> QED
        BY <3>1 DEF TypeOK
    <2> QED
      BY <2>2, <2>3
  <1> QED
    BY <1>1, <1>2 DEF StartRunner, TypeOK

LEMMA TaskStepType ==
  ASSUME TypeOK, NEW j \in JobId, TaskStep(j)
  PROVE  TypeOK'
  <1>0. NoTask \in Task /\ \A s \in {"waiting", "returned", "raised"} :
          [task[j] EXCEPT !.stage = s] \in Task
    BY DEF Task, NoTask, TypeOK
  <1>1. CASE MarkRunning(j)
    <2>1. row' \in [JobId -> Row]
      BY <1>1, MarkFacts DEF MarkRunning, ActiveState
    <2>2. task' = [task EXCEPT ![j] = [task[j] EXCEPT !.stage = "waiting"]]
      BY <1>1 DEF MarkRunning, TypeOK
    <2>3. \A w \in Worker : ThreadsBusy(w)' \subseteq ThreadsBusy(w)
      BY <2>2, <1>0, PoolOfOthers DEF Task
    <2> QED
      BY <1>1, <1>0, <2>1, <2>2, <2>3, PoolShrinks DEF MarkRunning, TypeOK
  <1>2. CASE StartRunner(j)
    BY <1>2, StartRunnerType
  <1>3. CASE \E outcome \in {"returned", "raised"} : RunnerEnds(j, outcome)
    <2>1. PICK outcome \in {"returned", "raised"} : RunnerEnds(j, outcome)
      BY <1>3
    <2>2. task' = [task EXCEPT ![j] = [task[j] EXCEPT !.stage = outcome]]
      BY <2>1 DEF RunnerEnds, TypeOK
    <2>3. \A w \in Worker : ThreadsBusy(w)' \subseteq ThreadsBusy(w)
      BY <2>2, <1>0, PoolOfOthers DEF Task
    <2> QED
      BY <1>0, <2>1, <2>2, <2>3, PoolShrinks DEF RunnerEnds, TypeOK
  <1>4. CASE RecordResult(j)
    <2>1. row' \in [JobId -> Row]
      BY <1>4, MarkFacts DEF RecordResult, TerminalState
    <2>2. task' = [task EXCEPT ![j] = NoTask]
      BY <1>4 DEF RecordResult
    <2>3. \A w \in Worker : ThreadsBusy(w)' \subseteq ThreadsBusy(w)
      BY <2>2, <1>0, PoolOfOthers DEF NoTask
    <2> QED
      BY <1>0, <1>4, <2>1, <2>2, <2>3, PoolShrinks DEF RecordResult, TypeOK
  <1>5. CASE WriteFails(j)
    <2>1. PICK t \in {NoTask, [task[j] EXCEPT !.stage = "raised"]} :
            task' = [task EXCEPT ![j] = t]
      BY <1>5 DEF WriteFails, TypeOK
    <2>2. t.stage # "executing" /\ t \in Task
      BY <1>0 DEF NoTask, Task
    <2>3. \A w \in Worker : ThreadsBusy(w)' \subseteq ThreadsBusy(w)
      BY <2>1, <2>2, PoolOfOthers
    <2>4. faults' \in 0 .. MaxFaults
      BY <1>5 DEF WriteFails, Fault, TypeOK
    <2> QED
      BY <1>5, <2>1, <2>2, <2>3, <2>4, PoolShrinks DEF WriteFails, TypeOK
  <1> QED
    BY <1>1, <1>2, <1>3, <1>4, <1>5 DEF TaskStep

LEMMA TickType ==
  ASSUME TypeOK, Tick
  PROVE  TypeOK'
  <1>1. \A j \in JobId : Older(j) \in Row
    BY DEF Older, TypeOK, Row
  <1>2. \A w \in Worker : ThreadsBusy(w)' = ThreadsBusy(w)
    BY DEF Tick, ThreadsBusy
  <1> QED
    BY <1>1, <1>2 DEF Tick, TypeOK

LEMMA TypeInit == Init => TypeOK
  <1> SUFFICES ASSUME Init PROVE TypeOK
    OBVIOUS
  <1>1. NoRow \in Row /\ NoTask \in Task
    BY DEF Row, NoRow, Task, NoTask
  <1>2. \A w \in Worker : ThreadsBusy(w) = {}
    BY DEF Init, ThreadsBusy, NoTask
  <1> QED
    BY <1>1, <1>2, FS_EmptySet DEF Init, TypeOK, Request

LEMMA TypeStep == TypeOK /\ [Next]_vars => TypeOK'
  <1> SUFFICES ASSUME TypeOK, [Next]_vars PROVE TypeOK'
    OBVIOUS
  <1>1. ASSUME NEW w \in Worker, WorkerStep(w) PROVE TypeOK'
    BY <1>1, CreateJobType, CreateOrGetActiveJobType, MarkFailedIfActiveType,
       RestartType DEF WorkerStep
  <1>2. CASE UNCHANGED vars
    BY <1>2 DEF vars, TypeOK, ThreadsBusy
  <1> QED
    BY <1>1, <1>2, TaskStepType, TickType DEF Next

\* Types hold, and no worker executes more runners than its pool has threads.
THEOREM JobTypes == Spec => []TypeOK
  BY TypeInit, TypeStep, PTL DEF Spec

\* A new job: its row is fresh and queued, its task spawned on w. Nothing an
\* unfinished job or a recovery relies on is touched.
LEMMA InsertInv ==
  ASSUME TypeOK, JobInv, NEW w \in Worker, NEW j \in JobId, NEW wk \in Work,
         Fresh(j), Insert(j, wk), Spawn(j, w),
         wk \in Exclusive => ActiveFor(wk) = {},
         \A v \in Worker : loop'[v] = loop[v] \/ loop'[v] = Idle
  PROVE  JobInv'
  <1>1. /\ row'[j] = [state |-> "queued", work |-> wk, age |-> 0]
        /\ \A k \in JobId \ {j} :
             row'[k] = row[k] \/ (row'[k] = NoRow /\ row[k].state \in TerminalState)
    BY InsertFacts
  <1>2. /\ task'[j] = [stage |-> "spawned", worker |-> w]
        /\ \A k \in JobId \ {j} : task'[k] = task[k]
    BY DEF Spawn, TypeOK
  <1>3. TaskOwnsRow'
    <2>1. ASSUME NEW k \in JobId, k # j
          PROVE  /\ task'[k] = NoTask \/ (task'[k].stage # "none" /\ task'[k].worker \in Worker)
                 /\ task'[k].stage # "none" =>
                      row'[k].state \in ActiveState /\ row'[k].age <= StaleAfter
                 /\ row'[k].state = "absent" => row'[k] = NoRow
      BY <1>1, <1>2, <2>1 DEF JobInv, TaskOwnsRow, Live, Active, ActiveState, TerminalState, NoRow
    <2>2. /\ task'[j].stage # "none" /\ task'[j].worker \in Worker
          /\ row'[j].state = "queued" /\ row'[j].age <= StaleAfter
      BY <1>1, <1>2
    <2> QED
      BY <2>1, <2>2 DEF TaskOwnsRow, Live, Active, ActiveState
  <1>4. RecoveryIsOrphaned'
    <2> SUFFICES ASSUME NEW v \in Worker, loop'[v].stage = "recover"
                 PROVE  task'[loop'[v].job].stage = "none"
      BY DEF RecoveryIsOrphaned, Live
    <2>1. loop'[v] = loop[v]
      BY DEF Idle
    <2>2. loop[v].job \in JobId /\ loop[v].job # j
      BY <2>1 DEF TypeOK, Request, Idle, Retry, Recovering, Fresh
    <2> QED
      BY <1>2, <2>1, <2>2 DEF JobInv, RecoveryIsOrphaned, Live
  <1>5. AtMostOneActive'
    <2> SUFFICES ASSUME NEW x \in Exclusive, NEW k \in JobId, NEW l \in JobId,
                        row'[k].state \in ActiveState, row'[k].work = x,
                        row'[l].state \in ActiveState, row'[l].work = x
                 PROVE  k = l
      BY DEF AtMostOneActive, ActiveFor, Active
    <2>1. \A i \in {k, l} : i # j => i \in ActiveFor(x)
      BY <1>1 DEF ActiveFor, Active, ActiveState, NoRow
    <2>2. j \in {k, l} => x = wk
      BY <1>1
    <2> QED
      BY <2>1, <2>2 DEF JobInv, AtMostOneActive
  <1> QED
    BY <1>3, <1>4, <1>5 DEF JobInv

LEMMA CreateJobInv ==
  ASSUME TypeOK, JobInv, NEW w \in Worker, NEW p \in Pc, CreateJob(w, Wol(p))
  PROVE  JobInv'
  <1>1. PICK j \in JobId : Fresh(j) /\ Insert(j, Wol(p)) /\ Spawn(j, w)
    BY DEF CreateJob
  <1>2. Wol(p) \in Work /\ Wol(p) \notin Exclusive
    BY DEF Work, Exclusive, Wol, Shutdown, RefreshAll
  <1>3. \A v \in Worker : loop'[v] = loop[v]
    BY DEF CreateJob
  <1> QED
    BY <1>1, <1>2, <1>3, InsertInv

\* A stale row seen by a request has no live task: its recovery is orphaned.
LEMMA CreateOrGetActiveJobInv ==
  ASSUME TypeOK, JobInv, NEW w \in Worker, NEW wk \in Exclusive,
         CreateOrGetActiveJob(w, wk)
  PROVE  JobInv'
  <1>1. CASE /\ ActiveFor(wk) = {}
             /\ \E j \in JobId : Fresh(j) /\ Insert(j, wk) /\ Spawn(j, w)
             /\ loop' = [loop EXCEPT ![w] = Idle]
    <2>1. PICK j \in JobId : Fresh(j) /\ Insert(j, wk) /\ Spawn(j, w)
      BY <1>1
    <2>2. \A v \in Worker : loop'[v] = loop[v] \/ loop'[v] = Idle
      BY <1>1 DEF TypeOK
    <2> QED
      BY <1>1, <2>1, <2>2, InsertInv DEF Work
  <1>2. CASE /\ UNCHANGED <<row, before, task>>
             /\ \E j \in JobId : loop' = [loop EXCEPT ![w] =
                                    IF IsStale(j) THEN Recovering(wk, j) ELSE Idle]
    <2>1. PICK j \in JobId : loop' = [loop EXCEPT ![w] =
                                    IF IsStale(j) THEN Recovering(wk, j) ELSE Idle]
      BY <1>2
    <2>2. IsStale(j) => ~Live(j)
      <3>1. row[j].age \in Nat
        BY DEF TypeOK, Row
      <3> QED
        BY <3>1 DEF JobInv, TaskOwnsRow, IsStale
    <2>3. ASSUME NEW v \in Worker, loop'[v].stage = "recover"
          PROVE  ~Live(loop'[v].job)
      BY <2>1, <2>2, <2>3 DEF TypeOK, JobInv, RecoveryIsOrphaned, Idle, Recovering
    <2>4. RecoveryIsOrphaned'
      BY <1>2, <2>3 DEF RecoveryIsOrphaned, Live
    <2> QED
      BY <1>2, <2>4 DEF JobInv, TaskOwnsRow, AtMostOneActive, ActiveFor, Active, Live
  <1> QED
    BY <1>1, <1>2 DEF CreateOrGetActiveJob, Latest, ActiveFor

\* A row changes state without becoming active: uniqueness is kept.
LEMMA MarkUnique ==
  ASSUME TypeOK, AtMostOneActive, NEW j \in JobId,
         NEW s \in ActiveState \cup TerminalState, Mark(j, s),
         s \in ActiveState => Active(j)
  PROVE  AtMostOneActive'
  <1> SUFFICES ASSUME NEW x \in Exclusive, NEW k \in JobId, NEW l \in JobId,
                      row'[k].state \in ActiveState, row'[k].work = x,
                      row'[l].state \in ActiveState, row'[l].work = x
               PROVE  k = l
    BY DEF AtMostOneActive, ActiveFor, Active
  <1>1. ASSUME NEW i \in {k, l} PROVE i \in ActiveFor(x)
    <2>1. CASE i # j
      BY <2>1, MarkFacts DEF ActiveFor, Active
    <2>2. CASE i = j
      <3>1. row'[j].state \in ActiveState
        BY <2>2
      <3>2. row[j] # NoRow
        BY <3>1, MarkFacts DEF ActiveState, NoRow
      <3>3. row'[j].state = s /\ row'[j].work = row[j].work
        BY <3>2, MarkFacts
      <3> QED
        BY <2>2, <3>1, <3>3 DEF ActiveFor, Active
    <2> QED
      BY <2>1, <2>2
  <1> QED
    BY <1>1 DEF AtMostOneActive

LEMMA MarkFailedIfActiveInv ==
  ASSUME TypeOK, JobInv, NEW w \in Worker, MarkFailedIfActive(w)
  PROVE  JobInv'
  <1> DEFINE j == loop[w].job
  <1>1. j \in JobId /\ ~Live(j)
    BY DEF MarkFailedIfActive, TypeOK, Request, Idle, Retry, Recovering, JobInv, RecoveryIsOrphaned
  <1>2. RecoveryIsOrphaned'
    BY DEF MarkFailedIfActive, TypeOK, JobInv, RecoveryIsOrphaned, Live, Retry
  <1>3. CASE Active(j) /\ Mark(j, "failed")
    <2>1. AtMostOneActive'
      BY <1>1, <1>3, MarkUnique DEF JobInv, TerminalState, ActiveState
    <2>2. /\ row'[j].state = "failed"
          /\ \A k \in JobId \ {j} : row'[k] = row[k]
      <3>1. row[j] # NoRow
        BY <1>3 DEF Active, ActiveState, NoRow
      <3> QED
        BY <1>1, <1>3, <3>1, MarkFacts DEF TerminalState
    <2>3. TaskOwnsRow'
      BY <1>1, <2>2 DEF MarkFailedIfActive, JobInv, TaskOwnsRow, Live, Active
    <2> QED
      BY <1>2, <2>1, <2>3 DEF JobInv
  <1>4. CASE UNCHANGED row
    BY <1>2, <1>4 DEF MarkFailedIfActive, JobInv, TaskOwnsRow, AtMostOneActive,
                      ActiveFor, Active, Live
  <1> QED
    BY <1>3, <1>4 DEF MarkFailedIfActive

LEMMA RestartInv ==
  ASSUME TypeOK, JobInv, NEW w \in Worker, Restart(w)
  PROVE  JobInv'
  <1>1. \A k \in JobId : task'[k] = NoTask \/ task'[k] = task[k]
    BY DEF Restart
  <1>2. TaskOwnsRow'
    BY <1>1 DEF Restart, JobInv, TaskOwnsRow, Live, Active, NoTask
  <1>3. RecoveryIsOrphaned'
    <2> SUFFICES ASSUME NEW v \in Worker, loop'[v].stage = "recover"
                 PROVE  task'[loop'[v].job].stage = "none"
      BY DEF RecoveryIsOrphaned, Live
    <2>1. loop'[v] = loop[v] /\ loop[v].job \in JobId
      BY DEF Restart, TypeOK, Request, Idle, Retry, Recovering
    <2> QED
      BY <1>1, <2>1 DEF JobInv, RecoveryIsOrphaned, Live, NoTask
  <1> QED
    BY <1>2, <1>3 DEF Restart, JobInv, AtMostOneActive, ActiveFor, Active

\* A step on the task and the row of job j alone.
LEMMA OwnStepInv ==
  ASSUME TypeOK, JobInv, NEW j \in JobId, Live(j),
         UNCHANGED loop,
         \A k \in JobId \ {j} : row'[k] = row[k] /\ task'[k] = task[k],
         task'[j] = NoTask \/
           /\ task'[j].stage # "none" /\ task'[j].worker = task[j].worker
           /\ row'[j].state \in ActiveState /\ row'[j].age <= StaleAfter,
         row'[j].state # "absent",
         AtMostOneActive'
  PROVE  JobInv'
  <1>1. TaskOwnsRow'
    <2>1. task[j].worker \in Worker
      BY DEF JobInv, TaskOwnsRow, Live, NoTask
    <2> QED
      BY <2>1 DEF JobInv, TaskOwnsRow, Live, Active, NoTask
  <1>2. RecoveryIsOrphaned'
    <2> SUFFICES ASSUME NEW v \in Worker, loop[v].stage = "recover"
                 PROVE  task'[loop[v].job].stage = "none"
      BY DEF RecoveryIsOrphaned, Live
    <2>1. loop[v].job \in JobId /\ ~Live(loop[v].job)
      BY DEF TypeOK, Request, Idle, Retry, Recovering, JobInv, RecoveryIsOrphaned
    <2> QED
      BY <2>1 DEF Live
  <1> QED
    BY <1>1, <1>2 DEF JobInv

LEMMA TaskStepInv ==
  ASSUME TypeOK, JobInv, NEW j \in JobId, TaskStep(j)
  PROVE  JobInv'
  <1>1. Live(j)
    BY DEF TaskStep, MarkRunning, StartRunner, RunnerEnds, RecordResult, WriteFails,
           Scheduled, Live
  <1>2. Active(j) /\ row[j] # NoRow /\ row[j].age <= StaleAfter
    BY <1>1 DEF JobInv, TaskOwnsRow, Active, ActiveState, NoRow
  <1>3. ASSUME NEW s \in ActiveState \cup TerminalState, Mark(j, s)
        PROVE  /\ row'[j].state = s /\ row'[j].age = 0
               /\ \A k \in JobId \ {j} : row'[k] = row[k]
               /\ AtMostOneActive'
    BY <1>2, <1>3, MarkFacts, MarkUnique DEF JobInv
  <1>4. CASE MarkRunning(j)
    <2>1. /\ row'[j].state = "running" /\ row'[j].age = 0
          /\ \A k \in JobId \ {j} : row'[k] = row[k]
          /\ AtMostOneActive'
      BY <1>3, <1>4 DEF MarkRunning, ActiveState
    <2>2. /\ task'[j].stage = "waiting" /\ task'[j].worker = task[j].worker
          /\ \A k \in JobId \ {j} : task'[k] = task[k]
      BY <1>4 DEF MarkRunning, TypeOK, Task
    <2> QED
      BY <1>1, <1>4, <2>1, <2>2, OwnStepInv DEF MarkRunning, ActiveState
  <1>5. CASE RecordResult(j)
    <2>1. PICK s \in TerminalState : Mark(j, s)
      BY <1>5 DEF RecordResult, TerminalState
    <2>2. task'[j] = NoTask /\ \A k \in JobId \ {j} : task'[k] = task[k]
      BY <1>5 DEF RecordResult, TypeOK
    <2>3. /\ row'[j].state = s
          /\ \A k \in JobId \ {j} : row'[k] = row[k]
          /\ AtMostOneActive'
      BY <1>3, <2>1
    <2> QED
      BY <1>1, <1>5, <2>2, <2>3, OwnStepInv DEF RecordResult, TerminalState
  <1>6. CASE /\ UNCHANGED <<row, loop>>
             /\ \A k \in JobId \ {j} : task'[k] = task[k]
             /\ task'[j] = NoTask \/
                  (task'[j].stage # "none" /\ task'[j].worker = task[j].worker)
    <2>1. AtMostOneActive'
      BY <1>6 DEF JobInv, AtMostOneActive, ActiveFor, Active
    <2>2. /\ row'[j].state \in ActiveState /\ row'[j].age <= StaleAfter
          /\ row'[j].state # "absent"
          /\ \A k \in JobId \ {j} : row'[k] = row[k] /\ task'[k] = task[k]
      BY <1>2, <1>6 DEF Active, ActiveState
    <2> QED
      BY <1>1, <1>6, <2>1, <2>2, OwnStepInv
  <1>7. CASE StartRunner(j) \/ WriteFails(j)
             \/ \E outcome \in {"returned", "raised"} : RunnerEnds(j, outcome)
    <2>1. /\ UNCHANGED <<row, loop>>
          /\ \E t \in {NoTask} \cup {[task[j] EXCEPT !.stage = s] :
                                      s \in {"executing", "returned", "raised"}} :
               task' = [task EXCEPT ![j] = t]
      BY <1>7 DEF StartRunner, WriteFails, RunnerEnds, TypeOK
    <2>2. PICK t \in {NoTask} \cup {[task[j] EXCEPT !.stage = s] :
                                  s \in {"executing", "returned", "raised"}} :
            task' = [task EXCEPT ![j] = t]
      BY <2>1
    <2>3. task[j] \in Task /\ task \in [JobId -> Task]
      BY DEF TypeOK
    <2>4. t = NoTask \/ (t.stage # "none" /\ t.worker = task[j].worker)
      BY <2>3 DEF Task
    <2>5. task'[j] = t /\ \A k \in JobId \ {j} : task'[k] = task[k]
      BY <2>2, <2>3
    <2> QED
      BY <1>6, <2>1, <2>4, <2>5
  <1> QED
    BY <1>4, <1>5, <1>7 DEF TaskStep

\* The one place where Timely is needed.
LEMMA TickInv ==
  ASSUME TypeOK, JobInv, Timely, Tick
  PROVE  JobInv'
  <1>1. \A j \in JobId :
          /\ row'[j].state = row[j].state /\ row'[j].work = row[j].work
          /\ row[j] = NoRow => row'[j] = NoRow
          /\ row'[j].age <= row[j].age + 1 /\ row[j].age \in Nat
    BY DEF Tick, Older, TypeOK, Row, Active, ActiveState, NoRow
  <1>2. TaskOwnsRow'
    <2> SUFFICES ASSUME NEW j \in JobId
                 PROVE  /\ Live(j) => Active(j)' /\ row'[j].age <= StaleAfter
                        /\ row'[j].state = "absent" => row'[j] = NoRow
      BY DEF Tick, JobInv, TaskOwnsRow, Live
    <2>1. Live(j) => row[j].age < StaleAfter
      BY DEF Tick
    <2>2. row'[j].age \in Nat
      BY TickType DEF TypeOK, Row
    <2> QED
      BY <1>1, <2>1, <2>2 DEF JobInv, TaskOwnsRow, Active
  <1>3. RecoveryIsOrphaned' /\ AtMostOneActive'
    BY <1>1 DEF Tick, JobInv, RecoveryIsOrphaned, AtMostOneActive, ActiveFor, Active, Live
  <1> QED
    BY <1>2, <1>3 DEF JobInv

LEMMA JobInvInit == Init => JobInv
  BY DEF Init, JobInv, TaskOwnsRow, RecoveryIsOrphaned, AtMostOneActive, ActiveFor,
         Active, ActiveState, Live, NoRow, NoTask, Idle

LEMMA JobInvStep ==
  ASSUME Timely PROVE TypeOK /\ JobInv /\ [Next]_vars => JobInv'
  <1> SUFFICES ASSUME TypeOK, JobInv, [Next]_vars PROVE JobInv'
    OBVIOUS
  <1>1. ASSUME NEW w \in Worker, WorkerStep(w) PROVE JobInv'
    BY <1>1, CreateJobInv, CreateOrGetActiveJobInv, MarkFailedIfActiveInv,
       RestartInv DEF WorkerStep
  <1>2. CASE UNCHANGED vars
    BY <1>2 DEF vars, JobInv, TaskOwnsRow, RecoveryIsOrphaned, AtMostOneActive,
                ActiveFor, Active, Live
  <1> QED
    BY <1>1, <1>2, TaskStepInv, TickInv DEF Next

\* A live task owns an unfinished row that is not stale, and a request recovers
\* only a row whose task is gone, provided no live task outlasts StaleAfter.
THEOREM JobInvariant ==
  ASSUME Timely PROVE Spec => []JobInv
  BY JobTypes, JobInvInit, JobInvStep, PTL DEF Spec

\* Two unfinished jobs never carry the same exclusive work, for any number of
\* workers whose requests interleave between two transactions.
THEOREM SingleActiveJob ==
  ASSUME Timely PROVE Spec => []AtMostOneActive
  <1>1. JobInv => AtMostOneActive
    BY DEF JobInv
  <1> QED
    BY <1>1, JobInvariant, PTL

\* Two threads never execute the same exclusive work: no PC is sent two
\* shutdowns at a time.
THEOREM SingleRunner ==
  ASSUME Timely PROVE Spec => []NoDoubleRunner
  <1>1. JobInv => NoDoubleRunner
    BY DEF JobInv, TaskOwnsRow, AtMostOneActive, NoDoubleRunner, ActiveFor, Live
  <1> QED
    BY <1>1, JobInvariant, PTL

-----------------------------------------------------------------------------
\* Steps of the table seen as steps of SingleFlight.
LEMMA SlotOf ==
  \A j \in JobId : Slot[j] = [phase |-> Phase(row[j].state), work |-> row[j].work]
  BY DEF Slot

LEMMA InsertOpens ==
  ASSUME TypeOK, JobInv, NEW j \in JobId, NEW wk \in Work, Fresh(j), Insert(j, wk),
         wk \in Exclusive => ActiveFor(wk) = {}
  PROVE  SF!Open(j, wk)
  <1>1. /\ row'[j] = [state |-> "queued", work |-> wk, age |-> 0]
        /\ \A k \in JobId \ {j} :
             row'[k] = row[k] \/ (row'[k] = NoRow /\ row[k].state \in TerminalState)
    BY InsertFacts
  <1> DEFINE forgotten == {k \in JobId \ {j} : row'[k] = NoRow /\ row[k].state \in TerminalState}
  <1>2. Slot[j] = SF!Absent
    BY DEF Slot, Fresh, NoRow, Phase, ActiveState, TerminalState, SF!Absent
  <1>3. wk \in Exclusive => \A k \in JobId : Slot[k] # SF!Opened(wk)
    <2> SUFFICES ASSUME wk \in Exclusive, NEW k \in JobId, Slot[k] = SF!Opened(wk)
                 PROVE  FALSE
      OBVIOUS
    <2>1. Phase(row[k].state) = "open" /\ row[k].work = wk
      BY DEF Slot, SF!Opened
    <2>2. row[k].state \in ActiveState
      BY <2>1 DEF Phase, ActiveState, TerminalState, TypeOK, Row
    <2> QED
      BY <2>1, <2>2 DEF ActiveFor, Active
  <1>4. forgotten \in SUBSET {k \in JobId : SF!ClosedPhase(k)}
    BY DEF Slot, SF!ClosedPhase, Phase, TerminalState, ActiveState
  <1>5. Slot' = [k \in JobId |-> IF k = j THEN SF!Opened(wk)
                                 ELSE IF k \in forgotten THEN SF!Absent ELSE Slot[k]]
    <2>1. Slot'[j] = SF!Opened(wk)
      BY <1>1 DEF Slot, SF!Opened, Phase, ActiveState
    <2>2. ASSUME NEW k \in JobId, k \in forgotten PROVE Slot'[k] = SF!Absent
      BY <2>2 DEF Slot, SF!Absent, NoRow, Phase, ActiveState, TerminalState
    <2>3. ASSUME NEW k \in JobId, k # j, k \notin forgotten PROVE Slot'[k] = Slot[k]
      BY <1>1, <2>3 DEF Slot
    <2> QED
      BY <2>1, <2>2, <2>3 DEF Slot
  <1> QED
    BY <1>2, <1>3, <1>4, <1>5 DEF SF!Open

LEMMA MarkCloses ==
  ASSUME TypeOK, NEW j \in JobId, Active(j), NEW s \in TerminalState, Mark(j, s)
  PROVE  SF!Close(j)
  <1>1. row[j] # NoRow
    BY DEF Active, ActiveState, NoRow
  <1>2. /\ row'[j].state = s /\ row'[j].work = row[j].work
        /\ \A k \in JobId \ {j} : row'[k] = row[k]
    BY <1>1, MarkFacts
  <1>3. Slot[j].phase = "open"
    BY DEF Slot, Active, Phase
  <1>4. Slot'[j] = [Slot[j] EXCEPT !.phase = "closed"]
    BY <1>2 DEF Slot, Phase, ActiveState, TerminalState
  <1>5. \A k \in JobId \ {j} : Slot'[k] = Slot[k]
    BY <1>2 DEF Slot
  <1>6. Slot' = [Slot EXCEPT ![j] = [Slot[j] EXCEPT !.phase = "closed"]]
    BY <1>4, <1>5 DEF Slot
  <1> QED
    BY <1>3, <1>6 DEF SF!Close

LEMMA SameSlots ==
  ASSUME \A j \in JobId : /\ Phase(row'[j].state) = Phase(row[j].state)
                           /\ row'[j].work = row[j].work
  PROVE  Slot' = Slot
  BY DEF Slot

LEMMA WorkerStepRefines ==
  ASSUME TypeOK, JobInv, NEW w \in Worker, WorkerStep(w)
  PROVE  SF!Next \/ Slot' = Slot
  <1>1. ASSUME NEW p \in Pc, CreateJob(w, Wol(p)) PROVE SF!Next
    <2>1. PICK j \in JobId : Fresh(j) /\ Insert(j, Wol(p))
      BY <1>1 DEF CreateJob
    <2>2. Wol(p) \in Work /\ Wol(p) \notin Exclusive
      BY DEF Work, Exclusive, Wol, Shutdown, RefreshAll
    <2> QED
      BY <2>1, <2>2, InsertOpens DEF SF!Next
  <1>2. ASSUME NEW wk \in Exclusive, CreateOrGetActiveJob(w, wk)
        PROVE  SF!Next \/ Slot' = Slot
    <2>1. CASE \E j \in JobId : ActiveFor(wk) = {} /\ Fresh(j) /\ Insert(j, wk)
      BY <2>1, InsertOpens DEF SF!Next, Work
    <2>2. CASE UNCHANGED row
      BY <2>2 DEF Slot
    <2> QED
      BY <1>2, <2>1, <2>2 DEF CreateOrGetActiveJob
  <1>3. ASSUME MarkFailedIfActive(w) PROVE SF!Next \/ Slot' = Slot
    <2>1. loop[w].job \in JobId
      BY <1>3 DEF MarkFailedIfActive, TypeOK, Request, Idle, Retry, Recovering
    <2>2. CASE Active(loop[w].job) /\ Mark(loop[w].job, "failed")
      BY <2>1, <2>2, MarkCloses DEF SF!Next, TerminalState
    <2>3. CASE UNCHANGED row
      BY <2>3 DEF Slot
    <2> QED
      BY <1>3, <2>2, <2>3 DEF MarkFailedIfActive
  <1>4. ASSUME Restart(w) PROVE Slot' = Slot
    BY <1>4 DEF Restart, Slot
  <1> QED
    BY <1>1, <1>2, <1>3, <1>4 DEF WorkerStep

LEMMA TaskStepRefines ==
  ASSUME TypeOK, JobInv, NEW j \in JobId, TaskStep(j)
  PROVE  SF!Next \/ Slot' = Slot
  <1>1. Active(j) /\ row[j] # NoRow
    BY DEF TaskStep, MarkRunning, StartRunner, RunnerEnds, RecordResult, WriteFails,
           Scheduled, Live, JobInv, TaskOwnsRow, Active, ActiveState, NoRow
  <1>2. CASE MarkRunning(j)
    <2>1. /\ row'[j].state = "running" /\ row'[j].work = row[j].work
          /\ \A k \in JobId \ {j} : row'[k] = row[k]
      BY <1>1, <1>2, MarkFacts DEF MarkRunning, ActiveState
    <2> QED
      BY <1>1, <2>1, SameSlots DEF Phase, Active, ActiveState
  <1>3. CASE RecordResult(j)
    <2>1. PICK s \in TerminalState : Mark(j, s)
      BY <1>3 DEF RecordResult, TerminalState
    <2> QED
      BY <1>1, <2>1, MarkCloses DEF SF!Next
  <1>4. CASE UNCHANGED row
    BY <1>4 DEF Slot
  <1> QED
    BY <1>2, <1>3, <1>4 DEF TaskStep, StartRunner, RunnerEnds, WriteFails

\* The jobs table implements SingleFlight: a job is opened once, closed once and
\* never reopened, forgotten only when closed, and exclusive work is single.
THEOREM ImplementsSingleFlight ==
  ASSUME Timely PROVE Spec => SingleFlightSpec
  <1>1. Init => SF!Init
    <2> SUFFICES ASSUME Init PROVE Slot = [j \in JobId |-> SF!Absent]
      BY DEF SF!Init
    <2> QED
      BY DEF Init, Slot, SF!Absent, NoRow, Phase, ActiveState, TerminalState
  <1>2. TypeOK /\ JobInv /\ [Next]_vars => [SF!Next]_Slot
    <2> SUFFICES ASSUME TypeOK, JobInv, [Next]_vars PROVE SF!Next \/ Slot' = Slot
      OBVIOUS
    <2>1. CASE Tick
      <3>1. \A j \in JobId : row'[j].state = row[j].state /\ row'[j].work = row[j].work
        BY <2>1 DEF Tick, Older, TypeOK, Row
      <3> QED
        BY <3>1, SameSlots
    <2>2. CASE UNCHANGED vars
      BY <2>2 DEF vars, Slot
    <2> QED
      BY <2>1, <2>2, WorkerStepRefines, TaskStepRefines DEF Next
  <1> QED
    BY <1>1, <1>2, JobTypes, JobInvariant, PTL DEF Spec, SingleFlightSpec, SF!Spec

\* A job whose task is alive is failed by that task alone: recovery never takes
\* a job away from a worker that is still carrying it.
THEOREM OwnTaskFails ==
  ASSUME Timely PROVE Spec => OnlyOwnTaskFails
  <1> DEFINE Kept == \A j \in JobId :
               Active(j) /\ Live(j) /\ row'[j].state = "failed" => ~Live(j)'
  <1>1. TypeOK /\ JobInv /\ [Next]_vars => [Kept]_vars
    <2> SUFFICES ASSUME TypeOK, JobInv, [Next]_vars, NEW j \in JobId,
                        Active(j), Live(j), row'[j].state = "failed"
                 PROVE  ~Live(j)'
      OBVIOUS
    <2>1. ASSUME row'[j].state = row[j].state PROVE FALSE
      BY <2>1 DEF Active, ActiveState
    <2>2. ASSUME NEW k \in JobId, NEW wk \in Work, Insert(k, wk) PROVE FALSE
      <3>0. /\ row'[k] = [state |-> "queued", work |-> wk, age |-> 0]
            /\ \A i \in JobId \ {k} :
                 row'[i] = row[i] \/ (row'[i] = NoRow /\ row[i].state \in TerminalState)
        BY <2>2, InsertFacts
      <3>1. CASE j = k
        BY <3>0, <3>1
      <3>2. CASE j # k
        BY <2>1, <3>0, <3>2 DEF NoRow
      <3> QED
        BY <3>1, <3>2
    <2>3. ASSUME NEW k \in JobId, NEW s \in ActiveState \cup TerminalState, Mark(k, s)
          PROVE  k = j
      BY <2>1, <2>3, MarkFacts
    <2>4. ASSUME NEW w \in Worker, WorkerStep(w) PROVE FALSE
      <3>1. CASE MarkFailedIfActive(w)
        <4>1. loop[w].job \in JobId /\ loop[w].job # j
          BY <3>1 DEF MarkFailedIfActive, TypeOK, Request, Idle, Retry, Recovering,
                      JobInv, RecoveryIsOrphaned
        <4> QED
          BY <2>1, <2>3, <3>1, <4>1 DEF MarkFailedIfActive, TerminalState
      <3>2. CASE \E p \in Pc : CreateJob(w, Wol(p))
        BY <2>2, <3>2 DEF CreateJob, Work
      <3>3. CASE \E wk \in Exclusive : CreateOrGetActiveJob(w, wk)
        BY <2>1, <2>2, <3>3 DEF CreateOrGetActiveJob, Work
      <3>4. CASE Restart(w)
        BY <2>1, <3>4 DEF Restart
      <3> QED
        BY <2>4, <3>1, <3>2, <3>3, <3>4 DEF WorkerStep
    <2>5. ASSUME NEW k \in JobId, TaskStep(k) PROVE ~Live(j)'
      <3>1. CASE MarkRunning(k)
        <4>1. k = j /\ row[j] # NoRow
          BY <2>3, <3>1 DEF MarkRunning, ActiveState, Active, NoRow
        <4>2. row'[j].state = "running"
          BY <3>1, <4>1, MarkFacts DEF MarkRunning, ActiveState
        <4> QED
          BY <4>2
      <3>2. CASE RecordResult(k)
        <4>1. k = j
          BY <2>3, <3>2 DEF RecordResult, TerminalState
        <4> QED
          BY <3>2, <4>1 DEF RecordResult, Live, NoTask, TypeOK
      <3>3. CASE UNCHANGED row
        BY <2>1, <3>3
      <3> QED
        BY <2>5, <3>1, <3>2, <3>3 DEF TaskStep, StartRunner, RunnerEnds, WriteFails
    <2>6. CASE Tick
      BY <2>1, <2>6 DEF Tick, Older, TypeOK, Row
    <2>7. CASE UNCHANGED vars
      BY <2>1, <2>7 DEF vars
    <2> QED
      BY <2>4, <2>5, <2>6, <2>7 DEF Next
  <1> QED
    BY <1>1, JobTypes, JobInvariant, PTL DEF Spec, OnlyOwnTaskFails
=============================================================================
