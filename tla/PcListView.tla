------------------------------ MODULE PcListView ------------------------------
(***************************************************************************)
(* The PC list in the browser: rows in the backend's table, the cache of   *)
(* list_pcs, the event stream, the request cache and the hooks             *)
(* usePcFilters, usePcCollection, usePcCrud and useDashboardSse.  Each row *)
(* has the number of the change that wrote it.  A callback that awaits an  *)
(* answer keeps the filters of the render that made it.  Jobs are here     *)
(* what changes rows unannounced until they end; how they are polled is in *)
(* JobTracking.  The threads of the backend's cache are in                 *)
(* ReadThroughCache.                                                       *)
(***************************************************************************)
EXTENDS Integers, Sequences, FiniteSets

CONSTANTS
  Pc,
  QueueSize,                         \* events kept for a slow subscriber (100)
  MaxChanges, MaxLoads, MaxOps,      \* bounds for TLC
  None, Nothing, Idle, Asked

ASSUME PcListAssumption ==
  {QueueSize, MaxChanges, MaxLoads, MaxOps} \subseteq Nat

VARIABLES
  truth, changes,       \* the table, and the number of its last change
  kept,                 \* earlier tables: the backend's cache has their lists, or is about to get them
  monitor,              \* a job of the monitor or of another client is running
  stream, connected,    \* events on their way; whether the server has the subscriber
  cache, inFlight, waiting,   \* requests for the list, and the calls that await them
  shown, shownFor, listLoading, failed, seq,   \* usePcCollection
  applied,              \* appliedPcFilters
  ops,                  \* operations that await an answer or the end of their job
  fetches,              \* job requests of the event handler, with its filters
  byOld,                \* history: a callback of an earlier render made the newest load
  excuse                \* history: a copy is outdated for a known reason

tableVars == <<truth, changes, kept, monitor>>
streamVars == <<stream, connected>>
requestVars == <<cache, inFlight, waiting>>
viewVars == <<shown, shownFor, listLoading, failed, seq, applied, byOld>>
pcListVars == <<tableVars, streamVars, requestVars, viewVars, ops, fetches, excuse>>

Requests == INSTANCE CachedRequests
Filter == {"all", "online"}
Status == {"online", "offline"}
OpKind == {"create", "delete", "update", "status", "job"}

\* matchesPcFilters and the filters of GET /api/pcs.
Matches(e, f) == e # None /\ f \in {"all", e.status}
Filtered(t, f) == [p \in Pc |-> IF Matches(t[p], f) THEN t[p] ELSE None]
ListOf(f) == Filtered(truth, f)

\* Every copy the browser has or will get agrees with the table.
Clean ==
  /\ shown = ListOf(shownFor)
  /\ \A f \in Filter : cache[f] \in {Nothing, ListOf(f)} /\ inFlight[f] \in {Idle, Asked, ListOf(f)}
  /\ kept = {}
  /\ \A o \in ops : o.answer # None => o.answer = truth[o.pc]

\* An answer read before the last change is still on its way, or may be given.
Overtaken ==
  \/ kept # {}
  \/ \E f \in Filter : inFlight[f] \notin {Idle, Asked, ListOf(f)}
  \/ \E o \in ops : o.answer # None /\ o.answer # truth[o.pc]
Excuse(reason) == excuse' = ((excuse \/ reason) /\ ~Clean')

PcListInit ==
  /\ truth \in [Pc -> {None, [status |-> "offline", by |-> 0]}]
  /\ changes = 0 /\ monitor = FALSE
  /\ kept = {}
  /\ stream = << >> /\ connected = FALSE
  /\ cache = [f \in Filter |-> Nothing] /\ inFlight = [f \in Filter |-> Idle] /\ waiting = {}
  /\ shown = [p \in Pc |-> None] /\ shownFor = "all" /\ listLoading = FALSE /\ failed = FALSE /\ seq = 0
  /\ applied = "all" /\ ops = {} /\ fetches = {} /\ byOld = FALSE /\ excuse = FALSE
-----------------------------------------------------------------------------
(* The backend. *)

Row(s) == [status |-> s, by |-> changes + 1]

\* The cache of list_pcs when the table changes: what it had may stay, as the
\* jobs for all PCs invalidate at their end only, and a request that has read
\* the table stores the old list even after an invalidation. Requests that
\* change a PC invalidate before they answer or publish; an answer from the
\* cache in between is as if given before the change, so the two are one step.
Outdate == kept' \in SUBSET ((kept \cup {truth}) \ {truth'})

Write(p, e) ==
  /\ changes < MaxChanges /\ changes' = changes + 1
  /\ truth' = [truth EXCEPT ![p] = e]
  /\ Outdate

Heard(e) == connected /\ Len(stream) < QueueSize
\* EventBroker.publish: a full queue drops the event.
Publish(e) == stream' = IF Heard(e) THEN Append(stream, e) ELSE stream

JobRunning == monitor \/ \E o \in ops : o.state = "running"

\* _invalidate_pc_related_cache: what a request still has to store stays.
Invalidate == kept' \in SUBSET kept

\* A job changes the status of a PC; nothing is published until it ends.
JobChanges(p) ==
  /\ JobRunning /\ truth[p] # None
  /\ \E s \in Status : Write(p, Row(s))
  /\ UNCHANGED <<monitor, streamVars, requestVars, viewVars, ops, fetches>>
  /\ Excuse(FALSE)

MonitorStarts ==
  /\ ~monitor /\ changes < MaxChanges /\ monitor' = TRUE
  /\ UNCHANGED <<truth, changes, kept, streamVars, requestVars, viewVars, ops, fetches, excuse>>

\* The end of a job; one that failed on the way did not invalidate.
MonitorEnds ==
  /\ monitor /\ monitor' = FALSE
  /\ Invalidate
  /\ Publish([type |-> "job"])
  /\ UNCHANGED <<truth, changes, connected, requestVars, viewVars, ops, fetches>>
  /\ Excuse(~Heard([type |-> "job"]))

\* Another client refreshes the status of a PC.
RefreshedElsewhere(p) ==
  /\ truth[p] # None
  /\ UNCHANGED <<monitor, connected, requestVars, viewVars, ops, fetches>>
  /\ \E s \in Status :
       LET e == [type |-> "pc_status", pc |-> p, row |-> Row(s)]
       IN Write(p, Row(s)) /\ Publish(e) /\ Excuse(~Heard(e))

\* Another client creates, edits or deletes a PC, or its SSH connection test
\* finds the PC online: nothing is published.
ChangedElsewhere(p) ==
  /\ \E e \in IF truth[p] = None THEN {Row("offline")} ELSE {None, Row(truth[p].status), Row("online")} :
       Write(p, e)
  /\ UNCHANGED <<monitor, streamVars, requestVars, viewVars, ops, fetches>>
  /\ Excuse(TRUE)

\* list_pcs: from the cache or from the table.
ServeList(f) ==
  /\ \E t \in kept \cup {truth} : Requests!Serve(f, Filtered(t, f))
  /\ UNCHANGED <<tableVars, streamVars, waiting, viewVars, ops, fetches>>
  /\ Excuse(FALSE)

\* The lists of the backend's cache that a table had expire or make room.
Expire ==
  /\ \E t \in kept : kept' = kept \ {t}
  /\ UNCHANGED <<truth, changes, monitor, streamVars, requestVars, viewVars, ops, fetches>>
  /\ Excuse(FALSE)

Replace(o, state, answer) == ops' = (ops \ {o}) \cup {[o EXCEPT !.state = state, !.answer = answer]}

\* The server carries out an operation; refusals are FailOp.
ServeOp(o) ==
  /\ o.state = "asked"
  /\ (o.kind = "create") = (truth[o.pc] = None)
  /\ UNCHANGED <<monitor, connected, requestVars, viewVars, fetches>>
  /\ CASE o.kind = "create" ->
            Write(o.pc, Row("offline")) /\ Replace(o, "done", Row("offline"))
            /\ UNCHANGED stream /\ Excuse(FALSE)
       [] o.kind = "delete" ->
            Write(o.pc, None) /\ Replace(o, "done", None) /\ UNCHANGED stream /\ Excuse(FALSE)
       [] o.kind = "update" ->
            LET e == Row(truth[o.pc].status)
            IN Write(o.pc, e) /\ Replace(o, "done", e) /\ UNCHANGED stream /\ Excuse(FALSE)
       [] o.kind = "status" ->
            \E s \in Status :
              LET e == [type |-> "pc_status", pc |-> o.pc, row |-> Row(s)]
              IN Write(o.pc, Row(s)) /\ Replace(o, "done", Row(s)) /\ Publish(e) /\ Excuse(~Heard(e))
       [] o.kind = "job" ->
            Replace(o, "running", None) /\ UNCHANGED <<truth, changes, kept, stream>> /\ Excuse(FALSE)

\* A job of this browser ends; its event is left to the tracker (JobTracking).
JobEnds(o) ==
  /\ o.state = "running"
  /\ Replace(o, "done", None)
  /\ Invalidate
  /\ UNCHANGED <<truth, changes, monitor, streamVars, requestVars, viewVars, fetches>>
  /\ Excuse(FALSE)
-----------------------------------------------------------------------------
(* The browser. *)

\* loadPcs of a render with filters f, called when the list is base and lists
\* is the cache. A cached list is shown at once, and no newer answer after it.
Load(f, lists, base) ==
  /\ seq < MaxLoads /\ failed' = FALSE
  /\ seq' = seq + 1 /\ byOld' = (f # applied')
  /\ Requests!Send(f)
  /\ cache' = lists
  /\ IF lists[f] # Nothing
     THEN shown' = lists[f] /\ shownFor' = f /\ listLoading' = FALSE /\ UNCHANGED waiting
     ELSE /\ shown' = base /\ listLoading' = TRUE /\ waiting' = waiting \cup {[seq |-> seq', key |-> f]}
          /\ UNCHANGED shownFor

\* The effect on loadPcs and the reload button.
LoadPcs ==
  /\ UNCHANGED <<tableVars, streamVars, applied, ops, fetches>>
  /\ Load(applied, cache, shown)
  /\ Excuse(FALSE)

\* New filters, or a session that is unlocked again: the event handlers change
\* with loadPcs, so that the stream is opened again, and the list is loaded.
ApplyFilters(f) ==
  /\ applied' = f
  /\ stream' = << >> /\ connected' = FALSE
  /\ UNCHANGED <<tableVars, ops, fetches>>
  /\ Load(f, cache, shown)
  /\ Excuse(stream # << >>)

Disconnect ==
  /\ connected /\ connected' = FALSE /\ stream' = << >>
  /\ UNCHANGED <<tableVars, requestVars, viewVars, ops, fetches>>
  /\ Excuse(stream # << >>)

\* stream(): the server has a queue for this subscriber from here on.
Subscribe ==
  /\ seq > 0 /\ ~connected /\ connected' = TRUE
  /\ UNCHANGED <<tableVars, stream, requestVars, viewVars, ops, fetches, excuse>>

\* The newest call awaits the request for f.
Current(f) == [seq |-> seq, key |-> f] \in waiting
Settle(f) == waiting' = {w \in waiting : w.key # f} /\ listLoading' = (listLoading /\ ~Current(f))

\* Plausible bug: an answer that is no longer awaited is shown.
ListArrivesUnchecked(f) ==
  /\ Requests!Arrive(f) /\ Settle(f)
  /\ IF \E w \in waiting : w.key = f THEN shown' = inFlight[f] /\ shownFor' = f
     ELSE UNCHANGED <<shown, shownFor>>
  /\ UNCHANGED <<tableVars, streamVars, failed, seq, applied, byOld, ops, fetches>>
  /\ Excuse(FALSE)

\* The answer is shown unless a newer call outdated the one that awaits it.
ListArrives(f) ==
  /\ Requests!Arrive(f) /\ Settle(f)
  /\ IF Current(f) THEN shown' = inFlight[f] /\ shownFor' = f ELSE UNCHANGED <<shown, shownFor>>
  /\ UNCHANGED <<tableVars, streamVars, failed, seq, applied, byOld, ops, fetches>>
  /\ Excuse(FALSE)

ListFails(f) ==
  /\ Requests!Break(f) /\ Settle(f)
  /\ failed' = (failed \/ Current(f))
  /\ UNCHANGED <<tableVars, streamVars, shown, shownFor, seq, applied, byOld, ops, fetches>>
  /\ Excuse(FALSE)

Forget(f) ==
  /\ Requests!Forget(f)
  /\ UNCHANGED <<tableVars, streamVars, waiting, viewVars, ops, fetches>>
  /\ Excuse(FALSE)

SetRow(p, e) == [shown EXCEPT ![p] = IF @ = None THEN None ELSE e]

\* Plausible bug: the cached lists stay when an event arrives.
StatusEventKeepsCache ==
  /\ stream # << >> /\ Head(stream).type = "pc_status"
  /\ UNCHANGED <<tableVars, connected, inFlight, waiting, shownFor, listLoading, failed, seq, applied,
                 byOld, ops, fetches>>
  /\ LET e == Head(stream) IN
       /\ shown' = SetRow(e.pc, e.row)
       /\ UNCHANGED cache
       /\ Excuse(Overtaken \/ e.row # truth[e.pc] \/ shown' # ListOf(shownFor))
  /\ stream' = Tail(stream)

\* handlePcStatusEvent: the row is changed in place, also to an older state,
\* and the cached lists are withdrawn; the list is not loaded, so the PC does
\* not enter or leave a filtered list.
StatusEvent ==
  /\ stream # << >> /\ Head(stream).type = "pc_status"
  /\ UNCHANGED <<tableVars, connected, inFlight, waiting, shownFor, listLoading, failed, seq, applied,
                 byOld, ops, fetches>>
  /\ LET e == Head(stream) IN
       /\ shown' = SetRow(e.pc, e.row)
       /\ cache' = Requests!Empty
       /\ Excuse(Overtaken \/ e.row # truth[e.pc] \/ shown' # ListOf(shownFor))
  /\ stream' = Tail(stream)

\* handleJobEvent: the job's type and PC are asked for first.
JobEvent ==
  /\ stream # << >> /\ Head(stream).type = "job"
  /\ stream' = Tail(stream)
  /\ fetches' = fetches \cup {applied}
  /\ UNCHANGED <<tableVars, connected, requestVars, viewVars, ops>>
  /\ Excuse(FALSE)

JobFetched(f) ==
  /\ f \in fetches /\ fetches' = fetches \ {f}
  /\ UNCHANGED <<tableVars, streamVars, applied, ops>>
  /\ Load(f, Requests!Empty, shown)
  /\ Excuse(Overtaken)

\* The event has no PC, so nothing is loaded.
JobFetchFails(f) ==
  /\ f \in fetches /\ fetches' = fetches \ {f}
  /\ UNCHANGED <<tableVars, streamVars, requestVars, viewVars, ops>>
  /\ Excuse(TRUE)

\* An operation starts; the buttons of a running one are disabled.
Ask(kind, p) ==
  /\ Cardinality(ops) < MaxOps
  /\ ~\E o \in ops : o.kind = kind /\ o.pc = p
  /\ kind # "create" => shown[p] # None
  /\ kind = "create" => ~\E o \in ops : o.kind = "create"
  /\ ops' = ops \cup {[kind |-> kind, pc |-> p, filter |-> applied, state |-> "asked",
                       seen |-> FALSE, answer |-> None]}
  /\ UNCHANGED <<tableVars, streamVars, requestVars, viewVars, fetches, excuse>>

\* createPcEntry: the PC is shown if it matches the filters of the callback;
\* the list is loaded with them.
FinishCreate(o) ==
  /\ o.kind = "create" /\ o.state = "done"
  /\ UNCHANGED <<tableVars, streamVars, applied, fetches>>
  /\ Load(o.filter, Requests!Empty,
          IF Matches(o.answer, o.filter) THEN [shown EXCEPT ![o.pc] = o.answer] ELSE shown)
  /\ ops' = ops \ {o} /\ Excuse(Overtaken)

FinishDelete(o) ==
  /\ o.kind = "delete" /\ o.state = "done"
  /\ UNCHANGED <<tableVars, streamVars, applied, fetches>>
  /\ Load(o.filter, Requests!Empty, [shown EXCEPT ![o.pc] = None])
  /\ ops' = ops \ {o} /\ Excuse(Overtaken)

\* updatePcEntry, refreshPcStatusEntry: only the row is replaced.
FinishRow(o) ==
  /\ o.kind \in {"update", "status"} /\ o.state = "done"
  /\ shown' = SetRow(o.pc, o.answer)
  /\ cache' = Requests!Empty
  /\ ops' = ops \ {o}
  /\ UNCHANGED <<tableVars, streamVars, inFlight, waiting, shownFor, listLoading, failed, seq, applied,
                 byOld, fetches>>
  /\ Excuse(Overtaken \/ shown' # ListOf(shownFor))

\* sendPcWolEntry, shutdownPcEntry: the job is accepted. A PC that is woken is
\* shown as booting, whatever the backend has.
JobAccepted(o) ==
  /\ o.kind = "job" /\ o.state # "asked" /\ ~o.seen
  /\ shown' \in {shown, SetRow(o.pc, [status |-> "booting", by |-> 0])}
  /\ cache' = Requests!Empty
  /\ ops' = (ops \ {o}) \cup {[o EXCEPT !.seen = TRUE]}
  /\ UNCHANGED <<tableVars, streamVars, inFlight, waiting, shownFor, listLoading, failed, seq, applied,
                 byOld, fetches>>
  /\ Excuse(Overtaken)

\* refreshFromTerminal: the tracker saw the end of the job.
FinishJob(o) ==
  /\ o.kind = "job" /\ o.state = "done" /\ o.seen
  /\ UNCHANGED <<tableVars, streamVars, applied, fetches>>
  /\ Load(o.filter, Requests!Empty, shown)
  /\ ops' = ops \ {o} /\ Excuse(Overtaken)

\* A request is refused or its answer lost, or the tracker gives up: the row
\* shows the error, the list stays.
FailOp(o) ==
  /\ ops' = ops \ {o}
  /\ UNCHANGED <<tableVars, streamVars, requestVars, viewVars, fetches>>
  /\ Excuse(o.state # "asked")

PcListNext ==
  \/ MonitorStarts \/ MonitorEnds
  \/ \E p \in Pc : JobChanges(p) \/ RefreshedElsewhere(p) \/ ChangedElsewhere(p)
  \/ Expire \/ \E f \in Filter : ServeList(f) \/ ListArrives(f) \/ ListFails(f) \/ Forget(f)
  \/ LoadPcs \/ \E f \in Filter : ApplyFilters(f)
  \/ Disconnect \/ Subscribe
  \/ StatusEvent \/ JobEvent \/ \E f \in Filter : JobFetched(f) \/ JobFetchFails(f)
  \/ \E kind \in OpKind, p \in Pc : Ask(kind, p)
  \/ \E o \in ops : ServeOp(o) \/ JobEnds(o) \/ FailOp(o)
  \/ \E o \in ops : FinishCreate(o) \/ FinishDelete(o) \/ FinishRow(o) \/ JobAccepted(o) \/ FinishJob(o)

PcListSpec == PcListInit /\ [][PcListNext]_pcListVars
-----------------------------------------------------------------------------
Quiet ==
  /\ seq > 0 /\ ~listLoading /\ ~failed /\ ~monitor
  /\ waiting = {} /\ stream = << >> /\ ops = {} /\ fetches = {}

\* When nothing is under way the list is what the backend has for the filters
\* of the answer shown, unless since the last load that was right another client
\* created, edited or deleted a PC or tested its connection, of which nothing is
\* published; or when the last load or event came, an answer from before a change
\* was on its way or in the backend's cache; or an event was lost or applied late,
\* a row changed in place under a filter, or a request failed and left the
\* browser without notice (usePcCollection, useDashboardSse, list_pcs).
ListStaleOnlyByOverlap == Quiet /\ ~excuse => shown = ListOf(shownFor)

\* The list shown is the one for the applied filters, unless it is loading, the
\* newest load failed or was made by a callback from before the filters changed
\* (loadPcs and its request number, createPcEntry, deletePcEntry, trackJob).
FiltersHonoured == shownFor # applied => listLoading \/ failed \/ byOld
=============================================================================
