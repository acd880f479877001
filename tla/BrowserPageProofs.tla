------------------------- MODULE BrowserPageProofs --------------------------
(***************************************************************************)
(* What a page shows, for every set of PCs and tokens, every length of a   *)
(* pull and every number of loads, operations, dialogs and moves: the      *)
(* pulls and the groups of the log panel, the filters and the freshness of *)
(* the PC list, its dialogs, the panel of the API tokens, the scroll locks *)
(* and the uptime page.                                                    *)
(***************************************************************************)
EXTENDS PcListView, PcDialogs, ScrollLocks, LogGroups, LogPull, UptimePanel, TokenPanel,
        FiniteSetTheorems, SequenceTheorems, WellFoundedInduction, TLAPS

-----------------------------------------------------------------------------
(* The pulls of the log panel. *)

\* The inductive invariant: a touch that has asked for a page is used up, until
\* it ends or another begins.
PullTyped ==
  /\ isMobile \in BOOLEAN /\ hasMore \in BOOLEAN
  /\ autoLoadArmed \in BOOLEAN /\ requiresNewTouch \in BOOLEAN
  /\ startedNearBottom \in BOOLEAN /\ gestureConsumed \in BOOLEAN
  /\ loads \in Nat
TouchUsedUp == loads > 0 => gestureConsumed \/ ~startedNearBottom
PullInv == PullTyped /\ TouchUsedUp /\ OnePagePerTouch

LEMMA PullInvInit == PullInit => PullInv
<1> SUFFICES ASSUME PullInit PROVE PullInv
  OBVIOUS
<1>1. PullTyped
  BY DEF PullInit, PullTyped
<1>2. TouchUsedUp
  BY DEF PullInit, TouchUsedUp
<1>3. OnePagePerTouch
  BY DEF PullInit, OnePagePerTouch
<1> QED BY <1>1, <1>2, <1>3 DEF PullInv

LEMMA PullInvNext == PullInv /\ [PullNext]_pullVars => PullInv'
<1> SUFFICES ASSUME PullInv, [PullNext]_pullVars PROVE PullInv'
  OBVIOUS
<1> USE DEF PullInv, PullTyped, TouchUsedUp, OnePagePerTouch, list, dialog, touch, arming
<1>1. CASE ShowMoreButton
  BY <1>1 DEF ShowMoreButton, PullMore
<1>2. CASE LoadMoreEnds
  BY <1>2 DEF LoadMoreEnds, Rearm
<1>3. CASE ReloadPage
  BY <1>3 DEF ReloadPage
<1>4. CASE ReloadEnds
  BY <1>4 DEF ReloadEnds, Rearm
<1>5. CASE OpenConfirm \/ CloseConfirm \/ ConfirmClear
  BY <1>5 DEF OpenConfirm, CloseConfirm, ConfirmClear
<1>6. CASE ClearEnds
  <2>1. PullTyped'
    BY <1>6 DEF ClearEnds
  <2>2. TouchUsedUp'
    BY <1>6 DEF ClearEnds
  <2>3. OnePagePerTouch'
    BY <1>6 DEF ClearEnds
  <2> QED BY <2>1, <2>2, <2>3
<1>7. ASSUME NEW near \in BOOLEAN, NEW scrollable \in BOOLEAN, TouchStart(near, scrollable)
      PROVE  PullInv'
  <2>1. PullTyped'
    BY <1>7 DEF TouchStart, Listens, Still
  <2>2. TouchUsedUp'
    BY <1>7 DEF TouchStart, Listens, Still
  <2>3. OnePagePerTouch'
    BY <1>7 DEF TouchStart, Listens, Still
  <2> QED BY <2>1, <2>2, <2>3
<1>8. ASSUME NEW down \in BOOLEAN, NEW near \in BOOLEAN, TouchMove(down, near)
      PROVE  PullInv'
  <2>1. /\ UNCHANGED <<isMobile, hasMore, startedNearBottom>> /\ ~gestureConsumed /\ startedNearBottom
        /\ \/ gestureConsumed' = TRUE /\ autoLoadArmed' = FALSE /\ requiresNewTouch' = TRUE /\ loads' = loads + 1
           \/ UNCHANGED <<gestureConsumed, autoLoadArmed, requiresNewTouch, loads>>
    BY <1>8 DEF TouchMove
  <2>2. CASE gestureConsumed' = TRUE /\ autoLoadArmed' = FALSE /\ requiresNewTouch' = TRUE /\ loads' = loads + 1
    <3>1. loads = 0
      BY <2>1
    <3>2. loads' = 1
      BY <2>2, <3>1
    <3>3. PullTyped'
      <4>1. loads' \in Nat
        BY <3>2
      <4>2. gestureConsumed' \in BOOLEAN /\ autoLoadArmed' \in BOOLEAN /\ requiresNewTouch' \in BOOLEAN
        BY <2>2
      <4>3. isMobile' \in BOOLEAN /\ hasMore' \in BOOLEAN /\ startedNearBottom' \in BOOLEAN
        BY <2>1
      <4> QED BY <4>1, <4>2, <4>3
    <3>4. TouchUsedUp' /\ OnePagePerTouch'
      <4> HIDE DEF PullInv
      <4> QED BY <2>1, <2>2, <3>2
    <3> QED BY <3>3, <3>4
  <2>3. CASE UNCHANGED <<gestureConsumed, autoLoadArmed, requiresNewTouch, loads>>
    BY <2>1, <2>3
  <2> QED BY <2>1, <2>2, <2>3
<1>9. CASE TouchEnd
  BY <1>9 DEF TouchEnd, Listens
<1>10. CASE UNCHANGED pullVars
  BY <1>10 DEF pullVars
<1> QED BY <1>1, <1>2, <1>3, <1>4, <1>5, <1>6, <1>7, <1>8, <1>9, <1>10 DEF PullNext

\* A touch asks for one page at most, and as long as there is more the list is
\* armed or the next touch will arm it: for every length of a pull and every
\* order of loads, clears and touches (LogsPanel.tsx).
THEOREM PullsHold == PullSpec => []OnePagePerTouch
<1>1. PullInv => OnePagePerTouch
  BY DEF PullInv
<1> QED BY PullInvInit, PullInvNext, <1>1, PTL DEF PullSpec
-----------------------------------------------------------------------------
(* The filters of the PC list. *)

\* The inductive invariant: a call that still counts asked for the applied
\* filters, or was made by an old callback.
FilterInv ==
  /\ seq \in Nat
  /\ \A w \in waiting : w.seq \in Nat /\ w.seq <= seq /\ (w.seq = seq => w.key = applied \/ byOld)
  /\ FiltersHonoured

filterVars == <<waiting, shownFor, listLoading, failed, seq, applied, byOld>>

LEMMA FilterInvInit == PcListInit => FilterInv
  BY DEF PcListInit, FilterInv, FiltersHonoured

\* A load shows the cached list for its filters, or is awaited.
LEMMA LoadHonours ==
  ASSUME FilterInv, NEW f, NEW lists, NEW base, Load(f, lists, base)
  PROVE  FilterInv'
<1>1. /\ seq \in Nat /\ seq' = seq + 1 /\ seq' \in Nat /\ byOld' = (f # applied')
      /\ \/ shownFor' = f /\ listLoading' = FALSE /\ waiting' = waiting
         \/ listLoading' = TRUE /\ waiting' = waiting \cup {[seq |-> seq', key |-> f]}
  BY DEF FilterInv, Load
<1>2. FiltersHonoured'
  BY <1>1 DEF FiltersHonoured
<1>3. ASSUME NEW w \in waiting'
      PROVE  w.seq \in Nat /\ w.seq <= seq' /\ (w.seq = seq' => w.key = applied' \/ byOld')
  <2>1. CASE w \in waiting
    BY <1>1, <2>1 DEF FilterInv
  <2>2. CASE w = [seq |-> seq', key |-> f]
    <3>1. f = applied' \/ byOld'
      BY <1>1
    <3>2. w.seq = seq' /\ w.key = f
      BY <2>2
    <3> QED BY <1>1, <3>1, <3>2
  <2> QED BY <1>1, <1>3, <2>1, <2>2
<1> QED BY <1>1, <1>2, <1>3 DEF FilterInv

\* An answer for the filters f is shown only to the call that counts.
LEMMA SettleHonours ==
  ASSUME FilterInv, NEW f, Settle(f), UNCHANGED <<seq, applied, byOld>>,
         \/ Current(f) /\ shownFor' = f /\ UNCHANGED failed
         \/ ~Current(f) /\ UNCHANGED <<shownFor, failed>>
         \/ failed' = (failed \/ Current(f)) /\ UNCHANGED shownFor
  PROVE  FilterInv'
<1>1. waiting' \subseteq waiting /\ listLoading' = (listLoading /\ ~Current(f))
  BY DEF Settle
<1>2. Current(f) => f = applied \/ byOld
  BY DEF FilterInv, Current
<1>3. FiltersHonoured'
  <2>1. CASE Current(f) /\ shownFor' = f
    BY <1>2, <2>1 DEF FiltersHonoured
  <2>2. CASE Current(f) /\ failed'
    BY <2>2 DEF FiltersHonoured
  <2>3. CASE ~Current(f) /\ shownFor' = shownFor /\ (failed => failed')
    <3>1. listLoading => listLoading'
      BY <1>1, <2>3
    <3>2. FiltersHonoured
      BY DEF FilterInv
    <3>3. applied' = applied /\ (byOld => byOld')
      OBVIOUS
    <3> QED BY <2>3, <3>1, <3>2, <3>3 DEF FiltersHonoured
  <2>4. CASE failed' = (failed \/ Current(f)) /\ shownFor' = shownFor
    <3>1. Current(f) \/ failed => failed'
      BY <2>4, Zenon
    <3>2. shownFor' = shownFor
      BY <2>4
    <3> QED BY <2>2, <2>3, <3>1, <3>2, Zenon
  <2>5. CASE ~Current(f) /\ UNCHANGED <<shownFor, failed>>
    BY <2>3, <2>5
  <2> QED BY <2>1, <2>4, <2>5
<1> QED BY <1>1, <1>3 DEF FilterInv

LEMMA FilterInvNext == FilterInv /\ [PcListNext]_pcListVars => FilterInv'
<1> SUFFICES ASSUME FilterInv, [PcListNext]_pcListVars PROVE FilterInv'
  OBVIOUS
<1>1. ASSUME UNCHANGED filterVars PROVE FilterInv'
  BY <1>1 DEF filterVars, FilterInv, FiltersHonoured
<1>2. CASE \/ MonitorStarts \/ MonitorEnds
           \/ \E p \in Pc : JobChanges(p) \/ RefreshedElsewhere(p) \/ ChangedElsewhere(p)
           \/ Expire \/ \E f \in Filter : ServeList(f) \/ Forget(f)
  BY <1>1, <1>2 DEF MonitorStarts, MonitorEnds, JobChanges, RefreshedElsewhere, ChangedElsewhere, Expire,
                    ServeList, Forget, filterVars, viewVars, requestVars
<1>3. CASE LoadPcs \/ \E f \in Filter : ApplyFilters(f) \/ JobFetched(f)
  BY <1>3, LoadHonours DEF LoadPcs, ApplyFilters, JobFetched
<1>4. ASSUME NEW f \in Filter, ListArrives(f) PROVE FilterInv'
  BY <1>4, SettleHonours DEF ListArrives
<1>5. ASSUME NEW f \in Filter, ListFails(f) PROVE FilterInv'
  BY <1>5, SettleHonours DEF ListFails
<1>6. CASE Disconnect \/ Subscribe \/ StatusEvent \/ JobEvent \/ \E f \in Filter : JobFetchFails(f)
  BY <1>1, <1>6 DEF Disconnect, Subscribe, StatusEvent, JobEvent, JobFetchFails, filterVars, viewVars, requestVars
<1>7. CASE \E kind \in OpKind, p \in Pc : Ask(kind, p)
  BY <1>1, <1>7 DEF Ask, filterVars, viewVars, requestVars
<1>8. CASE \E o \in ops : ServeOp(o) \/ JobEnds(o) \/ FailOp(o)
  BY <1>1, <1>8 DEF ServeOp, JobEnds, FailOp, filterVars, viewVars, requestVars
<1>9. CASE \E o \in ops : FinishCreate(o) \/ FinishDelete(o) \/ FinishJob(o)
  BY <1>9, LoadHonours DEF FinishCreate, FinishDelete, FinishJob
<1>10. CASE \E o \in ops : FinishRow(o) \/ JobAccepted(o)
  BY <1>1, <1>10 DEF FinishRow, JobAccepted, filterVars
<1>11. CASE UNCHANGED pcListVars
  BY <1>1, <1>11 DEF pcListVars, filterVars, viewVars, requestVars
<1> QED BY <1>2, <1>3, <1>4, <1>5, <1>6, <1>7, <1>8, <1>9, <1>10, <1>11 DEF PcListNext

\* The list shown is the one for the applied filters unless it is loading, the
\* newest load failed or an old callback made it, for every set of PCs and
\* operations and every number of loads (usePcCollection).
THEOREM FiltersAlwaysHonoured == PcListSpec => []FiltersHonoured
<1>1. FilterInv => FiltersHonoured
  BY DEF FilterInv
<1> QED BY FilterInvInit, FilterInvNext, <1>1, PTL DEF PcListSpec

\* An outdated list is excused, or what repairs it is under way: a job, an event,
\* an operation that has its answer, or a request made since the last change.
Entry == [status: Status, by: Nat]
Event == [type: {"job"}] \cup [type: {"pc_status"}, pc: Pc, row: Entry]
Op == [kind: OpKind, pc: Pc, filter: Filter, state: {"asked", "running", "done"}, seen: BOOLEAN,
       answer: Entry \cup {None}]

ListTyped ==
  /\ truth \in [Pc -> Entry \cup {None}] /\ changes \in Nat /\ seq \in Nat /\ stream \in Seq(Event)
  /\ cache = [f \in Filter |-> cache[f]] /\ inFlight = [f \in Filter |-> inFlight[f]]
  /\ applied \in Filter /\ fetches \subseteq Filter /\ ops \subseteq Op

CacheFresh == \A f \in Filter : cache[f] \in {Nothing, ListOf(f)}
UnderWay == monitor \/ stream # << >> \/ fetches # {} \/ \E o \in ops : o.state # "asked"
Awaited == ~Overtaken /\ CacheFresh /\ (seq = 0 \/ failed \/ \E f \in Filter : Current(f))
StaleIsRepaired == excuse \/ Clean \/ UnderWay \/ Awaited

\* The inductive invariant.
ListInv == ListTyped /\ StaleIsRepaired

LEMMA ListInvHolds == ListInv => ListStaleOnlyByOverlap
<1> SUFFICES ASSUME ListInv, Quiet, ~excuse PROVE shown = ListOf(shownFor)
  BY DEF ListStaleOnlyByOverlap
<1>1. ~UnderWay
  BY DEF Quiet, UnderWay
<1>2. ~Awaited
  BY DEF Quiet, Awaited, Current, ListInv, ListTyped
<1> QED BY <1>1, <1>2 DEF ListInv, StaleIsRepaired, Clean

LEMMA ListInvInit == PcListInit => ListInv
<1> SUFFICES ASSUME PcListInit PROVE ListInv
  OBVIOUS
<1>1. "offline" \in Status /\ "all" \in Filter
  BY DEF Status, Filter
<1>2. [status |-> "offline", by |-> 0] \in Entry
  BY <1>1 DEF Entry
<1>3. truth \in [Pc -> Entry \cup {None}]
  <2>1. truth \in [Pc -> {None, [status |-> "offline", by |-> 0]}]
    BY DEF PcListInit
  <2> QED BY <1>2, <2>1
<1>4. cache = [f \in Filter |-> Nothing] /\ inFlight = [f \in Filter |-> Idle] /\ ops = {} /\ seq = 0
      /\ kept = {}
  BY DEF PcListInit
<1>5. ListTyped
  BY <1>1, <1>3, <1>4 DEF PcListInit, ListTyped
<1>6. CacheFresh /\ ~Overtaken
  BY <1>4 DEF CacheFresh, Overtaken
<1> QED BY <1>4, <1>5, <1>6 DEF ListInv, StaleIsRepaired, Awaited

LEMMA RowFacts ==
  ASSUME ListTyped, NEW s \in Status
  PROVE  Row(s) \in Entry
  BY DEF ListTyped, Row, Entry

\* The lists do not change while the table does not.
LEMMA SameLists ==
  ASSUME truth' = truth
  PROVE  \A f : ListOf(f)' = ListOf(f)
  BY DEF ListOf, Filtered, Matches

\* What is excused stays so until the copies agree with the table again.
LEMMA Excused ==
  ASSUME NEW reason, Excuse(reason), excuse \/ reason
  PROVE  StaleIsRepaired'
<1>1. excuse' \/ Clean'
  BY DEF Excuse
<1> QED BY <1>1 DEF StaleIsRepaired

\* A load shows a cached list that is fresh, or awaits an answer that is.
LEMMA LoadRepairs ==
  ASSUME ListTyped, NEW f \in Filter, NEW lists, NEW base, Load(f, lists, base), truth' = truth, kept' = kept, ops' \subseteq ops,
         ~Overtaken, \A g \in Filter : lists[g] \in {Nothing, ListOf(g)}
  PROVE  Clean' \/ Awaited'
<1>1. /\ cache' = lists /\ inFlight' = (IF inFlight[f] = Idle THEN [inFlight EXCEPT ![f] = Asked] ELSE inFlight)
      /\ IF lists[f] # Nothing THEN shown' = lists[f] /\ shownFor' = f
         ELSE waiting' = waiting \cup {[seq |-> seq', key |-> f]}
  BY DEF Load, Requests!Send
<1>2. \A g \in Filter : ListOf(g)' = ListOf(g)
  BY SameLists
<1>3. \A g \in Filter : inFlight[g] \in {Idle, Asked, ListOf(g)}
  BY DEF Overtaken
<1>4. \A g \in Filter : inFlight'[g] \in {Idle, Asked, ListOf(g)'}
  BY <1>1, <1>2, <1>3 DEF ListTyped
<1>5. kept' = {} /\ \A o \in ops' : o.answer # None => o.answer = truth'[o.pc]
  BY DEF Overtaken
<1>6. \A g \in Filter : cache'[g] \in {Nothing, ListOf(g)'}
  BY <1>1, <1>2
<1>7. CASE lists[f] # Nothing
  <2>1. shown' = ListOf(shownFor)'
    <3>1. shown' = ListOf(f) /\ shownFor' = f
      BY <1>1, <1>7
    <3> QED BY <3>1 DEF ListOf, Filtered, Matches
  <2> QED BY <1>4, <1>5, <1>6, <2>1 DEF Clean
<1>8. CASE lists[f] = Nothing
  <2>1. Current(f)'
    BY <1>1, <1>8 DEF Current
  <2>2. ~Overtaken' /\ CacheFresh'
    BY <1>4, <1>5, <1>6 DEF Overtaken, CacheFresh
  <2> QED BY <2>1, <2>2 DEF Awaited
<1> QED BY <1>7, <1>8

\* A row that is changed in place makes the list agree with the table, or is excused.
LEMMA RowRepairs ==
  ASSUME ListTyped, truth' = truth, kept' = kept, ops' \subseteq ops, cache' = Requests!Empty, inFlight' = inFlight,
         shownFor' = shownFor, shown' = ListOf(shownFor), ~Overtaken
  PROVE  Clean'
<1>1. \A g \in Filter : ListOf(g)' = ListOf(g)
  BY SameLists
<1>2. \A g \in Filter : cache'[g] \in {Nothing, ListOf(g)'}
  BY DEF Requests!Empty, ListTyped
<1>3. \A g \in Filter : inFlight'[g] \in {Idle, Asked, ListOf(g)'}
  BY <1>1 DEF Overtaken
<1>4. shown' = ListOf(shownFor)'
  BY DEF ListOf, Filtered, Matches
<1> QED BY <1>2, <1>3, <1>4 DEF Clean, Overtaken

\* What comes from the server or leaves the cache is fresh.
LEMMA FreshStays ==
  ASSUME StaleIsRepaired, excuse => StaleIsRepaired', UNCHANGED <<truth, monitor, stream, fetches, ops, seq>>,
         failed => failed',
         \A f \in Filter : cache'[f] = cache[f] \/ cache'[f] = Nothing \/ cache'[f] = inFlight[f],
         \A f \in Filter : cache'[f] = inFlight[f] /\ cache'[f] # cache[f] => inFlight[f] \notin {Idle, Asked},
         kept' \subseteq kept,
         \A f \in Filter : inFlight'[f] \in {inFlight[f], Idle} \cup {Filtered(t, f) : t \in kept \cup {truth}},
         \/ UNCHANGED <<shown, shownFor>>
         \/ \E f \in Filter : shown' = inFlight[f] /\ shownFor' = f /\ inFlight[f] \notin {Idle, Asked},
         \A f \in Filter : Current(f) =>
            \/ Current(f)' \/ failed'
            \/ shown' = inFlight[f] /\ shownFor' = f /\ inFlight[f] \notin {Idle, Asked}
  PROVE  StaleIsRepaired'
<1>1. \A f : ListOf(f)' = ListOf(f)
  BY SameLists
<1>2. UnderWay => UnderWay'
  BY DEF UnderWay
<1>3. ASSUME ~Overtaken, CacheFresh PROVE ~Overtaken' /\ CacheFresh'
  <2>1. kept = {} /\ kept' = {}
    BY <1>3 DEF Overtaken
  <2>2. \A f \in Filter : inFlight'[f] \in {inFlight[f], Idle, ListOf(f)}
    BY <2>1 DEF ListOf
  <2> QED BY <1>1, <1>3, <2>1, <2>2 DEF Overtaken, CacheFresh
<1>4. ASSUME NEW f \in Filter, shown' = inFlight[f], shownFor' = f, inFlight[f] \notin {Idle, Asked}, ~Overtaken
      PROVE  shown' = ListOf(shownFor)'
  <2>1. shown' = ListOf(f)
    BY <1>4 DEF Overtaken
  <2> QED BY <1>4, <2>1 DEF ListOf, Filtered, Matches
<1>5. ASSUME Clean PROVE Clean'
  <2>1. ~Overtaken /\ CacheFresh
    BY <1>5 DEF Clean, Overtaken, CacheFresh
  <2>2. shown' = ListOf(shownFor)'
    <3>1. CASE UNCHANGED <<shown, shownFor>>
      BY <1>5, <3>1 DEF Clean, ListOf, Filtered, Matches
    <3> QED BY <1>4, <2>1, <3>1
  <2> QED BY <1>3, <2>1, <2>2 DEF Clean, Overtaken, CacheFresh
<1>6. ASSUME Awaited PROVE Awaited' \/ Clean'
  <2>1. ~Overtaken' /\ CacheFresh'
    BY <1>3, <1>6 DEF Awaited
  <2>2. CASE seq = 0 \/ failed
    BY <2>1, <2>2 DEF Awaited
  <2>3. ASSUME NEW f \in Filter, Current(f) PROVE Awaited' \/ Clean'
    <3>1. CASE Current(f)' \/ failed'
      BY <2>1, <3>1 DEF Awaited
    <3>2. CASE shown' = inFlight[f] /\ shownFor' = f /\ inFlight[f] \notin {Idle, Asked}
      <4>1. shown' = ListOf(shownFor)'
        BY <1>4, <1>6, <3>2 DEF Awaited
      <4> QED BY <2>1, <4>1 DEF Clean, Overtaken, CacheFresh
    <3> QED BY <2>3, <3>1, <3>2
  <2> QED BY <1>6, <2>2, <2>3 DEF Awaited
<1> QED BY <1>2, <1>5, <1>6 DEF StaleIsRepaired


LEMMA OpFacts ==
  ASSUME ListTyped, NEW o \in ops
  PROVE  /\ o \in Op /\ o.pc \in Pc /\ o.filter \in Filter /\ o.kind \in OpKind /\ o.seen \in BOOLEAN
         /\ o.state \in {"asked", "running", "done"} /\ o.answer \in Entry \cup {None}
         /\ o = [kind |-> o.kind, pc |-> o.pc, filter |-> o.filter, state |-> o.state, seen |-> o.seen,
                 answer |-> o.answer]
  BY DEF ListTyped, Op

LEMMA Replaced ==
  ASSUME ListTyped, NEW o \in ops, NEW state \in {"running", "done"}, NEW answer \in Entry \cup {None},
         Replace(o, state, answer)
  PROVE  ops' \subseteq Op /\ StaleIsRepaired'
<1>1. PICK q : q = [o EXCEPT !.state = state, !.answer = answer]
  OBVIOUS
<1>2. q \in Op /\ q.state = state
  <2>1. q = [kind |-> o.kind, pc |-> o.pc, filter |-> o.filter, state |-> state, seen |-> o.seen, answer |-> answer]
    BY <1>1, OpFacts DEF Op
  <2> QED BY <2>1, OpFacts DEF Op
<1>3. ops' = (ops \ {o}) \cup {q}
  BY <1>1 DEF Replace
<1>4. UnderWay'
  BY <1>2, <1>3 DEF UnderWay
<1> QED BY <1>2, <1>3, <1>4 DEF ListTyped, StaleIsRepaired

\* An event that is published is on its way or is a reason.
LEMMA NoEvents ==
  /\ << >> \in Seq(Event)
  /\ \A s \in Seq(Event), e \in Event : Append(s, e) \in Seq(Event) /\ Append(s, e) # << >>
<1>1. ASSUME NEW s \in Seq(Event), NEW e \in Event, NEW t, t = Append(s, e)
      PROVE  t \in Seq(Event) /\ Len(t) = Len(s) + 1 /\ Len(s) \in Nat
  BY <1>1
<1>2. ASSUME NEW t, t = << >> PROVE Len(t) = 0
  BY <1>2
<1>3. << >> \in Seq(Event)
  OBVIOUS
<1>4. ASSUME NEW s \in Seq(Event), NEW e \in Event PROVE Append(s, e) \in Seq(Event) /\ Append(s, e) # << >>
  <2>1. PICK t : t = Append(s, e)
    OBVIOUS
  <2>2. t \in Seq(Event) /\ Len(t) # 0
    BY <1>1, <2>1
  <2> QED BY <1>2, <2>1, <2>2
<1> QED BY <1>3, <1>4

LEMMA Published ==
  ASSUME ListTyped, NEW e \in Event, Publish(e)
  PROVE  stream' \in Seq(Event) /\ (Heard(e) => StaleIsRepaired')
<1>1. stream \in Seq(Event)
  BY DEF ListTyped
<1>2. Append(stream, e) \in Seq(Event) /\ Append(stream, e) # << >>
  BY <1>1, NoEvents
<1> QED BY <1>1, <1>2 DEF Publish, StaleIsRepaired, UnderWay

LEMMA ListStutters ==
  ASSUME ListInv, UNCHANGED <<truth, changes, kept, monitor, stream, ops, fetches, cache, inFlight, waiting, seq, shown,
                              shownFor, failed, applied, excuse>>
  PROVE  ListInv'
<1>1. ListTyped'
  BY DEF ListInv, ListTyped
<1>2. (UnderWay => UnderWay') /\ (Clean => Clean')
  BY DEF UnderWay, Clean, ListOf, Filtered, Matches
<1>3. Awaited => Awaited'
  BY DEF Awaited, Overtaken, CacheFresh, ListOf, Filtered, Matches, Current
<1> QED BY <1>1, <1>2, <1>3 DEF ListInv, StaleIsRepaired

LEMMA LoadTyped ==
  ASSUME ListTyped, NEW f \in Filter, NEW lists, NEW base, Load(f, lists, base),
         lists = [g \in Filter |-> lists[g]], UNCHANGED <<truth, changes>>,
         stream' \in {stream, << >>}, applied' \in Filter, fetches' \subseteq fetches, ops' \subseteq ops
  PROVE  ListTyped'
<1>1. cache' = lists /\ inFlight' = (IF inFlight[f] = Idle THEN [inFlight EXCEPT ![f] = Asked] ELSE inFlight)
      /\ seq' = seq + 1
  BY DEF Load, Requests!Send
<1>2. inFlight' = [g \in Filter |-> inFlight'[g]]
  BY <1>1 DEF ListTyped
<1>3. stream' \in Seq(Event)
  BY NoEvents DEF ListTyped
<1>4. truth' \in [Pc -> Entry \cup {None}] /\ changes' \in Nat /\ seq' \in Nat
  BY <1>1 DEF ListTyped
<1>5. cache' = [g \in Filter |-> cache'[g]] /\ fetches' \subseteq Filter /\ ops' \subseteq Op
  BY <1>1 DEF ListTyped
<1> QED BY <1>2, <1>3, <1>4, <1>5 DEF ListTyped

LEMMA EmptyFacts ==
  ASSUME ListTyped
  PROVE  /\ Requests!Empty = [g \in Filter |-> Requests!Empty[g]]
         /\ \A g \in Filter : Requests!Empty[g] \in {Nothing, ListOf(g)}
  BY DEF ListTyped, Requests!Empty

\* The backend.
LEMMA TableKeeps ==
  ASSUME ListInv,
         \/ MonitorStarts \/ MonitorEnds
         \/ \E p \in Pc : JobChanges(p) \/ RefreshedElsewhere(p) \/ ChangedElsewhere(p)
  PROVE  ListInv'
<1> USE DEF ListInv
<1>1. CASE MonitorStarts
  <2>1. ListTyped'
    BY <1>1 DEF MonitorStarts, ListTyped, streamVars, requestVars, viewVars
  <2>2. UnderWay'
    BY <1>1 DEF MonitorStarts, UnderWay
  <2> QED BY <2>1, <2>2 DEF StaleIsRepaired
<1>2. CASE MonitorEnds
  <2>1. PICK e \in Event : e = [type |-> "job"]
    BY DEF Event
  <2>2. Publish(e) /\ Excuse(~Heard(e))
        /\ UNCHANGED <<truth, changes, cache, inFlight, seq, applied, ops, fetches>>
    BY <1>2, <2>1 DEF MonitorEnds, requestVars, viewVars
  <2>3. ListTyped'
    BY <2>2, Published DEF ListTyped
  <2>4. CASE Heard(e)
    BY <2>2, <2>3, <2>4, Published
  <2>5. CASE ~Heard(e)
    BY <2>2, <2>3, <2>5, Excused
  <2> QED BY <2>4, <2>5
<1>3. ASSUME NEW p \in Pc, JobChanges(p) PROVE ListInv'
  <2>1. PICK s \in Status : Write(p, Row(s))
    BY <1>3 DEF JobChanges
  <2>2. UNCHANGED <<monitor, stream, cache, inFlight, seq, applied, ops, fetches>> /\ JobRunning
    BY <1>3 DEF JobChanges, streamVars, requestVars, viewVars
  <2>3. ListTyped'
    BY <2>1, <2>2, RowFacts DEF ListTyped, Write
  <2>4. UnderWay'
    BY <2>2 DEF UnderWay, JobRunning
  <2> QED BY <2>3, <2>4 DEF StaleIsRepaired
<1>4. ASSUME NEW p \in Pc, RefreshedElsewhere(p) PROVE ListInv'
  <2>1. PICK s \in Status :
          LET e == [type |-> "pc_status", pc |-> p, row |-> Row(s)]
          IN Write(p, Row(s)) /\ Publish(e) /\ Excuse(~Heard(e))
    BY <1>4 DEF RefreshedElsewhere
  <2>2. PICK e \in Event : e = [type |-> "pc_status", pc |-> p, row |-> Row(s)]
    BY RowFacts DEF Event
  <2>3. Write(p, Row(s)) /\ Publish(e) /\ Excuse(~Heard(e))
    BY <2>1, <2>2
  <2>4. UNCHANGED <<cache, inFlight, seq, applied, ops, fetches>>
    BY <1>4 DEF RefreshedElsewhere, requestVars, viewVars
  <2>5. ListTyped'
    BY <2>3, <2>4, RowFacts, Published DEF ListTyped, Write
  <2>6. CASE Heard(e)
    BY <2>3, <2>5, <2>6, Published
  <2>7. CASE ~Heard(e)
    BY <2>3, <2>5, <2>7, Excused
  <2> QED BY <2>6, <2>7
<1>5. ASSUME NEW p \in Pc, ChangedElsewhere(p) PROVE ListInv'
  <2>1. PICK e \in Entry \cup {None} : Write(p, e)
    <3>1. CASE truth[p] = None
      BY <1>5, <3>1, RowFacts DEF ChangedElsewhere, Status
    <3>2. CASE truth[p] # None
      <4>1. PICK s \in Status : s = truth[p].status
        BY <3>2 DEF ListTyped, Entry
      <4> QED BY <1>5, <3>2, <4>1, RowFacts DEF ChangedElsewhere, Status
    <3> QED BY <3>1, <3>2
  <2>2. UNCHANGED <<monitor, stream, cache, inFlight, seq, applied, ops, fetches>> /\ Excuse(TRUE)
    BY <1>5 DEF ChangedElsewhere, streamVars, requestVars, viewVars
  <2>3. ListTyped'
    BY <2>1, <2>2 DEF ListTyped, Write
  <2> QED BY <2>2, <2>3, Excused
<1> QED BY <1>1, <1>2, <1>3, <1>4, <1>5

LEMMA ServeOpKeeps == ASSUME ListInv, NEW o \in ops, ServeOp(o) \/ JobEnds(o) PROVE ListInv'
<1> USE DEF ListInv
<1>1. UNCHANGED <<cache, inFlight, seq, applied, fetches>>
  BY DEF ServeOp, JobEnds, requestVars, viewVars
<1>2. o.pc \in Pc /\ o.kind \in OpKind
  BY OpFacts
<1>3. /\ changes' \in Nat /\ truth' \in [Pc -> Entry \cup {None}] /\ stream' \in Seq(Event)
      /\ \E state \in {"running", "done"}, answer \in Entry \cup {None} : Replace(o, state, answer)
  <2>1. CASE UNCHANGED <<truth, changes, stream>> /\ (Replace(o, "done", None) \/ Replace(o, "running", None))
    BY <2>1 DEF ListTyped
  <2>2. ASSUME NEW e \in Entry \cup {None}, Write(o.pc, e), Replace(o, "done", e), stream' \in Seq(Event)
        PROVE  /\ changes' \in Nat /\ truth' \in [Pc -> Entry \cup {None}] /\ stream' \in Seq(Event)
               /\ \E state \in {"running", "done"}, answer \in Entry \cup {None} : Replace(o, state, answer)
    BY <1>2, <2>2 DEF ListTyped, Write
  <2>3. CASE JobEnds(o)
    BY <2>1, <2>3 DEF JobEnds, tableVars, streamVars
  <2>4. CASE ServeOp(o) /\ o.kind = "create"
    <3>1. Row("offline") \in Entry
      BY RowFacts DEF Status
    <3>2. Write(o.pc, Row("offline")) /\ Replace(o, "done", Row("offline")) /\ stream' = stream
      BY <2>4 DEF ServeOp
    <3> QED BY <2>2, <3>1, <3>2 DEF ListTyped
  <2>5. CASE ServeOp(o) /\ o.kind = "delete"
    <3>1. Write(o.pc, None) /\ Replace(o, "done", None) /\ stream' = stream
      BY <2>5 DEF ServeOp
    <3> QED BY <2>2, <3>1 DEF ListTyped
  <2>6. CASE ServeOp(o) /\ o.kind = "update"
    <3>1. PICK s : s = truth[o.pc].status
      OBVIOUS
    <3>2. Write(o.pc, Row(s)) /\ Replace(o, "done", Row(s)) /\ stream' = stream /\ truth[o.pc] # None
      BY <2>6, <3>1 DEF ServeOp
    <3>3. s \in Status
      BY <1>2, <3>1, <3>2 DEF ListTyped, Entry
    <3>4. Row(s) \in Entry
      BY <3>3, RowFacts
    <3> QED BY <2>2, <3>2, <3>4 DEF ListTyped
  <2>7. CASE ServeOp(o) /\ o.kind = "status"
    <3>1. PICK s \in Status :
            LET e == [type |-> "pc_status", pc |-> o.pc, row |-> Row(s)]
            IN Write(o.pc, Row(s)) /\ Replace(o, "done", Row(s)) /\ Publish(e) /\ Excuse(~Heard(e))
      BY <2>7 DEF ServeOp
    <3>2. Row(s) \in Entry
      BY RowFacts
    <3>3. PICK e \in Event : e = [type |-> "pc_status", pc |-> o.pc, row |-> Row(s)]
      BY <1>2, <3>2 DEF Event
    <3>4. Write(o.pc, Row(s)) /\ Replace(o, "done", Row(s)) /\ Publish(e)
      BY <3>1, <3>3
    <3>5. stream' \in Seq(Event)
      BY <3>4, Published
    <3> QED BY <2>2, <3>2, <3>4, <3>5
  <2>8. CASE ServeOp(o) /\ o.kind = "job"
    BY <2>1, <2>8 DEF ServeOp
  <2> QED BY <1>2, <2>3, <2>4, <2>5, <2>6, <2>7, <2>8 DEF OpKind
<1>4. ops' \subseteq Op /\ StaleIsRepaired'
  BY <1>3, Replaced
<1> QED BY <1>1, <1>3, <1>4 DEF ListTyped


\* A load of an operation or a job event: its answer was not overtaken, or is excused.
LEMMA ReloadKeepsList ==
  ASSUME ListInv, NEW f \in Filter, NEW base, Load(f, Requests!Empty, base), Excuse(Overtaken),
         UNCHANGED <<truth, changes, kept, stream, applied>>, fetches' \subseteq fetches, ops' \subseteq ops
  PROVE  ListInv'
<1>1. ListTyped'
  BY LoadTyped, EmptyFacts DEF ListInv, ListTyped
<1>2. CASE Overtaken
  BY <1>1, <1>2, Excused DEF ListInv
<1>3. CASE ~Overtaken
  BY <1>1, <1>3, LoadRepairs, EmptyFacts DEF ListInv, StaleIsRepaired
<1> QED BY <1>2, <1>3

\* A load of the list itself.
LEMMA LoadKeepsList ==
  ASSUME ListInv, NEW f \in Filter, Load(f, cache, shown), NEW reason, Excuse(reason),
         UNCHANGED <<truth, changes, kept, monitor, ops, fetches>>, applied' \in Filter,
         stream' = stream \/ (stream' = << >> /\ (stream # << >> => reason))
  PROVE  ListInv'
<1>1. ListTyped'
  BY LoadTyped DEF ListInv, ListTyped
<1>2. CASE excuse \/ reason
  BY <1>1, <1>2, Excused DEF ListInv
<1>3. CASE UnderWay /\ ~reason
  BY <1>1, <1>3 DEF ListInv, StaleIsRepaired, UnderWay
<1>4. CASE Clean \/ Awaited
  <2>1. ~Overtaken /\ \A g \in Filter : cache[g] \in {Nothing, ListOf(g)}
    BY <1>4 DEF Clean, Awaited, Overtaken, CacheFresh
  <2>2. Clean' \/ Awaited'
    BY <2>1, LoadRepairs DEF ListInv
  <2> QED BY <1>1, <2>2 DEF ListInv, StaleIsRepaired
<1> QED BY <1>2, <1>3, <1>4 DEF ListInv, StaleIsRepaired

\* A row changed in place.
LEMMA RowKeepsList ==
  ASSUME ListInv, NEW reason, Excuse(reason), ~reason => ~Overtaken /\ shown' = ListOf(shownFor),
         UNCHANGED <<truth, changes, kept, inFlight, shownFor, seq, applied, fetches>>, cache' = Requests!Empty,
         stream' \in Seq(Event), ops' \subseteq ops
  PROVE  ListInv'
<1>1. ListTyped'
  BY EmptyFacts DEF ListInv, ListTyped
<1>2. CASE reason
  BY <1>1, <1>2, Excused DEF ListInv
<1>3. CASE ~reason
  BY <1>1, <1>3, RowRepairs DEF ListInv, StaleIsRepaired
<1> QED BY <1>2, <1>3

\* The loads and the events.
LEMMA ViewKeepsList ==
  ASSUME ListInv,
         \/ LoadPcs \/ Disconnect \/ Subscribe \/ StatusEvent \/ JobEvent
         \/ \E f \in Filter : ApplyFilters(f) \/ JobFetched(f) \/ JobFetchFails(f)
  PROVE  ListInv'
<1>1. CASE LoadPcs
  <2>1. PICK f \in Filter : f = applied
    BY DEF ListInv, ListTyped
  <2>2. PICK e : e = FALSE
    OBVIOUS
  <2>3. applied' = f /\ Load(f, cache, shown) /\ Excuse(e)
        /\ UNCHANGED <<truth, changes, kept, monitor, ops, fetches, stream>>
    BY <1>1, <2>1, <2>2 DEF LoadPcs, tableVars, streamVars
  <2> QED BY <2>1, <2>3, LoadKeepsList
<1>2. ASSUME NEW f \in Filter, ApplyFilters(f) PROVE ListInv'
  <2>1. PICK e : e = (stream # << >>)
    OBVIOUS
  <2>2. applied' = f /\ stream' = << >> /\ Load(f, cache, shown) /\ Excuse(e)
        /\ UNCHANGED <<truth, changes, kept, monitor, ops, fetches>>
    BY <1>2, <2>1 DEF ApplyFilters, tableVars
  <2>3. stream # << >> => e
    BY <2>1
  <2> QED BY <2>2, <2>3, LoadKeepsList
<1>3. CASE Disconnect
  <2>1. PICK e : e = (stream # << >>)
    OBVIOUS
  <2>2. stream' = << >> /\ Excuse(e) /\ (stream # << >> => e)
        /\ UNCHANGED <<truth, changes, kept, monitor, ops, fetches, cache, inFlight, waiting, seq, shown, shownFor, failed,
                       applied>>
    BY <1>3, <2>1 DEF Disconnect, tableVars, requestVars, viewVars
  <2>3. ListTyped'
    BY <2>2, NoEvents DEF ListInv, ListTyped
  <2>4. CASE excuse \/ e
    BY <2>2, <2>3, <2>4, Excused DEF ListInv
  <2>5. CASE ~excuse /\ ~e
    <3>1. stream' = stream
      BY <2>2, <2>5
    <3>2. StaleIsRepaired'
      BY <2>2, <2>5, <3>1, FreshStays DEF ListInv, Current
    <3> QED BY <2>3, <3>2 DEF ListInv
  <2> QED BY <2>4, <2>5
<1>4. CASE Subscribe
  <2>1. UNCHANGED <<truth, changes, kept, monitor, stream, ops, fetches, cache, inFlight, waiting, seq, shown, shownFor,
                    failed, applied, excuse>>
    BY <1>4 DEF Subscribe, tableVars, requestVars, viewVars
  <2> QED BY <2>1, ListStutters
<1>5. CASE StatusEvent
  <2>1. PICK reason : reason = (Overtaken \/ Head(stream).row # truth[Head(stream).pc] \/ shown' # ListOf(shownFor))
    OBVIOUS
  <2>2. Excuse(reason) /\ cache' = Requests!Empty /\ stream' = Tail(stream) /\ stream # << >>
        /\ UNCHANGED <<truth, changes, kept, inFlight, shownFor, seq, applied, fetches, ops>>
    BY <1>5, <2>1 DEF StatusEvent, tableVars
  <2>3. Tail(stream) \in Seq(Event)
    <3>1. stream \in Seq(Event) /\ stream # << >>
      BY <2>2 DEF ListInv, ListTyped
    <3> QED BY <3>1
  <2>4. ~reason => ~Overtaken /\ shown' = ListOf(shownFor)
    BY <2>1
  <2> QED BY <2>2, <2>3, <2>4, RowKeepsList
<1>6. CASE JobEvent
  <2>1. stream' = Tail(stream) /\ stream # << >> /\ fetches' = fetches \cup {applied}
        /\ UNCHANGED <<truth, changes, cache, inFlight, seq, applied, ops>>
    BY <1>6 DEF JobEvent, tableVars, requestVars, viewVars
  <2>2. Tail(stream) \in Seq(Event)
    <3>1. stream \in Seq(Event) /\ stream # << >>
      BY <2>1 DEF ListInv, ListTyped
    <3> QED BY <3>1
  <2>3. ListTyped'
    BY <2>1, <2>2 DEF ListInv, ListTyped
  <2>4. UnderWay'
    BY <2>1 DEF UnderWay
  <2> QED BY <2>3, <2>4 DEF ListInv, StaleIsRepaired
<1>7. ASSUME NEW f \in Filter, JobFetched(f) PROVE ListInv'
  <2>1. Load(f, Requests!Empty, shown) /\ Excuse(Overtaken) /\ UNCHANGED <<truth, changes, kept, stream, applied, ops>>
        /\ fetches' = fetches \ {f}
    BY <1>7 DEF JobFetched, tableVars, streamVars
  <2> QED BY <2>1, ReloadKeepsList
<1>8. ASSUME NEW f \in Filter, JobFetchFails(f) PROVE ListInv'
  <2>1. Excuse(TRUE) /\ fetches' = fetches \ {f}
        /\ UNCHANGED <<truth, changes, stream, cache, inFlight, seq, applied, ops>>
    BY <1>8 DEF JobFetchFails, tableVars, streamVars, requestVars, viewVars
  <2>2. ListTyped'
    BY <2>1 DEF ListInv, ListTyped
  <2>3. StaleIsRepaired'
    BY <2>1, Excused
  <2> QED BY <2>2, <2>3 DEF ListInv
<1> QED BY <1>1, <1>2, <1>3, <1>4, <1>5, <1>6, <1>7, <1>8

\* The requests.
LEMMA RequestKeepsList ==
  ASSUME ListInv, NEW f \in Filter, ServeList(f) \/ ListArrives(f) \/ ListFails(f) \/ Forget(f)
  PROVE  ListInv'
<1>1. Excuse(FALSE) /\ UNCHANGED <<truth, changes, kept, monitor, stream, applied, fetches, ops, seq>>
  BY DEF ServeList, ListArrives, ListFails, Forget, tableVars, streamVars, viewVars
<1>2. excuse => StaleIsRepaired'
  BY <1>1, Excused
<1>3. cache = [g \in Filter |-> cache[g]] /\ inFlight = [g \in Filter |-> inFlight[g]]
  BY DEF ListInv, ListTyped
<1>4. CASE ServeList(f)
  <2>1. PICK t \in kept \cup {truth} : Requests!Serve(f, Filtered(t, f))
    BY <1>4 DEF ServeList
  <2>2. inFlight' = [inFlight EXCEPT ![f] = Filtered(t, f)] /\ cache' = cache
        /\ UNCHANGED <<waiting, shown, shownFor, failed>>
    BY <1>4, <2>1 DEF ServeList, Requests!Serve, viewVars
  <2>3. inFlight' = [g \in Filter |-> inFlight'[g]]
        /\ \A g \in Filter : inFlight'[g] = IF g = f THEN Filtered(t, f) ELSE inFlight[g]
    BY <1>3, <2>2
  <2>7. \A g \in Filter : inFlight'[g] \in {inFlight[g], Idle} \cup {Filtered(u, g) : u \in kept \cup {truth}}
    BY <2>1, <2>3
  <2>4. \A g \in Filter : Current(g) => Current(g)'
    BY <1>1, <2>2 DEF Current
  <2>5. StaleIsRepaired'
    BY <1>1, <1>2, <2>2, <2>3, <2>4, <2>7, FreshStays DEF ListInv
  <2>6. ListTyped'
    BY <1>1, <2>2, <2>3 DEF ListInv, ListTyped
  <2> QED BY <2>5, <2>6 DEF ListInv
<1>5. CASE Forget(f)
  <2>1. cache' = [cache EXCEPT ![f] = Nothing] /\ inFlight' = inFlight /\ UNCHANGED <<waiting, shown, shownFor, failed>>
    BY <1>5 DEF Forget, Requests!Forget, viewVars
  <2>2. cache' = [g \in Filter |-> IF g = f THEN Nothing ELSE cache[g]]
    BY <1>3, <2>1
  <2>3. cache' = [g \in Filter |-> cache'[g]] /\ \A g \in Filter : cache'[g] = cache[g] \/ cache'[g] = Nothing
    BY <2>2
  <2>4. \A g \in Filter : Current(g) => Current(g)'
    BY <1>1, <2>1 DEF Current
  <2>5. StaleIsRepaired'
    <3>1. CASE excuse
      BY <1>2, <3>1
    <3>2. CASE UnderWay
      BY <1>1, <3>2 DEF UnderWay, StaleIsRepaired
    <3>3. CASE Clean
      BY <1>1, <2>1, <2>3, <3>3 DEF Clean, StaleIsRepaired, ListOf, Filtered, Matches
    <3>4. CASE Awaited
      BY <1>1, <2>1, <2>3, <2>4, <3>4 DEF Awaited, StaleIsRepaired, ListOf, Filtered, Matches, Overtaken, CacheFresh
    <3> QED BY <3>1, <3>2, <3>3, <3>4 DEF ListInv, StaleIsRepaired
  <2>6. ListTyped'
    BY <1>1, <2>1, <2>3 DEF ListInv, ListTyped
  <2> QED BY <2>5, <2>6 DEF ListInv
<1>6. CASE ListArrives(f)
  <2>1. /\ inFlight[f] \notin {Idle, Asked} /\ cache' = [cache EXCEPT ![f] = inFlight[f]]
        /\ inFlight' = [inFlight EXCEPT ![f] = Idle] /\ Settle(f) /\ failed' = failed
        /\ IF Current(f) THEN shown' = inFlight[f] /\ shownFor' = f ELSE UNCHANGED <<shown, shownFor>>
    BY <1>6 DEF ListArrives, Requests!Arrive, Requests!Travelling
  <2>2. /\ inFlight' = [g \in Filter |-> IF g = f THEN Idle ELSE inFlight[g]]
        /\ cache' = [g \in Filter |-> IF g = f THEN inFlight[f] ELSE cache[g]]
    BY <1>3, <2>1
  <2>3. inFlight' = [g \in Filter |-> inFlight'[g]] /\ \A g \in Filter : inFlight'[g] \in {inFlight[g], Idle}
    BY <2>2
  <2>4. cache' = [g \in Filter |-> cache'[g]]
    BY <2>2
  <2>5. \A g \in Filter : cache'[g] = cache[g] \/ (g = f /\ cache'[g] = inFlight[g])
    BY <2>2
  <2>6. \A g \in Filter : Current(g) => Current(g)' \/ g = f
    BY <1>1, <2>1 DEF Current, Settle
  <2>7. StaleIsRepaired'
    BY <1>1, <1>2, <2>1, <2>3, <2>5, <2>6, FreshStays DEF ListInv
  <2>8. ListTyped'
    BY <1>1, <2>3, <2>4 DEF ListInv, ListTyped
  <2> QED BY <2>7, <2>8 DEF ListInv
<1>7. CASE ListFails(f)
  <2>1. /\ inFlight' = [inFlight EXCEPT ![f] = Idle] /\ cache' = cache /\ Settle(f)
        /\ UNCHANGED <<shown, shownFor>>
    BY <1>7 DEF ListFails, Requests!Break
  <2>2. failed' = (failed \/ Current(f))
    BY <1>7 DEF ListFails
  <2>3. inFlight' = [g \in Filter |-> IF g = f THEN Idle ELSE inFlight[g]]
    BY <1>3, <2>1
  <2>4. inFlight' = [g \in Filter |-> inFlight'[g]] /\ \A g \in Filter : inFlight'[g] \in {inFlight[g], Idle}
    BY <2>3
  <2>5. (failed => failed') /\ (Current(f) => failed')
    BY <2>2, Zenon
  <2>6. \A g \in Filter : Current(g) => Current(g)' \/ failed'
    BY <1>1, <2>1, <2>5 DEF Current, Settle
  <2>7. StaleIsRepaired'
    BY <1>1, <1>2, <2>1, <2>4, <2>5, <2>6, FreshStays DEF ListInv
  <2>8. ListTyped'
    BY <1>1, <2>1, <2>4 DEF ListInv, ListTyped
  <2> QED BY <2>7, <2>8 DEF ListInv
<1> QED BY <1>4, <1>5, <1>6, <1>7

\* The operations in the browser.
LEMMA OpKeepsList ==
  ASSUME ListInv, NEW o \in ops,
         FailOp(o) \/ FinishCreate(o) \/ FinishDelete(o) \/ FinishRow(o) \/ JobAccepted(o) \/ FinishJob(o)
  PROVE  ListInv'
<1>1. o \in Op /\ o.filter \in Filter
  BY OpFacts DEF ListInv
<1>2. CASE FinishCreate(o) \/ FinishDelete(o) \/ FinishJob(o)
  <2>1. PICK base : Load(o.filter, Requests!Empty, base)
    BY <1>2 DEF FinishCreate, FinishDelete, FinishJob
  <2>2. Excuse(Overtaken) /\ UNCHANGED <<truth, changes, kept, stream, applied, fetches>> /\ ops' = ops \ {o}
    BY <1>2 DEF FinishCreate, FinishDelete, FinishJob, tableVars, streamVars
  <2> QED BY <1>1, <2>1, <2>2, ReloadKeepsList
<1>3. CASE FinishRow(o)
  <2>1. shownFor' = shownFor /\ truth' = truth
    BY <1>3 DEF FinishRow, tableVars
  <2>2. PICK reason : reason = (Overtaken \/ shown' # ListOf(shownFor))
    OBVIOUS
  <2>3. Excuse(reason)
    BY <1>3, <2>1, <2>2 DEF FinishRow
  <2>4. cache' = Requests!Empty /\ ops' = ops \ {o}
        /\ UNCHANGED <<truth, changes, kept, stream, inFlight, shownFor, seq, applied, fetches>>
    BY <1>3 DEF FinishRow, tableVars, streamVars
  <2>5. stream' \in Seq(Event)
    BY <2>4 DEF ListInv, ListTyped
  <2>6. ~reason => ~Overtaken /\ shown' = ListOf(shownFor)
    BY <2>2
  <2> QED BY <2>3, <2>4, <2>5, <2>6, RowKeepsList
<1>4. CASE JobAccepted(o)
  <2>1. PICK q : q = [o EXCEPT !.seen = TRUE]
    OBVIOUS
  <2>2. q \in Op /\ q.state = o.state
    <3>1. q = [kind |-> o.kind, pc |-> o.pc, filter |-> o.filter, state |-> o.state, seen |-> TRUE,
               answer |-> o.answer]
      BY <1>1, <2>1 DEF Op
    <3> QED BY <1>1, <3>1 DEF Op
  <2>3. ops' = (ops \ {o}) \cup {q} /\ o.state # "asked" /\ cache' = Requests!Empty
        /\ UNCHANGED <<truth, changes, kept, stream, inFlight, seq, applied, fetches>>
    BY <1>4, <2>1 DEF JobAccepted, tableVars, streamVars
  <2>4. ListTyped'
    BY <2>2, <2>3, EmptyFacts DEF ListInv, ListTyped
  <2>5. UnderWay'
    BY <2>2, <2>3 DEF UnderWay
  <2> QED BY <2>4, <2>5 DEF ListInv, StaleIsRepaired
<1>5. CASE FailOp(o)
  <2>1. PICK reason : reason = (o.state # "asked")
    OBVIOUS
  <2>2. Excuse(reason) /\ ops' = ops \ {o}
        /\ UNCHANGED <<truth, changes, kept, monitor, stream, cache, inFlight, waiting, shown, shownFor, failed, seq, applied,
                       fetches>>
    BY <1>5, <2>1 DEF FailOp, tableVars, streamVars, requestVars, viewVars
  <2>3. ListTyped'
    BY <2>2 DEF ListInv, ListTyped
  <2>4. CASE excuse \/ reason
    BY <2>2, <2>3, <2>4, Excused DEF ListInv
  <2>5. CASE ~excuse /\ ~reason
    <3>1. o.state = "asked"
      BY <2>1, <2>5
    <3>2. UnderWay => UnderWay'
      BY <2>2, <3>1 DEF UnderWay
    <3>3. Clean => Clean'
      BY <2>2 DEF Clean, ListOf, Filtered, Matches
    <3>4. Awaited => Awaited'
      BY <2>2 DEF Awaited, Overtaken, CacheFresh, ListOf, Filtered, Matches, Current
    <3> QED BY <2>3, <2>5, <3>2, <3>3, <3>4 DEF ListInv, StaleIsRepaired
  <2> QED BY <2>4, <2>5
<1> QED BY <1>2, <1>3, <1>4, <1>5

\* The backend's cache forgets.
LEMMA ExpireKeepsList == ListInv /\ Expire => ListInv'
<1> SUFFICES ASSUME ListInv, Expire PROVE ListInv'
  OBVIOUS
<1>1. Excuse(FALSE) /\ kept' \subseteq kept
      /\ UNCHANGED <<truth, changes, monitor, stream, ops, fetches, cache, inFlight, waiting, seq, shown, shownFor,
                     failed, applied>>
  BY DEF Expire, streamVars, requestVars, viewVars
<1>2. ListTyped'
  BY <1>1 DEF ListInv, ListTyped
<1>3. excuse => StaleIsRepaired'
  BY <1>1, Excused
<1>4. StaleIsRepaired'
  BY <1>1, <1>3, FreshStays DEF ListInv, Current
<1> QED BY <1>2, <1>4 DEF ListInv

LEMMA AskKeepsList == ASSUME ListInv, NEW kind \in OpKind, NEW p \in Pc, Ask(kind, p) PROVE ListInv'
<1>1. PICK q : q = [kind |-> kind, pc |-> p, filter |-> applied, state |-> "asked", seen |-> FALSE, answer |-> None]
  OBVIOUS
<1>2. q \in Op /\ q.answer = None
  BY <1>1 DEF Op, ListInv, ListTyped
<1>3. ops' = ops \cup {q}
      /\ UNCHANGED <<truth, changes, kept, monitor, stream, cache, inFlight, waiting, shown, shownFor, failed, seq, applied,
                     fetches, excuse>>
  BY <1>1 DEF Ask, tableVars, streamVars, requestVars, viewVars
<1>4. ListTyped'
  BY <1>2, <1>3 DEF ListInv, ListTyped
<1>5. UnderWay => UnderWay'
  BY <1>3 DEF UnderWay
<1>6. Clean => Clean'
  BY <1>2, <1>3 DEF Clean, ListOf, Filtered, Matches
<1>7. Awaited => Awaited'
  BY <1>2, <1>3 DEF Awaited, Overtaken, CacheFresh, ListOf, Filtered, Matches, Current
<1> QED BY <1>3, <1>4, <1>5, <1>6, <1>7 DEF ListInv, StaleIsRepaired

LEMMA ListInvNext == ListInv /\ [PcListNext]_pcListVars => ListInv'
<1> SUFFICES ASSUME ListInv, [PcListNext]_pcListVars PROVE ListInv'
  OBVIOUS
<1>1. CASE UNCHANGED pcListVars
  BY <1>1, ListStutters DEF pcListVars, tableVars, streamVars, requestVars, viewVars
<1> QED BY <1>1, TableKeeps, ServeOpKeeps, ViewKeepsList, RequestKeepsList, ExpireKeepsList, OpKeepsList, AskKeepsList
       DEF PcListNext

\* The list that is shown when nothing is under way is the backend's, unless another
\* client changed a PC unannounced, an answer was overtaken on its way or in the
\* backend's cache, an event was lost or applied late, a row changed in place under a
\* filter, or a failed request left the browser without notice: for every set of
\* PCs, length of the event queue and number of changes, loads and operations
\* (usePcCollection, usePcCrud, useDashboardSse).
THEOREM ListAlwaysRepaired == PcListSpec => []ListStaleOnlyByOverlap
<1> QED BY ListInvInit, ListInvNext, ListInvHolds, PTL DEF PcListSpec
-----------------------------------------------------------------------------
(* The dialogs of the PC list. *)

Someone == ListedPc \cup {Nobody}
Update == {NoRequest} \cup [pc: ListedPc, text: Int, step: {"asked", "saved"}]
Deletion == {NoRequest} \cup [pc: ListedPc, selected: Someone, step: {"asked", "done"}]

DialogTyped ==
  /\ items \in [ListedPc -> Int]
  /\ selected \in Someone /\ pendingDelete \in Someone /\ shutdownTarget \in Someone
  /\ update \in Update /\ deletion \in Deletion
  /\ typed \in Int /\ editForm \in [of: Someone, text: Int]

\* The inductive invariant: the parts of DialogsHold keep each other.
DialogInv == DialogTyped /\ FormIsTyped /\ EndMeetsItsPc

LEMMA DialogInvHolds == DialogInv => DialogsHold
  BY DEF DialogInv, DialogsHold, FormIsTyped, LockedBehindDialog

LEMMA DialogInvInit == DialogInit => DialogInv
<1> SUFFICES ASSUME DialogInit PROVE DialogInv
  OBVIOUS
<1>1. DialogTyped
  BY DEF DialogInit, DialogTyped, Absent, Someone, Update, Deletion, Form
<1>2. FormIsTyped
  BY DEF DialogInit, FormIsTyped
<1>3. EndMeetsItsPc
  BY DEF DialogInit, EndMeetsItsPc, editLoading, confirmLoading
<1> QED BY <1>1, <1>2, <1>3 DEF DialogInv

\* A render of the PC sel with a form that has what was typed, or is not edited.
LEMMA RenderHolds ==
  ASSUME DialogAssumption,
         NEW its \in [ListedPc -> Int], NEW sel \in Someone, NEW visible, NEW editing,
         NEW form \in [of: Someone, text: Int],
         Render(its, sel, visible, editing, form),
         visible => sel # Nobody /\ (editing => form = Form(sel, typed'))
  PROVE  /\ items' = its /\ selected' \in {sel, Nobody}
         /\ editForm' \in [of: Someone, text: Int]
         /\ FormIsTyped'
<1>1. /\ items' = its /\ selected' \in {sel, Nobody}
      /\ editForm' \in {form, Form(sel, its[sel])} /\ (editForm' # form => sel # Nobody)
  BY DEF Render
<1>2. editForm' \in [of: Someone, text: Int]
  <2>1. CASE editForm' = form
    BY <2>1
  <2>2. CASE sel # Nobody /\ editForm' = Form(sel, its[sel])
    BY <2>2 DEF Form, Someone
  <2> QED BY <1>1, <2>1, <2>2
<1>3. FormIsTyped'
  <2> SUFFICES ASSUME detailOpen' PROVE FormIsTyped'
    BY DEF FormIsTyped
  <2>1. visible /\ sel # Nobody /\ its[sel] # Absent /\ selected' = sel /\ items' = its
    BY DEF Render
  <2>2. CASE editing
    <3>1. isEditing' /\ editForm' = form
      BY <2>1, <2>2 DEF Render
    <3> QED BY <2>1, <2>2, <3>1 DEF FormIsTyped, Listed
  <2>3. CASE ~editing
    <3>1. ~isEditing' /\ editForm' = Form(sel, its[sel])
      BY <2>1, <2>3 DEF Render
    <3> QED BY <2>1, <3>1 DEF FormIsTyped, Listed
  <2> QED BY <2>2, <2>3
<1> QED BY <1>1, <1>2, <1>3

\* A step that renders the PC selected, or none: the requests end or stay about
\* their PCs.
LEMMA RenderKeeps ==
  ASSUME DialogAssumption, DialogInv,
         NEW its \in [ListedPc -> Int], NEW sel \in {selected, Nobody}, NEW visible, NEW editing,
         NEW form \in [of: Someone, text: Int],
         Render(its, sel, visible, editing, form),
         visible => sel # Nobody /\ (editing => form = Form(sel, typed')),
         typed' \in Int, pendingDelete' \in Someone, shutdownTarget' \in Someone,
         update' \in Update, update' \in {update, NoRequest} \/ (update # NoRequest /\ update'.pc = update.pc),
         deletion' \in Deletion,
         deletion' \in {deletion, NoRequest} \/ (deletion # NoRequest /\ deletion'.selected = deletion.selected)
  PROVE  DialogInv'
<1>1. sel \in Someone /\ Nobody \in Someone
  BY DEF DialogInv, DialogTyped, Someone
<1>2. items' = its /\ selected' \in {sel, Nobody} /\ editForm' \in [of: Someone, text: Int] /\ FormIsTyped'
  BY <1>1, RenderHolds
<1>3. EndMeetsItsPc'
  <2>1. selected' \in {selected, Nobody} /\ EndMeetsItsPc
    BY <1>2 DEF DialogInv
  <2> QED BY <2>1 DEF EndMeetsItsPc, editLoading, confirmLoading
<1>4. DialogTyped'
  BY <1>1, <1>2 DEF DialogTyped
<1> QED BY <1>2, <1>3, <1>4 DEF DialogInv

LEMMA DialogInvNext ==
  ASSUME DialogAssumption, DialogInv, [DialogNext]_dialogVars PROVE DialogInv'
<1> USE DEF DialogInv
<1>0. /\ Nobody \notin ListedPc /\ Nobody \in Someone /\ ListedPc \subseteq Someone
      /\ Texts \in Nat /\ Absent \in Int /\ 0 .. Texts \subseteq Int
      /\ NoRequest \in Update /\ NoRequest \in Deletion
  BY DEF DialogAssumption, Someone, Absent, Update, Deletion
<1>1. detailOpen => Listed(selected) /\ selected \in ListedPc /\ selected # Nobody
  BY <1>0 DEF FormIsTyped, Listed, DialogTyped, Someone
<1>2. detailOpen => selected # Nobody /\ (isEditing => editForm = Form(selected, typed))
  BY <1>1 DEF FormIsTyped
<1>3. ASSUME NEW p \in ListedPc, NEW text \in {Absent} \cup 1 .. Texts, ListChanges(p, text)
      PROVE  DialogInv'
  <2> DEFINE its == [items EXCEPT ![p] = text]
  <2>1. its \in [ListedPc -> Int]
    BY <1>0 DEF DialogTyped
  <2>2. Render(its, selected, detailOpen, isEditing, editForm)
        /\ UNCHANGED <<update, deletion, pendingDelete, shutdownTarget, typed>>
    BY <1>3 DEF ListChanges, requests
  <2> HIDE DEF its
  <2> QED BY <1>2, <2>1, <2>2, RenderKeeps DEF DialogTyped
<1>4. ASSUME NEW p \in ListedPc, ShutdownAllowed(p) PROVE DialogInv'
  BY <1>4 DEF ShutdownAllowed, requests, DialogTyped, FormIsTyped, EndMeetsItsPc, editLoading, confirmLoading, Listed
<1>5. ASSUME NEW p \in ListedPc, OpenDetail(p) PROVE DialogInv'
  <2>1. /\ Render(items, p, TRUE, FALSE, editForm) /\ p # Nobody
        /\ ~confirmLoading /\ ~editLoading
        /\ UNCHANGED <<update, deletion, pendingDelete, shutdownTarget, typed>>
    BY <1>5 DEF OpenDetail, Listed, requests
  <2>2. items' = items /\ selected' \in {p, Nobody} /\ editForm' \in [of: Someone, text: Int] /\ FormIsTyped'
    BY <1>0, <2>1, RenderHolds DEF DialogTyped
  <2>3. EndMeetsItsPc'
    BY <2>1 DEF EndMeetsItsPc, editLoading, confirmLoading
  <2>4. DialogTyped'
    BY <1>0, <2>1, <2>2 DEF DialogTyped
  <2> QED BY <2>2, <2>3, <2>4
<1>6. CASE CloseDetail
  BY <1>6, RenderKeeps DEF CloseDetail, requests, DialogTyped
<1>7. CASE StartEdit
  <2> DEFINE form == Form(selected, items[selected])
  <2>1. /\ Render(items, selected, detailOpen, TRUE, form) /\ detailOpen /\ typed' = items[selected]
        /\ UNCHANGED <<update, deletion, pendingDelete, shutdownTarget>>
    BY <1>7 DEF StartEdit, requests
  <2>2. items[selected] \in Int /\ form \in [of: Someone, text: Int] /\ form = Form(selected, typed')
    BY <1>0, <1>1, <2>1 DEF DialogTyped, Form
  <2> HIDE DEF form
  <2> QED BY <1>1, <2>1, <2>2, RenderKeeps DEF DialogTyped
<1>8. CASE CancelEdit
  BY <1>2, <1>8, RenderKeeps DEF CancelEdit, requests, DialogTyped
<1>9. ASSUME NEW text \in 0 .. Texts, UpdateEditField(text) PROVE DialogInv'
  <2> DEFINE form == Form(editForm.of, text)
  <2>1. /\ Render(items, selected, detailOpen, isEditing, form) /\ typed' = text
        /\ detailOpen /\ isEditing
        /\ UNCHANGED <<update, deletion, pendingDelete, shutdownTarget>>
    BY <1>9 DEF UpdateEditField, requests
  <2>2. form \in [of: Someone, text: Int] /\ text \in Int
    BY <1>0 DEF DialogTyped, Form
  <2>3. editForm.of = selected
    BY <1>2, <2>1 DEF Form
  <2>4. form = Form(selected, typed')
    BY <2>1, <2>3
  <2> HIDE DEF form
  <2> QED BY <1>1, <2>1, <2>2, <2>4, RenderKeeps DEF DialogTyped
<1>10. CASE SubmitEdit
  <2>1. /\ detailOpen /\ update' = [pc |-> selected, text |-> editForm.text, step |-> "asked"]
        /\ UNCHANGED <<items, selected, detailOpen, isEditing, editForm, deletion, pendingDelete, shutdownTarget, typed>>
    BY <1>10 DEF SubmitEdit
  <2>2. update' \in Update /\ update'.pc = selected
    BY <1>1, <2>1 DEF Update, DialogTyped
  <2>3. DialogTyped'
    BY <2>1, <2>2 DEF DialogTyped
  <2>4. FormIsTyped'
    BY <2>1 DEF FormIsTyped, Listed
  <2>5. EndMeetsItsPc'
    BY <2>1, <2>2 DEF EndMeetsItsPc, editLoading, confirmLoading
  <2> QED BY <2>3, <2>4, <2>5
<1>11. CASE UpdateSaved
  <2>1. PICK its : its = IF Listed(update.pc) THEN [items EXCEPT ![update.pc] = update.text] ELSE items
    OBVIOUS
  <2>2. PICK q : q = [update EXCEPT !.step = "saved"]
    OBVIOUS
  <2>3. /\ update.step = "asked" /\ Render(its, selected, detailOpen, isEditing, editForm) /\ update' = q
        /\ UNCHANGED <<deletion, pendingDelete, shutdownTarget, typed>>
    BY <1>11, <2>1, <2>2 DEF UpdateSaved
  <2>4. update \in [pc: ListedPc, text: Int, step: {"asked", "saved"}] /\ update # NoRequest
    BY <2>3 DEF DialogTyped, Update, NoRequest
  <2>5. q = [pc |-> update.pc, text |-> update.text, step |-> "saved"]
    BY <2>2, <2>4
  <2>6. q \in Update /\ q.pc = update.pc
    BY <2>4, <2>5 DEF Update
  <2>7. its \in [ListedPc -> Int]
    BY <2>1, <2>4 DEF DialogTyped
  <2> QED BY <1>2, <2>3, <2>4, <2>6, <2>7, RenderKeeps DEF DialogTyped
<1>12. CASE UpdateEnds
  <2>1. PICK e : e = (isEditing /\ update.step # "saved")
    OBVIOUS
  <2>2. /\ Render(items, selected, detailOpen, e, editForm) /\ update' = NoRequest
        /\ UNCHANGED <<deletion, pendingDelete, shutdownTarget, typed>>
    BY <1>12, <2>1 DEF UpdateEnds
  <2>3. e => isEditing
    BY <2>1
  <2> QED BY <1>0, <1>2, <2>2, <2>3, RenderKeeps DEF DialogTyped
<1>13. CASE OpenDeleteDialog \/ CloseDeleteDialog
  BY <1>0, <1>13 DEF OpenDeleteDialog, CloseDeleteDialog, requests, DialogTyped, FormIsTyped, EndMeetsItsPc,
                     editLoading, confirmLoading, Listed
<1>14. CASE ConfirmAndDelete
  <2>1. /\ pendingDelete # Nobody /\ deletion' = [pc |-> pendingDelete, selected |-> selected, step |-> "asked"]
        /\ UNCHANGED <<items, selected, detailOpen, isEditing, editForm, update, pendingDelete, shutdownTarget, typed>>
    BY <1>14 DEF ConfirmAndDelete
  <2>2. deletion' \in Deletion /\ deletion'.selected = selected
    BY <2>1 DEF Deletion, DialogTyped, Someone
  <2>3. DialogTyped'
    BY <2>1, <2>2 DEF DialogTyped
  <2>4. FormIsTyped'
    BY <2>1 DEF FormIsTyped, Listed
  <2>5. EndMeetsItsPc'
    BY <2>1, <2>2 DEF EndMeetsItsPc, editLoading, confirmLoading
  <2> QED BY <2>3, <2>4, <2>5
<1>15. CASE Deleted
  <2> DEFINE its == [items EXCEPT ![deletion.pc] = Absent]
  <2>1. PICK q : q = [deletion EXCEPT !.step = "done"]
    OBVIOUS
  <2>2. /\ deletion.step = "asked" /\ deletion' = q /\ Render(its, selected, detailOpen, isEditing, editForm)
        /\ UNCHANGED <<update, pendingDelete, shutdownTarget, typed>>
    BY <1>15, <2>1 DEF Deleted
  <2>3. deletion \in [pc: ListedPc, selected: Someone, step: {"asked", "done"}] /\ deletion # NoRequest
    BY <2>2 DEF DialogTyped, Deletion, NoRequest
  <2>4. q = [pc |-> deletion.pc, selected |-> deletion.selected, step |-> "done"]
    BY <2>1, <2>3
  <2>5. q \in Deletion /\ q.selected = deletion.selected
    BY <2>3, <2>4 DEF Deletion
  <2>6. its \in [ListedPc -> Int]
    BY <1>0, <2>3 DEF DialogTyped
  <2> HIDE DEF its
  <2> QED BY <1>2, <2>2, <2>3, <2>5, <2>6, RenderKeeps DEF DialogTyped
<1>16. CASE DeleteEnds
  <2>1. /\ pendingDelete' = Nobody /\ deletion' = NoRequest /\ UNCHANGED <<update, shutdownTarget, typed>>
        /\ \/ Render(items, Nobody, FALSE, FALSE, editForm)
           \/ Render(items, selected, detailOpen, isEditing, editForm)
    BY <1>16 DEF DeleteEnds
  <2>2. CASE Render(items, Nobody, FALSE, FALSE, editForm)
    BY <1>0, <2>1, <2>2, RenderKeeps DEF DialogTyped
  <2>3. CASE Render(items, selected, detailOpen, isEditing, editForm)
    BY <1>0, <1>2, <2>1, <2>3, RenderKeeps DEF DialogTyped
  <2> QED BY <2>1, <2>2, <2>3
<1>17. CASE EndShutdownDialog \/ \E p \in ListedPc : AskShutdown(p)
  BY <1>0, <1>17 DEF EndShutdownDialog, AskShutdown, requests, DialogTyped, FormIsTyped, EndMeetsItsPc,
                     editLoading, confirmLoading, Listed
<1>18. CASE UNCHANGED dialogVars
  BY <1>18 DEF dialogVars, requests, DialogTyped, FormIsTyped, EndMeetsItsPc, editLoading, confirmLoading, Listed
<1> QED BY <1>3, <1>4, <1>5, <1>6, <1>7, <1>8, <1>9, <1>10, <1>11, <1>12, <1>13, <1>14, <1>15, <1>16, <1>17, <1>18
       DEF DialogNext

\* The form is that of the PC on show and keeps what was typed, an end meets its
\* PC, and a locked page has a dialog, for every set of PCs and texts.
THEOREM DialogsAlwaysHold == DialogSpec => []DialogsHold
<1>1. DialogInv /\ [DialogNext]_dialogVars => DialogInv'
  BY DialogInvNext, DialogAssumption
<1> QED BY DialogInvInit, <1>1, DialogInvHolds, PTL DEF DialogSpec
-----------------------------------------------------------------------------
(* The panel of the API tokens. *)

TokenState == {"absent", "active", "revoked", "gone"}
Field == Token \cup {NoToken}
OpRecord == [at: {"none", "asked", "served", "listing"}, token: Field, by: Field, auto: BOOLEAN, field: Field,
             alone: BOOLEAN, unlisted: BOOLEAN]
LoadRecord == [at: {"none", "asked", "read", "denied"}, by: Field, seen: [Token -> TokenState], clean: BOOLEAN]

PanelTyped ==
  /\ server \in [Token -> TokenState] /\ apiTokens \in [Token -> TokenState] /\ own \in [Token -> TokenState]
  /\ stored \in Field /\ currentBearerToken \in Field
  /\ op \in [Operation -> OpRecord] /\ load \in [Loader -> LoadRecord]
  /\ \A p \in Operation : op[p].auto => p = "create"
  /\ \A p \in {"revoke", "delete"} : op[p].at = "asked" => op[p].token \in Token

\* A token that the browser has was created once, and never will be again.
Known(k) == k = NoToken \/ server[k] # "absent"
OldTokens ==
  /\ Known(stored) /\ Known(currentBearerToken)
  /\ \A p \in Operation : Known(op[p].by) /\ Known(op[p].field)
  /\ \A p \in {"save", "create"} : Known(op[p].token)

\* So a creation for this browser, begun with an up to date list, is not let
\* through any more once another token is active.
FirstOnly ==
  LET c == op["create"]
  IN c.at = "asked" /\ c.auto /\ ~c.unlisted => c.by = NoToken \/ server[c.by] \in {"revoked", "gone"}

\* A load follows the operation it ends.
LoadsEndOperations ==
  /\ \A p \in Loader : load[p].at = "none" => load[p] = NoLoad
  /\ \A p \in Operation : load[p].at # "none" => op[p].at = "listing"

\* After a clear nothing is under way but a save.
ClearedIsQuiet ==
  cleared => /\ tokenAccessDenied /\ apiTokens = NoTokens
             /\ \A p \in Loader : load[p].at = "none"
             /\ \A p \in Operation : p # "save" => op[p].at \notin {"asked", "served"}

\* What the panel did is in the backend, and in the list shown or in the one on
\* its way, unless its answer is still under way and will load the list again.
OwnIsServed == \A k \in Token : own[k] # "absent" => server[k] = own[k]
Landing(k) == \E p \in Operation : op[p].at = "served" /\ op[p].token = k /\ own[k] = Given(p)
Shows(list_) == \A k \in Token : own[k] # "absent" => list_[k] = own[k] \/ Landing(k)
ListIsTrue ==
  /\ listed /\ (\A p \in Loader : load[p].at = "none") /\ ~tokenAccessDenied => Shows(apiTokens)
  /\ \A p \in Loader : load[p].at = "read" /\ load[p].clean => Shows(load[p].seen)

\* The inductive invariant.
PanelInv ==
  /\ PanelTyped
  /\ OldTokens
  /\ FirstOnly
  /\ LoadsEndOperations
  /\ ClearedIsQuiet
  /\ OwnIsServed
  /\ ListIsTrue
  /\ AutoOnlyFirst
  /\ FieldIsKept

LEMMA PanelFacts ==
  /\ "create" \in Operation /\ "save" \in Operation /\ "reload" \in Loader /\ "reload" \notin Operation
  /\ Operation \subseteq Loader /\ NoToken \in Field /\ Token \subseteq Field
  /\ NoOp.at = "none" /\ NoOp.token = NoToken /\ NoOp.by = NoToken /\ NoOp.field = NoToken /\ NoOp.auto = FALSE
  /\ NoOp \in OpRecord
  /\ NoLoad.at = "none" /\ NoLoad \in LoadRecord
  /\ NoTokens \in [Token -> TokenState] /\ \A k \in Token : NoTokens[k] = "absent"
<1>1. NoTokens \in [Token -> TokenState] /\ \A k \in Token : NoTokens[k] = "absent"
  BY DEF NoTokens, TokenState
<1>2. NoOp \in OpRecord
  BY DEF NoOp, OpRecord, Field
<1>3. NoLoad \in LoadRecord
  BY <1>1 DEF NoLoad, LoadRecord, Field
<1> QED BY <1>1, <1>2, <1>3 DEF NoOp, NoLoad, Operation, Loader, Field

LEMMA PanelInvHolds == PanelInv => PanelHolds
<1> SUFFICES ASSUME PanelInv PROVE PanelHolds
  OBVIOUS
<1>1. ClearedStaysHidden
  BY DEF PanelInv, ClearedIsQuiet, ClearedStaysHidden
<1>2. OwnChangesShown
  <2> SUFFICES ASSUME listed, Loading = {}, ~tokenAccessDenied, \A p \in Operation : op[p] = NoOp
               PROVE  \A k \in Token : own[k] # "absent" => apiTokens[k] = own[k]
    BY DEF OwnChangesShown
  <2>1. \A p \in Loader : load[p].at = "none"
    BY DEF Loading
  <2>2. \A k \in Token : ~Landing(k)
    BY PanelFacts DEF Landing
  <2> QED BY <2>1, <2>2 DEF PanelInv, ListIsTrue, Shows
<1> QED BY <1>1, <1>2 DEF PanelInv, PanelHolds

LEMMA PanelInvInit == PanelInit => PanelInv
<1> SUFFICES ASSUME PanelInit PROVE PanelInv
  OBVIOUS
<1>1. PICK q : q = [NoLoad EXCEPT !.at = "asked", !.by = stored, !.clean = TRUE]
  OBVIOUS
<1>2. q = [at |-> "asked", by |-> stored, seen |-> NoTokens, clean |-> TRUE]
  BY <1>1 DEF NoLoad
<1>3. stored \in Field /\ Known(stored) /\ stored = currentBearerToken
  BY DEF PanelInit, Field, Known
<1>4. q \in LoadRecord /\ q.at = "asked"
  BY <1>2, <1>3, PanelFacts DEF LoadRecord
<1>5. load = [p \in Loader |-> IF p = "reload" THEN q ELSE NoLoad]
  BY <1>1 DEF PanelInit
<1>6. /\ load \in [Loader -> LoadRecord] /\ load["reload"] = q
      /\ \A p \in Loader : p # "reload" => load[p] = NoLoad
  BY <1>4, <1>5, PanelFacts
<1>7. op \in [Operation -> OpRecord] /\ \A p \in Operation : op[p] = NoOp
  BY PanelFacts DEF PanelInit
<1>8. PanelTyped
  BY <1>3, <1>6, <1>7, PanelFacts DEF PanelInit, PanelTyped, TokenState, Operation
<1>9. OldTokens
  BY <1>3, <1>7, PanelFacts DEF OldTokens, Known
<1>10. LoadsEndOperations
  BY <1>4, <1>6, PanelFacts DEF LoadsEndOperations
<1>11. OwnIsServed /\ ClearedIsQuiet
  BY PanelFacts DEF PanelInit, OwnIsServed, ClearedIsQuiet
<1>12. ListIsTrue
  BY <1>4, <1>6, PanelFacts DEF PanelInit, ListIsTrue
<1>13. FirstOnly /\ AutoOnlyFirst
  BY <1>7, PanelFacts DEF FirstOnly, AutoOnlyFirst
<1>14. FieldIsKept
  BY <1>7, PanelFacts DEF FieldIsKept, InFlight
<1> QED BY <1>8, <1>9, <1>10, <1>11, <1>12, <1>13, <1>14 DEF PanelInv

\* A token that was created is not absent again, and a revoked one never active.
ServerMoves ==
  /\ server' \in [Token -> TokenState]
  /\ \A k \in Token : /\ server[k] # "absent" => server'[k] # "absent"
                      /\ server[k] \in {"revoked", "gone"} => server'[k] \in {"revoked", "gone"}

LEMMA KnownStays ==
  ASSUME ServerMoves, NEW k \in Field, Known(k)
  PROVE  k = NoToken \/ server'[k] # "absent"
  BY DEF ServerMoves, Known, Field

\* The tokens of other clients do not matter to what this panel has.
LEMMA ElsewhereKeeps ==
  ASSUME PanelInv, NEW k \in Token, Elsewhere(k)
  PROVE  PanelInv'
<1>1. /\ own' = [own EXCEPT ![k] = "absent"]
      /\ UNCHANGED <<stored, currentBearerToken, apiTokens, tokenAccessDenied, op, load, overtyped, listed, cleared>>
      /\ \/ server[k] = "absent" /\ server' = [server EXCEPT ![k] = "active"]
         \/ server[k] = "active" /\ server' = [server EXCEPT ![k] = "revoked"]
  BY DEF Elsewhere
<1>2. ServerMoves /\ own' \in [Token -> TokenState] /\ \A j \in Token \ {k} : own'[j] = own[j] /\ server'[j] = server[j]
  BY <1>1 DEF PanelInv, PanelTyped, ServerMoves, TokenState
<1>3. own'[k] = "absent"
  BY <1>1 DEF PanelInv, PanelTyped
<1>4. PanelTyped'
  BY <1>1, <1>2 DEF PanelInv, PanelTyped, ServerMoves
<1>5. OldTokens'
  <2>1. Known(stored)' /\ Known(currentBearerToken)'
    BY <1>1, <1>2, KnownStays DEF PanelInv, PanelTyped, OldTokens, Known
  <2>2. ASSUME NEW p \in Operation
        PROVE  Known(op[p].by)' /\ Known(op[p].field)' /\ (p \in {"save", "create"} => Known(op[p].token)')
    <3>1. op[p].token \in Field /\ op[p].by \in Field /\ op[p].field \in Field
      BY DEF PanelInv, PanelTyped, OpRecord
    <3>2. Known(op[p].by) /\ Known(op[p].field) /\ (p \in {"save", "create"} => Known(op[p].token))
      BY DEF PanelInv, OldTokens
    <3> QED BY <1>1, <1>2, <3>1, <3>2, KnownStays DEF Known
  <2> QED BY <2>1, <2>2, PanelFacts DEF OldTokens
<1>6. FirstOnly'
  <2>1. op["create"].by \in Field
    BY PanelFacts DEF PanelInv, PanelTyped, OpRecord
  <2> QED BY <1>1, <1>2, <2>1 DEF PanelInv, FirstOnly, ServerMoves, Field
<1>7. LoadsEndOperations' /\ ClearedIsQuiet'
  BY <1>1 DEF PanelInv, LoadsEndOperations, ClearedIsQuiet
<1>8. OwnIsServed'
  BY <1>2, <1>3 DEF PanelInv, OwnIsServed
<1>9. ListIsTrue'
  <2>1. \A j \in Token : own'[j] # "absent" => (Landing(j)' <=> Landing(j))
    BY <1>1, <1>2, <1>3 DEF Landing
  <2>2. ASSUME NEW l, Shows(l)
        PROVE  \A j \in Token : own'[j] # "absent" => l[j] = own'[j] \/ Landing(j)'
    BY <1>2, <1>3, <2>1, <2>2 DEF Shows
  <2>3. /\ Shows(apiTokens) => Shows(apiTokens)'
        /\ \A p \in Loader : Shows(load[p].seen) => Shows(load[p].seen)'
    BY <1>1, <2>2 DEF Shows
  <2> QED BY <1>1, <2>3 DEF PanelInv, ListIsTrue
<1>10. AutoOnlyFirst' /\ FieldIsKept'
  BY <1>1 DEF PanelInv, AutoOnlyFirst, FieldIsKept, InFlight
<1> QED BY <1>4, <1>5, <1>6, <1>7, <1>8, <1>9, <1>10 DEF PanelInv

LEMMA ReadKeeps ==
  ASSUME PanelInv, NEW p \in Loader, ReadList(p)
  PROVE  PanelInv'
<1>1. load[p] \in LoadRecord /\ load[p].at = "asked" /\ server \in [Token -> TokenState]
  BY DEF PanelInv, PanelTyped, ReadList
<1>2. PICK read : read = [load[p] EXCEPT !.at = "read", !.by = NoToken, !.seen = server]
  OBVIOUS
<1>3. PICK denied : denied = [load[p] EXCEPT !.at = "denied", !.by = NoToken]
  OBVIOUS
<1>4. /\ read \in LoadRecord /\ denied \in LoadRecord
      /\ read.seen = server /\ read.at = "read" /\ denied.at = "denied"
  <2>1. read = [at |-> "read", by |-> NoToken, seen |-> server, clean |-> load[p].clean]
    BY <1>1, <1>2 DEF LoadRecord
  <2>2. denied = [at |-> "denied", by |-> NoToken, seen |-> load[p].seen, clean |-> load[p].clean]
    BY <1>1, <1>3 DEF LoadRecord
  <2> QED BY <1>1, <2>1, <2>2, PanelFacts DEF LoadRecord
<1>5. /\ load' = [load EXCEPT ![p] = read] \/ load' = [load EXCEPT ![p] = denied]
      /\ UNCHANGED <<server, stored, currentBearerToken, apiTokens, tokenAccessDenied, op, overtyped, listed, own,
                     cleared>>
  BY <1>2, <1>3 DEF ReadList
<1>6. /\ load' \in [Loader -> LoadRecord] /\ load'[p] \in {read, denied}
      /\ \A r \in Loader \ {p} : load'[r] = load[r]
  BY <1>4, <1>5 DEF PanelInv, PanelTyped
<1>7. PanelTyped'
  BY <1>5, <1>6 DEF PanelInv, PanelTyped
<1>8. OldTokens' /\ FirstOnly' /\ OwnIsServed' /\ AutoOnlyFirst' /\ FieldIsKept'
  BY <1>5 DEF PanelInv, OldTokens, FirstOnly, OwnIsServed, AutoOnlyFirst, FieldIsKept, InFlight, Known
<1>9. LoadsEndOperations'
  <2>1. load'[p].at # "none" /\ load[p].at # "none"
    BY <1>1, <1>4, <1>6
  <2>2. ASSUME NEW r \in Loader, load'[r].at = "none" PROVE load'[r] = NoLoad
    BY <1>6, <2>1, <2>2 DEF PanelInv, LoadsEndOperations
  <2>3. ASSUME NEW r \in Operation, load'[r].at # "none" PROVE op'[r].at = "listing"
    <3>1. r \in Loader
      BY PanelFacts
    <3> QED BY <1>5, <1>6, <2>1, <2>3, <3>1 DEF PanelInv, LoadsEndOperations
  <2> QED BY <2>2, <2>3 DEF LoadsEndOperations
<1>10. ClearedIsQuiet'
  BY <1>1, <1>5 DEF PanelInv, ClearedIsQuiet
<1>11. ListIsTrue'
  <2>1. \A k \in Token : Landing(k)' <=> Landing(k)
    BY <1>5 DEF Landing
  <2>2. load'[p].at # "none"
    BY <1>4, <1>6
  <2>3. ASSUME NEW r \in Loader, load'[r].at = "read", load'[r].clean
        PROVE  Shows(load[r].seen)'
    <3>1. CASE r = p
      <4>1. load'[r].seen = server
        BY <1>4, <1>6, <2>3, <3>1
      <4> QED BY <1>5, <2>1, <4>1 DEF PanelInv, OwnIsServed, Shows
    <3>2. CASE r # p
      <4>1. load'[r] = load[r]
        BY <1>6, <3>2
      <4> QED BY <1>5, <2>1, <2>3, <4>1 DEF PanelInv, ListIsTrue, Shows
    <3> QED BY <3>1, <3>2
  <2> QED BY <2>1, <2>2, <2>3 DEF ListIsTrue
<1> QED BY <1>7, <1>8, <1>9, <1>10, <1>11 DEF PanelInv

LEMMA ArriveKeeps ==
  ASSUME PanelInv, NEW p \in Loader, TokensArrive(p)
  PROVE  PanelInv'
<1>1. /\ load[p] # NoLoad /\ load' = [load EXCEPT ![p] = NoLoad]
      /\ tokenAccessDenied' = (load[p].at = "denied")
      /\ apiTokens' = IF load[p].at = "asked" THEN apiTokens ELSE load[p].seen
      /\ listed' = (load[p].at = "read" /\ load[p].clean)
      /\ op' = IF p \in Operation THEN [op EXCEPT ![p] = NoOp] ELSE op
      /\ UNCHANGED <<server, stored, currentBearerToken, overtyped, own, cleared>>
  BY DEF TokensArrive
<1>2. /\ load[p] \in LoadRecord /\ load[p].at # "none"
      /\ load' \in [Loader -> LoadRecord] /\ load'[p] = NoLoad
      /\ \A r \in Loader \ {p} : load'[r] = load[r]
  BY <1>1, PanelFacts DEF PanelInv, PanelTyped, LoadsEndOperations
<1>3. /\ op' \in [Operation -> OpRecord]
      /\ \A r \in Operation : op'[r] = IF r = p THEN NoOp ELSE op[r]
  BY <1>1, PanelFacts DEF PanelInv, PanelTyped
<1>4. p \in Operation => op[p].at = "listing"
  BY <1>2 DEF PanelInv, LoadsEndOperations
<1>5. PanelTyped'
  BY <1>1, <1>2, <1>3, PanelFacts DEF PanelInv, PanelTyped, LoadRecord
<1>6. OldTokens'
  BY <1>1, <1>3, PanelFacts DEF PanelInv, OldTokens, Known
<1>7. FirstOnly' /\ AutoOnlyFirst'
  BY <1>1, <1>3, PanelFacts DEF PanelInv, FirstOnly, AutoOnlyFirst
<1>8. FieldIsKept'
  BY <1>1, <1>3, PanelFacts DEF PanelInv, FieldIsKept, InFlight
<1>9. LoadsEndOperations'
  BY <1>2, <1>3, PanelFacts DEF PanelInv, LoadsEndOperations
<1>10. ClearedIsQuiet'
  BY <1>1, <1>2 DEF PanelInv, ClearedIsQuiet
<1>11. OwnIsServed'
  BY <1>1 DEF PanelInv, OwnIsServed
<1>12. ListIsTrue'
  <2>1. \A k \in Token : Landing(k)' <=> Landing(k)
    BY <1>1, <1>3, <1>4, PanelFacts DEF Landing
  <2>2. listed' => load[p].at = "read" /\ load[p].clean /\ apiTokens' = load[p].seen
    BY <1>1
  <2>3. listed' => Shows(apiTokens)'
    BY <1>1, <2>1, <2>2 DEF PanelInv, ListIsTrue, Shows
  <2>4. ASSUME NEW r \in Loader, load'[r].at = "read", load'[r].clean
        PROVE  Shows(load[r].seen)'
    <3>1. load'[r] = load[r]
      BY <1>2, <2>4, PanelFacts
    <3> QED BY <1>1, <2>1, <2>4, <3>1 DEF PanelInv, ListIsTrue, Shows
  <2> QED BY <2>1, <2>3, <2>4 DEF ListIsTrue
<1> QED BY <1>5, <1>6, <1>7, <1>8, <1>9, <1>10, <1>11, <1>12 DEF PanelInv

\* loadTokens leaves one load that may end clean, which has not read yet.
LEMMA LoadTokensFacts ==
  ASSUME load \in [Loader -> LoadRecord], LoadsEndOperations, NEW p \in Loader, NEW k \in Field, LoadTokens(p, k)
  PROVE  /\ load' \in [Loader -> LoadRecord] /\ load'[p].at = "asked"
         /\ \A q \in Loader : load'[q].at = "read" => ~load'[q].clean
         /\ \A q \in Loader \ {p} : load'[q].at = load[q].at /\ (load'[q].at = "none" => load'[q] = NoLoad)
<1> DEFINE alone == Loading \ {p} = {}
<1>2. PICK mine : mine = [NoLoad EXCEPT !.at = "asked", !.by = k, !.clean = alone]
  OBVIOUS
<1>3. mine.at = "asked" /\ mine \in LoadRecord
  <2>1. mine = [at |-> "asked", by |-> k, seen |-> NoTokens, clean |-> alone]
    BY <1>2 DEF NoLoad
  <2>2. alone \in BOOLEAN
    OBVIOUS
  <2> HIDE DEF alone
  <2> QED BY <2>1, <2>2, PanelFacts DEF LoadRecord
<1>4. load' = [q \in Loader |-> IF q = p THEN mine ELSE [load[q] EXCEPT !.clean = FALSE]]
  BY <1>2 DEF LoadTokens
<1>5. ASSUME NEW q \in Loader \ {p}
      PROVE  /\ load'[q] \in LoadRecord /\ load'[q].at = load[q].at /\ load'[q].clean = FALSE
             /\ load'[q].at = "none" => load'[q] = NoLoad
  <2>1. PICK w : w = [load[q] EXCEPT !.clean = FALSE]
    OBVIOUS
  <2>2. load'[q] = w
    BY <1>4, <2>1
  <2>3. w = [at |-> load[q].at, by |-> load[q].by, seen |-> load[q].seen, clean |-> FALSE]
    BY <2>1 DEF LoadRecord
  <2>4. w \in LoadRecord /\ w.at = load[q].at /\ w.clean = FALSE
    BY <2>3 DEF LoadRecord
  <2>5. load[q] = NoLoad => w = NoLoad
    BY <2>3 DEF NoLoad
  <2> QED BY <2>2, <2>4, <2>5 DEF LoadsEndOperations
<1>6. load'[p] = mine
  BY <1>4
<1> QED BY <1>3, <1>4, <1>5, <1>6

LEMMA ReloadKeeps == ASSUME PanelInv, ReloadTokens PROVE PanelInv'
<1>1. /\ ~tokenAccessDenied /\ load["reload"] = NoLoad /\ LoadTokens("reload", stored)
      /\ UNCHANGED <<server, stored, currentBearerToken, apiTokens, tokenAccessDenied, op, overtyped, listed, own,
                     cleared>>
  BY DEF ReloadTokens
<1>2. /\ load' \in [Loader -> LoadRecord] /\ load'["reload"].at = "asked"
      /\ \A q \in Loader : load'[q].at = "read" => ~load'[q].clean
      /\ \A q \in Loader \ {"reload"} : load'[q].at = load[q].at /\ (load'[q].at = "none" => load'[q] = NoLoad)
  BY <1>1, LoadTokensFacts, PanelFacts DEF PanelInv, PanelTyped
<1>3. PanelTyped'
  BY <1>1, <1>2 DEF PanelInv, PanelTyped
<1>4. OldTokens' /\ FirstOnly' /\ OwnIsServed' /\ AutoOnlyFirst' /\ FieldIsKept'
  BY <1>1 DEF PanelInv, OldTokens, FirstOnly, OwnIsServed, AutoOnlyFirst, FieldIsKept, InFlight, Known
<1>5. LoadsEndOperations'
  BY <1>1, <1>2, PanelFacts DEF PanelInv, LoadsEndOperations
<1>6. ClearedIsQuiet'
  BY <1>1 DEF PanelInv, ClearedIsQuiet
<1>7. ListIsTrue'
  BY <1>2, PanelFacts DEF ListIsTrue
<1> QED BY <1>3, <1>4, <1>5, <1>6, <1>7 DEF PanelInv

LEMMA FieldKeeps ==
  ASSUME PanelInv, NEW k \in {NoToken} \cup {j \in Token : server[j] # "absent"}, TypeIn(k) \/ Clear
  PROVE  PanelInv'
<1>1. /\ UNCHANGED <<server, op, load, listed, own>>
      /\ stored' \in {stored, NoToken} /\ currentBearerToken' \in {k, NoToken}
      /\ overtyped' = InFlight("create")
      /\ \/ UNCHANGED <<apiTokens, tokenAccessDenied, cleared>>
         \/ /\ apiTokens' = NoTokens /\ tokenAccessDenied' = TRUE
            /\ cleared' = (Loading = {} /\ \A p \in Operation : ~InFlight(p))
  BY DEF TypeIn, Clear
<1>2. PanelTyped'
  BY <1>1, PanelFacts DEF PanelInv, PanelTyped, Field
<1>3. OldTokens'
  BY <1>1 DEF PanelInv, OldTokens, Known
<1>4. FirstOnly' /\ AutoOnlyFirst' /\ LoadsEndOperations' /\ OwnIsServed'
  BY <1>1 DEF PanelInv, FirstOnly, AutoOnlyFirst, LoadsEndOperations, OwnIsServed
<1>5. FieldIsKept'
  BY <1>1 DEF FieldIsKept, InFlight
<1>6. ClearedIsQuiet'
  <2>1. CASE UNCHANGED <<apiTokens, tokenAccessDenied, cleared>>
    BY <1>1, <2>1 DEF PanelInv, ClearedIsQuiet
  <2>2. CASE /\ apiTokens' = NoTokens /\ tokenAccessDenied' = TRUE
             /\ cleared' = (Loading = {} /\ \A p \in Operation : ~InFlight(p))
    <3>1. cleared' => Loading = {} /\ \A p \in Operation : ~InFlight(p)
      BY <2>2
    <3>2. cleared' => /\ \A p \in Loader : load[p].at = "none"
                      /\ \A p \in Operation : op[p].at \notin {"asked", "served"}
      BY <3>1 DEF Loading, InFlight
    <3> QED BY <1>1, <2>2, <3>2 DEF ClearedIsQuiet
  <2> QED BY <1>1, <2>1, <2>2
<1>7. ListIsTrue'
  <2>1. \A j \in Token : Landing(j)' <=> Landing(j)
    BY <1>1 DEF Landing
  <2>2. \A p \in Loader : Shows(load[p].seen)' <=> Shows(load[p].seen)
    BY <1>1, <2>1 DEF Shows
  <2>3. ~tokenAccessDenied' => apiTokens' = apiTokens /\ ~tokenAccessDenied
    BY <1>1
  <2> QED BY <1>1, <2>1, <2>2, <2>3 DEF PanelInv, ListIsTrue, Shows
<1> QED BY <1>2, <1>3, <1>4, <1>5, <1>6, <1>7 DEF PanelInv

\* An operation that begins; only a save begins while the list is hidden.
LEMMA BeginKeeps ==
  ASSUME PanelInv, NEW p \in Operation, NEW q \in OpRecord,
         op[p].at = "none", op' = [op EXCEPT ![p] = q],
         UNCHANGED <<server, stored, currentBearerToken, apiTokens, tokenAccessDenied, load, overtyped, listed, own,
                     cleared>>,
         q.at = "asked", q.by = stored, p \in {"save", "create"} => Known(q.token), Known(q.field),
         p # "save" => ~tokenAccessDenied, q.auto => p = "create",
         p \in {"revoke", "delete"} => q.token \in Token,
         p = "create" => q.field = currentBearerToken /\ (q.auto /\ ~q.unlisted => Active = {})
  PROVE  PanelInv'
<1>1. op' \in [Operation -> OpRecord] /\ op'[p] = q /\ \A r \in Operation \ {p} : op'[r] = op[r]
  BY DEF PanelInv, PanelTyped
<1>2. PanelTyped'
  BY <1>1 DEF PanelInv, PanelTyped
<1>3. OldTokens'
  BY <1>1 DEF PanelInv, OldTokens, Known
<1>4. FirstOnly'
  <2>1. CASE p = "create"
    <3>1. Active = {} => stored = NoToken \/ server[stored] \in {"revoked", "gone"}
      BY DEF PanelInv, PanelTyped, OldTokens, Known, Active, TokenState, Field
    <3> QED BY <1>1, <2>1, <3>1 DEF FirstOnly
  <2>2. CASE p # "create"
    BY <1>1, <2>2, PanelFacts DEF PanelInv, FirstOnly
  <2> QED BY <2>1, <2>2
<1>5. LoadsEndOperations'
  BY <1>1, PanelFacts DEF PanelInv, LoadsEndOperations
<1>6. ClearedIsQuiet'
  BY <1>1 DEF PanelInv, ClearedIsQuiet
<1>7. OwnIsServed'
  BY DEF PanelInv, OwnIsServed
<1>8. ListIsTrue'
  <2>1. \A k \in Token : Landing(k) => Landing(k)'
    BY <1>1 DEF Landing
  <2> QED BY <2>1 DEF PanelInv, ListIsTrue, Shows
<1>9. AutoOnlyFirst'
  BY <1>1, PanelFacts DEF PanelInv, AutoOnlyFirst
<1>10. FieldIsKept'
  BY <1>1, PanelFacts DEF PanelInv, FieldIsKept, InFlight
<1> QED BY <1>2, <1>3, <1>4, <1>5, <1>6, <1>7, <1>8, <1>9, <1>10 DEF PanelInv

\* An operation that the backend carries out: the list will be loaded for it.
LEMMA ServeKeeps ==
  ASSUME PanelInv, NEW p \in Operation, NEW q \in OpRecord,
         op[p].at = "asked", op' = [op EXCEPT ![p] = q],
         UNCHANGED <<stored, currentBearerToken, apiTokens, tokenAccessDenied, load, overtyped, listed, cleared>>,
         q.at = "served", q.by = NoToken, q.field = op[p].field, q.auto = op[p].auto,
         p \in {"save", "create"} => Known(q.token)',
         p = "create" /\ q.auto => q.alone \/ q.unlisted,
         ServerMoves, own' \in [Token -> TokenState], OwnIsServed',
         \A j \in Token : own'[j] = own[j] \/ (j = q.token /\ own'[j] = Given(p))
  PROVE  PanelInv'
<1>1. op' \in [Operation -> OpRecord] /\ op'[p] = q /\ \A r \in Operation \ {p} : op'[r] = op[r]
  BY DEF PanelInv, PanelTyped
<1>2. PanelTyped'
  BY <1>1 DEF PanelInv, PanelTyped, ServerMoves
<1>3. OldTokens'
  <2>1. Known(stored)' /\ Known(currentBearerToken)'
    BY KnownStays DEF PanelInv, PanelTyped, OldTokens, Known
  <2>2. ASSUME NEW r \in Operation
        PROVE  /\ r \in {"save", "create"} => op[r].token = NoToken \/ server'[op[r].token] # "absent"
               /\ op[r].by = NoToken \/ server'[op[r].by] # "absent"
               /\ op[r].field = NoToken \/ server'[op[r].field] # "absent"
    <3>1. op[r].token \in Field /\ op[r].by \in Field /\ op[r].field \in Field
      BY DEF PanelInv, PanelTyped, OpRecord
    <3>2. Known(op[r].by) /\ Known(op[r].field) /\ (r \in {"save", "create"} => Known(op[r].token))
      BY DEF PanelInv, OldTokens
    <3> QED BY <3>1, <3>2, KnownStays
  <2>3. ASSUME NEW r \in Operation
        PROVE  Known(op[r].by)' /\ Known(op[r].field)' /\ (r \in {"save", "create"} => Known(op[r].token)')
    <3>1. CASE r = p
      BY <1>1, <2>2, <3>1 DEF Known
    <3>2. CASE r # p
      BY <1>1, <2>2, <3>2 DEF Known
    <3> QED BY <3>1, <3>2
  <2> QED BY <2>1, <2>3, PanelFacts DEF OldTokens
<1>4. FirstOnly'
  <2>1. CASE p = "create"
    BY <1>1, <2>1 DEF FirstOnly
  <2>2. CASE p # "create"
    <3>1. op'["create"] = op["create"] /\ op["create"].by \in Field
      BY <1>1, <2>2, PanelFacts DEF PanelInv, PanelTyped, OpRecord
    <3> QED BY <3>1 DEF PanelInv, FirstOnly, ServerMoves, Field
  <2> QED BY <2>1, <2>2
<1>5. LoadsEndOperations'
  BY <1>1, PanelFacts DEF PanelInv, LoadsEndOperations
<1>6. ClearedIsQuiet'
  BY <1>1 DEF PanelInv, ClearedIsQuiet
<1>7. ListIsTrue'
  <2>1. \A k \in Token : own'[k] = own[k] /\ Landing(k) => Landing(k)'
    BY <1>1 DEF Landing
  <2>2. \A k \in Token : own'[k] = own[k] \/ Landing(k)'
    BY <1>1 DEF Landing
  <2> QED BY <2>1, <2>2 DEF PanelInv, ListIsTrue, Shows
<1>8. AutoOnlyFirst'
  BY <1>1, PanelFacts DEF PanelInv, AutoOnlyFirst
<1>9. FieldIsKept'
  BY <1>1, PanelFacts DEF PanelInv, FieldIsKept, InFlight
<1> QED BY <1>2, <1>3, <1>4, <1>5, <1>6, <1>7, <1>8, <1>9 DEF PanelInv

LEMMA FailKeeps == ASSUME PanelInv, NEW p \in Operation, Fail(p) PROVE PanelInv'
<1>1. /\ op[p].at \in {"asked", "served"}
      /\ op' = [op EXCEPT ![p] = NoOp] /\ overtyped' = (overtyped /\ p # "create")
      /\ UNCHANGED <<server, stored, currentBearerToken, apiTokens, tokenAccessDenied, load, listed, cleared>>
      /\ own' = [k \in Token |-> IF op[p].at = "served" /\ k = op[p].token /\ own[k] = Given(p)
                                THEN "absent" ELSE own[k]]
  BY DEF Fail
<1>a. /\ own' \in [Token -> TokenState]
      /\ \A k \in Token : own'[k] # "absent" =>
           own'[k] = own[k] /\ ~(op[p].at = "served" /\ k = op[p].token /\ own[k] = Given(p))
  BY <1>1 DEF PanelInv, PanelTyped, TokenState
<1>2. op' \in [Operation -> OpRecord] /\ op'[p] = NoOp /\ \A r \in Operation \ {p} : op'[r] = op[r]
  BY <1>1, PanelFacts DEF PanelInv, PanelTyped
<1>3. PanelTyped'
  BY <1>1, <1>2, <1>a, PanelFacts DEF PanelInv, PanelTyped
<1>4. OldTokens'
  BY <1>1, <1>2, PanelFacts DEF PanelInv, OldTokens, Known
<1>5. FirstOnly' /\ AutoOnlyFirst'
  BY <1>1, <1>2, PanelFacts DEF PanelInv, FirstOnly, AutoOnlyFirst
<1>6. LoadsEndOperations'
  BY <1>1, <1>2, PanelFacts DEF PanelInv, LoadsEndOperations
<1>7. ClearedIsQuiet' /\ OwnIsServed'
  BY <1>1, <1>2, <1>a, PanelFacts DEF PanelInv, ClearedIsQuiet, OwnIsServed
<1>8. ListIsTrue'
  <2>1. \A k \in Token : own'[k] # "absent" /\ Landing(k) => Landing(k)'
    BY <1>1, <1>2, <1>a DEF Landing
  <2> QED BY <1>1, <1>a, <2>1 DEF PanelInv, ListIsTrue, Shows
<1>9. FieldIsKept'
  <2>1. CASE p = "create"
    BY <1>2, <2>1, PanelFacts DEF FieldIsKept, InFlight
  <2>2. CASE p # "create"
    <3>1. op'["create"] = op["create"] /\ (overtyped' <=> overtyped)
      BY <1>1, <1>2, <2>2, PanelFacts
    <3> QED BY <1>1, <3>1 DEF PanelInv, FieldIsKept, InFlight
  <2> QED BY <2>1, <2>2
<1> QED BY <1>3, <1>4, <1>5, <1>6, <1>7, <1>8, <1>9 DEF PanelInv

LEMMA LandKeeps == ASSUME PanelInv, NEW p \in Operation, Land(p) PROVE PanelInv'
<1>1. PICK q : q = [NoOp EXCEPT !.at = "listing"]
  OBVIOUS
<1>2. /\ q \in OpRecord /\ q.at = "listing" /\ q.auto = FALSE /\ q.token = NoToken /\ q.by = NoToken /\ q.field = NoToken
  <2>1. q = [at |-> "listing", token |-> NoToken, by |-> NoToken, auto |-> FALSE, field |-> NoToken,
             alone |-> FALSE, unlisted |-> FALSE]
    BY <1>1 DEF NoOp
  <2> QED BY <2>1, PanelFacts DEF OpRecord
<1>3. /\ op[p].at = "served" /\ op' = [op EXCEPT ![p] = q]
      /\ stored' \in {op[p].token, stored}
      /\ currentBearerToken' \in {op[p].token, op[p].field, currentBearerToken}
      /\ overtyped' = (IF p = "save" THEN InFlight("create") ELSE overtyped /\ p # "create")
      /\ tokenAccessDenied' = (tokenAccessDenied /\ p # "create")
      /\ cleared' = FALSE /\ LoadTokens(p, stored')
      /\ UNCHANGED <<server, apiTokens, listed, own>>
  BY <1>1 DEF Land
<1>4. op' \in [Operation -> OpRecord] /\ op'[p] = q /\ \A r \in Operation \ {p} : op'[r] = op[r]
  BY <1>2, <1>3 DEF PanelInv, PanelTyped
<1>5. op[p].token \in Field /\ op[p].field \in Field /\ stored' \in Field /\ currentBearerToken' \in Field
  BY <1>3 DEF PanelInv, PanelTyped, OpRecord
<1>6. /\ load' \in [Loader -> LoadRecord] /\ load'[p].at = "asked"
      /\ \A r \in Loader : load'[r].at = "read" => ~load'[r].clean
      /\ \A r \in Loader \ {p} : load'[r].at = load[r].at /\ (load'[r].at = "none" => load'[r] = NoLoad)
  <2>1. PICK k \in Field : k = stored'
    BY <1>5
  <2>2. LoadTokens(p, k)
    BY <1>3, <2>1
  <2> QED BY <2>2, LoadTokensFacts, PanelFacts DEF PanelInv, PanelTyped
<1>7. PanelTyped'
  BY <1>2, <1>3, <1>4, <1>5, <1>6 DEF PanelInv, PanelTyped
<1>8. OldTokens'
  <2>1. Known(stored) /\ Known(currentBearerToken) /\ Known(op[p].field)
    BY DEF PanelInv, OldTokens
  <2>2. p = "save" \/ op[p].auto => Known(op[p].token)
    BY DEF PanelInv, PanelTyped, OldTokens
  <2>3. /\ p = "save" \/ op[p].auto => stored' = op[p].token /\ currentBearerToken' = op[p].token
        /\ ~(p = "save" \/ op[p].auto) => stored' = stored /\ currentBearerToken' \in {op[p].field, currentBearerToken}
    BY DEF Land
  <2>4. Known(stored)' /\ Known(currentBearerToken)'
    BY <1>3, <2>1, <2>2, <2>3 DEF Known
  <2> QED BY <1>2, <1>3, <1>4, <2>4, PanelFacts DEF PanelInv, OldTokens, Known
<1>9. FirstOnly' /\ AutoOnlyFirst'
  BY <1>2, <1>3, <1>4, PanelFacts DEF PanelInv, FirstOnly, AutoOnlyFirst
<1>10. LoadsEndOperations'
  BY <1>2, <1>4, <1>6, PanelFacts DEF PanelInv, LoadsEndOperations
<1>11. ClearedIsQuiet' /\ OwnIsServed'
  BY <1>3 DEF PanelInv, ClearedIsQuiet, OwnIsServed
<1>12. ListIsTrue'
  BY <1>6, PanelFacts DEF ListIsTrue
<1>13. FieldIsKept'
  <2>1. CASE p = "create"
    BY <1>2, <1>4, <2>1 DEF FieldIsKept, InFlight
  <2>2. CASE p = "save"
    <3>1. op'["create"] = op["create"] /\ (overtyped' <=> InFlight("create"))
      BY <1>3, <1>4, <2>2, PanelFacts
    <3> QED BY <3>1 DEF FieldIsKept, InFlight
  <2>3. CASE p \notin {"create", "save"}
    <3>1. op'["create"] = op["create"] /\ (overtyped' <=> overtyped)
      BY <1>3, <1>4, <2>3, PanelFacts
    <3>2. currentBearerToken' = currentBearerToken
      BY <2>3 DEF Land, PanelInv, PanelTyped
    <3> QED BY <3>1, <3>2 DEF PanelInv, FieldIsKept, InFlight
  <2> QED BY <2>1, <2>2, <2>3
<1> QED BY <1>7, <1>8, <1>9, <1>10, <1>11, <1>12, <1>13 DEF PanelInv

\* A state given to a token by this panel.
LEMMA GiveMoves ==
  ASSUME PanelInv, NEW k \in Token, NEW state \in TokenState \ {"absent"}, Give(k, state),
         server[k] \in {"revoked", "gone"} => state \in {"revoked", "gone"}
  PROVE  /\ ServerMoves /\ own' \in [Token -> TokenState] /\ OwnIsServed'
         /\ server'[k] = state /\ own'[k] = state /\ \A j \in Token \ {k} : own'[j] = own[j]
<1>1. /\ server' \in [Token -> TokenState] /\ server'[k] = state /\ \A j \in Token \ {k} : server'[j] = server[j]
      /\ own' \in [Token -> TokenState] /\ own'[k] = state /\ \A j \in Token \ {k} : own'[j] = own[j]
  BY DEF PanelInv, PanelTyped, Give
<1>2. ServerMoves
  BY <1>1 DEF ServerMoves, TokenState
<1> QED BY <1>1, <1>2 DEF PanelInv, OwnIsServed

LEMMA ServeInv ==
  ASSUME PanelAssumption, PanelInv, NEW p \in Operation, Serve(p)
  PROVE  PanelInv'
<1> DEFINE w == op[p]
           k == op[p].token
<1>1. w \in OpRecord /\ w.at = "asked" /\ NoToken \notin Token /\ server \in [Token -> TokenState]
  BY DEF PanelInv, PanelTyped, Serve, PanelAssumption
<1>2. PICK q : q = [w EXCEPT !.at = "served", !.by = NoToken]
  OBVIOUS
<1>3. /\ q \in OpRecord /\ q.at = "served" /\ q.by = NoToken /\ q.token = k
      /\ q.field = w.field /\ q.auto = w.auto
  <2>0. w.token = k
    OBVIOUS
  <2>1. q = [at |-> "served", token |-> w.token, by |-> NoToken, auto |-> w.auto, field |-> w.field,
             alone |-> w.alone, unlisted |-> w.unlisted]
    BY <1>1, <1>2 DEF OpRecord
  <2> HIDE DEF w, k
  <2> QED BY <1>1, <2>0, <2>1, PanelFacts DEF OpRecord
<1>4. UNCHANGED <<stored, currentBearerToken, apiTokens, tokenAccessDenied, load, overtyped, listed, cleared>>
  BY DEF Serve
<1>5. p \in {"revoke", "delete"} => k \in Token
  BY <1>1 DEF PanelInv, PanelTyped
<1>6. CASE /\ p = "save" /\ k \in Active /\ UNCHANGED <<server, admin, own>>
           /\ op' = [op EXCEPT ![p] = [@ EXCEPT !.at = "served", !.by = NoToken]]
  <2>1. op' = [op EXCEPT ![p] = q]
    BY <1>2, <1>6
  <2>2. ServerMoves /\ own' \in [Token -> TokenState] /\ OwnIsServed'
    BY <1>6 DEF PanelInv, PanelTyped, ServerMoves, OwnIsServed
  <2>3. q.token = NoToken \/ server'[q.token] # "absent"
    BY <1>3, <1>6 DEF Active
  <2>4. p # "create"
    BY <1>6
  <2> HIDE DEF w, k
  <2> QED BY <1>1, <1>3, <1>4, <1>6, <2>1, <2>2, <2>3, <2>4, ServeKeeps DEF Known, w
<1>7. ASSUME p = "create", Admits(op[p].by), NEW new \in Token, server[new] = "absent", Give(new, "active"),
             op' = [op EXCEPT ![p] = [@ EXCEPT !.at = "served", !.by = NoToken, !.token = new,
                                              !.alone = (op[p].auto /\ Active = {})]]
      PROVE  PanelInv'
  <2>1. PICK a \in BOOLEAN : a = (op[p].auto /\ Active = {})
    OBVIOUS
  <2>2. PICK c : c = [w EXCEPT !.at = "served", !.by = NoToken, !.token = new, !.alone = a]
    OBVIOUS
  <2>3. op' = [op EXCEPT ![p] = c]
    BY <1>7, <2>1, <2>2
  <2>4. /\ c \in OpRecord /\ c.at = "served" /\ c.by = NoToken /\ c.token = new
        /\ c.field = w.field /\ c.auto = w.auto /\ c.alone = a /\ c.unlisted = w.unlisted
    <3>1. c = [at |-> "served", token |-> new, by |-> NoToken, auto |-> w.auto, field |-> w.field,
               alone |-> a, unlisted |-> w.unlisted]
      BY <1>1, <2>2 DEF OpRecord
    <3> HIDE DEF w
    <3> QED BY <1>1, <2>1, <3>1, PanelFacts DEF OpRecord
  <2>5. /\ ServerMoves /\ own' \in [Token -> TokenState] /\ OwnIsServed' /\ server'[new] = "active"
        /\ \A j \in Token : own'[j] = own[j] \/ (j = new /\ own'[j] = Given(p))
    BY <1>7, GiveMoves DEF TokenState, Given
  <2>6. c.token = NoToken \/ server'[c.token] # "absent"
    BY <2>4, <2>5
  <2>7. c.auto => c.alone \/ c.unlisted
    <3> SUFFICES ASSUME w.auto, ~w.unlisted PROVE Active = {}
      BY <2>1, <2>4
    <3>1. w.by = NoToken \/ server[w.by] \in {"revoked", "gone"}
      BY <1>1, <1>7 DEF PanelInv, FirstOnly
    <3>2. w.by \notin Active
      BY <1>1, <3>1 DEF Active
    <3> QED BY <1>7, <3>2 DEF Admits
  <2> HIDE DEF w
  <2> QED BY <1>1, <1>4, <2>3, <2>4, <2>5, <2>6, <2>7, ServeKeeps DEF Known, w
<1>8. ASSUME p \in {"revoke", "delete"}, NEW state \in {"revoked", "gone"}, k \in Token, Give(k, state),
             state = Given(p), op' = [op EXCEPT ![p] = [@ EXCEPT !.at = "served", !.by = NoToken]]
      PROVE  PanelInv'
  <2>1. op' = [op EXCEPT ![p] = q]
    BY <1>2, <1>8
  <2>2. /\ ServerMoves /\ own' \in [Token -> TokenState] /\ OwnIsServed' /\ server'[k] = state
        /\ \A j \in Token : own'[j] = own[j] \/ (j = k /\ own'[j] = Given(p))
    BY <1>8, GiveMoves DEF TokenState
  <2>3. p \notin {"save", "create"}
    BY <1>8
  <2> HIDE DEF w, k
  <2> QED BY <1>1, <1>3, <1>4, <2>1, <2>2, <2>3, ServeKeeps DEF Known, w
<1>9. CASE /\ p \in {"revoke", "delete"}
           /\ p = "revoke" => server[k] \in {"active", "revoked"}
           /\ p = "delete" => server[k] = "revoked"
           /\ Give(k, IF p = "revoke" THEN "revoked" ELSE "gone")
           /\ op' = [op EXCEPT ![p] = [@ EXCEPT !.at = "served", !.by = NoToken]]
  <2>1. k \in Token
    BY <1>5, <1>9
  <2>2. PICK state : state = IF p = "revoke" THEN "revoked" ELSE "gone"
    OBVIOUS
  <2>3. state \in {"revoked", "gone"} /\ Give(k, state) /\ state = Given(p)
    BY <1>9, <2>2 DEF Given
  <2> QED BY <1>8, <1>9, <2>1, <2>3
<1> QED BY <1>6, <1>7, <1>9 DEF Serve

LEMMA PanelInvNext ==
  ASSUME PanelAssumption, PanelInv, [PanelNext]_panelVars PROVE PanelInv'
<1>1. Known(stored) /\ Known(currentBearerToken) /\ stored \in Field /\ currentBearerToken \in Field
  BY DEF PanelInv, OldTokens, PanelTyped
<1>2. ASSUME NEW p \in {"save", "revoke", "delete"}, NEW k \in Field, IF p = "save" THEN Known(k) ELSE k \in Token,
             p # "save" => ~tokenAccessDenied, Begin(p, [NoOp EXCEPT !.token = k])
      PROVE  PanelInv'
  <2>1. PICK q : q = [[NoOp EXCEPT !.token = k] EXCEPT !.at = "asked", !.by = stored]
    OBVIOUS
  <2>2. q = [at |-> "asked", token |-> k, by |-> stored, auto |-> FALSE, field |-> NoToken,
             alone |-> FALSE, unlisted |-> FALSE]
    BY <2>1 DEF NoOp
  <2>3. /\ q \in OpRecord /\ q.at = "asked" /\ q.by = stored /\ q.token = k /\ q.field = NoToken /\ q.auto = FALSE
    BY <1>1, <2>2, PanelFacts DEF OpRecord
  <2>4. /\ op[p].at = "none" /\ op' = [op EXCEPT ![p] = q]
        /\ UNCHANGED <<server, stored, currentBearerToken, apiTokens, tokenAccessDenied, load, overtyped, listed, own,
                       cleared>>
    BY <1>2, <2>1 DEF Begin
  <2>5. p \in Operation /\ p # "create" /\ (p = "save" => Known(q.token)) /\ Known(q.field)
    BY <1>2, <2>3 DEF Operation, Known
  <2> QED BY <1>2, <2>3, <2>4, <2>5, BeginKeeps
<1>3. CASE Create
  <2> DEFINE auto == ActiveShown = {} /\ currentBearerToken = NoToken
             stale == auto /\ (~listed \/ ActiveShown # Active)
  <2>1. PICK a \in BOOLEAN : a = auto
    OBVIOUS
  <2>2. PICK u \in BOOLEAN : u = stale
    OBVIOUS
  <2>3. PICK q : q = [[NoOp EXCEPT !.auto = a, !.field = currentBearerToken, !.unlisted = u]
                        EXCEPT !.at = "asked", !.by = stored]
    OBVIOUS
  <2>4. q = [at |-> "asked", token |-> NoToken, by |-> stored, auto |-> a, field |-> currentBearerToken,
             alone |-> FALSE, unlisted |-> u]
    BY <2>3 DEF NoOp
  <2>5. /\ q \in OpRecord /\ q.at = "asked" /\ q.by = stored /\ q.token = NoToken
        /\ q.field = currentBearerToken /\ q.auto = a /\ q.unlisted = u
    BY <1>1, <2>1, <2>2, <2>4, PanelFacts DEF OpRecord
  <2>6. /\ op["create"].at = "none" /\ op' = [op EXCEPT !["create"] = q] /\ ~tokenAccessDenied
        /\ UNCHANGED <<server, stored, currentBearerToken, apiTokens, tokenAccessDenied, load, overtyped, listed, own,
                       cleared>>
    BY <1>3, <2>1, <2>2, <2>3 DEF Create, Begin, Creation
  <2>7. q.auto /\ ~q.unlisted => Active = {}
    BY <2>1, <2>2, <2>5
  <2>8. Known(q.token) /\ Known(q.field)
    BY <1>1, <2>5 DEF Known
  <2> HIDE DEF auto, stale
  <2> QED BY <2>5, <2>6, <2>7, <2>8, BeginKeeps, PanelFacts
<1>4. CASE Save
  BY <1>1, <1>2, <1>4 DEF Save
<1>5. ASSUME NEW k \in Token, Revoke(k) \/ Delete(k) PROVE PanelInv'
  BY <1>2, <1>5, PanelFacts DEF Revoke, Delete
<1>6. CASE UNCHANGED panelVars
  BY <1>6 DEF panelVars, PanelInv, PanelTyped, OldTokens, FirstOnly, LoadsEndOperations, ClearedIsQuiet, OwnIsServed,
              ListIsTrue, AutoOnlyFirst, FieldIsKept, InFlight, Known, Shows, Landing
<1> QED BY <1>3, <1>4, <1>5, <1>6, ElsewhereKeeps, ReadKeeps, ArriveKeeps, ReloadKeeps, FieldKeeps, ServeInv,
           FailKeeps, LandKeeps DEF PanelNext

\* Only the first token configures the browser by itself, the field keeps its
\* text, a clear hides the tokens and the list shows what the panel was told it
\* did: for every set of tokens and every number of operations in flight (useAdminTokens).
THEOREM PanelAlwaysHolds == PanelSpec => []PanelHolds
<1>1. PanelInv /\ [PanelNext]_panelVars => PanelInv'
  BY PanelInvNext, PanelAssumption
<1> QED BY PanelInvInit, <1>1, PanelInvHolds, PTL DEF PanelSpec
-----------------------------------------------------------------------------
(* How dialogs hold the page. *)

LEMMA RemoveAtFacts ==
  ASSUME NEW S, NEW s \in Seq(S), NEW p \in 1 .. Len(s)
  PROVE  /\ RemoveAt(s, p) \in Seq(S) /\ Len(RemoveAt(s, p)) = Len(s) - 1
         /\ \A m \in 1 .. Len(s) - 1 : RemoveAt(s, p)[m] = s[IF m < p THEN m ELSE m + 1]
<1> DEFINE n == Len(s)
           lo == p + 1
           a == SubSeq(s, 1, p - 1)
           b == SubSeq(s, lo, n)
<1>1. n \in Nat /\ p \in Int /\ 1 <= p /\ p <= n /\ \A i \in 1 .. n : s[i] \in S
  OBVIOUS
<1>2. /\ a \in Seq(S) /\ Len(a) = p - 1
      /\ \A m \in 1 .. p - 1 : a[m] = s[m]
  BY <1>1, SubSeqProperties
<1>3. lo \in Int /\ lo <= n + 1 /\ n - lo + 1 = n - p /\ (\A i \in lo .. n : s[i] \in S)
      /\ \A m \in 1 .. n - p : lo + m - 1 = m + p
  BY <1>1
<1> HIDE DEF n, lo
<1>4. /\ b \in Seq(S) /\ Len(b) = (IF lo <= n THEN n - lo + 1 ELSE 0)
      /\ \A m \in 1 .. n - lo + 1 : b[m] = s[lo + m - 1]
  BY <1>1, <1>3, SubSeqProperties
<1> HIDE DEF a, b
<1>5. Len(b) = n - p /\ \A m \in 1 .. n - p : b[m] = s[m + p]
  <2>1. Len(b) = n - p
    BY <1>1, <1>3, <1>4
  <2>2. ASSUME NEW m \in 1 .. n - p PROVE b[m] = s[m + p]
    <3>1. m \in 1 .. n - lo + 1 /\ lo + m - 1 = m + p
      BY <1>3
    <3>2. b[m] = s[lo + m - 1]
      BY <1>4, <3>1
    <3> QED BY <3>1, <3>2
  <2> QED BY <2>1, <2>2
<1>6. RemoveAt(s, p) = a \o b
  BY DEF RemoveAt, a, b, lo, n
<1>7. /\ a \o b \in Seq(S) /\ Len(a \o b) = Len(a) + Len(b)
      /\ \A i \in 1 .. Len(a) + Len(b) : (a \o b)[i] = IF i <= Len(a) THEN a[i] ELSE b[i - Len(a)]
  BY <1>2, <1>4, ConcatProperties
<1> DEFINE r == a \o b
<1>8. r \in Seq(S) /\ Len(r) = n - 1
  BY <1>1, <1>2, <1>5, <1>7
<1>9. ASSUME NEW m \in 1 .. n - 1 PROVE r[m] = s[IF m < p THEN m ELSE m + 1]
  <2>1. r[m] = IF m <= p - 1 THEN a[m] ELSE b[m - (p - 1)]
    BY <1>1, <1>2, <1>5, <1>7
  <2>2. CASE m < p
    BY <1>1, <1>2, <2>1, <2>2
  <2>3. CASE ~(m < p)
    <3>1. m - (p - 1) \in 1 .. n - p /\ m - (p - 1) + p = m + 1
      BY <1>1, <2>3
    <3>2. b[m - (p - 1)] = s[m + 1]
      BY <1>5, <3>1
    <3> QED BY <1>1, <2>1, <2>3, <3>2
  <2> QED BY <2>2, <2>3
<1> HIDE DEF r
<1> QED BY <1>6, <1>8, <1>9 DEF r, n

Dialog == Shared \cup Own
Style == [overflow: {"visible", "hidden", "none"}, fixed: BOOLEAN]

LockTyped ==
  /\ open \in Seq(Dialog) /\ \A i, k \in DOMAIN open : open[i] = open[k] => i = k
  /\ style \in Style /\ found \in [Own -> Style] /\ original \in Style

\* What the first dialog found is a free page, what the others found a held one:
\* the shared snapshot is free exactly if the first dialog has a shared lock.
StyleIsHeld ==
  style = [overflow |-> IF open = << >> THEN "visible" ELSE "hidden", fixed |-> "settings" \in Opened]
SnapshotIsFirst ==
  original = IF Locks(Opened) = {} THEN NoStyle
             ELSE [overflow |-> IF open[1] \in Shared THEN "visible" ELSE "hidden", fixed |-> FALSE]
FoundIsFirst == \A d \in Own \cap Opened : found[d].overflow = IF d = open[1] THEN "visible" ELSE "hidden"

\* The place is in the snapshot while the page is fixed, and in the page otherwise.
PlaceIsKept ==
  /\ Locks(Opened) = {} => ~hadFixedLock
  /\ ~resynced => IF "settings" \in Opened THEN hadFixedLock /\ fixedScrollY = at ELSE ~hadFixedLock /\ scrollY = at

\* The inductive invariant.
LockInv == LockTyped /\ (~crossed => StyleIsHeld /\ SnapshotIsFirst /\ FoundIsFirst /\ PlaceIsKept)

LEMMA DialogFacts ==
  /\ \A d \in Shared : d \notin Own /\ d \in Dialog
  /\ \A d \in Own : d \notin Shared /\ d \in Dialog /\ d # "settings"
  /\ "settings" \in Shared
  BY DEF Shared, Own, Dialog

LEMMA LockInvHolds == LockInv => HeldWhileOpen
<1> SUFFICES ASSUME LockInv, ~crossed
             PROVE  IF open # << >> THEN style.overflow = "hidden" ELSE style = Free /\ (resynced \/ scrollY = at)
  BY DEF HeldWhileOpen
<1>1. CASE open # << >>
  BY <1>1 DEF LockInv, StyleIsHeld
<1>2. CASE open = << >>
  <2>1. Opened = {}
    BY <1>2 DEF Opened, ToSet
  <2>2. ("settings" \in Opened) = FALSE
    BY <2>1
  <2>3. style = Free
    BY <1>2, <2>2 DEF LockInv, StyleIsHeld, Free
  <2> QED BY <1>2, <2>2, <2>3 DEF LockInv, PlaceIsKept
<1> QED BY <1>1, <1>2

LEMMA LockInvInit == LockInit => LockInv
<1> SUFFICES ASSUME LockInit PROVE LockInv
  OBVIOUS
<1>1. open = << >> /\ open \in Seq(Dialog) /\ Opened = {}
  BY EmptySeq DEF LockInit, Opened, ToSet
<1>2. LockTyped
  BY <1>1 DEF LockInit, LockTyped, Free, NoStyle, Style
<1>3. ("settings" \in Opened) = FALSE /\ Locks(Opened) = {}
  BY <1>1 DEF Locks
<1>4. StyleIsHeld
  BY <1>1, <1>3 DEF LockInit, StyleIsHeld, Free
<1>5. SnapshotIsFirst /\ FoundIsFirst /\ PlaceIsKept
  BY <1>1, <1>3 DEF LockInit, SnapshotIsFirst, FoundIsFirst, PlaceIsKept
<1> QED BY <1>2, <1>4, <1>5 DEF LockInv

LEMMA OpenFacts ==
  ASSUME LockTyped, NEW d \in Dialog, d \notin Opened, open' = Append(open, d)
  PROVE  /\ open' \in Seq(Dialog) /\ \A i, k \in DOMAIN open' : open'[i] = open'[k] => i = k
         /\ Opened' = Opened \cup {d} /\ open' # << >>
         /\ open'[1] = IF open = << >> THEN d ELSE open[1]
         /\ open = << >> => Opened = {}
         /\ open # << >> => open[1] \in Opened /\ open[1] \in Dialog
<1>1. /\ open' \in Seq(Dialog) /\ open' # << >> /\ Len(open') = Len(open) + 1 /\ Len(open) \in Nat
      /\ \A i \in 1 .. Len(open) : open'[i] = open[i] /\ open[i] \in Dialog
      /\ open'[Len(open) + 1] = d
  BY AppendProperties DEF LockTyped
<1>2. DOMAIN open = 1 .. Len(open) /\ DOMAIN open' = 1 .. Len(open')
  BY <1>1 DEF LockTyped
<1>3. \A i \in 1 .. Len(open) : open[i] \in Opened
  BY <1>2 DEF Opened, ToSet
<1>4. \A e \in Opened : \E i \in 1 .. Len(open) : e = open[i]
  BY <1>2 DEF Opened, ToSet
<1>5. \A i, k \in DOMAIN open' : open'[i] = open'[k] => i = k
  BY <1>1, <1>2, <1>3 DEF LockTyped
<1>6. \A i \in 1 .. Len(open') : open'[i] \in Opened \cup {d}
  BY <1>1, <1>3
<1>7. \A e \in Opened \cup {d} : \E i \in 1 .. Len(open') : e = open'[i]
  BY <1>1, <1>4
<1>8. Opened' = Opened \cup {d}
  BY <1>2, <1>6, <1>7 DEF Opened, ToSet
<1>9. open = << >> <=> Len(open) = 0
  BY EmptySeq DEF LockTyped
<1> QED BY <1>1, <1>3, <1>4, <1>5, <1>8, <1>9

LEMMA CloseFacts ==
  ASSUME LockTyped, NEW d, NEW p \in DOMAIN open, open[p] = d, open' = RemoveAt(open, p)
  PROVE  /\ open' \in Seq(Dialog) /\ \A i, k \in DOMAIN open' : open'[i] = open'[k] => i = k
         /\ Opened' = Opened \ {d} /\ d \in Opened /\ d \in Dialog
         /\ open # << >> /\ open[1] \in Opened /\ open[1] \in Dialog
         /\ open' # << >> => open'[1] \in Opened' /\ (d # open[1] => open'[1] = open[1])
         /\ open' = << >> => d = open[1] /\ Opened' = {}
<1> DEFINE n == Len(open)
           old(m) == IF m < p THEN m ELSE m + 1
<1>1. n \in Nat /\ DOMAIN open = 1 .. n /\ p \in 1 .. n /\ \A i \in 1 .. n : open[i] \in Dialog
  BY DEF LockTyped
<1>2. /\ open' \in Seq(Dialog) /\ Len(open') = n - 1
      /\ \A m \in 1 .. n - 1 : open'[m] = open[old(m)]
  <2>1. open \in Seq(Dialog)
    BY DEF LockTyped
  <2> DEFINE r == RemoveAt(open, p)
  <2>2. /\ r \in Seq(Dialog) /\ Len(r) = n - 1
        /\ \A m \in 1 .. n - 1 : r[m] = open[old(m)]
    BY <1>1, <2>1, RemoveAtFacts
  <2>3. open' = r
    OBVIOUS
  <2> HIDE DEF r, n, old
  <2> QED BY <2>2, <2>3
<1>3. DOMAIN open' = 1 .. n - 1
  <2> DEFINE s == open'
  <2>1. s \in Seq(Dialog) /\ Len(s) = n - 1
    BY <1>2
  <2> HIDE DEF s, n
  <2>2. DOMAIN s = 1 .. n - 1
    BY <2>1
  <2> QED BY <2>2 DEF s
<1>4. \A m \in 1 .. n - 1 : old(m) \in 1 .. n /\ old(m) # p
  BY <1>1
<1>5. \A i \in 1 .. n : i # p => \E m \in 1 .. n - 1 : old(m) = i
  <2> SUFFICES ASSUME NEW i \in 1 .. n, i # p PROVE \E m \in 1 .. n - 1 : old(m) = i
    OBVIOUS
  <2>1. CASE i < p
    <3>1. i \in 1 .. n - 1 /\ old(i) = i
      BY <1>1, <2>1
    <3> QED BY <3>1
  <2>2. CASE ~(i < p)
    <3>1. i - 1 \in 1 .. n - 1 /\ old(i - 1) = i
      BY <1>1, <2>2
    <3> QED BY <3>1
  <2> QED BY <2>1, <2>2
<1>6. \A i, k \in 1 .. n - 1 : old(i) = old(k) => i = k
  BY <1>1
<1> HIDE DEF old, n
<1>7. \A i, k \in DOMAIN open' : open'[i] = open'[k] => i = k
  BY <1>1, <1>2, <1>3, <1>4, <1>6 DEF LockTyped
<1>8. Opened = {open[i] : i \in 1 .. n} /\ Opened' = {open'[m] : m \in 1 .. n - 1}
  BY <1>1, <1>3 DEF Opened, ToSet
<1>9. \A m \in 1 .. n - 1 : open'[m] \in Opened \ {d}
  BY <1>1, <1>2, <1>4, <1>8 DEF LockTyped
<1>10. \A e \in Opened \ {d} : \E m \in 1 .. n - 1 : e = open'[m]
  BY <1>1, <1>2, <1>5, <1>8
<1>11. Opened' = Opened \ {d}
  BY <1>8, <1>9, <1>10
<1>12. open # << >> /\ open[1] \in Opened /\ open[1] \in Dialog /\ d \in Opened /\ d \in Dialog
  <2>1. 1 \in 1 .. n /\ n # 0
    BY <1>1
  <2> QED BY <1>1, <1>8, <2>1 DEF n
<1>13. CASE open' = << >>
  <2>1. n = 1 /\ p = 1
    BY <1>1, <1>2, <1>13
  <2>2. Opened' = {}
    BY <1>8, <2>1
  <2> QED BY <1>2, <1>7, <1>11, <1>12, <1>13, <2>1, <2>2
<1>14. CASE open' # << >>
  <2>1. n - 1 # 0
    BY <1>2, <1>14, EmptySeq
  <2>2. 1 \in 1 .. n - 1 /\ (p # 1 => old(1) = 1)
    BY <1>1, <2>1 DEF old
  <2>3. open'[1] \in Opened' /\ (d # open[1] => open'[1] = open[1])
    BY <1>2, <1>8, <2>2
  <2> QED BY <1>2, <1>7, <1>11, <1>12, <1>14, <2>3
<1> QED BY <1>13, <1>14

\* What is first stays first, or it goes and leaves dialogs of its own kind.
LEMMA FirstFacts ==
  ASSUME LockTyped, NEW d, NEW p \in DOMAIN open, open[p] = d, open' = RemoveAt(open, p),
         ~ \E e \in {open[i] : i \in p + 1 .. Len(open)} : {d, e} \cap Own # {}
  PROVE  \/ open' = << >>
         \/ open' # << >> /\ d # open[1]
         \/ open' # << >> /\ d = open[1] /\ d \in Shared /\ Opened' \subseteq Shared
<1> SUFFICES ASSUME open' # << >>, d = open[1] PROVE d \in Shared /\ Opened' \subseteq Shared
  OBVIOUS
<1>1. p = 1 /\ Len(open) \in Nat /\ DOMAIN open = 1 .. Len(open)
  BY DEF LockTyped
<1>2. Opened' = Opened \ {d} /\ open'[1] \in Opened'
  BY CloseFacts
<1>3. ASSUME NEW e \in Opened' PROVE d \notin Own /\ e \notin Own /\ d \in Dialog /\ e \in Dialog
  <2>1. PICK i \in 1 .. Len(open) : e = open[i]
    BY <1>1, <1>2 DEF Opened, ToSet
  <2>2. i # 1
    BY <1>2, <2>1
  <2>3. i \in p + 1 .. Len(open)
    BY <1>1, <2>2
  <2>4. {d, e} \cap Own = {}
    BY <2>1, <2>3
  <2> QED BY <1>1, <2>1, <2>4 DEF LockTyped
<1> QED BY <1>2, <1>3 DEF Dialog

LEMMA SyncFacts ==
  ASSUME LockTyped, NEW locks, Sync(locks)
  PROVE  /\ style' \in Style /\ original' \in Style
         /\ locks = {} => /\ style' = (IF original = NoStyle THEN style ELSE original)
                          /\ scrollY' = (IF original # NoStyle /\ hadFixedLock THEN fixedScrollY ELSE scrollY)
                          /\ original' = NoStyle /\ ~hadFixedLock'
         /\ locks # {} => /\ style' = [overflow |-> "hidden", fixed |-> "settings" \in locks]
                          /\ original' = (IF original = NoStyle THEN style ELSE original)
         /\ locks # {} /\ ~style.fixed
              => IF "settings" \in locks THEN hadFixedLock' /\ fixedScrollY' = scrollY
                 ELSE scrollY' = scrollY /\ (~hadFixedLock => ~hadFixedLock')
<1>1. CASE locks = {}
  <2>1. /\ style' = (IF original = NoStyle THEN style ELSE original)
        /\ scrollY' = (IF original # NoStyle /\ hadFixedLock THEN fixedScrollY ELSE scrollY)
        /\ original' = NoStyle
    BY <1>1 DEF Sync
  <2>2. hadFixedLock' = FALSE
    BY <1>1 DEF Sync
  <2>3. style' \in Style
    BY <2>1 DEF LockTyped
  <2>4. original' \in Style
    BY <2>1 DEF NoStyle, Style
  <2> QED BY <1>1, <2>1, <2>2, <2>3, <2>4
<1>2. CASE locks # {}
  <2>1. /\ style' = [overflow |-> "hidden", fixed |-> "settings" \in locks]
        /\ original' = (IF original = NoStyle THEN style ELSE original)
    BY <1>2 DEF Sync
  <2>2. style' \in Style
    BY <2>1 DEF Style
  <2>3. original' \in Style
    BY <2>1 DEF LockTyped
  <2>4. ~style.fixed => PageY(style) = scrollY
    BY DEF PageY
  <2>5. ~style'.fixed => PageY(style') = scrollY
    BY DEF PageY
  <2>6. "settings" \in locks /\ ~style.fixed => hadFixedLock' /\ fixedScrollY' = scrollY
    BY <1>2, <2>4 DEF Sync
  <2>7. "settings" \notin locks => scrollY' = scrollY
    <3>1. SUFFICES ASSUME "settings" \notin locks PROVE ~style'.fixed
      BY <1>2, <2>5 DEF Sync
    <3>2. ("settings" \in locks) = FALSE
      BY <3>1
    <3> QED BY <2>1, <3>2
  <2>8. "settings" \notin locks /\ ~hadFixedLock => ~hadFixedLock'
    <3>1. hadFixedLock' = (hadFixedLock \/ "settings" \in locks)
      BY <1>2 DEF Sync
    <3> QED BY <3>1
  <2> QED BY <1>2, <2>1, <2>2, <2>3, <2>6, <2>7, <2>8
<1> QED BY <1>1, <1>2

\* A lock that comes or goes beside others leaves what they hold.
LEMMA ResyncKeeps ==
  ASSUME LockTyped, StyleIsHeld, SnapshotIsFirst, PlaceIsKept,
         NEW ds, ds \subseteq Opened, Locks(ds) # {}, Resync(Locks(ds)), at' = at
  PROVE  /\ style' = [overflow |-> "hidden", fixed |-> "settings" \in ds] /\ original' = original
         /\ ~resynced' => IF "settings" \in ds THEN hadFixedLock' /\ fixedScrollY' = at
                          ELSE ~hadFixedLock' /\ scrollY' = at
<1>1. Sync(Locks(ds)) /\ resynced' = (resynced \/ (style.fixed /\ Locks(ds) # {}))
  BY DEF Resync
<1>2. ("settings" \in Locks(ds)) = ("settings" \in ds)
  BY DialogFacts DEF Locks
<1>3. original # NoStyle
  <2>1. Locks(Opened) # {}
    BY DEF Locks
  <2> QED BY <2>1 DEF SnapshotIsFirst, NoStyle
<1>4. style' = [overflow |-> "hidden", fixed |-> "settings" \in ds] /\ original' = original
  BY <1>1, <1>2, <1>3, SyncFacts
<1>5. ASSUME ~resynced' PROVE IF "settings" \in ds THEN hadFixedLock' /\ fixedScrollY' = at ELSE ~hadFixedLock' /\ scrollY' = at
  <2>1. ~resynced /\ ~style.fixed
    BY <1>1, <1>5
  <2>2. "settings" \notin Opened
    BY <2>1 DEF StyleIsHeld
  <2>3. ~hadFixedLock /\ scrollY = at /\ "settings" \notin ds /\ "settings" \notin Locks(ds)
    BY <1>2, <2>1, <2>2 DEF PlaceIsKept
  <2>4. scrollY' = scrollY /\ ~hadFixedLock'
    BY <1>1, <2>1, <2>3, SyncFacts
  <2> QED BY <2>3, <2>4
<1> QED BY <1>4, <1>5

\* A dialog of the settings is opened.
LEMMA OpenSharedHolds == ASSUME LockInv, NEW d \in Shared, OpenDialog(d) PROVE LockInv'
<1>1. /\ LockTyped /\ d \notin Opened /\ open' = Append(open, d) /\ d \in Dialog /\ d \notin Own
      /\ Sync(Locks(Opened \cup {d})) /\ found' = found /\ crossed' = crossed
      /\ resynced' = (open # << >> /\ (resynced \/ style.fixed))
      /\ at' = (IF open = << >> THEN scrollY ELSE at)
  BY DialogFacts DEF OpenDialog, LockInv
<1>2. /\ open' \in Seq(Dialog) /\ \A i, k \in DOMAIN open' : open'[i] = open'[k] => i = k
      /\ Opened' = Opened \cup {d} /\ open' # << >>
      /\ open'[1] = IF open = << >> THEN d ELSE open[1]
      /\ open = << >> => Opened = {}
      /\ open # << >> => open[1] \in Opened /\ open[1] \in Dialog
  BY <1>1, OpenFacts
<1> DEFINE locks == Locks(Opened \cup {d})
<1>3. locks # {} /\ locks = Locks(Opened') /\ ("settings" \in locks) = ("settings" \in Opened')
  BY <1>1, <1>2, DialogFacts DEF Locks
<1> HIDE DEF locks
<1>4. /\ style' \in Style /\ original' \in Style
      /\ style' = [overflow |-> "hidden", fixed |-> "settings" \in locks]
      /\ original' = (IF original = NoStyle THEN style ELSE original)
      /\ ~style.fixed => IF "settings" \in locks THEN hadFixedLock' /\ fixedScrollY' = scrollY
                         ELSE scrollY' = scrollY /\ (~hadFixedLock => ~hadFixedLock')
  BY <1>1, <1>3, SyncFacts DEF locks
<1>5. LockTyped'
  BY <1>1, <1>2, <1>4 DEF LockTyped
<1>6. ASSUME ~crossed' PROVE StyleIsHeld' /\ SnapshotIsFirst' /\ FoundIsFirst' /\ PlaceIsKept'
  <2>1. StyleIsHeld /\ SnapshotIsFirst /\ FoundIsFirst /\ PlaceIsKept
    BY <1>1, <1>6 DEF LockInv
  <2>2. StyleIsHeld'
    BY <1>2, <1>3, <1>4 DEF StyleIsHeld
  <2>3. SnapshotIsFirst'
    <3>1. CASE Locks(Opened) = {}
      <4>1. "settings" \notin Opened
        BY <3>1, DialogFacts DEF Locks
      <4>2. ("settings" \in Opened) = FALSE
        BY <4>1
      <4>3. original' = [overflow |-> IF open = << >> THEN "visible" ELSE "hidden", fixed |-> FALSE]
        BY <1>4, <2>1, <3>1, <4>2 DEF SnapshotIsFirst, StyleIsHeld
      <4>4. open'[1] \in Shared <=> open = << >>
        BY <1>1, <1>2, <3>1 DEF Locks
      <4>5. original' = [overflow |-> IF open'[1] \in Shared THEN "visible" ELSE "hidden", fixed |-> FALSE]
        BY <4>3, <4>4
      <4> QED BY <1>3, <4>5 DEF SnapshotIsFirst
    <3>2. CASE Locks(Opened) # {}
      <4>1. open'[1] = open[1]
        BY <1>2, <3>2 DEF Locks
      <4>2. original # NoStyle
        BY <2>1, <3>2 DEF SnapshotIsFirst, NoStyle
      <4>3. original' = original
        BY <1>4, <4>2
      <4> QED BY <1>3, <2>1, <3>2, <4>1, <4>3 DEF SnapshotIsFirst
    <3> QED BY <3>1, <3>2
  <2>4. FoundIsFirst'
    BY <1>1, <1>2, <2>1 DEF FoundIsFirst
  <2>5. PlaceIsKept'
    <3> SUFFICES ASSUME ~resynced'
                 PROVE  IF "settings" \in Opened' THEN hadFixedLock' /\ fixedScrollY' = at'
                        ELSE ~hadFixedLock' /\ scrollY' = at'
      BY <1>3 DEF PlaceIsKept
    <3>1. open = << >> \/ (~resynced /\ ~style.fixed)
      BY <1>1
    <3>2. "settings" \notin Opened
      BY <1>2, <2>1, <3>1 DEF StyleIsHeld
    <3>3. ~style.fixed
      BY <2>1, <3>2 DEF StyleIsHeld
    <3>4. ~hadFixedLock /\ scrollY = at'
      BY <1>1, <1>2, <2>1, <3>1, <3>2 DEF PlaceIsKept, Locks
    <3> QED BY <1>3, <1>4, <3>3, <3>4
  <2> QED BY <2>2, <2>3, <2>4, <2>5
<1> QED BY <1>5, <1>6 DEF LockInv

\* A dialog of the PC list or of the logs is opened.
LEMMA OpenOwnHolds == ASSUME LockInv, NEW d \in Own, OpenDialog(d) PROVE LockInv'
<1>1. /\ LockTyped /\ d \notin Opened /\ open' = Append(open, d) /\ d \in Dialog /\ d \notin Shared
      /\ found' = [found EXCEPT ![d] = style] /\ style' = [style EXCEPT !.overflow = "hidden"]
      /\ resynced' = (open # << >> /\ resynced) /\ crossed' = crossed
      /\ scrollY' = scrollY /\ original' = original /\ fixedScrollY' = fixedScrollY /\ hadFixedLock' = hadFixedLock
      /\ at' = (IF open = << >> THEN scrollY ELSE at)
  BY DialogFacts DEF OpenDialog, LockInv, shared
<1>2. /\ open' \in Seq(Dialog) /\ \A i, k \in DOMAIN open' : open'[i] = open'[k] => i = k
      /\ Opened' = Opened \cup {d} /\ open' # << >>
      /\ open'[1] = IF open = << >> THEN d ELSE open[1]
      /\ open = << >> => Opened = {}
      /\ open # << >> => open[1] \in Opened /\ open[1] \in Dialog
  BY <1>1, OpenFacts
<1>3. Locks(Opened') = Locks(Opened) /\ ("settings" \in Opened') = ("settings" \in Opened)
  BY <1>1, <1>2, DialogFacts DEF Locks
<1>4. style' = [overflow |-> "hidden", fixed |-> style.fixed] /\ style' \in Style
  BY <1>1 DEF LockTyped, Style
<1>5. found' \in [Own -> Style] /\ found'[d] = style /\ \A e \in Own : e # d => found'[e] = found[e]
  BY <1>1 DEF LockTyped
<1>6. LockTyped'
  BY <1>1, <1>2, <1>4, <1>5 DEF LockTyped
<1>7. ASSUME ~crossed' PROVE StyleIsHeld' /\ SnapshotIsFirst' /\ FoundIsFirst' /\ PlaceIsKept'
  <2>1. StyleIsHeld /\ SnapshotIsFirst /\ FoundIsFirst /\ PlaceIsKept
    BY <1>1, <1>7 DEF LockInv
  <2>2. StyleIsHeld'
    <3>1. style.fixed = ("settings" \in Opened)
      BY <2>1 DEF StyleIsHeld
    <3> QED BY <1>2, <1>3, <1>4, <3>1 DEF StyleIsHeld
  <2>3. SnapshotIsFirst'
    <3>1. Locks(Opened) # {} => open'[1] = open[1]
      BY <1>2 DEF Locks
    <3> QED BY <1>1, <1>3, <2>1, <3>1 DEF SnapshotIsFirst
  <2>4. ASSUME NEW e \in Own \cap Opened'
        PROVE  found'[e].overflow = IF e = open'[1] THEN "visible" ELSE "hidden"
    <3>1. style.overflow = IF open = << >> THEN "visible" ELSE "hidden"
      BY <2>1 DEF StyleIsHeld
    <3>2. CASE e = d
      BY <1>1, <1>2, <1>5, <3>1, <3>2
    <3>3. CASE e # d
      BY <1>2, <1>5, <2>1, <3>3 DEF FoundIsFirst
    <3> QED BY <3>2, <3>3
  <2>5. FoundIsFirst'
    BY <2>4 DEF FoundIsFirst
  <2>6. PlaceIsKept'
    BY <1>1, <1>2, <1>3, <2>1 DEF PlaceIsKept, Locks
  <2> QED BY <2>2, <2>3, <2>5, <2>6
<1> QED BY <1>6, <1>7 DEF LockInv

\* A dialog is closed: one of the settings gives up its lock, another one puts back
\* the overflow it found.
LEMMA CloseHolds == ASSUME LockInv, NEW d \in Opened, CloseDialog(d) PROVE LockInv'
<1> DEFINE p == CHOOSE i \in DOMAIN open : open[i] = d
           above == {open[i] : i \in p + 1 .. Len(open)}
<1>1. /\ LockTyped /\ open' = RemoveAt(open, p) /\ at' = at
      /\ crossed' = (crossed \/ \E e \in above : {d, e} \cap Own # {})
  BY DEF CloseDialog, LockInv
<1>2. p \in DOMAIN open /\ open[p] = d
  BY DEF Opened, ToSet
<1>3. ~crossed' => ~crossed /\ ~ \E e \in above : {d, e} \cap Own # {}
  BY <1>1
<1> HIDE DEF p
<1>4. /\ open' \in Seq(Dialog) /\ \A i, k \in DOMAIN open' : open'[i] = open'[k] => i = k
      /\ Opened' = Opened \ {d} /\ d \in Dialog
      /\ open # << >> /\ open[1] \in Opened /\ open[1] \in Dialog
      /\ open' # << >> => open'[1] \in Opened' /\ (d # open[1] => open'[1] = open[1])
      /\ open' = << >> => d = open[1] /\ Opened' = {}
  BY <1>1, <1>2, CloseFacts
<1>5. ~crossed' => \/ open' = << >>
                   \/ open' # << >> /\ d # open[1]
                   \/ open' # << >> /\ d = open[1] /\ d \in Shared /\ Opened' \subseteq Shared
  BY <1>1, <1>2, <1>3, FirstFacts
<1> HIDE DEF above
<1>6. ~crossed' => StyleIsHeld /\ SnapshotIsFirst /\ FoundIsFirst /\ PlaceIsKept
  BY <1>3 DEF LockInv
<1>7. ~crossed' => \A e \in Own \cap Opened' : e = open'[1] <=> e = open[1]
  BY <1>4, <1>5, DialogFacts
<1>8. ~crossed' /\ open' # << >> => (open'[1] \in Shared <=> open[1] \in Shared)
  BY <1>4, <1>5
<1>9. CASE d \in Shared
  <2>1. Resync(Locks(Opened')) /\ found' = found
    BY <1>4, <1>9 DEF CloseDialog
  <2>2. /\ Sync(Locks(Opened')) /\ resynced' = (resynced \/ (style.fixed /\ Locks(Opened') # {}))
    BY <2>1 DEF Resync
  <2>3. /\ style' \in Style /\ original' \in Style
        /\ Locks(Opened') = {} => /\ style' = (IF original = NoStyle THEN style ELSE original)
                                  /\ scrollY' = (IF original # NoStyle /\ hadFixedLock THEN fixedScrollY ELSE scrollY)
                                  /\ original' = NoStyle /\ ~hadFixedLock'
    BY <1>1, <2>2, SyncFacts
  <2>4. LockTyped'
    BY <1>1, <1>4, <2>1, <2>3 DEF LockTyped
  <2>5. ASSUME ~crossed' PROVE FoundIsFirst'
    <3>1. \A e \in Own \cap Opened' : found[e].overflow = IF e = open'[1] THEN "visible" ELSE "hidden"
      BY <1>4, <1>6, <1>7, <2>5 DEF FoundIsFirst
    <3> QED BY <2>1, <3>1 DEF FoundIsFirst
  <2>6. ASSUME ~crossed', Locks(Opened') = {} PROVE StyleIsHeld' /\ SnapshotIsFirst' /\ PlaceIsKept'
    <3>1. original = [overflow |-> IF open[1] \in Shared THEN "visible" ELSE "hidden", fixed |-> FALSE]
      BY <1>6, <1>9, <2>6 DEF SnapshotIsFirst, Locks
    <3>2. original # NoStyle
      BY <3>1 DEF NoStyle
    <3>3. open[1] \in Shared <=> open' = << >>
      BY <1>4, <1>5, <1>8, <1>9, <2>6 DEF Locks
    <3>4. ("settings" \in Opened') = FALSE
      BY <2>6, DialogFacts DEF Locks
    <3>5. StyleIsHeld'
      BY <2>3, <2>6, <3>1, <3>2, <3>3, <3>4 DEF StyleIsHeld
    <3>6. SnapshotIsFirst'
      BY <2>3, <2>6 DEF SnapshotIsFirst
    <3>7. ~hadFixedLock' /\ (~resynced' => scrollY' = at')
      BY <1>1, <1>6, <2>2, <2>3, <2>6, <3>2 DEF PlaceIsKept
    <3> QED BY <3>4, <3>5, <3>6, <3>7 DEF PlaceIsKept
  <2>7. ASSUME ~crossed', Locks(Opened') # {} PROVE StyleIsHeld' /\ SnapshotIsFirst' /\ PlaceIsKept'
    <3>1. Opened' \subseteq Opened /\ Locks(Opened) # {}
      BY <1>4, <2>7 DEF Locks
    <3>2. /\ style' = [overflow |-> "hidden", fixed |-> "settings" \in Opened'] /\ original' = original
          /\ ~resynced' => IF "settings" \in Opened' THEN hadFixedLock' /\ fixedScrollY' = at
                           ELSE ~hadFixedLock' /\ scrollY' = at
      BY <1>1, <1>6, <2>1, <2>7, <3>1, ResyncKeeps
    <3>3. open' # << >>
      BY <1>4, <2>7 DEF Locks
    <3>4. StyleIsHeld'
      BY <3>2, <3>3 DEF StyleIsHeld
    <3>5. SnapshotIsFirst'
      BY <1>6, <1>8, <2>7, <3>1, <3>2, <3>3 DEF SnapshotIsFirst
    <3>6. PlaceIsKept'
      BY <1>1, <2>7, <3>2 DEF PlaceIsKept
    <3> QED BY <3>4, <3>5, <3>6
  <2> QED BY <2>4, <2>5, <2>6, <2>7 DEF LockInv
<1>10. CASE d \in Own
  <2>1. /\ style' = [style EXCEPT !.overflow = found[d].overflow] /\ found' = [found EXCEPT ![d] = NoStyle]
        /\ scrollY' = scrollY /\ original' = original /\ fixedScrollY' = fixedScrollY
        /\ hadFixedLock' = hadFixedLock /\ resynced' = resynced
    BY <1>10, DialogFacts DEF CloseDialog, shared
  <2>2. style' = [overflow |-> found[d].overflow, fixed |-> style.fixed]
    BY <2>1 DEF LockInv, LockTyped, Style
  <2>3. found[d] \in Style /\ style' \in Style
    BY <1>1, <1>10, <2>2 DEF LockTyped, Style
  <2>4. found' \in [Own -> Style] /\ \A e \in Own : e # d => found'[e] = found[e]
    BY <1>1, <2>1 DEF LockTyped, Style, NoStyle
  <2>5. LockTyped'
    BY <1>1, <1>4, <2>1, <2>3, <2>4 DEF LockTyped
  <2>6. Locks(Opened') = Locks(Opened) /\ ("settings" \in Opened') = ("settings" \in Opened)
    BY <1>4, <1>10, DialogFacts DEF Locks
  <2>7. ASSUME ~crossed' PROVE StyleIsHeld' /\ SnapshotIsFirst' /\ FoundIsFirst' /\ PlaceIsKept'
    <3>1. d = open[1] <=> open' = << >>
      BY <1>4, <1>5, <1>10, <2>7, DialogFacts
    <3>2. found[d].overflow = IF open' = << >> THEN "visible" ELSE "hidden"
      BY <1>6, <1>10, <2>7, <3>1 DEF FoundIsFirst
    <3>3. style.fixed = ("settings" \in Opened)
      BY <1>6, <2>7 DEF StyleIsHeld
    <3>4. StyleIsHeld'
      BY <2>2, <2>6, <3>2, <3>3 DEF StyleIsHeld
    <3>5. Locks(Opened') # {} => open' # << >>
      BY <1>4 DEF Locks
    <3>6. SnapshotIsFirst'
      BY <1>6, <1>8, <2>1, <2>6, <2>7, <3>5 DEF SnapshotIsFirst
    <3>7. \A e \in Own \cap Opened' : found'[e].overflow = IF e = open'[1] THEN "visible" ELSE "hidden"
      BY <1>4, <1>6, <1>7, <2>4, <2>7 DEF FoundIsFirst
    <3>8. FoundIsFirst'
      BY <3>7 DEF FoundIsFirst
    <3>9. PlaceIsKept'
      BY <1>1, <1>6, <2>1, <2>6, <2>7 DEF PlaceIsKept
    <3> QED BY <3>4, <3>6, <3>8, <3>9
  <2> QED BY <2>5, <2>7 DEF LockInv
<1> QED BY <1>4, <1>9, <1>10 DEF Dialog

LEMMA SwitchHolds == LockInv /\ SwitchTab => LockInv'
<1> SUFFICES ASSUME LockInv, SwitchTab PROVE LockInv'
  OBVIOUS
<1>1. /\ LockTyped /\ open' = open /\ Opened' = Opened /\ found' = found /\ at' = at /\ crossed' = crossed
      /\ Resync(Locks(Opened))
  BY DEF SwitchTab, LockInv, Opened
<1>2. Sync(Locks(Opened)) /\ resynced' = (resynced \/ (style.fixed /\ Locks(Opened) # {}))
  BY <1>1 DEF Resync
<1>3. /\ style' \in Style /\ original' \in Style
      /\ Locks(Opened) = {} => /\ style' = (IF original = NoStyle THEN style ELSE original)
                               /\ scrollY' = (IF original # NoStyle /\ hadFixedLock THEN fixedScrollY ELSE scrollY)
                               /\ original' = NoStyle /\ ~hadFixedLock'
  BY <1>1, <1>2, SyncFacts
<1>4. LockTyped'
  BY <1>1, <1>3 DEF LockTyped
<1>5. ASSUME ~crossed' PROVE StyleIsHeld' /\ SnapshotIsFirst' /\ FoundIsFirst' /\ PlaceIsKept'
  <2>1. StyleIsHeld /\ SnapshotIsFirst /\ FoundIsFirst /\ PlaceIsKept
    BY <1>1, <1>5 DEF LockInv
  <2>2. FoundIsFirst'
    BY <1>1, <2>1 DEF FoundIsFirst
  <2>3. CASE Locks(Opened) = {}
    <3>1. original = NoStyle /\ style' = style /\ scrollY' = scrollY /\ original' = NoStyle
      BY <1>3, <2>1, <2>3 DEF SnapshotIsFirst
    <3>2. "settings" \notin Opened
      BY <2>3, DialogFacts DEF Locks
    <3>3. PlaceIsKept'
      BY <1>1, <1>2, <1>3, <2>1, <2>3, <3>1, <3>2 DEF PlaceIsKept
    <3> QED BY <1>1, <2>1, <2>2, <2>3, <3>1, <3>3 DEF StyleIsHeld, SnapshotIsFirst
  <2>4. CASE Locks(Opened) # {}
    <3>1. /\ style' = [overflow |-> "hidden", fixed |-> "settings" \in Opened] /\ original' = original
          /\ ~resynced' => IF "settings" \in Opened THEN hadFixedLock' /\ fixedScrollY' = at
                           ELSE ~hadFixedLock' /\ scrollY' = at
      BY <1>1, <2>1, <2>4, ResyncKeeps
    <3>2. open # << >>
      BY <2>4 DEF Locks, Opened, ToSet
    <3>3. StyleIsHeld'
      BY <1>1, <3>1, <3>2 DEF StyleIsHeld
    <3>4. SnapshotIsFirst'
      BY <1>1, <2>1, <3>1 DEF SnapshotIsFirst
    <3>5. PlaceIsKept'
      BY <1>1, <2>4, <3>1 DEF PlaceIsKept
    <3> QED BY <2>2, <3>3, <3>4, <3>5
  <2> QED BY <2>3, <2>4
<1> QED BY <1>4, <1>5 DEF LockInv

\* A page that can be scrolled has no dialog open.
LEMMA ScrollHolds == ASSUME LockInv, NEW y, Scroll(y) PROVE LockInv'
<1>1. /\ open' = open /\ Opened' = Opened /\ style' = style /\ original' = original /\ fixedScrollY' = fixedScrollY
      /\ hadFixedLock' = hadFixedLock /\ found' = found /\ crossed' = crossed /\ resynced' = resynced
      /\ style = Free /\ scrollY' = y /\ at' = (IF open = << >> THEN y ELSE at)
  BY DEF Scroll, shared, Opened
<1>2. LockTyped'
  BY <1>1 DEF LockInv, LockTyped
<1>3. ASSUME ~crossed' PROVE StyleIsHeld' /\ SnapshotIsFirst' /\ FoundIsFirst' /\ PlaceIsKept'
  <2>1. StyleIsHeld /\ SnapshotIsFirst /\ FoundIsFirst /\ PlaceIsKept
    BY <1>1, <1>3 DEF LockInv
  <2>2. style.overflow = "visible"
    BY <1>1 DEF Free
  <2>3. style.overflow = IF open = << >> THEN "visible" ELSE "hidden"
    BY <2>1 DEF StyleIsHeld
  <2>4. open = << >> /\ Opened = {}
    BY <2>2, <2>3 DEF Opened, ToSet
  <2>5. PlaceIsKept'
    BY <1>1, <2>1, <2>4 DEF PlaceIsKept, Locks
  <2> QED BY <1>1, <2>1, <2>5 DEF StyleIsHeld, SnapshotIsFirst, FoundIsFirst
<1> QED BY <1>2, <1>3 DEF LockInv

LEMMA LockInvNext == LockInv /\ [LockNext]_lockVars => LockInv'
<1> SUFFICES ASSUME LockInv, [LockNext]_lockVars PROVE LockInv'
  OBVIOUS
<1>1. ASSUME NEW d \in Shared \cup Own, OpenDialog(d) PROVE LockInv'
  BY <1>1, OpenSharedHolds, OpenOwnHolds
<1>2. ASSUME NEW d \in Opened, CloseDialog(d) PROVE LockInv'
  BY <1>2, CloseHolds
<1>3. CASE SwitchTab
  BY <1>3, SwitchHolds
<1>4. ASSUME NEW y \in 0 .. Depth, Scroll(y) PROVE LockInv'
  BY <1>4, ScrollHolds
<1>5. CASE UNCHANGED lockVars
  BY <1>5 DEF lockVars, LockInv, LockTyped, StyleIsHeld, SnapshotIsFirst, FoundIsFirst, PlaceIsKept, Opened
<1> QED BY <1>1, <1>2, <1>3, <1>4, <1>5 DEF LockNext

\* However many dialogs are opened and closed, and in whatever order, but for a dialog
\* closed under one with another kind of lock: the page does not scroll while one is
\* open and is free when none is, where it was unless a lock, not the last, came or
\* went while the page was fixed (useBodyScrollLock, PcList, LogsPanel).
THEOREM PageAlwaysHeld == LockSpec => []HeldWhileOpen
<1> QED BY LockInvInit, LockInvNext, LockInvHolds, PTL DEF LockSpec

-----------------------------------------------------------------------------
(* Days and weeks. *)

FirstDay(w) == w * WeekLength
LastDay(w) == FirstDay(w) + WeekLength - 1

LEMMA Quotient ==
  ASSUME NEW n \in Nat \ {0}, NEW d \in Int
  PROVE  d \div n \in Int /\ n * (d \div n) <= d /\ d < n * (d \div n) + n
  OBVIOUS

LEMMA LessByMultiples ==
  ASSUME NEW n \in Nat \ {0}, NEW a \in Int, NEW b \in Int, n * a < n * b + n
  PROVE  a <= b
  BY SMTT(30)

LEMMA QuotientGrows ==
  ASSUME NEW n \in Nat \ {0}, NEW d \in Int, NEW e \in Int, d <= e
  PROVE  d \div n <= e \div n
<1>1. n * (d \div n) <= d /\ d \div n \in Int /\ e < n * (e \div n) + n /\ e \div n \in Int
  BY Quotient
<1>2. n * (d \div n) < n * (e \div n) + n
  BY <1>1, SMTT(30)
<1> QED BY <1>1, <1>2, LessByMultiples

LEMMA QuotientUnique ==
  ASSUME NEW n \in Nat \ {0}, NEW d \in Int, NEW w \in Int, n * w <= d, d < n * w + n
  PROVE  d \div n = w
<1> DEFINE q == d \div n
<1>1. n * q <= d /\ q \in Int /\ d < n * q + n
  BY Quotient
<1> HIDE DEF q
<1>2. n * w < n * q + n /\ n * q < n * w + n
  BY <1>1, SMTT(30)
<1>3. w <= q /\ q <= w
  BY <1>1, <1>2, LessByMultiples
<1> QED BY <1>1, <1>3 DEF q

LEMMA WeekFacts ==
  ASSUME PageAssumption
  PROVE  /\ WeekLength \in Nat \ {0}
         /\ \A w \in Int : FirstDay(w) \in Int /\ LastDay(w) = FirstDay(w) + WeekLength - 1
                            /\ FirstDay(w + 1) = LastDay(w) + 1
         /\ \A d \in Int : WeekOf(d) \in Int
         /\ \A d \in Int, w \in Int : (WeekOf(d) = w) <=> (FirstDay(w) <= d /\ d <= LastDay(w))
         /\ \A d \in Int, e \in Int : d <= e => WeekOf(d) <= WeekOf(e)
         /\ \A d \in Int, w \in Int : w <= WeekOf(d) => FirstDay(w) <= d
<1>1. WeekLength \in Nat \ {0}
  BY DEF PageAssumption
<1>2. \A w \in Int : FirstDay(w) \in Int /\ LastDay(w) = FirstDay(w) + WeekLength - 1
                            /\ FirstDay(w + 1) = LastDay(w) + 1
  BY <1>1, SMTT(30) DEF FirstDay, LastDay
<1>3. \A d \in Int : WeekOf(d) \in Int
  BY <1>1, Quotient DEF WeekOf
<1>4. \A d \in Int, w \in Int : FirstDay(w) <= d /\ d <= LastDay(w) => WeekOf(d) = w
  <2> SUFFICES ASSUME NEW d \in Int, NEW w \in Int, FirstDay(w) <= d, d <= LastDay(w) PROVE WeekOf(d) = w
    OBVIOUS
  <2>1. WeekLength * w <= d /\ d < WeekLength * w + WeekLength
    BY <1>1, SMTT(30) DEF FirstDay, LastDay
  <2> QED BY <1>1, <2>1, QuotientUnique DEF WeekOf
<1>5. \A d \in Int : FirstDay(WeekOf(d)) <= d /\ d <= LastDay(WeekOf(d))
  <2> SUFFICES ASSUME NEW d \in Int PROVE FirstDay(WeekOf(d)) <= d /\ d <= LastDay(WeekOf(d))
    OBVIOUS
  <2> DEFINE q == d \div WeekLength
  <2>1. WeekLength * q <= d /\ q \in Int /\ d < WeekLength * q + WeekLength
    BY <1>1, Quotient
  <2> HIDE DEF q
  <2>2. q * WeekLength <= d /\ d <= q * WeekLength + WeekLength - 1
    BY <1>1, <2>1, SMTT(30)
  <2> QED BY <2>2 DEF q, WeekOf, FirstDay, LastDay
<1>6. \A d \in Int, e \in Int : d <= e => WeekOf(d) <= WeekOf(e)
  BY <1>1, QuotientGrows DEF WeekOf
<1>7. ASSUME NEW d \in Int, NEW w \in Int, w <= WeekOf(d) PROVE FirstDay(w) <= d
  <2>1. CASE FirstDay(w) <= d
    BY <2>1
  <2>2. CASE d < FirstDay(w)
    <3>1. PICK f \in Int : f = FirstDay(w) /\ f <= LastDay(w) /\ d < f
      BY <1>1, <1>2, <2>2
    <3>2. WeekOf(f) = w
      BY <1>4, <3>1
    <3>3. WeekOf(d) <= WeekOf(f)
      BY <1>6, <3>1
    <3>4. WeekOf(d) = w
      BY <1>3, <1>7, <3>2, <3>3
    <3>5. FirstDay(w) <= d
      BY <1>5, <3>4
    <3> QED BY <3>1, <3>5
  <2> QED BY <1>2, <2>1, <2>2
<1> QED BY <1>1, <1>2, <1>3, <1>4, <1>5, <1>6, <1>7
-----------------------------------------------------------------------------
(* The uptime page. *)

Data == [pc: PanelPc \cup {Nowhere}, unit: Bucket \cup {"week", "none"}, at: Int]

PageTyped ==
  /\ pc \in PanelPc /\ asked \in [Chart -> Data] /\ drawn \in [Chart -> Data]
  /\ today \in Nat /\ FirstShown <= today /\ mobile \in BOOLEAN /\ enabled \in BOOLEAN
  /\ overlapped \in BOOLEAN /\ bucket \in Bucket /\ anchor \in Nat /\ weekStart \in Int
  /\ cursor \in Int /\ pendingCursor \in Int /\ wanted \in Int /\ frame \in Nat \cup {NoDay}

\* A request in flight is the one for the selection; a page that was left has none.
AsksForSelection ==
  /\ enabled => \A c \in Chart : asked[c] \in {NoData[c], Selection[c]}
  /\ ~enabled => overlapped /\ \A c \in Chart : asked[c] = NoData[c] /\ drawn[c] = NoData[c]

\* No day that is shown, waits or was asked for is later than today.
UpToToday ==
  /\ cursor <= today /\ pendingCursor <= today /\ frame <= today
  /\ weekStart <= WeekOf(today) /\ Period(bucket, anchor) <= Period(bucket, today)
  /\ drawn["weekly"] = NoData["weekly"] \/ drawn["weekly"].at <= WeekOf(today)

\* The day of a change of the PC waits for its frame, or is shown before.
FrameWaits ==
  mobile /\ frame # NoDay /\ ~overlapped =>
    \/ pendingCursor = frame
    \/ pendingCursor = NoDay /\ cursor = frame /\ weekStart = WeekOf(frame) /\ WeekShown = weekStart

\* The day chosen last is in the week selected and is the cursor, or the end of
\* that week next to the cursor.
ChosenIsNear ==
  mobile /\ frame = NoDay /\ ~overlapped =>
    /\ weekStart = WeekOf(wanted)
    /\ \/ cursor = wanted /\ pendingCursor \in {NoDay, wanted}
       \/ pendingCursor = NoDay /\ cursor < wanted /\ wanted = FirstDay(weekStart)
       \/ pendingCursor = NoDay /\ cursor > wanted /\ wanted = LastDay(weekStart)

\* The inductive invariant.
PageInv == PageTyped /\ AsksForSelection /\ SettledShowsSelection /\ UpToToday /\ FrameWaits /\ ChosenIsNear

LEMMA PageFacts ==
  ASSUME PageAssumption
  PROVE  /\ "summary" \in Chart /\ "weekly" \in Chart /\ \A c \in Chart : c = "summary" \/ c = "weekly"
         /\ NoData \in [Chart -> Data] /\ NoData["weekly"].unit = "none" /\ NoData["summary"].at = NoDay
         /\ \A b \in Bucket, d \in Nat : Period(b, d) \in Int /\ Period(b, d) # NoDay
         /\ \A b \in Bucket, d \in Nat, e \in Nat : d <= e => Period(b, d) <= Period(b, e)
         /\ NoDay \in Int /\ \A d \in Nat : NoDay <= d /\ d # NoDay
<1>1. \A b \in Bucket : Length[b] \in Nat \ {0}
  BY DEF PageAssumption
<1>2. \A b \in Bucket, d \in Int : Period(b, d) \in Int
  BY <1>1, Quotient DEF Period
<1>3. \A b \in Bucket, d \in Nat, e \in Nat : d <= e => Period(b, d) <= Period(b, e)
  BY <1>1, QuotientGrows DEF Period
<1>4. ASSUME NEW b \in Bucket, NEW d \in Nat PROVE Period(b, d) # NoDay
  <2>1. Period(b, 0) = 0
    BY <1>1, QuotientUnique DEF Period
  <2>2. 0 <= Period(b, d)
    BY <1>3, <2>1
  <2> QED BY <2>2 DEF NoDay
<1>5. NoData \in [Chart -> Data] /\ NoData["weekly"].unit = "none" /\ NoData["summary"].at = NoDay
  BY DEF NoData, Chart, Data, NoDay
<1> QED BY <1>2, <1>3, <1>4, <1>5 DEF Chart, NoDay

\* The requests of a render ask for the selection.
LEMMA FetchHolds ==
  ASSUME PageAssumption, PageInv, Fetch, enabled, enabled' = enabled,
         pc' \in PanelPc, bucket' \in Bucket, anchor' \in Nat, weekStart' \in Int
  PROVE  drawn' = drawn /\ asked' \in [Chart -> Data] /\ AsksForSelection' /\ SettledShowsSelection'
<1>1. drawn' = drawn /\ asked' = [c \in Chart |-> IF Selection'[c] # Selection[c] THEN Selection'[c] ELSE asked[c]]
  BY DEF Fetch
<1>2. /\ Selection'["weekly"] = [pc |-> pc', unit |-> "week", at |-> weekStart']
      /\ Selection'["summary"] = [pc |-> pc', unit |-> bucket', at |-> Period(bucket', anchor')]
  BY DEF Selection, Chart
<1>3. Period(bucket', anchor') \in Int /\ Period(bucket', anchor') # NoDay
  BY PageFacts
<1>4. \A c \in Chart : Selection'[c] \in Data /\ Selection'[c] # NoData[c]
  <2>1. Selection'["weekly"] \in Data /\ Selection'["weekly"].unit = "week"
    BY <1>2 DEF Data
  <2>2. Selection'["summary"] \in Data /\ Selection'["summary"].at # NoDay
    BY <1>2, <1>3 DEF Data
  <2> QED BY <2>1, <2>2, PageFacts
<1>5. asked' \in [Chart -> Data]
  BY <1>1, <1>4 DEF PageInv, PageTyped
<1>6. ASSUME NEW c \in Chart
      PROVE  /\ asked'[c] \in {NoData[c], Selection'[c]}
             /\ asked'[c] = NoData[c] => drawn[c] \in {NoData[c], Selection'[c]}
  <2>1. asked[c] \in {NoData[c], Selection[c]} /\ (asked[c] = NoData[c] => drawn[c] \in {NoData[c], Selection[c]})
    BY DEF PageInv, AsksForSelection, SettledShowsSelection
  <2>2. asked'[c] = IF Selection'[c] # Selection[c] THEN Selection'[c] ELSE asked[c]
    BY <1>1
  <2> QED BY <1>4, <2>1, <2>2
<1>7. NoData' = NoData
  BY DEF NoData
<1>8. AsksForSelection' /\ SettledShowsSelection'
  BY <1>1, <1>6, <1>7 DEF AsksForSelection, SettledShowsSelection
<1> QED BY <1>1, <1>5, <1>8

\* How the cursor c follows the days shown, with the choice p.
Follows(c, p) ==
  \/ ~mobile /\ cursor' = c /\ pendingCursor' = NoDay
  \/ cursor' = c /\ pendingCursor' = p
  \/ p # NoDay /\ WeekOf(p) = WeekShown' /\ cursor' = p /\ pendingCursor' = NoDay
  \/ p = NoDay /\ pendingCursor' = pendingCursor
     /\ \/ WeekOf(c) = WeekShown' /\ cursor' = c
        \/ c < FirstDay(WeekShown') /\ cursor' = FirstDay(WeekShown')
        \/ c > LastDay(WeekShown') /\ cursor' = LastDay(WeekShown')

LEMMA CursorFollows ==
  ASSUME PageAssumption, NEW c \in Int, NEW p \in Int, NEW changed, Cursor(c, p, changed), WeekShown' \in Int
  PROVE  Follows(c, p)
<1>1. PICK w \in Int : w = WeekShown'
  OBVIOUS
<1>2. /\ FirstDay(w) \in Int /\ LastDay(w) \in Int /\ FirstDay(w) = w * WeekLength
      /\ LastDay(w) = w * WeekLength + WeekLength - 1
      /\ \A d \in Int : d \in FirstDay(w) .. LastDay(w) <=> WeekOf(d) = w
  BY WeekFacts DEF FirstDay, LastDay
<1>3. IF ~mobile THEN cursor' = c /\ pendingCursor' = NoDay
      ELSE IF ~changed THEN cursor' = c /\ pendingCursor' = p
      ELSE IF p # NoDay
           THEN /\ cursor' = IF p \in FirstDay(w) .. LastDay(w) THEN p ELSE c
                /\ pendingCursor' = IF p \in FirstDay(w) .. LastDay(w) THEN NoDay ELSE p
           ELSE /\ cursor' = IF c \in FirstDay(w) .. LastDay(w) THEN c
                             ELSE IF c < FirstDay(w) THEN FirstDay(w) ELSE LastDay(w)
                /\ UNCHANGED pendingCursor
  BY <1>1, <1>2 DEF Cursor
<1>4. c \notin FirstDay(w) .. LastDay(w) => c < FirstDay(w) \/ c > LastDay(w)
  BY <1>2
<1> QED BY <1>1, <1>2, <1>3, <1>4 DEF Follows

\* It does not get past a day that neither it nor the week shown is past.
LEMMA FollowsUpTo ==
  ASSUME PageAssumption, NEW c \in Int, NEW p \in Int, NEW t \in Nat, Follows(c, p), WeekShown' \in Int,
         c <= t, p <= t, WeekShown' <= WeekOf(t), pendingCursor \in Int, pendingCursor <= t
  PROVE  cursor' \in Int /\ pendingCursor' \in Int /\ cursor' <= t /\ pendingCursor' <= t
<1>1. PICK w \in Int : w = WeekShown'
  OBVIOUS
<1>2. FirstDay(w) \in Int /\ LastDay(w) \in Int /\ FirstDay(w) <= t
  BY <1>1, WeekFacts
<1>3. NoDay \in Int /\ NoDay <= t
  BY PageFacts
<1> QED BY <1>1, <1>2, <1>3 DEF Follows

\* The days shown after a step.
LEMMA ShownNext ==
  ASSUME PageAssumption, drawn' \in [Chart -> Data], weekStart' \in Int, NEW t \in Nat, weekStart' <= WeekOf(t),
         drawn'["weekly"] = NoData["weekly"] \/ drawn'["weekly"].at <= WeekOf(t)
  PROVE  /\ WeekShown' \in Int /\ WeekShown' <= WeekOf(t)
         /\ drawn'["weekly"] = NoData["weekly"] => WeekShown' = weekStart'
         /\ drawn'["weekly"] # NoData["weekly"] => WeekShown' = drawn'["weekly"].at
<1>1. NoData' = NoData
  BY DEF NoData
<1>2. drawn'["weekly"] \in Data
  BY PageFacts
<1>3. drawn'["weekly"].at \in Int
  BY <1>2 DEF Data
<1>4. WeekShown' = IF drawn'["weekly"] = NoData["weekly"] THEN weekStart' ELSE drawn'["weekly"].at
  BY <1>1 DEF WeekShown
<1> QED BY <1>3, <1>4

LEMMA ShownNow ==
  ASSUME PageAssumption, PageInv
  PROVE  /\ WeekShown \in Int /\ WeekShown <= WeekOf(today)
         /\ drawn["weekly"] = NoData["weekly"] => WeekShown = weekStart
         /\ drawn["weekly"] # NoData["weekly"] => WeekShown = drawn["weekly"].at
<1>1. drawn["weekly"] \in Data
  BY PageFacts DEF PageInv, PageTyped
<1>2. drawn["weekly"].at \in Int
  BY <1>1 DEF Data
<1> QED BY <1>2 DEF PageInv, PageTyped, UpToToday, WeekShown

\* The day shown is in the week shown.
LEMMA VisibleIsShown ==
  ASSUME PageAssumption, PageInv
  PROVE  /\ VisibleDay \in Int /\ FirstDay(WeekShown) <= VisibleDay /\ VisibleDay <= LastDay(WeekShown)
         /\ VisibleDay <= today
         /\ WeekOf(cursor) = WeekShown => VisibleDay = cursor
         /\ cursor < FirstDay(WeekShown) => VisibleDay = FirstDay(WeekShown)
         /\ cursor > LastDay(WeekShown) => VisibleDay = LastDay(WeekShown)
<1>1. PICK w \in Int : w = WeekShown
  BY ShownNow
<1>2. /\ FirstDay(w) \in Int /\ LastDay(w) \in Int /\ FirstDay(w) = w * WeekLength /\ FirstDay(w) <= LastDay(w)
      /\ LastDay(w) = w * WeekLength + WeekLength - 1 /\ LastDay(w) = FirstDay(w) + WeekLength - 1
  BY WeekFacts DEF FirstDay, LastDay
<1>3. VisibleDay = IF WeekOf(cursor) = w THEN cursor ELSE IF cursor < FirstDay(w) THEN FirstDay(w) ELSE LastDay(w)
  BY <1>1, <1>2 DEF VisibleDay
<1>4. cursor \in Int /\ today \in Nat /\ cursor <= today
  BY DEF PageInv, PageTyped, UpToToday
<1>5. (WeekOf(cursor) = w) <=> (FirstDay(w) <= cursor /\ cursor <= LastDay(w))
  BY <1>4, WeekFacts
<1>6. FirstDay(w) <= today
  BY <1>1, <1>4, ShownNow, WeekFacts
<1> QED BY <1>1, <1>2, <1>3, <1>4, <1>5, <1>6

LEMMA PageInvHolds == PageAssumption /\ PageInv => PageHolds
<1> SUFFICES ASSUME PageAssumption, PageInv PROVE PageHolds
  OBVIOUS
<1>1. NotPastToday
  BY VisibleIsShown DEF PageInv, UpToToday, NotPastToday
<1>2. ASSUME mobile, enabled, asked["weekly"] = NoData["weekly"], frame = NoDay, ~overlapped
      PROVE  VisibleDay = wanted
  <2>1. drawn["weekly"] \in {NoData["weekly"], Selection["weekly"]}
    BY <1>2, PageFacts DEF PageInv, SettledShowsSelection
  <2>2. Selection["weekly"].at = weekStart
    BY DEF Selection, Chart
  <2>3. WeekShown = weekStart
    BY <2>1, <2>2, ShownNow
  <2>4. /\ weekStart = WeekOf(wanted)
        /\ \/ cursor = wanted
           \/ cursor < wanted /\ wanted = FirstDay(weekStart)
           \/ cursor > wanted /\ wanted = LastDay(weekStart)
    BY <1>2 DEF PageInv, ChosenIsNear
  <2> QED BY <2>3, <2>4, VisibleIsShown
<1>3. ChosenDayIsShown
  BY <1>2 DEF ChosenDayIsShown
<1> QED BY <1>1, <1>3 DEF PageInv, PageHolds

LEMMA PageInvInit == PageAssumption /\ PageInit => PageInv
<1> SUFFICES ASSUME PageAssumption, PageInit PROVE PageInv
  OBVIOUS
<1>1. today \in Nat /\ WeekOf(today) \in Int /\ NoDay \in Int /\ NoDay <= today /\ today # NoDay
  <2>1. today \in Nat /\ today \in Int
    BY DEF PageInit, PageAssumption
  <2> QED BY <2>1, PageFacts, WeekFacts
<1>2. Selection["weekly"] \in Data
  BY <1>1 DEF Selection, Data, Chart, PageInit
<1>3. bucket \in Bucket /\ Period(bucket, anchor) \in Int
  BY <1>1, PageFacts DEF PageInit, PageAssumption
<1>4. Selection["summary"] \in Data
  BY <1>3 DEF Selection, Data, Chart, PageInit
<1>5. Selection \in [Chart -> Data]
  BY <1>2, <1>4 DEF Selection, Chart
<1>6. PageTyped
  <2>1. pc \in PanelPc /\ asked \in [Chart -> Data] /\ drawn \in [Chart -> Data]
    BY <1>5, PageFacts DEF PageInit
  <2>2. today \in Nat /\ FirstShown <= today
    <3>1. today = FirstShown
      BY DEF PageInit
    <3> QED BY <1>1, <3>1
  <2>4. mobile \in BOOLEAN /\ enabled \in BOOLEAN /\ overlapped \in BOOLEAN
    BY DEF PageInit
  <2>3. bucket \in Bucket /\ anchor \in Nat /\ weekStart \in Int /\ cursor \in Int /\ pendingCursor \in Int
        /\ wanted \in Int /\ frame \in Nat \cup {NoDay}
    BY <1>1, <1>3 DEF PageInit
  <2> QED BY <2>1, <2>2, <2>3, <2>4 DEF PageTyped
<1>7. AsksForSelection /\ FrameWaits /\ ChosenIsNear
  BY DEF AsksForSelection, FrameWaits, ChosenIsNear, PageInit
<1>8. SettledShowsSelection
  BY DEF SettledShowsSelection, PageInit
<1>9. UpToToday
  BY <1>1, <1>3 DEF UpToToday, PageInit
<1> QED BY <1>6, <1>7, <1>8, <1>9 DEF PageInv

LEMMA SelectionTyped ==
  ASSUME PageAssumption, pc \in PanelPc, bucket \in Bucket, anchor \in Nat, weekStart \in Int
  PROVE  Selection \in [Chart -> Data] /\ \A c \in Chart : Selection[c] # NoData[c]
<1>1. /\ Selection["weekly"] = [pc |-> pc, unit |-> "week", at |-> weekStart]
      /\ Selection["summary"] = [pc |-> pc, unit |-> bucket, at |-> Period(bucket, anchor)]
  BY DEF Selection, Chart
<1>2. Period(bucket, anchor) \in Int /\ Period(bucket, anchor) # NoDay
  BY PageFacts
<1>3. Selection["weekly"] \in Data /\ Selection["weekly"].unit = "week"
  BY <1>1 DEF Data
<1>4. Selection["summary"] \in Data /\ Selection["summary"].at # NoDay
  BY <1>1, <1>2 DEF Data
<1>5. \A c \in Chart : Selection[c] \in Data /\ Selection[c] # NoData[c]
  BY <1>3, <1>4, PageFacts
<1>6. Selection = [c \in Chart |-> Selection[c]]
  BY DEF Selection
<1> QED BY <1>5, <1>6

\* What the invariant does not name may change.
LEMMA StutterKeeps ==
  ASSUME PageInv, UNCHANGED <<today, mobile, enabled, pc, bucket, anchor, weekStart, cursor, pendingCursor, frame,
                              drawn, asked, wanted, overlapped>>
  PROVE  PageInv'
<1>1. Selection' = Selection /\ NoData' = NoData /\ WeekShown' = WeekShown
  BY DEF Selection, NoData, Period, WeekShown
<1>2. PageTyped' /\ UpToToday'
  BY <1>1 DEF PageInv, PageTyped, UpToToday
<1>3. AsksForSelection' /\ SettledShowsSelection'
  BY <1>1 DEF PageInv, AsksForSelection, SettledShowsSelection
<1>4. FrameWaits' /\ ChosenIsNear'
  BY <1>1 DEF PageInv, FrameWaits, ChosenIsNear
<1> QED BY <1>2, <1>3, <1>4 DEF PageInv

\* Another selection without another day.
LEMMA SelectionMoves ==
  ASSUME PageAssumption, PageInv, Fetch, enabled,
         UNCHANGED <<today, mobile, enabled, pc, cursor, pendingCursor, frame, wanted, overlapped>>,
         bucket' \in Bucket, anchor' \in Nat, weekStart' \in Int, mobile => weekStart' = weekStart,
         weekStart' <= WeekOf(today), Period(bucket', anchor') <= Period(bucket', today)
  PROVE  PageInv'
<1>1. drawn' = drawn /\ asked' \in [Chart -> Data] /\ AsksForSelection' /\ SettledShowsSelection'
  BY FetchHolds DEF PageInv, PageTyped
<1>2. PageTyped'
  BY <1>1 DEF PageInv, PageTyped
<1>3. UpToToday'
  BY <1>1 DEF PageInv, UpToToday, NoData
<1>4. mobile => WeekShown' = WeekShown
  BY <1>1 DEF WeekShown, NoData
<1>5. FrameWaits'
  BY <1>4 DEF PageInv, FrameWaits
<1>6. ChosenIsNear'
  BY DEF PageInv, ChosenIsNear
<1> QED BY <1>1, <1>2, <1>3, <1>5, <1>6 DEF PageInv

\* A day picked is the cursor, in its week.
LEMMA PickKeeps == ASSUME PageAssumption, PageInv, NEW d \in Nat, PickDate(d) PROVE PageInv'
<1>1. PICK day \in Nat : day = (IF d > today THEN today ELSE d)
  BY DEF PageInv, PageTyped
<1>2. PICK e : e = (day # cursor \/ OtherDays)
  OBVIOUS
<1>3. /\ enabled /\ anchor' = day /\ weekStart' = WeekOf(day) /\ Fetch /\ Cursor(day, day, e)
      /\ wanted' = day /\ overlapped' = (frame # NoDay)
      /\ UNCHANGED <<today, mobile, enabled, pc, bucket, frame>>
  BY <1>1, <1>2 DEF PickDate
<1>4. day <= today /\ today \in Nat /\ WeekOf(day) \in Int /\ WeekOf(day) <= WeekOf(today) /\ day # NoDay
  <2>1. day <= today /\ today \in Nat /\ day \in Int /\ today \in Int
    BY <1>1 DEF PageInv, PageTyped
  <2>2. day # NoDay
    BY PageFacts
  <2> QED BY <2>1, <2>2, WeekFacts
<1>5. drawn' = drawn /\ asked' \in [Chart -> Data] /\ AsksForSelection' /\ SettledShowsSelection'
  BY <1>3, <1>4, FetchHolds DEF PageInv, PageTyped
<1>6. WeekShown' \in Int
  BY <1>3, <1>4, <1>5, ShownNext DEF PageInv, PageTyped, UpToToday
<1>7. Follows(day, day)
  BY <1>3, <1>6, CursorFollows
<1>8. cursor' = day /\ pendingCursor' \in {NoDay, day}
  BY <1>4, <1>7 DEF Follows
<1>9. PageTyped'
  BY <1>3, <1>4, <1>5, <1>8, PageFacts DEF PageInv, PageTyped
<1>10. Period(bucket', anchor') <= Period(bucket', today')
  BY <1>3, <1>4, PageFacts DEF PageInv, PageTyped
<1>11. UpToToday'
  BY <1>3, <1>4, <1>5, <1>8, <1>10, PageFacts DEF PageInv, PageTyped, UpToToday, NoData
<1>12. FrameWaits'
  BY <1>3 DEF FrameWaits
<1>13. ChosenIsNear'
  BY <1>3, <1>8 DEF ChosenIsNear
<1> QED BY <1>5, <1>9, <1>11, <1>12, <1>13 DEF PageInv

\* A swipe to the next day; one out of the week selected waits for its week.
LEMMA DayKeeps == ASSUME PageAssumption, PageInv, NEW step \in {-1, 1}, MoveDay(step) PROVE PageInv'
<1>1. PICK day \in Int : day = VisibleDay + step
  BY VisibleIsShown
<1>2. PICK e : e = (day # cursor \/ OtherDays)
  OBVIOUS
<1>3. PICK p : p = IF WeekOf(day) # weekStart THEN day ELSE pendingCursor
  OBVIOUS
<1>4. /\ mobile /\ enabled /\ day >= 0 /\ (step > 0 => day <= today) /\ weekStart' = WeekOf(day) /\ Fetch
      /\ Cursor(day, p, e) /\ Choose(day)
      /\ UNCHANGED <<today, mobile, enabled, pc, bucket, anchor, frame>>
  BY <1>1, <1>2, <1>3 DEF MoveDay
<1>5. wanted' = day /\ overlapped' = (pendingCursor # NoDay \/ frame # NoDay)
  BY <1>4 DEF Choose
<1>6. day <= today
  BY <1>1, <1>4, VisibleIsShown DEF PageInv, PageTyped
<1>7. day \in Nat /\ WeekOf(day) \in Int /\ WeekOf(day) <= WeekOf(today) /\ day # NoDay /\ today \in Nat
  BY <1>4, <1>6, WeekFacts, PageFacts DEF PageInv, PageTyped
<1>8. drawn' = drawn /\ asked' \in [Chart -> Data] /\ AsksForSelection' /\ SettledShowsSelection'
  BY <1>4, <1>7, FetchHolds DEF PageInv, PageTyped
<1>9. /\ WeekShown' \in Int /\ WeekShown' <= WeekOf(today)
      /\ drawn["weekly"] = NoData["weekly"] => WeekShown' = WeekOf(day)
      /\ drawn["weekly"] # NoData["weekly"] => WeekShown' = drawn["weekly"].at
  BY <1>4, <1>7, <1>8, ShownNext DEF PageInv, PageTyped, UpToToday
<1>10. p \in Int /\ p <= today /\ pendingCursor \in Int /\ pendingCursor <= today
  BY <1>3, <1>6 DEF PageInv, PageTyped, UpToToday
<1>11. Follows(day, p)
  BY <1>4, <1>9, <1>10, CursorFollows
<1>12. cursor' \in Int /\ pendingCursor' \in Int /\ cursor' <= today /\ pendingCursor' <= today
  BY <1>6, <1>7, <1>9, <1>10, <1>11, FollowsUpTo
<1>13. PageTyped'
  BY <1>4, <1>5, <1>7, <1>8, <1>12 DEF PageInv, PageTyped
<1>14. UpToToday'
  BY <1>4, <1>7, <1>8, <1>12 DEF PageInv, UpToToday, NoData
<1>15. FrameWaits'
  BY <1>4, <1>5 DEF FrameWaits
<1>16. ASSUME ~overlapped'
       PROVE  \/ cursor' = day /\ pendingCursor' \in {NoDay, day}
              \/ pendingCursor' = NoDay /\ cursor' < day /\ day = FirstDay(WeekOf(day))
              \/ pendingCursor' = NoDay /\ cursor' > day /\ day = LastDay(WeekOf(day))
  <2>1. pendingCursor = NoDay
    BY <1>5, <1>16
  <2>2. CASE p = day
    BY <1>7, <1>11, <2>2, <1>4 DEF Follows
  <2>3. CASE p = NoDay
    <3>1. PICK w \in Int : w = WeekShown'
      BY <1>9
    <3>2. CASE cursor' = day /\ pendingCursor' = NoDay
      BY <3>2
    <3>3. CASE pendingCursor' = NoDay /\ day < FirstDay(w) /\ cursor' = FirstDay(w)
      <4>1. FirstDay(w) \in Int /\ FirstDay(w) = LastDay(w - 1) + 1 /\ (WeekOf(day) = w => FirstDay(w) <= day)
            /\ (WeekOf(day) = w - 1 <=> FirstDay(w - 1) <= day /\ day <= LastDay(w - 1))
            /\ FirstDay(w - 1) <= LastDay(w - 1) /\ FirstDay(w - 1) \in Int /\ LastDay(w - 1) \in Int
        <5>1. PICK v \in Int : v = w - 1 /\ v + 1 = w
          OBVIOUS
        <5>2. FirstDay(v + 1) = LastDay(v) + 1 /\ FirstDay(v) \in Int /\ LastDay(v) = FirstDay(v) + WeekLength - 1
              /\ WeekLength \in Nat \ {0} /\ FirstDay(w) \in Int
          BY <5>1, WeekFacts
        <5>3. (WeekOf(day) = w => FirstDay(w) <= day) /\ (WeekOf(day) = v <=> FirstDay(v) <= day /\ day <= LastDay(v))
          BY <1>7, <5>1, WeekFacts
        <5> QED BY <5>1, <5>2, <5>3
      <4>2. drawn["weekly"] # NoData["weekly"] /\ WeekShown = w
        BY <1>9, <3>1, <3>3, <4>1, ShownNow
      <4>3. FirstDay(w) <= VisibleDay /\ VisibleDay \in Int
        BY <4>2, VisibleIsShown
      <4>4. day = FirstDay(w) - 1
        BY <1>1, <3>3, <4>1, <4>3
      <4> QED BY <3>3, <4>1, <4>4
    <3>4. CASE pendingCursor' = NoDay /\ day > LastDay(w) /\ cursor' = LastDay(w)
      <4>1. LastDay(w) \in Int /\ FirstDay(w + 1) = LastDay(w) + 1 /\ (WeekOf(day) = w => day <= LastDay(w))
            /\ (WeekOf(day) = w + 1 <=> FirstDay(w + 1) <= day /\ day <= LastDay(w + 1))
            /\ FirstDay(w + 1) <= LastDay(w + 1) /\ FirstDay(w + 1) \in Int /\ LastDay(w + 1) \in Int
        <5>1. PICK v \in Int : v = w + 1
          OBVIOUS
        <5>2. FirstDay(v) = LastDay(w) + 1 /\ FirstDay(v) \in Int /\ LastDay(v) = FirstDay(v) + WeekLength - 1
              /\ WeekLength \in Nat \ {0} /\ FirstDay(w) \in Int /\ LastDay(w) = FirstDay(w) + WeekLength - 1
          BY <5>1, WeekFacts
        <5>3. (WeekOf(day) = w => day <= LastDay(w)) /\ (WeekOf(day) = v <=> FirstDay(v) <= day /\ day <= LastDay(v))
          BY <1>7, <5>1, WeekFacts
        <5> QED BY <5>1, <5>2, <5>3
      <4>2. drawn["weekly"] # NoData["weekly"] /\ WeekShown = w
        BY <1>9, <3>1, <3>4, <4>1, ShownNow
      <4>3. VisibleDay <= LastDay(w) /\ VisibleDay \in Int
        BY <4>2, VisibleIsShown
      <4>4. day = LastDay(w) + 1
        BY <1>1, <3>4, <4>1, <4>3
      <4> QED BY <3>4, <4>1, <4>4
    <3> QED BY <1>4, <1>7, <1>11, <2>1, <2>3, <3>1, <3>2, <3>3, <3>4 DEF Follows
  <2> QED BY <1>3, <2>1, <2>2, <2>3
<1>17. ChosenIsNear'
  BY <1>4, <1>5, <1>16 DEF ChosenIsNear, FirstDay, LastDay
<1> QED BY <1>8, <1>13, <1>14, <1>15, <1>17 DEF PageInv

LEMMA WeekKeeps == ASSUME PageAssumption, PageInv, NEW step \in {-1, 1}, MoveWeek(step) PROVE PageInv'
<1>1. /\ ~mobile /\ enabled /\ (step > 0 => weekStart < WeekOf(FirstShown)) /\ weekStart' = weekStart + step /\ Fetch
      /\ UNCHANGED <<today, mobile, enabled, pc, bucket, anchor, cursor, pendingCursor, frame, wanted, overlapped>>
  BY DEF MoveWeek
<1>2. weekStart \in Int /\ weekStart <= WeekOf(today) /\ today \in Int /\ FirstShown \in Int /\ FirstShown <= today
  BY DEF PageInv, PageTyped, UpToToday, PageAssumption
<1>3. WeekOf(FirstShown) <= WeekOf(today) /\ WeekOf(FirstShown) \in Int /\ WeekOf(today) \in Int
  BY <1>2, WeekFacts
<1>4. weekStart' \in Int /\ weekStart' <= WeekOf(today)
  BY <1>1, <1>2, <1>3
<1>5. bucket' \in Bucket /\ anchor' \in Nat /\ Period(bucket', anchor') <= Period(bucket', today)
  BY <1>1 DEF PageInv, PageTyped, UpToToday
<1> QED BY <1>1, <1>4, <1>5, SelectionMoves

LEMMA PeriodSteps ==
  ASSUME PageAssumption, NEW b \in Bucket, NEW d \in Int, NEW step \in {-1, 1}
  PROVE  /\ Period(b, d + step * Length[b]) = Period(b, d) + step
         /\ Period(b, (Period(b, d) + step) * Length[b]) = Period(b, d) + step
<1>1. PICK n \in Nat \ {0} : n = Length[b]
  BY DEF PageAssumption
<1>2. PICK q \in Int : q = d \div n /\ n * q <= d /\ d < n * q + n
  BY Quotient
<1>3. n * (q + step) <= d + step * n /\ d + step * n < n * (q + step) + n
  BY <1>2, SMTT(30)
<1>4. n * (q + step) <= (q + step) * n /\ (q + step) * n < n * (q + step) + n
  BY <1>2, SMTT(30)
<1>5. q + step \in Int /\ d + step * n \in Int /\ (q + step) * n \in Int
  BY <1>2, SMTT(30)
<1>6. (d + step * n) \div n = q + step
  BY <1>3, <1>5, QuotientUnique
<1>7. ((q + step) * n) \div n = q + step
  BY <1>4, <1>5, QuotientUnique
<1> QED BY <1>1, <1>2, <1>6, <1>7 DEF Period

LEMMA SummaryKeeps == ASSUME PageAssumption, PageInv, NEW step \in {-1, 1}, MoveSummary(step) PROVE PageInv'
<1>1. PICK to : to = IF bucket = "day" THEN anchor + step * WeekLength
                     ELSE (Period(bucket, anchor) + step) * Length[bucket]
  OBVIOUS
<1>2. /\ enabled /\ to >= 0 /\ (step > 0 => Period(bucket, anchor) < Period(bucket, today)) /\ anchor' = to /\ Fetch
      /\ UNCHANGED <<today, mobile, enabled, pc, bucket, weekStart, cursor, pendingCursor, frame, wanted, overlapped>>
  BY <1>1 DEF MoveSummary
<1>3. /\ bucket \in Bucket /\ anchor \in Nat /\ today \in Nat /\ Period(bucket, anchor) <= Period(bucket, today)
      /\ weekStart \in Int /\ weekStart <= WeekOf(today)
  BY DEF PageInv, PageTyped, UpToToday
<1>4. WeekLength = Length["day"] /\ Length[bucket] \in Nat /\ WeekLength \in Nat
  BY <1>3 DEF PageAssumption
<1>5. Period(bucket, anchor) \in Int /\ Period(bucket, today) \in Int
  BY <1>3, PageFacts
<1>6. Period(bucket, to) = Period(bucket, anchor) + step
  <2>1. /\ Period(bucket, anchor + step * Length[bucket]) = Period(bucket, anchor) + step
        /\ Period(bucket, (Period(bucket, anchor) + step) * Length[bucket]) = Period(bucket, anchor) + step
    BY <1>3, PeriodSteps
  <2>2. CASE bucket = "day"
    BY <1>1, <1>4, <2>1, <2>2
  <2>3. CASE bucket # "day"
    BY <1>1, <2>1, <2>3
  <2> QED BY <2>2, <2>3
<1>7. to \in Int
  <2>1. \A a \in Int, n \in Nat : a * n \in Int
    BY SMTT(30)
  <2>2. step * WeekLength \in Int /\ (Period(bucket, anchor) + step) * Length[bucket] \in Int
    BY <1>4, <1>5, <2>1
  <2> QED BY <1>1, <1>3, <2>2
<1>8. to \in Nat /\ Period(bucket, to) <= Period(bucket, today)
  BY <1>2, <1>3, <1>5, <1>6, <1>7
<1> QED BY <1>2, <1>3, <1>8, SelectionMoves

LEMMA BucketKeeps == ASSUME PageAssumption, PageInv, NEW b \in Bucket, ChangeBucket(b) PROVE PageInv'
<1>1. /\ enabled /\ bucket' = b /\ anchor' = today /\ Fetch
      /\ UNCHANGED <<today, mobile, enabled, pc, weekStart, cursor, pendingCursor, frame, wanted, overlapped>>
  BY DEF ChangeBucket
<1>2. today \in Nat /\ weekStart \in Int /\ weekStart <= WeekOf(today)
  BY DEF PageInv, PageTyped, UpToToday
<1>3. Period(bucket', anchor') <= Period(bucket', today)
  BY <1>1, <1>2, PageFacts
<1> QED BY <1>1, <1>2, <1>3, SelectionMoves

\* The day of a change of the PC waits for the frame.
LEMMA SwitchKeeps == ASSUME PageAssumption, PageInv, NEW p \in PanelPc, SwitchPc(p) PROVE PageInv'
<1>1. /\ pc' = p /\ frame' = today /\ pendingCursor' = (IF mobile THEN today ELSE NoDay)
      /\ UNCHANGED <<today, mobile, enabled, bucket, anchor, weekStart, cursor, wanted, overlapped>>
      /\ IF enabled THEN Fetch ELSE UNCHANGED <<drawn, asked, cancelled, weeklyError>>
  BY DEF SwitchPc
<1>2. /\ today \in Nat /\ weekStart \in Int /\ anchor \in Nat /\ bucket \in Bucket
      /\ asked \in [Chart -> Data] /\ drawn \in [Chart -> Data]
  BY DEF PageInv, PageTyped
<1>3. drawn' = drawn /\ asked' \in [Chart -> Data] /\ AsksForSelection' /\ SettledShowsSelection'
  <2>1. CASE enabled
    BY <1>1, <1>2, <2>1, FetchHolds
  <2>2. CASE ~enabled
    <3>1. NoData' = NoData
      BY DEF NoData
    <3>2. ~enabled' /\ drawn' = drawn /\ asked' = asked /\ overlapped' = overlapped
      BY <1>1, <2>2
    <3> QED BY <1>2, <2>2, <3>1, <3>2 DEF PageInv, AsksForSelection, SettledShowsSelection
  <2> QED BY <2>1, <2>2
<1>4. pendingCursor' \in Int /\ pendingCursor' <= today /\ today # NoDay
  BY <1>1, <1>2, PageFacts
<1>5. PageTyped'
  BY <1>1, <1>2, <1>3, <1>4 DEF PageInv, PageTyped
<1>6. UpToToday'
  BY <1>1, <1>2, <1>3, <1>4 DEF PageInv, UpToToday, NoData
<1>7. FrameWaits' /\ ChosenIsNear'
  BY <1>1, <1>4 DEF FrameWaits, ChosenIsNear, NoDay
<1> QED BY <1>3, <1>5, <1>6, <1>7 DEF PageInv

\* The frame shows the day that waited for it.
LEMMA FrameKeeps == ASSUME PageAssumption, PageInv, Frame PROVE PageInv'
<1>1. PICK e : e = (frame # cursor \/ OtherDays)
  OBVIOUS
<1>2. /\ frame # NoDay /\ bucket' = "day" /\ anchor' = frame /\ weekStart' = WeekOf(frame) /\ frame' = NoDay
      /\ wanted' = frame /\ UNCHANGED <<today, mobile, enabled, pc>>
      /\ IF enabled THEN Fetch ELSE UNCHANGED <<drawn, asked, cancelled, weeklyError>>
      /\ Cursor(frame, pendingCursor, e)
  BY <1>1 DEF Frame
<1>3. overlapped' = (overlapped \/ pendingCursor \notin {NoDay, frame})
  BY DEF Frame
<1>4. /\ today \in Nat /\ frame \in Nat /\ frame <= today /\ cursor \in Int /\ "day" \in Bucket
      /\ pendingCursor \in Int /\ pendingCursor <= today
      /\ asked \in [Chart -> Data] /\ drawn \in [Chart -> Data]
  BY <1>2 DEF PageInv, PageTyped, UpToToday, PageAssumption
<1>5. WeekOf(frame) \in Int /\ WeekOf(frame) <= WeekOf(today) /\ Period("day", frame) <= Period("day", today)
  <2>1. WeekOf(frame) \in Int /\ WeekOf(frame) <= WeekOf(today)
    <3>1. frame \in Int /\ today \in Int
      BY <1>4
    <3> QED BY <1>4, <3>1, WeekFacts
  <2> QED BY <1>4, <2>1, PageFacts
<1>6. (overlapped' => overlapped \/ pendingCursor \notin {NoDay, frame}) /\ (overlapped => overlapped')
      /\ (pendingCursor \notin {NoDay, frame} => overlapped') /\ overlapped' \in BOOLEAN
  BY <1>3
<1>7. drawn' = drawn /\ asked' \in [Chart -> Data] /\ AsksForSelection' /\ SettledShowsSelection'
  <2>1. CASE enabled
    BY <1>2, <1>4, <1>5, <2>1, FetchHolds DEF PageInv, PageTyped
  <2>2. CASE ~enabled
    <3>1. NoData' = NoData
      BY DEF NoData
    <3>2. ~enabled' /\ drawn' = drawn /\ asked' = asked
      BY <1>2, <2>2
    <3> QED BY <1>4, <1>6, <2>2, <3>1, <3>2 DEF PageInv, AsksForSelection, SettledShowsSelection
  <2> QED BY <2>1, <2>2
<1>8. /\ WeekShown' \in Int /\ WeekShown' <= WeekOf(today)
      /\ drawn["weekly"] = NoData["weekly"] => WeekShown' = WeekOf(frame)
      /\ drawn["weekly"] # NoData["weekly"] => WeekShown' = drawn["weekly"].at
  BY <1>2, <1>4, <1>5, <1>7, ShownNext DEF PageInv, UpToToday
<1>9. Follows(frame, pendingCursor)
  BY <1>2, <1>4, <1>8, CursorFollows
<1>10. cursor' \in Int /\ pendingCursor' \in Int /\ cursor' <= today /\ pendingCursor' <= today
  BY <1>4, <1>8, <1>9, FollowsUpTo
<1>11. PageTyped'
  BY <1>2, <1>4, <1>5, <1>6, <1>7, <1>10 DEF PageInv, PageTyped
<1>12. UpToToday'
  BY <1>2, <1>4, <1>5, <1>7, <1>10, PageFacts DEF PageInv, UpToToday, NoData
<1>13. FrameWaits'
  BY <1>2 DEF FrameWaits, NoDay
<1>14. ASSUME mobile, ~overlapped' PROVE cursor' = frame /\ pendingCursor' \in {NoDay, frame}
  <2>1. ~overlapped /\ pendingCursor \in {NoDay, frame}
    BY <1>6, <1>14
  <2>2. CASE pendingCursor = frame
    BY <1>2, <1>9, <1>14, <2>2 DEF Follows
  <2>3. CASE pendingCursor = NoDay
    <3>1. WeekOf(frame) = WeekShown
      BY <1>2, <1>14, <2>1, <2>3 DEF PageInv, FrameWaits
    <3>2. WeekShown' = WeekOf(frame)
      BY <1>8, <3>1, ShownNow
    <3>3. WeekOf(frame) \in Int /\ FirstDay(WeekOf(frame)) <= frame /\ frame <= LastDay(WeekOf(frame))
          /\ FirstDay(WeekOf(frame)) \in Int /\ LastDay(WeekOf(frame)) \in Int
      BY <1>4, <1>5, WeekFacts
    <3> QED BY <1>4, <1>9, <1>14, <2>3, <3>2, <3>3 DEF Follows
  <2> QED BY <2>1, <2>2, <2>3
<1>15. ChosenIsNear'
  BY <1>2, <1>14 DEF ChosenIsNear
<1> QED BY <1>7, <1>11, <1>12, <1>13, <1>15 DEF PageInv

LEMMA DataKeeps == ASSUME PageAssumption, PageInv, NewData PROVE PageInv'
<1>1. /\ enabled /\ asked' = Selection
      /\ UNCHANGED <<today, mobile, enabled, pc, bucket, anchor, weekStart, cursor, pendingCursor, frame, drawn,
                     wanted, overlapped>>
  BY DEF NewData
<1>2. Selection \in [Chart -> Data] /\ \A c \in Chart : Selection[c] # NoData[c]
  BY SelectionTyped DEF PageInv, PageTyped
<1>3. Selection' = Selection /\ NoData' = NoData
  BY <1>1 DEF Selection, NoData, Period
<1>4. PageTyped'
  BY <1>1, <1>2 DEF PageInv, PageTyped
<1>5. AsksForSelection' /\ SettledShowsSelection'
  BY <1>1, <1>2, <1>3 DEF AsksForSelection, SettledShowsSelection
<1>6. UpToToday'
  BY <1>1, <1>3 DEF PageInv, UpToToday
<1>7. WeekShown' = WeekShown
  BY <1>1, <1>3 DEF WeekShown
<1>8. FrameWaits' /\ ChosenIsNear'
  BY <1>1, <1>7 DEF PageInv, FrameWaits, ChosenIsNear
<1> QED BY <1>4, <1>5, <1>6, <1>8 DEF PageInv

\* The page that is left forgets what waits.
LEMMA ToggleKeeps == ASSUME PageAssumption, PageInv, TogglePanel PROVE PageInv'
<1>1. PICK p : p = IF enabled THEN NoDay ELSE pendingCursor
  OBVIOUS
<1>2. PICK e : e = (drawn["weekly"] # NoData["weekly"])
  OBVIOUS
<1>3. /\ enabled' = ~enabled /\ drawn' = NoData /\ asked' = (IF enabled THEN NoData ELSE Selection)
      /\ UNCHANGED <<today, mobile, pc, bucket, anchor, weekStart, frame, wanted>>
      /\ Cursor(cursor, p, e)
  BY <1>1, <1>2 DEF TogglePanel
<1>4. overlapped'
  <2>1. overlapped' = (overlapped \/ enabled)
    BY DEF TogglePanel
  <2> QED BY <2>1 DEF PageInv, AsksForSelection
<1>5. Selection \in [Chart -> Data] /\ \A c \in Chart : Selection[c] # NoData[c]
  BY SelectionTyped DEF PageInv, PageTyped
<1>6. Selection' = Selection /\ NoData' = NoData /\ NoData \in [Chart -> Data]
  BY <1>3, PageFacts DEF Selection, NoData, Period
<1>7. today \in Nat /\ cursor \in Int /\ cursor <= today /\ p \in Int /\ p <= today
      /\ pendingCursor \in Int /\ pendingCursor <= today /\ weekStart \in Int /\ weekStart <= WeekOf(today)
  BY <1>1, PageFacts DEF PageInv, PageTyped, UpToToday
<1>8. WeekShown' \in Int /\ WeekShown' <= WeekOf(today)
  BY <1>3, <1>6, <1>7, ShownNext
<1>9. cursor' \in Int /\ pendingCursor' \in Int /\ cursor' <= today /\ pendingCursor' <= today
  <2>1. Follows(cursor, p)
    BY <1>3, <1>7, <1>8, CursorFollows
  <2> QED BY <1>7, <1>8, <2>1, FollowsUpTo
<1>10. enabled' \in BOOLEAN /\ overlapped' \in BOOLEAN
  <2>1. overlapped' = (overlapped \/ enabled)
    BY DEF TogglePanel
  <2> QED BY <1>3, <2>1
<1>11. PageTyped'
  BY <1>3, <1>5, <1>6, <1>9, <1>10 DEF PageInv, PageTyped
<1>12. AsksForSelection' /\ SettledShowsSelection'
  <2>1. CASE enabled
    BY <1>3, <1>4, <1>6, <2>1 DEF AsksForSelection, SettledShowsSelection
  <2>2. CASE ~enabled
    BY <1>3, <1>5, <1>6, <2>2 DEF AsksForSelection, SettledShowsSelection
  <2> QED BY <2>1, <2>2
<1>13. UpToToday'
  BY <1>3, <1>6, <1>9 DEF PageInv, UpToToday
<1>14. FrameWaits' /\ ChosenIsNear'
  BY <1>4 DEF FrameWaits, ChosenIsNear
<1> QED BY <1>11, <1>12, <1>13, <1>14 DEF PageInv

\* The answer is for the week selected: what is pending is then in the week shown.
LEMMA AnswerKeeps == ASSUME PageAssumption, PageInv, NEW c \in Chart, Answer(c) PROVE PageInv'
<1>1. PICK e : e = (c = "weekly" /\ (drawn'[c] # NoData[c] \/ drawn[c] # NoData[c]))
  OBVIOUS
<1>2. PICK data \in {asked[c], NoData[c]} : drawn' = [drawn EXCEPT ![c] = data]
  BY DEF Answer
<1>3. /\ asked[c] # NoData[c] /\ asked' = [asked EXCEPT ![c] = NoData[c]] /\ Cursor(cursor, pendingCursor, e)
      /\ UNCHANGED <<today, mobile, enabled, pc, bucket, anchor, weekStart, frame, wanted, overlapped>>
  BY <1>1 DEF Answer
<1>4. enabled /\ asked[c] = Selection[c] /\ asked \in [Chart -> Data] /\ drawn \in [Chart -> Data]
  BY <1>3 DEF PageInv, PageTyped, AsksForSelection
<1>5. Selection' = Selection /\ NoData' = NoData /\ NoData \in [Chart -> Data]
      /\ Selection["weekly"].at = weekStart
  BY <1>3, PageFacts DEF Selection, NoData, Period, Chart
<1>6. drawn' \in [Chart -> Data] /\ asked' \in [Chart -> Data] /\ drawn'[c] \in {NoData[c], Selection[c]}
      /\ asked'[c] = NoData[c] /\ \A x \in Chart \ {c} : drawn'[x] = drawn[x] /\ asked'[x] = asked[x]
  BY <1>2, <1>3, <1>4, <1>5
<1>7. AsksForSelection' /\ SettledShowsSelection'
  BY <1>3, <1>4, <1>5, <1>6 DEF PageInv, AsksForSelection, SettledShowsSelection
<1>8. /\ today \in Nat /\ cursor \in Int /\ cursor <= today /\ pendingCursor \in Int /\ pendingCursor <= today
      /\ weekStart \in Int /\ weekStart <= WeekOf(today)
      /\ drawn["weekly"] = NoData["weekly"] \/ drawn["weekly"].at <= WeekOf(today)
  BY DEF PageInv, PageTyped, UpToToday
<1>9. drawn'["weekly"] = NoData["weekly"] \/ drawn'["weekly"].at <= WeekOf(today)
  BY <1>5, <1>6, <1>8, PageFacts
<1>10. WeekShown' \in Int /\ WeekShown' <= WeekOf(today)
  BY <1>3, <1>6, <1>8, <1>9, ShownNext
<1>11. Follows(cursor, pendingCursor)
  BY <1>3, <1>8, <1>10, CursorFollows
<1>12. cursor' \in Int /\ pendingCursor' \in Int /\ cursor' <= today /\ pendingCursor' <= today
  BY <1>8, <1>10, <1>11, FollowsUpTo
<1>13. PageTyped'
  BY <1>3, <1>6, <1>12 DEF PageInv, PageTyped
<1>14. UpToToday'
  BY <1>3, <1>5, <1>9, <1>12 DEF PageInv, UpToToday
<1>15. ASSUME c = "weekly" PROVE WeekShown' = weekStart
  BY <1>3, <1>5, <1>6, <1>8, <1>9, <1>15, ShownNext
<1>16. ASSUME c = "summary", mobile
       PROVE  cursor' = cursor /\ pendingCursor' = pendingCursor /\ WeekShown' = WeekShown
  <2>1. drawn'["weekly"] = drawn["weekly"]
    BY <1>6, <1>16, PageFacts
  <2>2. WeekShown' = WeekShown
    BY <1>3, <1>5, <2>1 DEF WeekShown
  <2>3. ~e
    BY <1>1, <1>16
  <2> QED BY <1>3, <1>16, <2>2, <2>3 DEF Cursor
<1>17. ASSUME mobile, frame # NoDay, ~overlapped
       PROVE  \/ pendingCursor' = frame
              \/ pendingCursor' = NoDay /\ cursor' = frame /\ weekStart = WeekOf(frame) /\ WeekShown' = weekStart
  <2>1. \/ pendingCursor = frame
        \/ pendingCursor = NoDay /\ cursor = frame /\ weekStart = WeekOf(frame) /\ WeekShown = weekStart
    BY <1>17 DEF PageInv, FrameWaits
  <2>2. CASE c = "summary"
    BY <1>16, <1>17, <2>1, <2>2
  <2>3. CASE c = "weekly"
    <3>1. CASE pendingCursor = frame
      BY <1>11, <1>15, <1>17, <2>3, <3>1 DEF Follows
    <3>2. CASE pendingCursor = NoDay /\ cursor = frame /\ weekStart = WeekOf(frame)
      <4>1. FirstDay(weekStart) <= cursor /\ cursor <= LastDay(weekStart)
            /\ FirstDay(weekStart) \in Int /\ LastDay(weekStart) \in Int
        BY <1>8, <3>2, WeekFacts
      <4> QED BY <1>8, <1>11, <1>15, <1>17, <2>3, <3>2, <4>1 DEF Follows
    <3> QED BY <2>1, <3>1, <3>2
  <2> QED BY <2>2, <2>3, PageFacts
<1>18. FrameWaits'
  BY <1>3, <1>17 DEF FrameWaits
<1>19. ASSUME mobile, frame = NoDay, ~overlapped
       PROVE  /\ weekStart = WeekOf(wanted)
              /\ \/ cursor' = wanted /\ pendingCursor' \in {NoDay, wanted}
                 \/ pendingCursor' = NoDay /\ cursor' < wanted /\ wanted = FirstDay(weekStart)
                 \/ pendingCursor' = NoDay /\ cursor' > wanted /\ wanted = LastDay(weekStart)
  <2>1. /\ weekStart = WeekOf(wanted)
        /\ \/ cursor = wanted /\ pendingCursor \in {NoDay, wanted}
           \/ pendingCursor = NoDay /\ cursor < wanted /\ wanted = FirstDay(weekStart)
           \/ pendingCursor = NoDay /\ cursor > wanted /\ wanted = LastDay(weekStart)
    BY <1>19 DEF PageInv, ChosenIsNear
  <2>2. CASE c = "summary"
    BY <1>16, <1>19, <2>1, <2>2
  <2>3. CASE c = "weekly"
    <3>1. wanted \in Int /\ FirstDay(weekStart) <= wanted /\ wanted <= LastDay(weekStart)
          /\ FirstDay(weekStart) \in Int /\ LastDay(weekStart) \in Int
          /\ ((WeekOf(cursor) = weekStart) <=> (FirstDay(weekStart) <= cursor /\ cursor <= LastDay(weekStart)))
      <4>1. wanted \in Int
        BY DEF PageInv, PageTyped
      <4>2. weekStart = WeekOf(wanted) /\ cursor \in Int
        BY <1>8, <2>1
      <4>5. weekStart \in Int /\ FirstDay(weekStart) \in Int
            /\ LastDay(weekStart) = FirstDay(weekStart) + WeekLength - 1 /\ WeekLength \in Nat
        BY <1>8, WeekFacts
      <4>6. LastDay(weekStart) \in Int
        BY <4>5
      <4>7. FirstDay(weekStart) <= wanted /\ wanted <= LastDay(weekStart)
        BY <4>1, <4>2, <4>5, WeekFacts
      <4>3. /\ weekStart \in Int /\ FirstDay(weekStart) <= wanted /\ wanted <= LastDay(weekStart)
            /\ FirstDay(weekStart) \in Int /\ LastDay(weekStart) \in Int
        BY <4>5, <4>6, <4>7
      <4>4. (WeekOf(cursor) = weekStart) <=> (FirstDay(weekStart) <= cursor /\ cursor <= LastDay(weekStart))
        BY <4>2, <4>3, WeekFacts
      <4> QED BY <4>1, <4>3, <4>4
    <3>2. \/ cursor' = cursor /\ pendingCursor' = pendingCursor
          \/ pendingCursor # NoDay /\ cursor' = pendingCursor /\ pendingCursor' = NoDay
          \/ pendingCursor = NoDay /\ pendingCursor' = NoDay
             /\ \/ cursor < FirstDay(weekStart) /\ cursor' = FirstDay(weekStart)
                \/ cursor > LastDay(weekStart) /\ cursor' = LastDay(weekStart)
      BY <1>11, <1>15, <1>19, <2>3 DEF Follows
    <3> QED BY <1>8, <2>1, <3>1, <3>2
  <2> QED BY <2>2, <2>3, PageFacts
<1>20. ChosenIsNear'
  BY <1>3, <1>19 DEF ChosenIsNear, FirstDay, LastDay
<1> QED BY <1>7, <1>13, <1>14, <1>18, <1>20 DEF PageInv

LEMMA LateKeeps == ASSUME PageInv, NEW c \in Chart, Late(c) PROVE PageInv'
<1>1. UNCHANGED <<today, mobile, enabled, pc, bucket, anchor, weekStart, cursor, pendingCursor, frame, drawn, asked,
                  wanted, overlapped>>
  BY DEF Late
<1> QED BY <1>1, StutterKeeps

LEMMA TomorrowKeeps == ASSUME PageAssumption, PageInv, NextDay PROVE PageInv'
<1>1. /\ today' = today + 1
      /\ UNCHANGED <<mobile, enabled, pc, bucket, anchor, weekStart, cursor, pendingCursor, frame, drawn, asked,
                     wanted, overlapped>>
  BY DEF NextDay
<1>2. today \in Nat /\ today' \in Nat /\ today <= today' /\ FirstShown <= today' /\ FirstShown \in Nat
  BY <1>1 DEF PageInv, PageTyped, PageAssumption
<1>3. /\ WeekOf(today) \in Int /\ WeekOf(today') \in Int /\ WeekOf(today) <= WeekOf(today')
      /\ \A b \in Bucket : /\ Period(b, today) \in Int /\ Period(b, today') \in Int
                           /\ Period(b, today) <= Period(b, today')
  <2>1. today \in Int /\ today' \in Int
    BY <1>2
  <2>2. WeekOf(today) \in Int /\ WeekOf(today') \in Int /\ WeekOf(today) <= WeekOf(today')
    BY <1>2, <2>1, WeekFacts
  <2> QED BY <1>2, <2>2, PageFacts
<1>4. Selection' = Selection /\ NoData' = NoData /\ WeekShown' = WeekShown
  BY <1>1 DEF Selection, NoData, Period, WeekShown
<1>5. PageTyped'
  BY <1>1, <1>2 DEF PageInv, PageTyped
<1>6. UpToToday'
  <2>1. /\ cursor \in Int /\ pendingCursor \in Int /\ frame \in Int /\ weekStart \in Int
        /\ cursor <= today /\ pendingCursor <= today /\ frame <= today /\ weekStart <= WeekOf(today)
    BY PageFacts DEF PageInv, PageTyped, UpToToday
  <2>2. Period(bucket, anchor) \in Int /\ Period(bucket, anchor) <= Period(bucket, today)
    BY PageFacts DEF PageInv, PageTyped, UpToToday
  <2>3. drawn["weekly"].at \in Int /\ (drawn["weekly"] = NoData["weekly"] \/ drawn["weekly"].at <= WeekOf(today))
    <3>1. drawn["weekly"] \in Data
      BY PageFacts DEF PageInv, PageTyped
    <3> QED BY <3>1 DEF PageInv, UpToToday, Data
  <2>4. bucket \in Bucket
    BY DEF PageInv, PageTyped
  <2>5. cursor <= today' /\ pendingCursor <= today' /\ frame <= today' /\ weekStart <= WeekOf(today')
    BY <1>2, <1>3, <2>1
  <2>6. Period(bucket, anchor) <= Period(bucket, today')
    BY <1>3, <2>2, <2>4
  <2>7. drawn["weekly"] = NoData["weekly"] \/ drawn["weekly"].at <= WeekOf(today')
    BY <1>3, <2>3
  <2> QED BY <1>1, <1>4, <2>5, <2>6, <2>7 DEF UpToToday
<1>7. AsksForSelection' /\ SettledShowsSelection'
  BY <1>1, <1>4 DEF PageInv, AsksForSelection, SettledShowsSelection
<1>8. FrameWaits' /\ ChosenIsNear'
  BY <1>1, <1>4 DEF PageInv, FrameWaits, ChosenIsNear
<1> QED BY <1>5, <1>6, <1>7, <1>8 DEF PageInv

LEMMA PageInvNext == PageAssumption /\ PageInv /\ [PageNext]_pageVars => PageInv'
<1> SUFFICES ASSUME PageAssumption, PageInv, [PageNext]_pageVars PROVE PageInv'
  OBVIOUS
<1>1. ASSUME NEW d \in 0 .. LastShown, PickDate(d) PROVE PageInv'
  <2>1. d \in Nat
    BY DEF PageAssumption
  <2> QED BY <1>1, <2>1, PickKeeps
<1>2. ASSUME NEW step \in {-1, 1}, MoveDay(step) \/ MoveWeek(step) \/ MoveSummary(step) PROVE PageInv'
  BY <1>2, DayKeeps, WeekKeeps, SummaryKeeps
<1>3. ASSUME NEW b \in Bucket, ChangeBucket(b) PROVE PageInv'
  BY <1>3, BucketKeeps
<1>4. ASSUME NEW p \in PanelPc, SwitchPc(p) PROVE PageInv'
  BY <1>4, SwitchKeeps
<1>5. ASSUME NEW c \in Chart, Answer(c) \/ Late(c) PROVE PageInv'
  BY <1>5, AnswerKeeps, LateKeeps
<1>6. ASSUME Frame \/ NewData \/ TogglePanel \/ NextDay PROVE PageInv'
  BY <1>6, FrameKeeps, DataKeeps, ToggleKeeps, TomorrowKeeps
<1>7. CASE UNCHANGED pageVars
  BY <1>7, StutterKeeps DEF pageVars
<1> QED BY <1>1, <1>2, <1>3, <1>4, <1>5, <1>6, <1>7 DEF PageNext

\* Once nothing is loading, the page shows the data of what is selected; neither
\* the timeline nor the chart gets past the present; and on a mobile page the day
\* chosen last is the one shown in the end (useUptimePanelState, useUptimeNavigation).
THEOREM PageAlwaysHolds == PageSpec => []PageHolds
<1>1. PageSpec => []PageInv
  BY PageInvInit, PageInvNext, PageAssumption, PTL DEF PageSpec
<1> QED BY <1>1, PageInvHolds, PageAssumption, PTL

-----------------------------------------------------------------------------
(* The groups of the log panel.  A block of periodic rows is named after its   *)
(* oldest row; which key takes over the state of which comes from a fold over  *)
(* the keys that went away.                                                    *)

LEMMA LeastNatural ==
  ASSUME NEW S \in SUBSET Nat, S # {}
  PROVE  \E x \in S : \A y \in S : x <= y
<1>1. PICK x \in S : \A y \in S : ~(<<y, x>> \in OpToRel(<, Nat))
  BY NatLessThanWellFounded, WFMin
<1>2. \A y \in S : ~(y < x)
  BY <1>1 DEF OpToRel
<1> QED BY <1>2

\* The key of the periodic block whose oldest row is m.
PeriodicKey(m) == [of |-> "periodic", at |-> m]
PeriodicKeys == {PeriodicKey(m) : m \in Nat}

LEMMA OldestIs ==
  ASSUME NEW s \in SUBSET PeriodicKeys, s # {}
  PROVE  OldestOf(s) \in s /\ \A l \in s : OldestOf(s).at <= l.at
<1> DEFINE ats == {m \in Nat : PeriodicKey(m) \in s}
<1>1. ats \in SUBSET Nat /\ ats # {}
  BY DEF PeriodicKeys
<1>2. PICK m \in ats : \A n \in ats : m <= n
  <2> HIDE DEF ats
  <2> QED BY <1>1, LeastNatural
<1>3. PeriodicKey(m) \in s /\ PeriodicKey(m).at = m
  BY DEF PeriodicKey
<1>4. \A l \in s : l.at \in ats
  BY DEF PeriodicKeys, PeriodicKey
<1>5. \E k \in s : \A l \in s : k.at <= l.at
  BY <1>2, <1>3, <1>4
<1> QED BY <1>5 DEF OldestOf

\* The map after the keys of each set, the oldest last, up to n keys.
Smaller(D, n) == {s \in SUBSET D : Cardinality(s) <= n}
GiveLast(added, h, s) ==
  IF s = {} THEN <<>> ELSE HandOver(added, OldestOf(s), h[s \ {OldestOf(s)}])

LEMMA GivenTo ==
  ASSUME NEW D \in SUBSET PeriodicKeys, IsFiniteSet(D), NEW added, NEW n \in Nat
  PROVE  \E h : h = [s \in Smaller(D, n) |-> GiveLast(added, h, s)]
<1> DEFINE Good(m) == \E h : h = [s \in Smaller(D, m) |-> GiveLast(added, h, s)]
           Wrong == {m \in Nat : ~Good(m)}
<1>0. \A s \in SUBSET D : IsFiniteSet(s) /\ Cardinality(s) \in Nat
  BY FS_Subset, FS_CardinalityType
<1>1. Good(0)
  <2> DEFINE h == [s \in Smaller(D, 0) |-> <<>>]
  <2>1. \A s \in Smaller(D, 0) : s = {}
    <3> SUFFICES ASSUME NEW s \in Smaller(D, 0) PROVE s = {}
      OBVIOUS
    <3>1. Cardinality(s) = 0 /\ IsFiniteSet(s)
      BY <1>0 DEF Smaller
    <3> QED BY <3>1, FS_EmptySet
  <2>2. \A s \in Smaller(D, 0) : GiveLast(added, h, s) = <<>>
    BY <2>1 DEF GiveLast
  <2>3. h = [s \in Smaller(D, 0) |-> GiveLast(added, h, s)]
    BY <2>2
  <2> QED BY <2>3
<1>2. ASSUME NEW m \in Nat, Good(m)
      PROVE  Good(m + 1)
  <2>1. PICK g : g = [s \in Smaller(D, m) |-> GiveLast(added, g, s)]
    BY <1>2
  <2> DEFINE h == [s \in Smaller(D, m + 1) |-> GiveLast(added, g, s)]
  <2>2. ASSUME NEW s \in Smaller(D, m + 1), s # {}
        PROVE  s \ {OldestOf(s)} \in Smaller(D, m)
    <3>1. OldestOf(s) \in s /\ s \in SUBSET D
      BY <2>2, OldestIs DEF Smaller
    <3>2. Cardinality(s \ {OldestOf(s)}) = Cardinality(s) - 1
      BY <1>0, <3>1, FS_RemoveElement
    <3>3. Cardinality(s) \in Nat /\ Cardinality(s) <= m + 1
      BY <1>0, <3>1 DEF Smaller
    <3> QED BY <3>1, <3>2, <3>3 DEF Smaller
  <2>3. \A s \in Smaller(D, m) : s \in Smaller(D, m + 1)
    BY <1>0 DEF Smaller
  <2>4. \A s \in Smaller(D, m) : h[s] = g[s]
    <3>1. \A s \in Smaller(D, m) : g[s] = GiveLast(added, g, s)
      BY <2>1
    <3> QED BY <2>3, <3>1
  <2>5. \A s \in Smaller(D, m + 1) : GiveLast(added, h, s) = GiveLast(added, g, s)
    <3> HIDE DEF h
    <3> QED BY <2>2, <2>4 DEF GiveLast
  <2>6. h = [s \in Smaller(D, m + 1) |-> GiveLast(added, h, s)]
    <3>1. [s \in Smaller(D, m + 1) |-> GiveLast(added, h, s)] = [s \in Smaller(D, m + 1) |-> GiveLast(added, g, s)]
      <4> HIDE DEF h
      <4> QED BY <2>5
    <3> QED BY <3>1
  <2> QED BY <2>6
<1>3. Wrong = {}
  <2> SUFFICES ASSUME Wrong # {} PROVE FALSE
    OBVIOUS
  <2>1. PICK m \in Wrong : \A k \in Wrong : m <= k
    BY LeastNatural, Wrong \in SUBSET Nat, Zenon
  <2>2. m \in Nat /\ ~Good(m)
    OBVIOUS
  <2>3. m # 0
    BY <1>1, <2>2
  <2> HIDE DEF Good
  <2>4. m - 1 \in Nat /\ (m - 1) + 1 = m
    BY <2>2, <2>3
  <2>5. ~Good(m - 1)
    BY <1>2, <2>2, <2>4
  <2>6. m <= m - 1
    BY <2>1, <2>4, <2>5
  <2> QED BY <2>2, <2>6
<1> QED BY <1>3

\* Giving the state of the oldest key last.
Gives(D, added, h) == h = [s \in SUBSET D |-> GiveLast(added, h, s)]

LEMMA TransferGives ==
  ASSUME NEW D \in SUBSET PeriodicKeys, IsFiniteSet(D), NEW added
  PROVE  \E h : Gives(D, added, h) /\ Transfer(D, added) = h[D]
<1> DEFINE h == CHOOSE h : Gives(D, added, h)
<1>1. Transfer(D, added) = h[D]
  BY DEF Transfer, MapThenFoldSet, Gives, GiveLast
<1>2. Cardinality(D) \in Nat
  BY FS_CardinalityType
<1>3. Smaller(D, Cardinality(D)) = SUBSET D
  <2>1. \A s \in SUBSET D : Cardinality(s) <= Cardinality(D)
    BY FS_Subset
  <2> QED BY <2>1 DEF Smaller
<1>4. \E g : Gives(D, added, g)
  <2> DEFINE n == Cardinality(D)
  <2>1. PICK g : g = [s \in Smaller(D, n) |-> GiveLast(added, g, s)]
    BY <1>2, GivenTo
  <2>2. [s \in Smaller(D, n) |-> GiveLast(added, g, s)] = [s \in SUBSET D |-> GiveLast(added, g, s)]
    BY <1>3, Zenon
  <2> HIDE DEF n
  <2> QED BY <2>1, <2>2, Zenon DEF Gives
<1> QED BY <1>1, <1>4

\* The newest key that went away gives its state to the nearest added key, and
\* if there is no other, no other key gets one.
LEMMA NewestGives ==
  ASSUME NEW D \in SUBSET PeriodicKeys, IsFiniteSet(D), NEW added, NEW a \in added,
         NEW k \in D, \A l \in D : l.at <= k.at, Nearest(k, added) = a
  PROVE  /\ a \in DOMAIN Transfer(D, added) /\ Transfer(D, added)[a] = k
         /\ D = {k} => DOMAIN Transfer(D, added) = {a}
<1>1. PICK h : Gives(D, added, h) /\ Transfer(D, added) = h[D]
  BY TransferGives
<1>2. \A s \in SUBSET D : h[s] = GiveLast(added, h, s)
  BY <1>1 DEF Gives
<1>3. h[{}] = <<>>
  BY <1>2 DEF GiveLast
<1>4. h[{k}] = [b \in DOMAIN <<>> \cup {a} |-> IF b \in DOMAIN <<>> THEN <<>>[b] ELSE k]
  <2>1. {k} \in SUBSET D /\ {k} # {} /\ {k} \ {k} = {}
    OBVIOUS
  <2>2. OldestOf({k}) = k
    <3>1. {k} \in SUBSET PeriodicKeys
      OBVIOUS
    <3> QED BY <3>1, <2>1, OldestIs
  <2>3. h[{k}] = HandOver(added, k, <<>>)
    <3>1. h[{k}] = GiveLast(added, h, {k})
      BY <1>2, <2>1
    <3>2. GiveLast(added, h, {k}) = HandOver(added, k, h[{k} \ {k}])
      BY <2>1, <2>2 DEF GiveLast
    <3> QED BY <1>3, <2>1, <3>1, <3>2
  <2>4. added \ DOMAIN <<>> = added
    OBVIOUS
  <2> QED BY <2>3, <2>4 DEF HandOver
<1>5. DOMAIN h[{k}] = {a} /\ h[{k}][a] = k
  <2>1. DOMAIN <<>> = {}
    OBVIOUS
  <2> QED BY <1>4, <2>1
<1> DEFINE Right(s) == a \in DOMAIN h[s] /\ h[s][a] = k
           Wrong == {m \in Nat : \E s \in SUBSET D : k \in s /\ Cardinality(s) = m /\ ~Right(s)}
<1>6. Wrong = {}
  <2> SUFFICES ASSUME Wrong # {} PROVE FALSE
    OBVIOUS
  <2>1. PICK m \in Wrong : \A n \in Wrong : m <= n
    BY LeastNatural, Wrong \in SUBSET Nat, Zenon
  <2>2. PICK s \in SUBSET D : k \in s /\ Cardinality(s) = m /\ ~Right(s)
    OBVIOUS
  <2>3. PICK o : o = OldestOf(s)
    OBVIOUS
  <2>4. o \in s /\ s # {} /\ s \in SUBSET PeriodicKeys /\ \A l \in s : o.at <= l.at
    <3>1. s # {} /\ s \in SUBSET PeriodicKeys
      BY <2>2
    <3> QED BY <2>3, <3>1, OldestIs
  <2>5. CASE o = k
    <3>1. \A l \in s : l.at = k.at
      <4>1. \A l \in PeriodicKeys : l.at \in Nat
        BY DEF PeriodicKeys, PeriodicKey
      <4> QED BY <2>4, <2>5, <4>1
    <3>2. s = {k}
      BY <2>2, <2>4, <3>1 DEF PeriodicKeys, PeriodicKey
    <3> QED BY <1>5, <2>2, <3>2
  <2>6. CASE o # k
    <3>1. h[s] = HandOver(added, o, h[s \ {o}])
      BY <1>2, <2>3, <2>4 DEF GiveLast
    <3>2. ~Right(s \ {o})
      <4> SUFFICES ASSUME Right(s \ {o}) PROVE Right(s)
        BY <2>2
      <4>1. CASE added \ DOMAIN h[s \ {o}] = {}
        BY <3>1, <4>1 DEF HandOver
      <4>2. CASE added \ DOMAIN h[s \ {o}] # {}
        <5> DEFINE map == h[s \ {o}]
                   c == Nearest(o, added \ DOMAIN map)
        <5>1. h[s] = [b \in DOMAIN map \cup {c} |-> IF b \in DOMAIN map THEN map[b] ELSE o]
          BY <3>1, <4>2 DEF HandOver
        <5> HIDE DEF c
        <5> QED BY <5>1
      <4> QED BY <4>1, <4>2
    <3>3. IsFiniteSet(s) /\ Cardinality(s) \in Nat
      BY FS_Subset, FS_CardinalityType
    <3>4. Cardinality(s \ {o}) = m - 1 /\ Cardinality(s \ {o}) \in Nat
      BY <2>2, <2>4, <3>3, FS_RemoveElement, FS_Subset, FS_CardinalityType
    <3>5. k \in s \ {o} /\ s \ {o} \in SUBSET D
      BY <2>2, <2>6
    <3>6. m - 1 \in Wrong
      BY <3>2, <3>4, <3>5
    <3> HIDE DEF Wrong
    <3>7. m <= m - 1
      BY <2>1, <3>6
    <3> QED BY <2>2, <3>3, <3>7
  <2> QED BY <2>5, <2>6
<1>7. Cardinality(D) \in Nat
  BY FS_CardinalityType
<1>8. Right(D)
  BY <1>6, <1>7
<1> QED BY <1>1, <1>5, <1>8

LEMMA NothingGiven ==
  ASSUME NEW added
  PROVE  DOMAIN Transfer({}, added) = {}
<1>1. {} \in SUBSET PeriodicKeys /\ IsFiniteSet({})
  BY FS_EmptySet
<1>2. PICK h : Gives({}, added, h) /\ Transfer({}, added) = h[{}]
  BY <1>1, TransferGives
<1>3. h[{}] = <<>>
  BY <1>2 DEF Gives, GiveLast
<1> QED BY <1>2, <1>3

\* The rows between i and j are of one kind.
Alike(i, j) == \A k \in (i .. j) \cup (j .. i) : written[k] = written[i]

LEMMA AlikeRows ==
  /\ \A i \in Nat : Alike(i, i)
  /\ \A i, j \in Nat : Alike(i, j) => Alike(j, i) /\ written[j] = written[i]
  /\ \A i, j, k \in Nat : Alike(i, j) /\ Alike(j, k) => Alike(i, k)
  /\ \A i, j, k \in Nat : Alike(i, j) /\ ((i <= k /\ k <= j) \/ (j <= k /\ k <= i)) => Alike(i, k)
<1>1. \A i \in Nat : Alike(i, i)
  BY DEF Alike
<1>2. ASSUME NEW i \in Nat, NEW j \in Nat, Alike(i, j)
      PROVE  Alike(j, i) /\ written[j] = written[i]
  <2>1. written[j] = written[i]
    <3>1. j \in (i .. j) \cup (j .. i)
      OBVIOUS
    <3> QED BY <1>2, <3>1 DEF Alike
  <2> QED BY <1>2, <2>1 DEF Alike
<1>3. ASSUME NEW i \in Nat, NEW j \in Nat, NEW k \in Nat, Alike(i, j), Alike(j, k)
      PROVE  Alike(i, k)
  <2>1. written[j] = written[i]
    BY <1>2, <1>3
  <2>2. \A n \in (i .. k) \cup (k .. i) : n \in (i .. j) \cup (j .. i) \/ n \in (j .. k) \cup (k .. j)
    OBVIOUS
  <2> QED BY <1>3, <2>1, <2>2 DEF Alike
<1>4. ASSUME NEW i \in Nat, NEW j \in Nat, NEW k \in Nat, Alike(i, j), (i <= k /\ k <= j) \/ (j <= k /\ k <= i)
      PROVE  Alike(i, k)
  <2>1. \A n \in (i .. k) \cup (k .. i) : n \in (i .. j) \cup (j .. i)
    BY <1>4
  <2> QED BY <1>4, <2>1 DEF Alike
<1> QED BY <1>1, <1>2, <1>3, <1>4

LEMMA BlockRows ==
  ASSUME NEW i, NEW rows
  PROVE  Block(i, rows) = {j \in rows : Alike(i, j)}
BY DEF Block, Alike

\* The oldest row of a periodic block.
HeadRow(m, rows) == m \in rows /\ written[m] = "periodic" /\ \A j \in rows : Alike(m, j) => m <= j

LEMMA HasHead ==
  ASSUME NEW rows \in SUBSET Nat, NEW i \in rows, written[i] = "periodic"
  PROVE  \E m \in rows : HeadRow(m, rows) /\ Alike(m, i) /\ Alike(i, m)
<1> DEFINE S == {j \in rows : Alike(i, j)}
<1>1. S \in SUBSET Nat /\ S # {}
  BY AlikeRows
<1>2. PICK m \in S : \A j \in S : m <= j
  <2> HIDE DEF S
  <2> QED BY <1>1, LeastNatural
<1>3. Alike(m, i) /\ Alike(i, m) /\ written[m] = "periodic"
  BY AlikeRows
<1>4. ASSUME NEW j \in rows, Alike(m, j)
      PROVE  m <= j
  BY <1>2, <1>3, <1>4, AlikeRows
<1> QED BY <1>3, <1>4 DEF HeadRow

LEMMA MinBlock ==
  ASSUME NEW rows \in SUBSET Nat, NEW i \in rows, NEW m \in rows, Alike(i, m), HeadRow(m, rows)
  PROVE  Min(Block(i, rows)) = m /\ Block(i, rows) = Block(m, rows)
<1>1. Block(i, rows) = Block(m, rows)
  BY AlikeRows, BlockRows, rows \in SUBSET Nat
<1>2. m \in Block(m, rows) /\ \A j \in Block(m, rows) : m <= j
  BY AlikeRows, BlockRows DEF HeadRow
<1>3. \A x \in Block(m, rows) : (\A y \in Block(m, rows) : x <= y) => x = m
  <2>1. Block(m, rows) \in SUBSET Nat
    BY BlockRows
  <2>2. m \in Nat
    OBVIOUS
  <2> QED BY <1>2, <2>1, <2>2
<1> QED BY <1>1, <1>2, <1>3 DEF Min

LEMMA PeriodicGroups ==
  ASSUME NEW rows \in SUBSET Nat
  PROVE  /\ \A g \in Groups(rows) : g.key.of = "periodic" =>
              \E m \in rows : HeadRow(m, rows) /\ g.key = PeriodicKey(m) /\ g.rows = Block(m, rows)
         /\ \A m \in rows : HeadRow(m, rows) =>
              [key |-> PeriodicKey(m), rows |-> Block(m, rows)] \in Groups(rows)
<1>1. ASSUME NEW g \in Groups(rows), g.key.of = "periodic"
      PROVE  \E m \in rows : HeadRow(m, rows) /\ g.key = PeriodicKey(m) /\ g.rows = Block(m, rows)
  <2>1. PICK i \in rows : g = [key |-> KeyOf(i, rows), rows |-> RowsWith(i, rows)]
    BY DEF Groups
  <2>2. written[i] = "periodic"
    <3>1. KeyOf(i, rows).of = written[i]
      BY DEF KeyOf
    <3> QED BY <1>1, <2>1, <3>1
  <2>3. PICK m \in rows : HeadRow(m, rows) /\ Alike(m, i) /\ Alike(i, m)
    BY <2>2, HasHead
  <2>4. Min(Block(i, rows)) = m /\ Block(i, rows) = Block(m, rows)
    BY <2>3, MinBlock
  <2>5. g.key = PeriodicKey(m)
    BY <2>1, <2>2, <2>4 DEF KeyOf, PeriodicKey
  <2>6. "periodic" \notin LogJob
    BY GroupAssumption
  <2>7. g.rows = Block(m, rows)
    BY <2>1, <2>2, <2>4, <2>6 DEF RowsWith
  <2> QED BY <2>3, <2>5, <2>7
<1>2. ASSUME NEW m \in rows, HeadRow(m, rows)
      PROVE  [key |-> PeriodicKey(m), rows |-> Block(m, rows)] \in Groups(rows)
  <2>1. written[m] = "periodic" /\ Alike(m, m)
    BY <1>2, AlikeRows DEF HeadRow
  <2>2. Min(Block(m, rows)) = m
    BY <1>2, <2>1, MinBlock
  <2>3. KeyOf(m, rows) = PeriodicKey(m)
    BY <2>1, <2>2 DEF KeyOf, PeriodicKey
  <2>4. "periodic" \notin LogJob
    BY GroupAssumption
  <2>5. RowsWith(m, rows) = Block(m, rows)
    BY <2>1, <2>4 DEF RowsWith
  <2> QED BY <2>3, <2>5 DEF Groups
<1> QED BY <1>1, <1>2

LEMMA NearestIs ==
  ASSUME NEW added \in SUBSET PeriodicKeys, NEW h \in Nat, NEW a \in Nat, PeriodicKey(a) \in added,
         \A m \in Nat : PeriodicKey(m) \in added /\ m # a => (h < a /\ a < m) \/ (m < a /\ a < h)
  PROVE  Nearest(PeriodicKey(h), added) = PeriodicKey(a)
<1> DEFINE far(c) == IF c.at > PeriodicKey(h).at THEN c.at - PeriodicKey(h).at ELSE PeriodicKey(h).at - c.at
           nearest(x) == \A b \in added : far(x) < far(b) \/ (far(x) = far(b) /\ x.at >= b.at)
<1>1. \A m \in Nat : far(PeriodicKey(m)) = IF m > h THEN m - h ELSE h - m
  BY DEF PeriodicKey
<1>2. \A m \in Nat : PeriodicKey(m).at = m
  BY DEF PeriodicKey
<1>3. \A b \in added : \E m \in Nat : b = PeriodicKey(m)
  BY DEF PeriodicKeys
<1>4. Nearest(PeriodicKey(h), added) = CHOOSE x \in added : nearest(x)
  BY DEF Nearest
<1> HIDE DEF far
<1>5. nearest(PeriodicKey(a))
  BY <1>1, <1>2, <1>3
<1>6. ASSUME NEW x \in added, nearest(x)
      PROVE  x = PeriodicKey(a)
  <2>1. PICK m \in Nat : x = PeriodicKey(m)
    BY <1>3
  <2>2. far(PeriodicKey(m)) <= far(PeriodicKey(a))
    BY <1>1, <1>6, <2>1
  <2> QED BY <1>1, <2>1, <2>2
<1> HIDE DEF nearest
<1> QED BY <1>4, <1>5, <1>6

\* The list now shows the rows first .. last, and is to show from .. to: a reload
\* or an older page.
ListMoves(from, to) ==
  /\ first \in Nat /\ last \in Nat /\ from \in Nat /\ to \in Nat
  /\ \/ first <= from /\ last <= to
     \/ from < first /\ first <= last /\ to = last

Gone(h, rows) == HeadRow(h, Shown) /\ ~HeadRow(h, rows)
Came(m, rows) == HeadRow(m, rows) /\ ~HeadRow(m, Shown)

\* Of the blocks whose key goes away at most one keeps rows on the list. It is the
\* newest of them, and its new key is the nearest of those that come.
LEMMA OneIsCut ==
  ASSUME NEW from, NEW to, ListMoves(from, to), NEW h \in Nat, Gone(h, from .. to),
         NEW i \in Shown \cap (from .. to), Alike(h, i)
  PROVE  /\ \A n \in Nat : Gone(n, from .. to) => n <= h
         /\ \E a \in Nat :
              /\ Came(a, from .. to) /\ Alike(h, a)
              /\ \A m \in Nat : Came(m, from .. to) /\ m # a => (h < a /\ a < m) \/ (m < a /\ a < h)
<1> DEFINE rows == from .. to
<1>t. /\ rows \in SUBSET Nat /\ Shown \in SUBSET Nat /\ i \in Nat
      /\ first \in Nat /\ last \in Nat /\ from \in Nat /\ to \in Nat
  BY DEF ListMoves, Shown
<1>s. \A n \in Nat : n \in Shown <=> first <= n /\ n <= last
  BY <1>t DEF Shown
<1>r. \A n \in Nat : n \in rows <=> from <= n /\ n <= to
  BY <1>t
<1>h. h \in Shown /\ written[h] = "periodic" /\ \A j \in Shown : Alike(h, j) => h <= j
  BY DEF Gone, HeadRow
<1>i. written[i] = "periodic" /\ Alike(i, h) /\ i \in Shown /\ i \in rows
  BY <1>t, <1>h, AlikeRows
<1> HIDE DEF rows
<1>1. CASE first <= from /\ last <= to
  <2>1. ASSUME NEW n \in Nat, Gone(n, rows)
        PROVE  n < from
    <3> SUFFICES ASSUME from <= n PROVE FALSE
      BY <1>t
    <3>1. n \in Shown /\ written[n] = "periodic" /\ \A j \in Shown : Alike(n, j) => n <= j
      BY <2>1 DEF Gone, HeadRow
    <3>2. n \in rows
      BY <1>t, <1>1, <1>r, <1>s, <3>1
    <3>3. PICK j \in rows : Alike(n, j) /\ ~(n <= j)
      BY <2>1, <3>1, <3>2 DEF Gone, HeadRow
    <3>4. j \in Shown
      BY <1>t, <1>1, <1>r, <1>s, <3>1, <3>3
    <3> QED BY <3>1, <3>3, <3>4
  <2>2. h < from
    BY <2>1 DEF rows
  <2>3. from \in Shown /\ from \in rows
    BY <1>t, <1>1, <1>i, <1>r, <1>s
  <2>4. Alike(h, from) /\ Alike(from, h)
    <3>1. h <= from /\ from <= i
      BY <1>t, <1>i, <1>r, <2>2
    <3> QED BY <1>t, <3>1, AlikeRows
  <2>5. written[from] = "periodic"
    BY <1>t, <1>h, <2>4, AlikeRows
  <2>6. Came(from, rows)
    <3>1. HeadRow(from, rows)
      BY <1>t, <1>r, <2>3, <2>5 DEF HeadRow
    <3>2. ~HeadRow(from, Shown)
      BY <1>t, <1>h, <2>2, <2>4 DEF HeadRow
    <3> QED BY <3>1, <3>2 DEF Came
  <2>7. \A m \in Nat : Came(m, rows) /\ m # from => h < from /\ from < m
    BY <1>t, <1>r, <2>2 DEF Came, HeadRow
  <2>8. ASSUME NEW n \in Nat, Gone(n, rows)
        PROVE  n <= h
    <3> SUFFICES ASSUME h < n PROVE FALSE
      OBVIOUS
    <3>1. n < from
      BY <2>1, <2>8
    <3>2. Alike(h, n)
      <4>1. h <= n /\ n <= from
        BY <1>t, <3>1
      <4> QED BY <1>t, <2>4, <4>1, AlikeRows
    <3>3. Alike(n, h)
      BY <3>2, AlikeRows
    <3> QED BY <1>h, <2>8, <3>3 DEF Gone, HeadRow
  <2> QED BY <1>t, <2>4, <2>6, <2>7, <2>8 DEF rows
<1>2. CASE from < first /\ first <= last /\ to = last
  <2>1. ASSUME NEW n \in Nat, Gone(n, rows)
        PROVE  /\ n = first
               /\ \E j \in rows : j < first /\ Alike(n, j)
    <3>1. n \in Shown /\ written[n] = "periodic" /\ \A j \in Shown : Alike(n, j) => n <= j
      BY <2>1 DEF Gone, HeadRow
    <3>2. n \in rows
      BY <1>t, <1>2, <1>r, <1>s, <3>1
    <3>3. PICK j \in rows : Alike(n, j) /\ ~(n <= j)
      BY <2>1, <3>1, <3>2 DEF Gone, HeadRow
    <3>4. j \in Nat /\ j < n
      BY <1>t, <3>3
    <3>5. j < first
      <4> SUFFICES ASSUME first <= j PROVE FALSE
        BY <1>t, <3>4
      <4>1. j \in Shown
        BY <1>t, <1>s, <3>1, <3>4
      <4> QED BY <3>1, <3>3, <4>1
    <3>6. first <= n /\ first \in Shown
      BY <1>t, <1>2, <1>s, <3>1
    <3>7. Alike(n, first)
      <4>1. j <= first /\ first <= n
        BY <1>t, <3>4, <3>5, <3>6
      <4> QED BY <1>t, <3>3, <3>4, <4>1, AlikeRows
    <3>8. n <= first
      BY <3>1, <3>6, <3>7
    <3> QED BY <1>t, <3>3, <3>5, <3>6, <3>8
  <2>2. h = first /\ \E j \in rows : j < first /\ Alike(h, j)
    BY <2>1 DEF rows
  <2>3. PICK j \in rows : j < first /\ Alike(h, j)
    BY <2>2
  <2>4. h \in rows
    BY <1>t, <1>2, <1>h, <1>r, <1>s
  <2>5. PICK a \in rows : HeadRow(a, rows) /\ Alike(a, h) /\ Alike(h, a)
    BY <1>t, <1>h, <2>4, HasHead
  <2>6. a \in Nat /\ a < first
    <3>1. Alike(a, j)
      BY <1>t, <2>3, <2>5, AlikeRows
    <3>2. a <= j
      BY <2>5, <3>1 DEF HeadRow
    <3> QED BY <1>t, <2>3, <3>2
  <2>7. Came(a, rows)
    <3>1. a \notin Shown
      BY <1>t, <1>s, <2>6
    <3> QED BY <2>5, <3>1 DEF Came, HeadRow
  <2>8. ASSUME NEW m \in Nat, Came(m, rows), m # a
        PROVE  m < a /\ a < h
    <3>1. m \in rows /\ written[m] = "periodic" /\ \A n \in rows : Alike(m, n) => m <= n
      BY <2>8 DEF Came, HeadRow
    <3>2. m < first
      <4> SUFFICES ASSUME first <= m PROVE FALSE
        BY <1>t
      <4>1. m \in Shown
        BY <1>t, <1>2, <1>r, <1>s, <3>1
      <4>2. PICK n \in Shown : Alike(m, n) /\ ~(m <= n)
        BY <2>8, <3>1, <4>1 DEF Came, HeadRow
      <4>3. n \in rows
        BY <1>t, <1>2, <1>r, <1>s, <4>2
      <4> QED BY <3>1, <4>2, <4>3
    <3>3. ~(a < m)
      <4> SUFFICES ASSUME a < m PROVE FALSE
        OBVIOUS
      <4>1. a <= m /\ m <= h
        BY <1>t, <2>2, <2>6, <3>2
      <4>2. Alike(a, m) /\ Alike(m, a)
        BY <1>t, <2>5, <2>6, <4>1, AlikeRows
      <4>3. m <= a
        BY <2>5, <3>1, <4>2
      <4> QED BY <2>6, <4>3
    <3> QED BY <1>t, <2>2, <2>6, <2>8, <3>3
  <2>9. \A n \in Nat : Gone(n, rows) => n <= h
    BY <1>t, <2>1, <2>2
  <2> QED BY <2>5, <2>6, <2>7, <2>8, <2>9 DEF rows
<1> QED BY <1>1, <1>2 DEF ListMoves

-----------------------------------------------------------------------------
(* The inductive invariant: what the user has open, and what may have been     *)
(* inherited, are whole blocks of the list; a folded or known key of periodic  *)
(* rows is the key of such a block.                                            *)

OnList ==
  /\ written \in Seq(Kind) /\ first \in Nat \ {0} /\ last \in Nat /\ last <= Len(written)
  /\ first = 1 \/ first <= last - PageLength + 1
KnownKeys ==
  /\ \A k \in current : k.of = "periodic" => k \in PeriodicKeys
  /\ \A m \in Nat : PeriodicKey(m) \in current <=> HeadRow(m, Shown)
FoldedAreKnown == \A m \in Nat : PeriodicKey(m) \in collapsed => HeadRow(m, Shown)
Whole(set) ==
  /\ set \subseteq Shown
  /\ \A i \in set : written[i] = "periodic" /\ \A j \in Shown : Alike(i, j) => j \in set
Untouched(m, set) == \A j \in Shown : Alike(m, j) => j \notin set
Folded ==
  \A m \in Nat : HeadRow(m, Shown) =>
    /\ ~Untouched(m, opened) => PeriodicKey(m) \notin collapsed
    /\ Untouched(m, opened) /\ Untouched(m, inherited) => PeriodicKey(m) \in collapsed
GroupInv == OnList /\ KnownKeys /\ FoldedAreKnown /\ Whole(opened) /\ Whole(inherited) /\ Folded

LEMMA ShownRows ==
  ASSUME OnList
  PROVE  /\ Shown \in SUBSET Nat /\ IsFiniteSet(Shown)
         /\ \A n \in Nat : n \in Shown <=> first <= n /\ n <= last
<1>1. first \in Nat /\ last \in Nat
  BY DEF OnList
<1> QED BY <1>1, FS_Interval DEF Shown

LEMMA FoldsAreRight == GroupInv => FoldsFollowBlocks
<1> SUFFICES ASSUME GroupInv, NEW g \in Groups(Shown), g.key.of = "periodic"
             PROVE  /\ g.rows \cap opened # {} => g.key \notin collapsed
                    /\ g.rows \cap (opened \cup inherited) = {} => g.key \in collapsed
  BY DEF FoldsFollowBlocks
<1>1. Shown \in SUBSET Nat
  BY ShownRows DEF GroupInv
<1>2. PICK m \in Shown : HeadRow(m, Shown) /\ g.key = PeriodicKey(m) /\ g.rows = Block(m, Shown)
  BY <1>1, PeriodicGroups
<1>3. m \in Nat
  BY <1>1
<1>4. \A set : Untouched(m, set) <=> g.rows \cap set = {}
  BY <1>2, BlockRows DEF Untouched
<1>5. g.rows \cap (opened \cup inherited) = {} => Untouched(m, opened) /\ Untouched(m, inherited)
  <2>1. g.rows \cap (opened \cup inherited) = {} => g.rows \cap opened = {} /\ g.rows \cap inherited = {}
    OBVIOUS
  <2> QED BY <1>4, <2>1
<1>6. Untouched(m, opened) <=> g.rows \cap opened = {}
  BY <1>4
<1> QED BY <1>2, <1>3, <1>5, <1>6 DEF GroupInv, Folded

GoneKeys(rows) == {k \in PeriodicKeys : \E n \in Nat : k = PeriodicKey(n) /\ Gone(n, rows)}
CameKeys(rows) == {k \in PeriodicKeys : \E m \in Nat : k = PeriodicKey(m) /\ Came(m, rows)}

LEMMA PeriodicKeyIs ==
  /\ \A m \in Nat : PeriodicKey(m) \in PeriodicKeys
  /\ \A m : PeriodicKey(m).at = m /\ PeriodicKey(m).of = "periodic"
  /\ \A m, n : PeriodicKey(m) = PeriodicKey(n) => m = n
BY DEF PeriodicKeys, PeriodicKey

LEMMA KeysAre ==
  ASSUME NEW rows \in SUBSET Nat
  PROVE  /\ \A k \in Keys(rows) : k.of = "periodic" => k \in PeriodicKeys
         /\ \A m \in Nat : PeriodicKey(m) \in Keys(rows) <=> HeadRow(m, rows)
<1>1. ASSUME NEW k \in Keys(rows), k.of = "periodic"
      PROVE  \E m \in rows : k = PeriodicKey(m) /\ HeadRow(m, rows)
  <2>1. PICK g \in Groups(rows) : k = g.key
    BY DEF Keys
  <2> QED BY <1>1, <2>1, PeriodicGroups
<1>2. ASSUME NEW m \in Nat, HeadRow(m, rows)
      PROVE  PeriodicKey(m) \in Keys(rows)
  <2>1. m \in rows
    BY <1>2 DEF HeadRow
  <2>2. PICK g \in Groups(rows) : g = [key |-> PeriodicKey(m), rows |-> Block(m, rows)]
    BY <1>2, <2>1, PeriodicGroups
  <2>3. g.key = PeriodicKey(m)
    BY <2>2
  <2> QED BY <2>3 DEF Keys
<1>3. ASSUME NEW m \in Nat, PeriodicKey(m) \in Keys(rows)
      PROVE  HeadRow(m, rows)
  BY <1>1, <1>3, PeriodicKeyIs
<1> QED BY <1>1, <1>2, <1>3, PeriodicKeyIs

LEMMA ChangedKeys ==
  ASSUME KnownKeys, NEW rows \in SUBSET Nat
  PROVE  /\ Periodic(current \ Keys(rows)) = GoneKeys(rows)
         /\ Periodic(Keys(rows) \ current) = CameKeys(rows)
<1>1. ASSUME NEW k, k \in Periodic(current \ Keys(rows))
      PROVE  k \in GoneKeys(rows)
  <2>1. k \in current /\ k \notin Keys(rows) /\ k.of = "periodic"
    BY <1>1 DEF Periodic
  <2>2. PICK m \in Nat : k = PeriodicKey(m)
    BY <2>1 DEF KnownKeys, PeriodicKeys
  <2>3. Gone(m, rows)
    BY <2>1, <2>2, KeysAre DEF KnownKeys, Gone
  <2> QED BY <2>2, <2>3, PeriodicKeyIs DEF GoneKeys
<1>2. ASSUME NEW k, k \in GoneKeys(rows)
      PROVE  k \in Periodic(current \ Keys(rows))
  <2>1. PICK n \in Nat : k = PeriodicKey(n) /\ Gone(n, rows)
    BY <1>2 DEF GoneKeys
  <2>2. k \in current /\ k \notin Keys(rows)
    BY <2>1, KeysAre DEF KnownKeys, Gone
  <2> QED BY <2>1, <2>2, PeriodicKeyIs DEF Periodic
<1>3. ASSUME NEW k, k \in Periodic(Keys(rows) \ current)
      PROVE  k \in CameKeys(rows)
  <2>1. k \notin current /\ k \in Keys(rows) /\ k.of = "periodic"
    BY <1>3 DEF Periodic
  <2>2. PICK m \in Nat : k = PeriodicKey(m)
    BY <2>1, KeysAre DEF PeriodicKeys
  <2>3. Came(m, rows)
    BY <2>1, <2>2, KeysAre DEF KnownKeys, Came
  <2> QED BY <2>2, <2>3, PeriodicKeyIs DEF CameKeys
<1>4. ASSUME NEW k, k \in CameKeys(rows)
      PROVE  k \in Periodic(Keys(rows) \ current)
  <2>1. PICK n \in Nat : k = PeriodicKey(n) /\ Came(n, rows)
    BY <1>4 DEF CameKeys
  <2>2. k \notin current /\ k \in Keys(rows)
    BY <2>1, KeysAre DEF KnownKeys, Came
  <2> QED BY <2>1, <2>2, PeriodicKeyIs DEF Periodic
<1> QED BY <1>1, <1>2, <1>3, <1>4

LEMMA GoneFinite ==
  ASSUME OnList, NEW rows
  PROVE  IsFiniteSet(GoneKeys(rows))
<1> DEFINE f == [n \in Shown |-> PeriodicKey(n)]
           T == {PeriodicKey(n) : n \in Shown}
<1>1. IsFiniteSet(Shown)
  BY ShownRows
<1>2. f \in Surjection(Shown, T)
  BY DEF Surjection
<1>3. IsFiniteSet(T)
  BY <1>1, <1>2, FS_Surjection
<1>4. GoneKeys(rows) \in SUBSET T
  BY DEF GoneKeys, Gone, HeadRow
<1> QED BY <1>3, <1>4, FS_Subset

\* Where the states go that are taken over: the block that keeps rows gives its
\* state to itself, and if no block goes away with all its rows, no other is given.
LEMMA TakenOver ==
  ASSUME OnList, NEW from, NEW to, ListMoves(from, to)
  PROVE  /\ \A h \in Nat, i \in Shown \cap (from .. to) :
              Gone(h, from .. to) /\ Alike(h, i) =>
                \E a \in Nat :
                  /\ Came(a, from .. to) /\ Alike(h, a)
                  /\ PeriodicKey(a) \in DOMAIN Transfer(GoneKeys(from .. to), CameKeys(from .. to))
                  /\ Transfer(GoneKeys(from .. to), CameKeys(from .. to))[PeriodicKey(a)] = PeriodicKey(h)
         /\ (\A n \in Nat : Gone(n, from .. to) => \E i \in Shown \cap (from .. to) : Alike(n, i)) =>
              \A m \in Nat : PeriodicKey(m) \in DOMAIN Transfer(GoneKeys(from .. to), CameKeys(from .. to)) =>
                \E h \in Nat : Gone(h, from .. to) /\ Alike(h, m)
<1> DEFINE rows == from .. to
           D == GoneKeys(rows)
           A == CameKeys(rows)
<1>1. D \in SUBSET PeriodicKeys /\ A \in SUBSET PeriodicKeys /\ IsFiniteSet(D)
  BY GoneFinite DEF GoneKeys, CameKeys
<1>2. \A n \in Nat : PeriodicKey(n) \in D <=> Gone(n, rows)
  BY PeriodicKeyIs DEF GoneKeys
<1>3. \A n \in Nat : PeriodicKey(n) \in A <=> Came(n, rows)
  BY PeriodicKeyIs DEF CameKeys
<1>d. \A k \in D : \E n \in Nat : k = PeriodicKey(n) /\ Gone(n, rows)
  BY DEF GoneKeys
<1>4. ASSUME NEW h \in Nat, NEW i \in Shown \cap rows, Gone(h, rows), Alike(h, i)
      PROVE  \E a \in Nat :
               /\ Came(a, rows) /\ Alike(h, a)
               /\ PeriodicKey(a) \in DOMAIN Transfer(D, A)
               /\ Transfer(D, A)[PeriodicKey(a)] = PeriodicKey(h)
               /\ D = {PeriodicKey(h)} => DOMAIN Transfer(D, A) = {PeriodicKey(a)}
  <2>1. /\ \A n \in Nat : Gone(n, rows) => n <= h
        /\ \E a \in Nat :
             /\ Came(a, rows) /\ Alike(h, a)
             /\ \A m \in Nat : Came(m, rows) /\ m # a => (h < a /\ a < m) \/ (m < a /\ a < h)
    BY <1>4, OneIsCut
  <2>2. PICK a \in Nat :
             /\ Came(a, rows) /\ Alike(h, a)
             /\ \A m \in Nat : Came(m, rows) /\ m # a => (h < a /\ a < m) \/ (m < a /\ a < h)
    BY <2>1
  <2> HIDE DEF D, A, rows
  <2>3. PeriodicKey(h) \in D /\ PeriodicKey(a) \in A
    BY <1>2, <1>3, <1>4, <2>2
  <2>4. \A l \in D : l.at <= PeriodicKey(h).at
    BY <1>d, <2>1, PeriodicKeyIs
  <2>5. Nearest(PeriodicKey(h), A) = PeriodicKey(a)
    <3>1. \A m \in Nat : PeriodicKey(m) \in A /\ m # a => (h < a /\ a < m) \/ (m < a /\ a < h)
      BY <1>3, <2>2
    <3> QED BY <1>1, <2>3, <3>1, NearestIs
  <2>6. /\ PeriodicKey(a) \in DOMAIN Transfer(D, A) /\ Transfer(D, A)[PeriodicKey(a)] = PeriodicKey(h)
        /\ D = {PeriodicKey(h)} => DOMAIN Transfer(D, A) = {PeriodicKey(a)}
    BY <1>1, <2>3, <2>4, <2>5, NewestGives
  <2> QED BY <2>2, <2>6
<1>5. ASSUME \A n \in Nat : Gone(n, rows) => \E i \in Shown \cap rows : Alike(n, i),
             NEW m \in Nat, PeriodicKey(m) \in DOMAIN Transfer(D, A)
      PROVE  \E h \in Nat : Gone(h, rows) /\ Alike(h, m)
  <2>1. D # {}
    <3> SUFFICES ASSUME D = {} PROVE FALSE
      OBVIOUS
    <3>1. DOMAIN Transfer({}, A) = {}
      BY NothingGiven
    <3> HIDE DEF D, A
    <3> QED BY <1>5, <3>1
  <2>2. PICK h \in Nat : Gone(h, rows)
    <3> HIDE DEF D
    <3> QED BY <1>d, <2>1
  <2>3. PICK i \in Shown \cap rows : Alike(h, i)
    BY <1>5, <2>2
  <2>4. \A n \in Nat : Gone(n, rows) => n = h
    <3> SUFFICES ASSUME NEW n \in Nat, Gone(n, rows) PROVE n = h
      OBVIOUS
    <3>1. PICK j \in Shown \cap rows : Alike(n, j)
      BY <1>5
    <3>2. n <= h
      BY <2>2, <2>3, OneIsCut
    <3>3. h <= n
      BY <2>2, <3>1, OneIsCut
    <3> QED BY <3>2, <3>3
  <2>5. PICK a \in Nat :
               /\ Came(a, rows) /\ Alike(h, a)
               /\ D = {PeriodicKey(h)} => DOMAIN Transfer(D, A) = {PeriodicKey(a)}
    BY <1>4, <2>2, <2>3
  <2> HIDE DEF D, A, rows
  <2>6. D = {PeriodicKey(h)}
    BY <1>2, <1>d, <2>2, <2>4
  <2>7. m = a
    BY <1>5, <2>5, <2>6, PeriodicKeyIs
  <2> QED BY <2>2, <2>5, <2>7
<1> QED BY <1>4, <1>5

LEMMA BlocksAre ==
  ASSUME NEW rows \in SUBSET Nat, NEW b
  PROVE  b \in {g.rows : g \in {h \in Groups(rows) : h.key.of = "periodic"}}
           <=> \E m \in rows : HeadRow(m, rows) /\ b = {j \in rows : Alike(m, j)}
<1> DEFINE blocks == {g.rows : g \in {h \in Groups(rows) : h.key.of = "periodic"}}
<1>1. ASSUME b \in blocks
      PROVE  \E m \in rows : HeadRow(m, rows) /\ b = {j \in rows : Alike(m, j)}
  <2>1. PICK g \in Groups(rows) : g.key.of = "periodic" /\ b = g.rows
    BY <1>1
  <2>2. PICK m \in rows : HeadRow(m, rows) /\ g.rows = Block(m, rows)
    BY <2>1, PeriodicGroups
  <2> QED BY <2>1, <2>2, BlockRows
<1>2. ASSUME NEW m \in rows, HeadRow(m, rows), b = {j \in rows : Alike(m, j)}
      PROVE  b \in blocks
  <2>1. PICK g \in Groups(rows) : g = [key |-> PeriodicKey(m), rows |-> Block(m, rows)]
    BY <1>2, PeriodicGroups
  <2>2. g.key.of = "periodic" /\ g.rows = b
    <3>1. g.key = PeriodicKey(m) /\ g.rows = Block(m, rows)
      BY <2>1
    <3> QED BY <1>2, <3>1, BlockRows, PeriodicKeyIs
  <2> QED BY <2>2
<1> QED BY <1>1, <1>2

\* Every key that goes away belongs to a block of which rows stay, unless a
\* block goes away with all its rows.
Lost(rows) == \E i \in Shown \ rows : written[i] = "periodic" /\ Block(i, Shown) \cap rows = {}

LEMMA CutUnlessLost ==
  ASSUME NEW rows \in SUBSET Nat, Shown \in SUBSET Nat, ~Lost(rows), NEW n \in Nat, Gone(n, rows)
  PROVE  \E i \in Shown \cap rows : Alike(n, i)
<1>1. n \in Shown /\ written[n] = "periodic" /\ Alike(n, n)
  BY AlikeRows DEF Gone, HeadRow
<1>2. CASE n \in rows
  BY <1>1, <1>2
<1>3. CASE n \notin rows
  <2>1. Block(n, Shown) \cap rows # {}
    BY <1>1, <1>3 DEF Lost
  <2> QED BY <2>1, BlockRows
<1> QED BY <1>2, <1>3

LEMMA ShowKeeps ==
  ASSUME GroupInv, NEW from, NEW to, ListMoves(from, to), written' = written, Show(from, to)
  PROVE  KnownKeys' /\ FoldedAreKnown' /\ Whole(opened)' /\ Whole(inherited)' /\ Folded'
<1> DEFINE rows == from .. to
           T == Transfer(GoneKeys(rows), CameKeys(rows))
<1>1. rows \in SUBSET Nat /\ Shown \in SUBSET Nat
  BY ShownRows DEF ListMoves, GroupInv
<1>2. Shown' = rows
  BY DEF Show, Shown
<1>3. \A i, j : Alike(i, j)' <=> Alike(i, j)
  BY DEF Alike
<1>4. \A m : HeadRow(m, Shown)' <=> HeadRow(m, rows)
  BY <1>2, <1>3 DEF HeadRow
<1>5. current' = Keys(rows)
  BY DEF Show, SyncGroups
<1>6. collapsed' = (collapsed \cap Keys(rows)) \cup {k \in CameKeys(rows) : k \in DOMAIN T => T[k] \in collapsed}
  <2>1. Periodic(current \ Keys(rows)) = GoneKeys(rows) /\ Periodic(Keys(rows) \ current) = CameKeys(rows)
    BY <1>1, ChangedKeys DEF GroupInv
  <2>2. SyncGroups(rows)
    BY DEF Show
  <2> QED BY <2>1, <2>2 DEF SyncGroups
<1> DEFINE blocks == {g.rows : g \in {h \in Groups(rows) : h.key.of = "periodic"}}
<1>7. /\ opened' = UNION {b \in blocks : b \cap opened # {}}
      /\ inherited' = UNION {b \in blocks : b \cap inherited # {} \/ (Lost(rows) /\ b \in {c \in blocks : c \cap Shown = {}})}
  BY DEF Show, Follow, Lost
<1>8. \A b : b \in blocks <=> \E m \in rows : HeadRow(m, rows) /\ b = {j \in rows : Alike(m, j)}
  BY <1>1, BlocksAre
<1>9. \A m, n \in rows : HeadRow(m, rows) /\ HeadRow(n, rows) /\ Alike(m, n) => m = n
  BY <1>1, AlikeRows DEF HeadRow
<1>k. \A m \in Nat : PeriodicKey(m) \in CameKeys(rows) <=> Came(m, rows)
  BY PeriodicKeyIs DEF CameKeys
<1> HIDE DEF rows, blocks, T
<1>10. \A b \in blocks : \A i, j \in rows : i \in b /\ Alike(i, j) => j \in b
  <2> SUFFICES ASSUME NEW b \in blocks, NEW i \in rows, NEW j \in rows, i \in b, Alike(i, j)
               PROVE  j \in b
    OBVIOUS
  <2>1. PICK m \in rows : HeadRow(m, rows) /\ b = {n \in rows : Alike(m, n)}
    BY <1>8
  <2>2. Alike(m, j)
    BY <1>1, <2>1, AlikeRows
  <2> QED BY <2>1, <2>2
<1>11. \A b \in blocks : b \subseteq rows /\ \A i \in b : written[i] = "periodic"
  <2> SUFFICES ASSUME NEW b \in blocks
               PROVE  b \subseteq rows /\ \A i \in b : written[i] = "periodic"
    OBVIOUS
  <2>1. PICK m \in rows : HeadRow(m, rows) /\ b = {n \in rows : Alike(m, n)}
    BY <1>8
  <2> QED BY <1>1, <2>1, AlikeRows DEF HeadRow
<1>12. Whole(opened)'
  <2>1. opened' = UNION {b \in blocks : b \cap opened # {}} /\ {b \in blocks : b \cap opened # {}} \in SUBSET blocks
    BY <1>7
  <2>2. opened' \subseteq rows
    BY <1>11, <2>1
  <2>3. ASSUME NEW i \in opened'
        PROVE  written[i] = "periodic" /\ \A j \in rows : Alike(i, j) => j \in opened'
    BY <1>10, <1>11, <2>1, <2>2, <2>3
  <2> QED BY <1>2, <1>3, <2>2, <2>3 DEF Whole
<1>13. Whole(inherited)'
  <2> DEFINE taken == {b \in blocks : b \cap inherited # {} \/ (Lost(rows) /\ b \in {c \in blocks : c \cap Shown = {}})}
  <2>1. inherited' = UNION taken /\ taken \in SUBSET blocks
    BY <1>7
  <2> HIDE DEF taken
  <2>2. inherited' \subseteq rows
    BY <1>11, <2>1
  <2>3. ASSUME NEW i \in inherited'
        PROVE  written[i] = "periodic" /\ \A j \in rows : Alike(i, j) => j \in inherited'
    BY <1>10, <1>11, <2>1, <2>2, <2>3
  <2> QED BY <1>2, <1>3, <2>2, <2>3 DEF Whole
<1>14. KnownKeys'
  <2>1. \A k \in current' : k.of = "periodic" => k \in PeriodicKeys
    BY <1>1, <1>5, KeysAre
  <2>2. \A m \in Nat : PeriodicKey(m) \in current' <=> HeadRow(m, rows)
    BY <1>1, <1>5, KeysAre
  <2> QED BY <1>4, <2>1, <2>2 DEF KnownKeys, PeriodicKeys, PeriodicKey
<1>15. FoldedAreKnown'
  <2>1. ASSUME NEW m \in Nat, PeriodicKey(m) \in collapsed'
        PROVE  HeadRow(m, rows)
    <3>1. PeriodicKey(m) \in Keys(rows) \/ PeriodicKey(m) \in CameKeys(rows)
      BY <1>6, <2>1
    <3> QED BY <1>1, <1>k, <3>1, KeysAre DEF Came
  <2> QED BY <1>4, <2>1 DEF FoldedAreKnown, PeriodicKey
<1>16. ASSUME NEW m \in Nat, HeadRow(m, rows), NEW j \in rows, Alike(m, j), j \in opened'
       PROVE  \E i \in rows \cap Shown : Alike(m, i) /\ i \in opened
  <2>1. PICK b \in blocks : b \cap opened # {} /\ j \in b
    BY <1>7, <1>16
  <2>2. PICK n \in rows : HeadRow(n, rows) /\ b = {i \in rows : Alike(n, i)}
    BY <1>8
  <2>3. m \in rows /\ Alike(m, n)
    BY <1>1, <1>16, <2>1, <2>2, AlikeRows DEF HeadRow
  <2>4. n = m
    BY <1>9, <1>16, <2>2, <2>3
  <2>5. opened \subseteq Shown
    BY DEF GroupInv, Whole
  <2> QED BY <2>1, <2>2, <2>4, <2>5
<1>17. ASSUME NEW m \in Nat, HeadRow(m, rows), Untouched(m, opened)', Untouched(m, inherited)'
       PROVE  /\ \A j \in rows : Alike(m, j) => j \notin opened /\ j \notin inherited
              /\ (\A j \in rows : Alike(m, j) => j \notin Shown) => ~Lost(rows)
  <2> DEFINE b == {j \in rows : Alike(m, j)}
  <2>1. m \in rows /\ m \in b
    BY <1>17, AlikeRows DEF HeadRow
  <2>2. b \in blocks
    BY <1>8, <1>17, <2>1
  <2>3. m \notin opened' /\ m \notin inherited'
    <3>1. \A j \in rows : Alike(m, j) => j \notin opened' /\ j \notin inherited'
      BY <1>2, <1>3, <1>17 DEF Untouched
    <3> QED BY <2>1, <3>1
  <2> HIDE DEF b
  <2>4. b \cap opened = {}
    BY <1>7, <2>1, <2>2, <2>3
  <2>5. b \cap inherited = {} /\ ~(Lost(rows) /\ b \cap Shown = {})
    BY <1>7, <2>1, <2>2, <2>3
  <2> QED BY <2>4, <2>5 DEF b
<1>18. ASSUME NEW m \in Nat, HeadRow(m, rows)
       PROVE  /\ ~Untouched(m, opened)' => PeriodicKey(m) \notin collapsed'
              /\ Untouched(m, opened)' /\ Untouched(m, inherited)' => PeriodicKey(m) \in collapsed'
  <2>0. m \in rows /\ Alike(m, m) /\ PeriodicKey(m) \in Keys(rows)
    BY <1>1, <1>18, AlikeRows, KeysAre DEF HeadRow
  <2>1. ~Untouched(m, opened)' => \E i \in rows \cap Shown : Alike(m, i) /\ i \in opened
    <3>1. ~Untouched(m, opened)' => \E j \in rows : Alike(m, j) /\ j \in opened'
      BY <1>2, <1>3 DEF Untouched
    <3> QED BY <1>16, <1>18, <3>1
  <2>2. CASE HeadRow(m, Shown)
    <3>1. PeriodicKey(m) \in collapsed' <=> PeriodicKey(m) \in collapsed
      <4>1. PeriodicKey(m) \notin CameKeys(rows)
        BY <1>k, <2>2 DEF Came
      <4> QED BY <1>6, <2>0, <4>1
    <3>2. ~Untouched(m, opened)' => ~Untouched(m, opened)
      BY <2>1 DEF Untouched
    <3>3. ASSUME Untouched(m, opened)', Untouched(m, inherited)'
          PROVE  Untouched(m, opened) /\ Untouched(m, inherited)
      <4>1. m \notin opened /\ m \notin inherited
        BY <1>17, <1>18, <2>0, <3>3
      <4>2. \A j \in Shown : Alike(m, j) => Alike(j, m) /\ m \in Shown
        BY <1>1, <2>2, AlikeRows DEF HeadRow
      <4> QED BY <4>1, <4>2 DEF Untouched, GroupInv, Whole
    <3>4. (~Untouched(m, opened) => PeriodicKey(m) \notin collapsed)
          /\ (Untouched(m, opened) /\ Untouched(m, inherited) => PeriodicKey(m) \in collapsed)
      BY <2>2 DEF GroupInv, Folded
    <3> QED BY <3>1, <3>2, <3>3, <3>4
  <2>3. CASE Came(m, rows)
    <3>1. PeriodicKey(m) \in CameKeys(rows) /\ PeriodicKey(m) \notin collapsed
      BY <1>k, <2>3 DEF Came, GroupInv, FoldedAreKnown
    <3>2. PeriodicKey(m) \in collapsed' <=>
            (PeriodicKey(m) \in DOMAIN T => T[PeriodicKey(m)] \in collapsed)
      BY <1>6, <3>1
    <3>3. CASE \E i \in rows \cap Shown : Alike(m, i)
      <4>1. PICK i \in rows \cap Shown : Alike(m, i)
        BY <3>3
      <4>2. i \in Nat /\ written[i] = "periodic" /\ Alike(i, m)
        BY <1>1, <1>18, <4>1, AlikeRows DEF HeadRow
      <4>3. PICK h \in Shown : HeadRow(h, Shown) /\ Alike(h, i) /\ Alike(i, h)
        BY <1>1, <4>2, HasHead
      <4>4. h \in Nat /\ Alike(h, m) /\ Alike(m, h)
        BY <1>1, <4>1, <4>2, <4>3, AlikeRows
      <4>5. Gone(h, rows)
        <5> SUFFICES ASSUME HeadRow(h, rows) PROVE FALSE
          BY <4>3 DEF Gone
        <5>1. h = m
          BY <1>9, <1>18, <2>0, <4>4 DEF HeadRow
        <5> QED BY <2>3, <4>3, <5>1 DEF Came
      <4>6. PICK a \in Nat :
              /\ Came(a, rows) /\ Alike(h, a) /\ PeriodicKey(a) \in DOMAIN T
              /\ T[PeriodicKey(a)] = PeriodicKey(h)
        <5>1. i \in Shown \cap rows
          BY <4>1
        <5> QED BY <4>3, <4>4, <4>5, <5>1, TakenOver DEF GroupInv, rows, T
      <4>7. a = m
        <5>1. a \in rows /\ HeadRow(a, rows)
          BY <4>6 DEF Came, HeadRow
        <5>2. Alike(m, a)
          BY <4>4, <4>6, AlikeRows
        <5> QED BY <1>9, <1>18, <2>0, <5>1, <5>2
      <4>8. PeriodicKey(m) \in collapsed' <=> PeriodicKey(h) \in collapsed
        BY <3>2, <4>6, <4>7
      <4>9. ~Untouched(m, opened)' => ~Untouched(h, opened)
        <5> SUFFICES ASSUME NEW j \in rows \cap Shown, Alike(m, j), j \in opened
                     PROVE  ~Untouched(h, opened)
          BY <2>1
        <5>1. Alike(h, j)
          BY <1>1, <4>4, AlikeRows
        <5> QED BY <5>1 DEF Untouched
      <4>10. ASSUME Untouched(m, opened)', Untouched(m, inherited)'
             PROVE  Untouched(h, opened) /\ Untouched(h, inherited)
        <5>1. i \notin opened /\ i \notin inherited
          BY <1>17, <1>18, <4>1, <4>10
        <5>2. \A j \in Shown : Alike(h, j) => Alike(j, i)
          BY <1>1, <4>2, <4>3, <4>4, AlikeRows
        <5> QED BY <4>1, <5>1, <5>2 DEF Untouched, GroupInv, Whole
      <4>11. (~Untouched(h, opened) => PeriodicKey(h) \notin collapsed)
             /\ (Untouched(h, opened) /\ Untouched(h, inherited) => PeriodicKey(h) \in collapsed)
        BY <4>3, <4>4 DEF GroupInv, Folded
      <4> QED BY <4>8, <4>9, <4>10, <4>11
    <3>4. CASE ~\E i \in rows \cap Shown : Alike(m, i)
      <4>1. Untouched(m, opened)'
        BY <2>1, <3>4
      <4>2. ASSUME Untouched(m, inherited)'
            PROVE  PeriodicKey(m) \notin DOMAIN T
        <5>1. ~Lost(rows)
          BY <1>17, <1>18, <3>4, <4>1, <4>2
        <5>2. \A n \in Nat : Gone(n, rows) => \E i \in Shown \cap rows : Alike(n, i)
          BY <1>1, <5>1, CutUnlessLost
        <5> SUFFICES ASSUME PeriodicKey(m) \in DOMAIN T PROVE FALSE
          OBVIOUS
        <5>3. PICK h \in Nat : Gone(h, rows) /\ Alike(h, m)
          BY <5>2, TakenOver DEF GroupInv, rows, T
        <5>4. PICK i \in Shown \cap rows : Alike(h, i)
          BY <5>2, <5>3
        <5>5. Alike(m, i)
          BY <1>1, <5>3, <5>4, AlikeRows
        <5> QED BY <3>4, <5>4, <5>5
      <4> QED BY <3>2, <4>1, <4>2
    <3> QED BY <3>3, <3>4
  <2> QED BY <1>18, <2>2, <2>3 DEF Came
<1>19. Folded'
  <2>1. \A m \in Nat : HeadRow(m, Shown)' =>
          /\ ~Untouched(m, opened)' => PeriodicKey(m) \notin collapsed'
          /\ Untouched(m, opened)' /\ Untouched(m, inherited)' => PeriodicKey(m) \in collapsed'
    BY <1>4, <1>18
  <2> QED BY <2>1 DEF Folded, PeriodicKey
<1> QED BY <1>12, <1>13, <1>14, <1>15, <1>19

LEMMA OtherGroups ==
  ASSUME NEW rows \in SUBSET Nat, NEW g \in Groups(rows), g.key.of # "periodic"
  PROVE  \A j \in g.rows : written[j] # "periodic"
<1>1. PICK i \in rows : g = [key |-> KeyOf(i, rows), rows |-> RowsWith(i, rows)]
  BY DEF Groups
<1>2. KeyOf(i, rows).of = written[i]
  BY DEF KeyOf
<1>3. g.rows = RowsWith(i, rows) /\ written[i] # "periodic"
  BY <1>1, <1>2
<1>4. \A j \in RowsWith(i, rows) : written[j] = written[i]
  <2>1. CASE written[i] \in LogJob
    BY <2>1 DEF RowsWith
  <2>2. CASE written[i] \notin LogJob
    BY <2>2, BlockRows, AlikeRows DEF RowsWith
  <2> QED BY <2>1, <2>2
<1> QED BY <1>3, <1>4

LEMMA MaxOfOne ==
  ASSUME NEW n \in Int
  PROVE  Max({1, n}) = IF n >= 1 THEN n ELSE 1
<1> DEFINE m == IF n >= 1 THEN n ELSE 1
<1>1. m \in {1, n} /\ \A y \in {1, n} : m >= y
  OBVIOUS
<1>2. \A x \in {1, n} : (\A y \in {1, n} : x >= y) => x = m
  OBVIOUS
<1> HIDE DEF m
<1>3. (CHOOSE x \in {1, n} : \A y \in {1, n} : x >= y) = m
  BY <1>1, <1>2
<1> QED BY <1>3 DEF Max, m

LEMMA GroupInvInit == GroupInit => GroupInv
<1> SUFFICES ASSUME GroupInit PROVE GroupInv
  OBVIOUS
<1>1. written = <<>> /\ first = 1 /\ last = 0 /\ collapsed = {} /\ current = {} /\ opened = {} /\ inherited = {}
  BY DEF GroupInit
<1>2. Shown = {}
  BY <1>1 DEF Shown
<1>3. OnList
  <2>1. written \in Seq(Kind) /\ Len(written) = 0
    BY <1>1
  <2> QED BY <1>1, <2>1 DEF OnList
<1> QED BY <1>1, <1>2, <1>3 DEF GroupInv, KnownKeys, FoldedAreKnown, Whole, Folded, HeadRow

\* Rows that are written change nothing of those on the list.
LEMMA WriteKeeps ==
  ASSUME GroupInv, NEW kind \in Kind, WriteRow(kind)
  PROVE  GroupInv'
<1>1. /\ Len(written) \in Nat /\ last <= Len(written) /\ first \in Nat /\ last \in Nat /\ first >= 1
      /\ written \in Seq(Kind)
  BY DEF GroupInv, OnList
<1>2. written' = Append(written, kind) /\ UNCHANGED <<first, last, collapsed, current, opened, inherited>>
  BY DEF WriteRow
<1>3. OnList'
  <2>1. written' \in Seq(Kind) /\ Len(written') = Len(written) + 1
    BY <1>1, <1>2
  <2> QED BY <1>1, <1>2, <2>1 DEF GroupInv, OnList
<1>4. Shown' = Shown /\ Shown \in SUBSET Nat /\ \A n \in Shown : n \in 1 .. Len(written)
  BY <1>1, <1>2 DEF Shown
<1>5. \A n \in 1 .. Len(written) : written'[n] = written[n]
  BY <1>1, <1>2
<1>6. \A i, j \in Shown : Alike(i, j)' <=> Alike(i, j)
  <2> SUFFICES ASSUME NEW i \in Shown, NEW j \in Shown
               PROVE  Alike(i, j)' <=> Alike(i, j)
    OBVIOUS
  <2>1. \A k \in (i .. j) \cup (j .. i) : k \in 1 .. Len(written)
    BY <1>1, <1>4
  <2>2. \A k \in (i .. j) \cup (j .. i) : written'[k] = written[k]
    BY <1>5, <2>1
  <2>3. written'[i] = written[i]
    BY <1>4, <1>5
  <2> QED BY <2>2, <2>3 DEF Alike
<1>7. \A m : HeadRow(m, Shown)' <=> HeadRow(m, Shown)
  <2>1. \A m : HeadRow(m, Shown)' <=>
          m \in Shown' /\ written'[m] = "periodic" /\ \A j \in Shown' : Alike(m, j)' => m <= j
    BY DEF HeadRow
  <2>2. \A m \in Shown : written'[m] = written[m]
    BY <1>4, <1>5
  <2> QED BY <1>4, <1>6, <2>1, <2>2 DEF HeadRow
<1>8. KnownKeys' /\ FoldedAreKnown'
  BY <1>2, <1>7 DEF GroupInv, KnownKeys, FoldedAreKnown, PeriodicKeys, PeriodicKey
<1>9. Whole(opened)' /\ Whole(inherited)'
  BY <1>2, <1>4, <1>5, <1>6 DEF GroupInv, Whole
<1>10. \A m \in Shown : (Untouched(m, opened)' <=> Untouched(m, opened))
                        /\ (Untouched(m, inherited)' <=> Untouched(m, inherited))
  BY <1>2, <1>4, <1>6 DEF Untouched
<1>11. Folded'
  <2>1. \A m \in Nat : HeadRow(m, Shown)' =>
          /\ ~Untouched(m, opened)' => PeriodicKey(m) \notin collapsed'
          /\ Untouched(m, opened)' /\ Untouched(m, inherited)' => PeriodicKey(m) \in collapsed'
    BY <1>2, <1>7, <1>10 DEF GroupInv, Folded, HeadRow
  <2> QED BY <2>1 DEF Folded, PeriodicKey
<1> QED BY <1>3, <1>8, <1>9, <1>11 DEF GroupInv

LEMMA ReloadShows ==
  ASSUME GroupInv, ReloadRows
  PROVE  GroupInv'
<1> DEFINE to == Len(written)
           from == Max({1, to - PageLength + 1})
<1>1. /\ to \in Nat /\ last <= to /\ first \in Nat /\ last \in Nat /\ first >= 1
      /\ first = 1 \/ first <= last - PageLength + 1
      /\ PageLength \in Nat /\ PageLength >= 1 /\ written \in Seq(Kind)
  BY GroupAssumption DEF GroupInv, OnList
<1>2. written' = written /\ Show(from, to) /\ written # <<>>
  BY DEF ReloadRows
<1>3. first' = from /\ last' = to
  BY <1>2 DEF Show
<1>4. from = IF to - PageLength + 1 >= 1 THEN to - PageLength + 1 ELSE 1
  BY <1>1, MaxOfOne
<1> HIDE DEF from, to
<1>5. ListMoves(from, to)
  <2>1. from \in Nat /\ from >= 1 /\ from >= to - PageLength + 1
    BY <1>1, <1>4
  <2>2. first <= from
    BY <1>1, <2>1
  <2> QED BY <1>1, <2>1, <2>2 DEF ListMoves
<1>6. OnList'
  <2>1. from \in Nat \ {0} /\ (from = 1 \/ from <= to - PageLength + 1)
    BY <1>1, <1>4
  <2> QED BY <1>1, <1>2, <1>3, <2>1 DEF OnList, to
<1> QED BY <1>2, <1>5, <1>6, ShowKeeps DEF GroupInv

LEMMA OlderShows ==
  ASSUME GroupInv, ShowOlder
  PROVE  GroupInv'
<1> DEFINE from == Max({1, first - PageLength})
<1>1. /\ Len(written) \in Nat /\ last <= Len(written) /\ first \in Nat /\ last \in Nat /\ first >= 1
      /\ first = 1 \/ first <= last - PageLength + 1
      /\ PageLength \in Nat /\ PageLength >= 1 /\ written \in Seq(Kind)
  BY GroupAssumption DEF GroupInv, OnList
<1>2. written' = written /\ Show(from, last) /\ 2 <= first /\ first <= last
  BY <1>1 DEF ShowOlder
<1>3. first' = from /\ last' = last
  BY <1>2 DEF Show
<1>4. from = IF first - PageLength >= 1 THEN first - PageLength ELSE 1
  BY <1>1, MaxOfOne
<1> HIDE DEF from
<1>5. ListMoves(from, last)
  BY <1>1, <1>2, <1>4 DEF ListMoves
<1>6. OnList'
  <2>1. from \in Nat \ {0} /\ (from = 1 \/ from <= last - PageLength + 1)
    BY <1>1, <1>2, <1>4
  <2> QED BY <1>1, <1>2, <1>3, <2>1 DEF OnList
<1> QED BY <1>2, <1>5, <1>6, ShowKeeps DEF GroupInv

LEMMA FoldingKeeps ==
  ASSUME GroupInv, NEW g \in Groups(Shown), Toggle(g)
  PROVE  GroupInv'
<1>1. Shown \in SUBSET Nat
  BY ShownRows DEF GroupInv
<1>2. UNCHANGED <<written, first, last, current>> /\ collapsed' = (collapsed \ {g.key}) \cup ({g.key} \ collapsed)
      /\ inherited' = inherited \ g.rows
  BY DEF Toggle, SymDiff
<1>3. Shown' = Shown
  BY <1>2 DEF Shown
<1>4. \A i, j : Alike(i, j)' <=> Alike(i, j)
  BY <1>2 DEF Alike
<1>5. \A m : HeadRow(m, Shown)' <=> HeadRow(m, Shown)
  BY <1>2, <1>3, <1>4 DEF HeadRow
<1>6. OnList' /\ KnownKeys'
  BY <1>2, <1>5 DEF GroupInv, OnList, KnownKeys, PeriodicKeys, PeriodicKey
<1>7. CASE g.key.of # "periodic"
  <2>1. \A m \in Nat : PeriodicKey(m) \in collapsed' <=> PeriodicKey(m) \in collapsed
    <3>1. \A m \in Nat : PeriodicKey(m) # g.key
      BY <1>7, PeriodicKeyIs
    <3> QED BY <1>2, <3>1
  <2>2. opened' = opened
    BY <1>7 DEF Toggle
  <2>3. inherited' = inherited
    <3>1. \A j \in g.rows : written[j] # "periodic"
      BY <1>1, <1>7, OtherGroups
    <3> QED BY <1>2, <3>1 DEF GroupInv, Whole
  <2>4. FoldedAreKnown'
    BY <1>5, <2>1 DEF GroupInv, FoldedAreKnown, PeriodicKey
  <2>5. Whole(opened)' /\ Whole(inherited)'
    BY <1>2, <1>3, <1>4, <2>2, <2>3 DEF GroupInv, Whole
  <2>6. \A m : (Untouched(m, opened)' <=> Untouched(m, opened))
               /\ (Untouched(m, inherited)' <=> Untouched(m, inherited))
    BY <1>3, <1>4, <2>2, <2>3 DEF Untouched
  <2>7. Folded'
    <3>1. \A m \in Nat : HeadRow(m, Shown)' =>
            /\ ~Untouched(m, opened)' => PeriodicKey(m) \notin collapsed'
            /\ Untouched(m, opened)' /\ Untouched(m, inherited)' => PeriodicKey(m) \in collapsed'
      BY <1>5, <2>1, <2>6 DEF GroupInv, Folded
    <3> QED BY <3>1 DEF Folded, PeriodicKey
  <2> QED BY <1>6, <2>4, <2>5, <2>7 DEF GroupInv
<1>8. CASE g.key.of = "periodic"
  <2>1. PICK m \in Shown : HeadRow(m, Shown) /\ g.key = PeriodicKey(m) /\ g.rows = Block(m, Shown)
    BY <1>1, <1>8, PeriodicGroups
  <2>2. m \in Nat /\ Alike(m, m) /\ written[m] = "periodic"
    BY <1>1, <2>1, AlikeRows DEF HeadRow
  <2>3. g.rows = {j \in Shown : Alike(m, j)}
    BY <2>1, BlockRows
  <2>4. opened' = IF PeriodicKey(m) \in collapsed THEN opened \cup g.rows ELSE opened \ g.rows
    BY <1>8, <2>1 DEF Toggle
  <2>5. /\ PeriodicKey(m) \in collapsed' <=> PeriodicKey(m) \notin collapsed
        /\ \A n \in Nat : n # m => (PeriodicKey(n) \in collapsed' <=> PeriodicKey(n) \in collapsed)
    BY <1>2, <2>1, PeriodicKeyIs
  <2>6. \A i, j \in Shown : Alike(i, j) => (i \in g.rows <=> j \in g.rows)
    <3> SUFFICES ASSUME NEW i \in Shown, NEW j \in Shown, Alike(i, j)
                 PROVE  i \in g.rows <=> j \in g.rows
      OBVIOUS
    <3>1. i \in Nat /\ j \in Nat
      BY <1>1
    <3> QED BY <2>2, <2>3, <3>1, AlikeRows
  <2>7. g.rows \subseteq Shown /\ \A i \in g.rows : written[i] = "periodic"
    BY <1>1, <2>2, <2>3, AlikeRows
  <2>8. Whole(opened)' /\ Whole(inherited)'
    <3>1. Whole(opened) /\ Whole(inherited)
      BY DEF GroupInv
    <3>2. opened' \subseteq Shown
      BY <2>4, <2>7, <3>1 DEF Whole
    <3>3. ASSUME NEW i \in opened'
          PROVE  written[i] = "periodic" /\ \A j \in Shown : Alike(i, j) => j \in opened'
      BY <2>4, <2>6, <2>7, <3>1, <3>2, <3>3 DEF Whole
    <3>4. ASSUME NEW i \in inherited'
          PROVE  i \in Shown /\ written[i] = "periodic" /\ \A j \in Shown : Alike(i, j) => j \in inherited'
      BY <1>2, <2>6, <2>7, <3>1, <3>4 DEF Whole
    <3> QED BY <1>2, <1>3, <1>4, <3>2, <3>3, <3>4 DEF Whole
  <2>9. FoldedAreKnown'
    <3>1. \A n \in Nat : PeriodicKey(n) \in collapsed' => HeadRow(n, Shown)
      BY <2>1, <2>5 DEF GroupInv, FoldedAreKnown
    <3> QED BY <1>5, <3>1 DEF FoldedAreKnown, PeriodicKey
  <2>10. ASSUME NEW n \in Nat, HeadRow(n, Shown)
         PROVE  /\ ~Untouched(n, opened)' => PeriodicKey(n) \notin collapsed'
                /\ Untouched(n, opened)' /\ Untouched(n, inherited)' => PeriodicKey(n) \in collapsed'
    <3>1. CASE n = m
      <4>1. CASE PeriodicKey(m) \in collapsed
        <5>1. m \in opened'
          BY <2>2, <2>3, <2>4, <4>1
        <5>2. ~Untouched(m, opened)'
          BY <1>3, <1>4, <2>2, <5>1 DEF Untouched
        <5> QED BY <2>5, <3>1, <4>1, <5>2
      <4>2. CASE PeriodicKey(m) \notin collapsed
        <5>1. \A j \in Shown : Alike(m, j) => j \notin opened'
          BY <2>3, <2>4, <4>2
        <5>2. Untouched(m, opened)'
          BY <1>3, <1>4, <5>1 DEF Untouched
        <5> QED BY <2>5, <3>1, <4>2, <5>2
      <4> QED BY <4>1, <4>2
    <3>2. CASE n # m
      <4>1. n \in Shown /\ Alike(n, n)
        BY <2>10, AlikeRows DEF HeadRow
      <4>2. n \notin g.rows
        <5> SUFFICES ASSUME n \in g.rows PROVE FALSE
          OBVIOUS
        <5>1. Alike(m, n) /\ Alike(n, m)
          BY <2>2, <2>3, AlikeRows
        <5>2. m <= n /\ n <= m
          BY <2>1, <2>10, <4>1, <5>1 DEF HeadRow
        <5> QED BY <2>2, <3>2, <5>2
      <4>3. \A j \in Shown : Alike(n, j) => j \notin g.rows
        BY <2>6, <4>1, <4>2
      <4>4. (Untouched(n, opened)' <=> Untouched(n, opened)) /\ (Untouched(n, inherited)' <=> Untouched(n, inherited))
        BY <1>2, <1>3, <1>4, <2>4, <4>3 DEF Untouched
      <4> QED BY <2>5, <2>10, <3>2, <4>4 DEF GroupInv, Folded
    <3> QED BY <3>1, <3>2
  <2>11. Folded'
    <3>1. \A n \in Nat : HeadRow(n, Shown)' =>
            /\ ~Untouched(n, opened)' => PeriodicKey(n) \notin collapsed'
            /\ Untouched(n, opened)' /\ Untouched(n, inherited)' => PeriodicKey(n) \in collapsed'
      BY <1>5, <2>10
    <3> QED BY <3>1 DEF Folded, PeriodicKey
  <2> QED BY <1>6, <2>8, <2>9, <2>11 DEF GroupInv
<1> QED BY <1>7, <1>8

LEMMA GroupInvNext == GroupInv /\ [GroupNext]_groupVars => GroupInv'
<1> SUFFICES ASSUME GroupInv, [GroupNext]_groupVars PROVE GroupInv'
  OBVIOUS
<1>1. CASE \E kind \in Kind : WriteRow(kind)
  BY <1>1, WriteKeeps
<1>2. CASE ReloadRows
  BY <1>2, ReloadShows
<1>3. CASE ShowOlder
  BY <1>3, OlderShows
<1>4. CASE ClearAll
  <2>1. GroupInit'
    BY <1>4 DEF ClearAll, GroupInit
  <2>2. (GroupInit => GroupInv)'
    BY GroupInvInit, PTL
  <2> QED BY <2>1, <2>2
<1>5. CASE \E g \in Groups(Shown) : Toggle(g)
  BY <1>5, FoldingKeeps
<1>6. CASE UNCHANGED groupVars
  <2>1. UNCHANGED <<written, first, last, collapsed, current, opened, inherited>>
    BY <1>6 DEF groupVars
  <2>2. Shown' = Shown /\ \A i, j : Alike(i, j)' <=> Alike(i, j)
    BY <2>1 DEF Shown, Alike
  <2>3. \A m : HeadRow(m, Shown)' <=> HeadRow(m, Shown)
    BY <2>1, <2>2 DEF HeadRow
  <2>4. OnList' /\ KnownKeys' /\ FoldedAreKnown'
    BY <2>1, <2>3 DEF GroupInv, OnList, KnownKeys, FoldedAreKnown, PeriodicKeys, PeriodicKey
  <2>5. Whole(opened)' /\ Whole(inherited)'
    BY <2>1, <2>2 DEF GroupInv, Whole
  <2>6. \A m : (Untouched(m, opened)' <=> Untouched(m, opened))
               /\ (Untouched(m, inherited)' <=> Untouched(m, inherited))
    BY <2>1, <2>2 DEF Untouched
  <2>7. Folded'
    <3>1. \A m \in Nat : HeadRow(m, Shown)' =>
            /\ ~Untouched(m, opened)' => PeriodicKey(m) \notin collapsed'
            /\ Untouched(m, opened)' /\ Untouched(m, inherited)' => PeriodicKey(m) \in collapsed'
      BY <2>1, <2>3, <2>6 DEF GroupInv, Folded
    <3> QED BY <3>1 DEF Folded, PeriodicKey
  <2> QED BY <2>4, <2>5, <2>7 DEF GroupInv
<1> QED BY <1>1, <1>2, <1>3, <1>4, <1>5, <1>6 DEF GroupNext

\* A periodic block of the log panel that the user opened stays open and one
\* nobody opened stays folded, whatever rows come and go around it, but for a
\* block that came in an update in which another went away.
THEOREM FoldsAlwaysFollowBlocks == GroupSpec => []FoldsFollowBlocks
<1>1. GroupInit => GroupInv
  BY GroupInvInit
<1>2. GroupInv /\ [GroupNext]_groupVars => GroupInv'
  BY GroupInvNext
<1>3. GroupInv => FoldsFollowBlocks
  BY FoldsAreRight
<1> QED BY <1>1, <1>2, <1>3, PTL DEF GroupSpec
=============================================================================
