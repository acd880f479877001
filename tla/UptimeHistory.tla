--------------------------- MODULE UptimeHistory ---------------------------
(***************************************************************************)
(* The uptime of one PC: its status history, which insertions prune, and   *)
(* the requests that compute online time per local day from it and store   *)
(* daily totals for the time after the history is gone.  A change takes    *)
(* its time first and inserts its row later, a request reads and writes in *)
(* transactions of its own, one per step.  Only whether a status is        *)
(* "online" matters.  Time is in ticks, days may differ in length          *)
(* (daylight saving time).                                                 *)
(***************************************************************************)
EXTENDS Integers, FiniteSetsExt, Functions

CONSTANTS
  Request,    \* requests of the uptime API under way at once
  DayStart,   \* DayStart[d]: tick at which local day d begins
  LastDay,    \* days 0 .. LastDay; DayStart[LastDay + 1] bounds the time for TLC
  Standard,   \* ticks in 86400 seconds
  Retention,  \* days of history kept (1825)
  WeekDays,   \* days in the weekly timeline (7)
  MaxChanges  \* bound for TLC on the changes of the status

Day == 0 .. LastDay
Tick == 0 .. DayStart[LastDay + 1] - 1

ASSUME UptimeAssumption ==
  /\ LastDay \in Nat /\ {Standard, Retention, WeekDays} \subseteq Nat \ {0} /\ MaxChanges \in Nat
  /\ DayStart \in [0 .. LastDay + 1 -> Nat] /\ DayStart[0] = 0
  /\ \A d \in Day : DayStart[d] < DayStart[d + 1]

VARIABLES
  now,
  changing, \* changes whose time is taken and whose row is not inserted (yet)
  rows,     \* status_history: [nth, at, online]
  pruned,   \* history: rows deleted
  stored,   \* stored[d]: online ticks in uptime_daily_summary, or None
  req,      \* req[r]: a request and how far it got
  torn,     \* history: rows were pruned between the two reads of a request
  doubted   \* history: days whose stored total misses a change that tells part of the day

uptimeVars == <<now, changing, rows, pruned, stored, req, torn, doubted>>

None == -1
NoRequest == [phase |-> "idle"]
DayOf(t) == CHOOSE d \in Day : DayStart[d] <= t /\ t < DayStart[d + 1]
Today == DayOf(now)

UptimeInit ==
  /\ now = 0
  /\ changing = {} /\ rows = {} /\ pruned = {}
  /\ stored = [d \in Day |-> None]
  /\ req = [r \in Request |-> NoRequest] /\ torn = FALSE /\ doubted = {}
-----------------------------------------------------------------------------
\* Rows by their time; nth tells the order within a tick.
Later(v, w) == v.at > w.at \/ (v.at = w.at /\ v.nth > w.nth)
LatestOf(rs) == CHOOSE w \in rs : \A v \in rs \ {w} : Later(w, v)

\* Every change so far, and the one that tells the status at a tick.
Changes == changing \cup rows \cup pruned
Telling(t) == LET past == {w \in Changes : w.at <= t}
              IN IF past = {} THEN {} ELSE {LatestOf(past)}
Ticks(d, end) == {t \in DayStart[d] .. DayStart[d + 1] - 1 : t < end}

\* Some of these changes tells the status at some tick of the day.
TellsPart(some, d, end) == \E t \in Ticks(d, end) : Telling(t) \cap some # {}
-----------------------------------------------------------------------------
Outdated(rs) == {w \in rs : w.at < now - Retention * Standard}

\* insert_status_history: rows past the retention go in the same transaction.
Insert(new) ==
  LET outdated == Outdated(rows \cup new)
  IN /\ rows' = (rows \cup new) \ outdated
     /\ pruned' = pruned \cup outdated
     /\ torn' = (torn \/ (outdated # {} /\ \E r \in Request : req[r].phase = "between"))

\* update_runtime_status reads the status, finds another one and takes the
\* time.  Any status may follow any other: there are five, and calls for one PC
\* overlap.
BeginChange ==
  /\ Cardinality(Changes) < MaxChanges
  /\ \E on \in BOOLEAN :
       changing' = changing \cup {[nth |-> Cardinality(Changes) + 1, at |-> now, online |-> on]}
  /\ UNCHANGED <<now, rows, pruned, stored, req, torn, doubted>>

\* record_status_transition, any time later and in any order.  The row of a
\* call that fails stays in changing for good.
Record(w) ==
  /\ changing' = changing \ {w}
  /\ Insert({w})
  /\ UNCHANGED <<now, stored, req, doubted>>

\* A row of another PC prunes the rows of this one too.
RecordElsewhere ==
  /\ Insert({})
  /\ UNCHANGED <<now, changing, stored, req, doubted>>

Passes ==
  /\ now' = now + 1 /\ now + 1 \in Tick
  /\ UNCHANGED <<changing, rows, pruned, stored, req, torn, doubted>>
-----------------------------------------------------------------------------
\* Plausible bug: the status before the range counts only if the range has no
\* row of its own.
IntervalsIgnoringBefore(before, between, start, end) ==
  LET times == IF between = {} /\ before # {} THEN {start} ELSE {w.at : w \in between}
      StatusAt(t) == LET there == {w \in between : w.at = t}
                     IN IF there # {} THEN LatestOf(there).online ELSE LatestOf(before).online
      Until(t) == Min({u \in times : u > t} \cup {end})
  IN {<<t, Until(t)>> : t \in {u \in times : StatusAt(u)}}

\* _collect_online_intervals: the status before the range holds from its start,
\* the last row of an instant from then on, each until the next one.
Intervals(before, between, start, end) ==
  LET times == {w.at : w \in between} \cup (IF before # {} THEN {start} ELSE {})
      StatusAt(t) == LET there == {w \in between : w.at = t}
                     IN IF there # {} THEN LatestOf(there).online ELSE LatestOf(before).online
      Until(t) == Min({u \in times : u > t} \cup {end})
  IN {<<t, Until(t)>> : t \in {u \in times : StatusAt(u)}}

\* Plausible bug: an interval counts for the day it begins on.
TotalByFirstDay(intervals, d) ==
  SumFunction([i \in {j \in intervals : DayOf(j[1]) = d} |-> i[2] - i[1]])

\* _split_interval_by_local_day: the ticks of the intervals that fall on a day.
Total(intervals, d) ==
  LET from(i) == Max({i[1], DayStart[d]})
      to(i) == Min({i[2], DayStart[d + 1]})
  IN SumFunction([i \in {j \in intervals : from(j) < to(j)} |-> to(i) - from(i)])

\* get_pc_uptime_summary and get_pc_weekly_timeline: days the history still
\* covers are computed, older ones come from the stored totals. The timeline
\* stores nothing and refuses weeks that begin before the retention.
Ask(r) ==
  /\ req[r] = NoRequest
  /\ \E kind \in {"summary", "timeline"}, from, to \in Day :
       LET first == Max({from, Today - Retention})
       IN /\ from <= to
          /\ kind = "timeline" => to = from + WeekDays - 1 /\ first = from
          /\ req' = [req EXCEPT ![r] =
               [phase |-> IF first <= to THEN "before" ELSE "answered",
                kind |-> kind, from |-> from, first |-> first, to |-> to,
                end |-> Min({DayStart[to + 1], now}), before |-> {}, next |-> first,
                missed |-> {}, doubted |-> doubted \cap (from .. to),
                answer |-> [d \in from .. to |-> IF stored[d] = None THEN 0 ELSE stored[d]]]]
  /\ UNCHANGED <<now, changing, rows, pruned, stored, torn, doubted>>

\* get_latest_status_before; what is not inserted yet is missed.
ReadBefore(r) ==
  /\ req[r].phase = "before"
  /\ LET start == DayStart[req[r].first]
         earlier == {w \in rows : w.at < start}
     IN req' = [req EXCEPT ![r].phase = "between",
                          ![r].before = IF earlier = {} THEN {} ELSE {LatestOf(earlier)},
                          ![r].missed = {w \in changing : w.at < start}]
  /\ UNCHANGED <<now, changing, rows, pruned, stored, torn, doubted>>

\* list_status_history_between, and the totals of the days from it.
ReadBetween(r) ==
  /\ req[r].phase = "between"
  /\ LET q == req[r]
         start == DayStart[q.first]
         between == {w \in rows : start <= w.at /\ w.at < q.end}
         found == IF q.end <= start THEN {} ELSE Intervals(q.before, between, start, q.end)
         Doubtful(d) == IF d < q.first THEN d \in q.doubted ELSE TellsPart(q.missed \cup changing, d, q.end)
     IN req' = [req EXCEPT
          ![r].phase = IF q.kind = "summary" THEN "store" ELSE "answered",
          ![r].before = {}, ![r].missed = {},
          ![r].doubted = {d \in q.from .. q.to : Doubtful(d)},
          ![r].answer = [d \in q.from .. q.to |-> IF d < q.first THEN @[d] ELSE Total(found, d)]]
  /\ UNCHANGED <<now, changing, rows, pruned, stored, torn, doubted>>

\* upsert_daily_summary for one day after the other; the table refuses more
\* than 86400 seconds and the request fails.
Store(r) ==
  /\ req[r].phase = "store"
  /\ LET q == req[r]
     IN \/ /\ q.answer[q.next] <= Standard
           /\ stored' = [stored EXCEPT ![q.next] = q.answer[q.next]]
           /\ doubted' = (doubted \ {q.next}) \cup (q.doubted \cap {q.next})
           /\ req' = IF q.next = q.to THEN [req EXCEPT ![r].phase = "answered"]
                     ELSE [req EXCEPT ![r].next = @ + 1]
        \/ /\ q.answer[q.next] > Standard
           /\ req' = [req EXCEPT ![r].phase = "failed"]
           /\ UNCHANGED <<stored, doubted>>
  /\ UNCHANGED <<now, changing, rows, pruned, torn>>

Leave(r) ==
  /\ req[r].phase \in {"answered", "failed"}
  /\ req' = [req EXCEPT ![r] = NoRequest]
  /\ UNCHANGED <<now, changing, rows, pruned, stored, torn, doubted>>

UptimeNext ==
  \/ BeginChange \/ RecordElsewhere \/ Passes
  \/ \E w \in changing : Record(w)
  \/ \E r \in Request : Ask(r) \/ ReadBefore(r) \/ ReadBetween(r) \/ Store(r) \/ Leave(r)

UptimeSpec == UptimeInit /\ [][UptimeNext]_uptimeVars
-----------------------------------------------------------------------------
\* The time of a day the PC was online, up to some time.
Truth(d, end) == Cardinality({t \in Ticks(d, end) : \E w \in Telling(t) : w.online})

\* The history still tells the status of the whole day.
Covered(d) == \A t \in Ticks(d, now + 1) : Telling(t) \subseteq rows

Rows == [nth : 1 .. MaxChanges, at : Tick, online : BOOLEAN]
Answered(r) == req[r].phase = "answered"

\* Types; a stored total is one the table admits.
UptimeTypeOK ==
  /\ now \in Tick /\ torn \in BOOLEAN /\ doubted \subseteq Day
  /\ {changing, rows, pruned} \subseteq SUBSET Rows
  /\ stored \in [Day -> {None} \cup 0 .. Standard]
  /\ \A r \in Request :
       \/ req[r] = NoRequest
       \/ /\ req[r].phase \in {"before", "between", "store", "answered", "failed"}
          /\ req[r].kind = "timeline" => req[r].phase \notin {"store", "failed"}
          /\ {req[r].from, req[r].to} \subseteq Day /\ {req[r].before, req[r].missed} \subseteq SUBSET Rows
          /\ req[r].answer \in [req[r].from .. req[r].to -> Nat]

\* An answer gives, for every day the history covers, the time the PC was
\* online up to the request, although rows arrive and go while it is read -
\* unless the change that tells part of the day took its time before and its
\* row came after the read (_collect_online_intervals,
\* _split_interval_by_local_day, update_runtime_status).
AnswerIsTrue ==
  \A r \in Request : Answered(r) =>
    \A d \in (req[r].first .. req[r].to) \ req[r].doubted :
      Covered(d) => req[r].answer[d] = Truth(d, req[r].end)

\* Pruning, gaps in the history and requests that finish late may lose online
\* time but never invent it, neither in an answer nor in a stored total -
\* unless rows are pruned just between the two reads of a request, or the day's
\* figure was read before the row of a change that tells part of the day came.
NeverOverstated ==
  ~torn =>
  /\ \A d \in Day \ doubted : stored[d] # None => stored[d] <= Truth(d, now)
  /\ \A r \in Request : Answered(r) =>
       \A d \in (req[r].from .. req[r].to) \ req[r].doubted : req[r].answer[d] <= Truth(d, now)

\* A summary fails only for a day with more online time than 24 hours (the
\* table's check), which takes a day of 25 hours, or a row that came late.
FailsOnLongDaysOnly ==
  ~torn => \A r \in Request : req[r].phase = "failed" /\ req[r].next \notin req[r].doubted =>
    Truth(req[r].next, now) > Standard

\* Types, and what an answer says: the truth where the history covers a day,
\* never more than it, and no failure but on long days (uptime_service).
AnswersHold ==
  /\ UptimeTypeOK
  /\ AnswerIsTrue
  /\ NeverOverstated
  /\ FailsOnLongDaysOnly

\* The right total of a day is not replaced by a wrong one as long as the
\* history covers the day, unless the request that replaces it is older than
\* the online time it misses, or read the day before the row of a change that
\* tells part of it came (upsert_daily_summary).
RightTotalsStay ==
  [][\A d \in Day :
       stored[d] = Truth(d, now) /\ stored'[d] # stored[d] =>
         \/ ~Covered(d)
         \/ \E r \in Request : /\ req[r].phase = "store"
                               /\ Truth(d, req[r].end) < Truth(d, now) \/ d \in req[r].doubted]_uptimeVars
=============================================================================
