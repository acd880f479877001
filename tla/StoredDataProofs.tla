-------------------------- MODULE StoredDataProofs --------------------------
(***************************************************************************)
(* The backend's records of the past: the status history of a PC, with the *)
(* rule of two failed probes, while operations on the PC do not overlap;   *)
(* the copies of the database, for every number of runs that do; and the   *)
(* log, as the browser's list shows it page by page.                       *)
(***************************************************************************)
EXTENDS PcStatus, Backups, LogPaging, FiniteSetTheorems, WellFoundedInduction, TLAPS

Shown == Status \cup {None}
Stage == {"idle", "probe", "reset", "count", "store", "current", "history", "write", "written",
          "send", "poll", "upsert", "cleanup"}
Operation == {"none", "refresh", "wol", "ssh", "edit", "delete"}
Work == [op: Operation, at: Stage, prev: Shown, next: Shown, seen: BOOLEAN, keep: BOOLEAN, count: Nat]
Pc == [here: BOOLEAN, status: Status, seen: BOOLEAN]

\* What an operation under way has: a status to write, once it has found one.
WorkTyped(w) ==
  /\ w \in Work
  /\ w.at \in {"reset", "current", "history", "write", "upsert"} => w.next \in Status
  /\ w.op = "wol" => w.prev \in Status
  /\ w.op = "refresh" /\ w.at \in {"probe", "count", "store"} => w.next = None

\* A refresh works with the status the PC still has, and the streak counts
\* failures that no answer has followed, unless it is about to be cleared.
RefreshHolds(w) ==
  /\ w.op = "refresh" /\ w.at # "written" => w.prev = pc.status
  /\ w.op = "refresh" /\ w.keep => w.next = w.prev
  /\ w.at = "count" => Capped(streak + 1) <= failed
  /\ w.at = "store" => w.count <= failed
  /\ streak <= failed \/ w.at = "reset" \/ (w.at = "current" /\ w.next # "offline" /\ ~w.keep)

\* The newest row is the status of the PC, or the one about to be written.
HistoryHolds(w) ==
  ~lost =>
    /\ pc.here
    /\ history[2] # None => history[1] # history[2]
    /\ w.at = "write" => history[2] \in {None, w.next}
    /\ w.at # "write" => history[2] \in {None, pc.status}
    /\ w.at = "history" => w.next # pc.status
    /\ w.at = "upsert" => w.next = pc.status

\* The inductive invariant of one thread.
StatusInv(t) ==
  /\ pc \in Pc /\ streak \in 0 .. Confirm /\ failed \in 0 .. Confirm
  /\ history \in Shown \X Shown
  /\ work \in [Thread -> Work]
  /\ WorkTyped(work[t]) /\ RefreshHolds(work[t]) /\ HistoryHolds(work[t])

LEMMA AtIs ==
  ASSUME NEW w \in Work, NEW a \in Stage, NEW v, v = [w EXCEPT !.at = a]
  PROVE  /\ v \in Work /\ v.at = a /\ v.op = w.op /\ v.prev = w.prev /\ v.next = w.next
         /\ v.seen = w.seen /\ v.keep = w.keep /\ v.count = w.count
<1>1. v = [op |-> w.op, at |-> a, prev |-> w.prev, next |-> w.next, seen |-> w.seen, keep |-> w.keep,
           count |-> w.count]
  BY DEF Work
<1>2. w \in Work /\ a \in Stage
  OBVIOUS
<1> QED BY <1>1, <1>2 DEF Work

\* An operation begins with nothing but what it has read.
LEMMA BeginsIs ==
  ASSUME NEW o \in Operation, NEW a \in Stage, NEW p \in Shown, NEW n \in Shown, NEW s \in BOOLEAN,
         NEW k \in BOOLEAN,
         NEW v, v = [op |-> o, at |-> a, prev |-> p, next |-> n, seen |-> s, keep |-> k, count |-> 0]
  PROVE  /\ v \in Work /\ v.op = o /\ v.at = a /\ v.prev = p /\ v.next = n /\ v.keep = k
  BY DEF Work

LEMMA IdleIs ==
  /\ Idle \in Work /\ Idle.op = "none" /\ Idle.at = "idle" /\ Idle.next = None /\ Idle.prev = None
  /\ Idle.keep = FALSE
  BY DEF Idle, Work, Operation, Stage, Shown

\* The step of an operation replaces what its thread has.
LEMMA GotoIs ==
  ASSUME NEW t \in Thread, work \in [Thread -> Work], NEW v \in Work, Goto(t, v)
  PROVE  work' \in [Thread -> Work] /\ work'[t] = v
  BY DEF Goto
-----------------------------------------------------------------------------
LEMMA StatusInvInit ==
  ASSUME NEW t \in Thread, StatusInit
  PROVE  StatusInv(t)
<1>1. pc = [here |-> TRUE, status |-> "unknown", seen |-> FALSE]
  BY DEF StatusInit, NoPc
<1>2. pc \in Pc /\ pc.here
  BY <1>1 DEF Pc, Status
<1>3. work \in [Thread -> Work] /\ work[t] = Idle
  BY IdleIs DEF StatusInit
<1>4. streak = 0 /\ failed = 0 /\ history = <<None, None>> /\ lost = FALSE
  BY DEF StatusInit
<1>5. history \in Shown \X Shown /\ history[2] = None
  BY <1>4 DEF Shown
<1>6. WorkTyped(work[t])
  BY <1>3, IdleIs DEF WorkTyped
<1>7. RefreshHolds(work[t])
  BY <1>3, <1>4, IdleIs DEF RefreshHolds
<1>8. HistoryHolds(work[t])
  BY <1>2, <1>3, <1>5, IdleIs DEF HistoryHolds
<1> QED BY <1>2, <1>3, <1>4, <1>5, <1>6, <1>7, <1>8 DEF StatusInv, Confirm

\* A step that replaces what the thread has by something that holds.
LEMMA StepInv ==
  ASSUME NEW t \in Thread, StatusInv(t), NEW v \in Work, Goto(t, v),
         pc' \in Pc, streak' \in 0 .. Confirm, failed' \in 0 .. Confirm, history' \in Shown \X Shown,
         WorkTyped(v), RefreshHolds(v)', HistoryHolds(v)'
  PROVE  StatusInv(t)'
<1>1. work' \in [Thread -> Work] /\ work'[t] = v
  BY GotoIs DEF StatusInv
<1>2. WorkTyped(work[t])' /\ RefreshHolds(work[t])' /\ HistoryHolds(work[t])'
  BY <1>1 DEF WorkTyped, RefreshHolds, HistoryHolds
<1> QED BY <1>1, <1>2 DEF StatusInv

\* A step that leaves the row and the history alone, and does not go to where a
\* row or the history is written with anything new.
LEMMA QuietStep ==
  ASSUME NEW t \in Thread, StatusInv(t), NEW v \in Work, Goto(t, v), UNCHANGED <<pc, history, lost>>,
         work[t].at # "write", v.at \notin {"history", "write", "upsert"},
         streak' \in 0 .. Confirm, failed' \in 0 .. Confirm, WorkTyped(v), RefreshHolds(v)'
  PROVE  StatusInv(t)'
<1>1. HistoryHolds(v)'
  BY DEF StatusInv, HistoryHolds
<1>2. pc' \in Pc /\ history' \in Shown \X Shown
  BY DEF StatusInv
<1> QED BY <1>1, <1>2, StepInv

LEMMA CapIs ==
  ASSUME NEW n \in 0 .. Confirm
  PROVE  Capped(n + 1) \in 0 .. Confirm /\ Capped(n + 1) >= n /\ \A m \in 0 .. n : Capped(m + 1) <= Capped(n + 1)
  BY DEF Capped, Confirm

\* The stages of a refresh up to the call of _update_runtime_status.
LEMMA RefreshBeginsInv ==
  ASSUME NEW t \in Thread, StatusInv(t), RefreshBegins(t)
  PROVE  StatusInv(t)'
<1>1. PICK v : v = [Idle EXCEPT !.op = "refresh", !.at = "probe", !.prev = pc.status]
  OBVIOUS
<1>2. v = [op |-> "refresh", at |-> "probe", prev |-> pc.status, next |-> None, seen |-> FALSE,
           keep |-> FALSE, count |-> 0]
  BY <1>1 DEF Idle
<1>3. pc.status \in Shown /\ pc.status \in Status
  BY DEF StatusInv, Pc, Shown
<1>4. v \in Work /\ v.op = "refresh" /\ v.at = "probe" /\ v.prev = pc.status /\ v.next = None /\ v.keep = FALSE
  BY <1>2, <1>3 DEF Work, Operation, Stage, Shown
<1>5. Goto(t, v) /\ UNCHANGED <<pc, streak, history, failed, lost>> /\ work[t] = Idle
  BY <1>1 DEF RefreshBegins
<1>6. streak <= failed
  BY <1>5, IdleIs DEF StatusInv, RefreshHolds
<1>7. WorkTyped(v) /\ RefreshHolds(v)'
  BY <1>4, <1>5, <1>6 DEF WorkTyped, RefreshHolds
<1> QED BY <1>4, <1>5, <1>7, IdleIs, QuietStep DEF StatusInv

LEMMA RefreshProbesInv ==
  ASSUME NEW t \in Thread, StatusInv(t), RefreshProbes(t)
  PROVE  StatusInv(t)'
<1> DEFINE w == work[t]
           found == IF Probe = "error" \/ (Probe = "offline" /\ w.prev = "unreachable")
                    THEN "unreachable" ELSE Probe
<1>1. /\ w.op = "refresh" /\ w.at = "probe"
      /\ Goto(t, IF found = "offline" THEN [w EXCEPT !.at = "count"]
                 ELSE [w EXCEPT !.at = "reset", !.next = found])
      /\ failed' = IF Probe = "offline" THEN Capped(failed + 1)
                   ELSE IF Probe = "online" THEN 0 ELSE failed
      /\ UNCHANGED <<pc, streak, history, lost>>
  BY DEF RefreshProbes, At
<1>2. /\ w \in Work /\ w.prev = pc.status /\ w.next = None /\ (w.keep => w.next = w.prev)
      /\ streak <= failed /\ streak \in 0 .. Confirm /\ failed \in 0 .. Confirm /\ pc.status \in Status
  BY <1>1 DEF StatusInv, WorkTyped, RefreshHolds, Pc
<1>3. Probe \in {"error", "online", "offline"}
  BY DEF Probe
<1>4. ~w.keep
  BY <1>2, StatusAssumption DEF Status
<1>5. failed' \in 0 .. Confirm
  BY <1>1, <1>2, CapIs DEF Confirm
<1>6. CASE found = "offline"
  <2>1. PICK v : v = [w EXCEPT !.at = "count"]
    OBVIOUS
  <2>2. Probe = "offline"
    BY <1>6
  <2>3. v \in Work /\ v.at = "count" /\ v.op = "refresh" /\ v.prev = pc.status /\ v.next = None /\ v.keep = w.keep
    BY <1>1, <1>2, <2>1, AtIs DEF Stage
  <2>4. Goto(t, v)
    BY <1>1, <1>6, <2>1
  <2>5. Capped(streak + 1) <= failed' /\ streak <= failed'
    BY <1>1, <1>2, <2>2, CapIs
  <2>6. WorkTyped(v) /\ RefreshHolds(v)'
    BY <1>1, <1>4, <2>3, <2>5 DEF WorkTyped, RefreshHolds
  <2> QED BY <1>1, <1>2, <1>5, <2>3, <2>4, <2>6, QuietStep
<1>7. CASE found # "offline"
  <2>0. found \in {"online", "unreachable"}
    BY <1>3, <1>7
  <2> HIDE DEF found
  <2>1. PICK v : v = [w EXCEPT !.at = "reset", !.next = found]
    OBVIOUS
  <2>2. v = [op |-> w.op, at |-> "reset", prev |-> w.prev, next |-> found, seen |-> w.seen,
             keep |-> w.keep, count |-> w.count]
    BY <1>2, <2>1 DEF Work
  <2>3. v \in Work /\ v.at = "reset" /\ v.op = "refresh" /\ v.prev = pc.status /\ v.next = found /\ v.keep = w.keep
    <3>1. found \in Shown /\ w \in Work
      BY <1>2, <2>0 DEF Shown, Status
    <3> HIDE DEF w
    <3> QED BY <1>1, <1>2, <2>2, <3>1 DEF Work, Stage
  <2>4. Goto(t, v)
    BY <1>1, <1>7, <2>1
  <2>5. WorkTyped(v)
    BY <2>0, <2>3 DEF WorkTyped, Status
  <2>6. RefreshHolds(v)'
    BY <1>1, <1>4, <2>3 DEF RefreshHolds
  <2> QED BY <1>1, <1>2, <1>5, <2>3, <2>4, <2>5, <2>6, QuietStep
<1> QED BY <1>6, <1>7

LEMMA StreakEndsInv ==
  ASSUME NEW t \in Thread, StatusInv(t), StreakEnds(t)
  PROVE  StatusInv(t)'
<1> DEFINE w == work[t]
<1>1. /\ w.op = "refresh" /\ w.at = "reset" /\ streak' = 0
      /\ Goto(t, Update(w, w.next, w.next = "online", FALSE))
      /\ UNCHANGED <<pc, history, failed, lost>>
  BY DEF StreakEnds, At
<1>2. w \in Work /\ w.next \in Status /\ w.prev = pc.status
  BY <1>1 DEF StatusInv, WorkTyped, RefreshHolds
<1>3. PICK v : v = Update(w, w.next, w.next = "online", FALSE)
  OBVIOUS
<1>4. v \in Work /\ v.at = "current" /\ v.op = w.op /\ v.prev = w.prev /\ v.next = w.next /\ v.keep = FALSE
  <2>1. v = [op |-> w.op, at |-> "current", prev |-> w.prev, next |-> w.next,
             seen |-> w.next = "online", keep |-> FALSE, count |-> w.count]
    BY <1>2, <1>3 DEF Work, Update
  <2>2. w \in Work
    BY <1>2
  <2> HIDE DEF w
  <2> QED BY <2>1, <2>2 DEF Work, Stage
<1>5. 0 <= failed' /\ streak' \in 0 .. Confirm /\ failed' \in 0 .. Confirm
  BY <1>1 DEF StatusInv, Confirm
<1>6. WorkTyped(v) /\ RefreshHolds(v)'
  BY <1>1, <1>2, <1>4, <1>5 DEF WorkTyped, RefreshHolds
<1> QED BY <1>1, <1>3, <1>4, <1>5, <1>6, QuietStep

LEMMA StreakReadInv ==
  ASSUME NEW t \in Thread, StatusInv(t), StreakRead(t)
  PROVE  StatusInv(t)'
<1> DEFINE w == work[t]
           n == Capped(streak + 1)
<1>1. /\ w.op = "refresh" /\ w.at = "count"
      /\ Goto(t, [w EXCEPT !.at = "store", !.count = n])
      /\ UNCHANGED <<pc, streak, history, failed, lost>>
  BY DEF StreakRead, At
<1>2. /\ w \in Work /\ w.prev = pc.status /\ w.next = None /\ (w.keep => w.next = w.prev)
      /\ streak \in 0 .. Confirm /\ failed \in 0 .. Confirm /\ n <= failed /\ streak <= failed
  BY <1>1 DEF StatusInv, WorkTyped, RefreshHolds
<1>3. n \in Nat
  BY <1>2, CapIs
<1> HIDE DEF n
<1>4. PICK v : v = [w EXCEPT !.at = "store", !.count = n]
  OBVIOUS
<1>5. v = [op |-> w.op, at |-> "store", prev |-> w.prev, next |-> w.next, seen |-> w.seen,
           keep |-> w.keep, count |-> n]
  BY <1>2, <1>4 DEF Work
<1> HIDE DEF w
<1>6. v \in Work /\ v.at = "store" /\ v.op = w.op /\ v.prev = w.prev /\ v.next = w.next /\ v.keep = w.keep
      /\ v.count = n
  BY <1>2, <1>3, <1>5 DEF Work, Stage
<1>7. WorkTyped(v) /\ RefreshHolds(v)'
  BY <1>1, <1>2, <1>6 DEF WorkTyped, RefreshHolds
<1> QED BY <1>1, <1>2, <1>4, <1>6, <1>7, QuietStep DEF w

LEMMA StreakStoredInv ==
  ASSUME NEW t \in Thread, StatusInv(t), StreakStored(t)
  PROVE  StatusInv(t)'
<1> DEFINE w == work[t]
<1>1. /\ w.op = "refresh" /\ w.at = "store" /\ streak' = w.count
      /\ Goto(t, IF w.count < Confirm THEN Update(w, w.prev, FALSE, w.prev # "offline")
                 ELSE Update(w, "offline", FALSE, FALSE))
      /\ UNCHANGED <<pc, history, failed, lost>>
  BY DEF StreakStored, At
<1>2. /\ w \in Work /\ w.prev = pc.status /\ pc.status \in Status
      /\ w.count <= failed /\ failed \in 0 .. Confirm /\ w.count \in Nat
  BY <1>1 DEF StatusInv, WorkTyped, RefreshHolds, Pc, Work
<1>3. streak' \in 0 .. Confirm /\ streak' <= failed' /\ failed' \in 0 .. Confirm
  BY <1>1, <1>2 DEF Confirm
<1>4. PICK v : v = IF w.count < Confirm THEN Update(w, w.prev, FALSE, w.prev # "offline")
                   ELSE Update(w, "offline", FALSE, FALSE)
  OBVIOUS
<1>5. v \in Work /\ v.at = "current" /\ v.op = w.op /\ v.prev = w.prev /\ v.next \in Status
      /\ (v.keep => v.next = v.prev)
  <2>1. CASE w.count < Confirm
    <3>1. v = Update(w, w.prev, FALSE, w.prev # "offline")
      BY <1>4, <2>1
    <3>2. v = [op |-> w.op, at |-> "current", prev |-> w.prev, next |-> w.prev, seen |-> FALSE,
               keep |-> w.prev # "offline", count |-> w.count]
      BY <1>2, <3>1 DEF Work, Update
    <3>3. w \in Work /\ w.prev \in Status
      BY <1>2
    <3> HIDE DEF w
    <3> QED BY <3>2, <3>3 DEF Work, Stage
  <2>2. CASE ~(w.count < Confirm)
    <3>1. v = Update(w, "offline", FALSE, FALSE) /\ "offline" \in Status
      BY <1>4, <2>2 DEF Status
    <3>2. v = [op |-> w.op, at |-> "current", prev |-> w.prev, next |-> "offline", seen |-> FALSE,
               keep |-> FALSE, count |-> w.count]
      BY <1>2, <3>1 DEF Work, Update
    <3>3. w \in Work
      BY <1>2
    <3> HIDE DEF w
    <3> QED BY <3>2, <3>3 DEF Work, Stage, Status, Shown
  <2> QED BY <2>1, <2>2
<1>6. WorkTyped(v) /\ RefreshHolds(v)'
  BY <1>1, <1>2, <1>3, <1>5 DEF WorkTyped, RefreshHolds
<1>7. Goto(t, v)
  BY <1>1, <1>4
<1> QED BY <1>1, <1>3, <1>5, <1>6, <1>7, QuietStep

\* update_runtime_status: whatever the operation, a row is inserted for a status
\* that differs from the one the PC has, and written after it.
LEMMA ReadCurrentInv ==
  ASSUME NEW t \in Thread, StatusInv(t), ReadCurrent(t)
  PROVE  StatusInv(t)'
<1> DEFINE w == work[t]
           a == IF ~pc.here THEN "written" ELSE IF pc.status = w.next THEN "write" ELSE "history"
<1>1. /\ w.at = "current"
      /\ streak' = IF w.next # "offline" /\ ~w.keep THEN 0 ELSE streak
      /\ Goto(t, [w EXCEPT !.at = a])
      /\ UNCHANGED <<pc, history, failed, lost>>
  <2>1. CASE ~pc.here
    BY <2>1 DEF ReadCurrent
  <2>2. CASE pc.here /\ pc.status = w.next
    BY <2>2 DEF ReadCurrent
  <2>3. CASE pc.here /\ pc.status # w.next
    BY <2>3 DEF ReadCurrent
  <2> QED BY <2>1, <2>2, <2>3
<1>2. /\ w \in Work /\ w.next \in Status /\ streak \in 0 .. Confirm /\ failed \in 0 .. Confirm
      /\ WorkTyped(w) /\ RefreshHolds(w) /\ HistoryHolds(w) /\ pc \in Pc /\ history \in Shown \X Shown
  BY <1>1 DEF StatusInv, WorkTyped
<1>3. a \in {"written", "write", "history"}
  OBVIOUS
<1>4. (a = "write" => pc.status = w.next) /\ (a = "history" => pc.status # w.next)
  OBVIOUS
<1> HIDE DEF a
<1>5. PICK v : v = [w EXCEPT !.at = a]
  OBVIOUS
<1>6. v \in Work /\ v.at = a /\ v.op = w.op /\ v.prev = w.prev /\ v.next = w.next /\ v.keep = w.keep
  BY <1>2, <1>3, <1>5, AtIs DEF Stage
<1> HIDE DEF w
<1>7. streak' \in 0 .. Confirm /\ streak' <= failed
  BY <1>1, <1>2 DEF RefreshHolds, Confirm
<1>8. WorkTyped(v)
  BY <1>1, <1>2, <1>3, <1>6 DEF WorkTyped
<1>9. RefreshHolds(v)'
  BY <1>1, <1>2, <1>3, <1>6, <1>7 DEF RefreshHolds
<1>10. HistoryHolds(v)'
  BY <1>1, <1>2, <1>3, <1>4, <1>6 DEF HistoryHolds
<1> QED BY <1>1, <1>2, <1>5, <1>6, <1>7, <1>8, <1>9, <1>10, StepInv

LEMMA InsertHistoryInv ==
  ASSUME NEW t \in Thread, StatusInv(t), InsertHistory(t)
  PROVE  StatusInv(t)'
<1> DEFINE w == work[t]
<1>1. /\ w.at = "history" /\ history' = <<history[2], w.next>> /\ Goto(t, [w EXCEPT !.at = "write"])
      /\ UNCHANGED <<pc, streak, failed, lost>>
  BY DEF InsertHistory
<1>2. /\ w \in Work /\ w.next \in Status /\ streak \in 0 .. Confirm /\ failed \in 0 .. Confirm
      /\ WorkTyped(w) /\ RefreshHolds(w) /\ HistoryHolds(w) /\ pc \in Pc /\ history \in Shown \X Shown
  BY <1>1 DEF StatusInv, WorkTyped
<1>3. PICK v : v = [w EXCEPT !.at = "write"]
  OBVIOUS
<1>4. v \in Work /\ v.at = "write" /\ v.op = w.op /\ v.prev = w.prev /\ v.next = w.next /\ v.keep = w.keep
  BY <1>2, <1>3, AtIs DEF Stage
<1> HIDE DEF w
<1>5. history' \in Shown \X Shown /\ history'[1] = history[2] /\ history'[2] = w.next
  BY <1>1, <1>2 DEF Shown
<1>6. WorkTyped(v)
  BY <1>1, <1>2, <1>4 DEF WorkTyped
<1>7. RefreshHolds(v)'
  BY <1>1, <1>2, <1>4 DEF RefreshHolds
<1>8. None \notin Status
  BY StatusAssumption DEF Status
<1>9. HistoryHolds(v)'
  BY <1>1, <1>2, <1>4, <1>5, <1>8 DEF HistoryHolds
<1>10. pc' \in Pc /\ streak' \in 0 .. Confirm /\ failed' \in 0 .. Confirm
  BY <1>1, <1>2
<1> QED BY <1>1, <1>3, <1>4, <1>5, <1>6, <1>7, <1>9, <1>10, StepInv

LEMMA WriteStatusInv ==
  ASSUME NEW t \in Thread, StatusInv(t), WriteStatus(t)
  PROVE  StatusInv(t)'
<1> DEFINE w == work[t]
<1>1. /\ w.at = "write" /\ Goto(t, [w EXCEPT !.at = "written"])
      /\ pc' = IF pc.here THEN [pc EXCEPT !.status = w.next, !.seen = @ \/ w.seen] ELSE pc
      /\ UNCHANGED <<streak, history, failed, lost>>
  BY DEF WriteStatus
<1>2. /\ w \in Work /\ w.next \in Status /\ streak \in 0 .. Confirm /\ failed \in 0 .. Confirm
      /\ WorkTyped(w) /\ RefreshHolds(w) /\ HistoryHolds(w) /\ pc \in Pc /\ history \in Shown \X Shown
  BY <1>1 DEF StatusInv, WorkTyped
<1>3. PICK v : v = [w EXCEPT !.at = "written"]
  OBVIOUS
<1>4. v \in Work /\ v.at = "written" /\ v.op = w.op /\ v.prev = w.prev /\ v.next = w.next /\ v.keep = w.keep
  BY <1>2, <1>3, AtIs DEF Stage
<1> HIDE DEF w
<1>5. pc' \in Pc /\ (pc.here => pc'.here /\ pc'.status = w.next)
  <2>1. CASE pc.here
    <3>1. pc' = [pc EXCEPT !.status = w.next, !.seen = @ \/ w.seen]
      BY <1>1, <2>1
    <3>2. pc' = [here |-> pc.here, status |-> w.next, seen |-> pc.seen \/ w.seen]
      BY <1>2, <3>1 DEF Pc
    <3>3. pc \in Pc /\ w.next \in Status /\ pc.here
      BY <1>2, <2>1
    <3> QED BY <3>2, <3>3 DEF Pc
  <2>2. CASE ~pc.here
    BY <1>1, <1>2, <2>2
  <2> QED BY <2>1, <2>2
<1>6. UNCHANGED <<streak, history, failed, lost>> /\ w.at = "write" /\ Goto(t, v)
  BY <1>1, <1>3
<1>7. WorkTyped(v)
  BY <1>2, <1>4 DEF WorkTyped
<1>8. RefreshHolds(v)'
  BY <1>2, <1>4, <1>6 DEF RefreshHolds
<1>9. HistoryHolds(v)'
  BY <1>2, <1>4, <1>5, <1>6 DEF HistoryHolds
<1> QED BY <1>2, <1>4, <1>5, <1>6, <1>7, <1>8, <1>9, StepInv

LEMMA ReturnInv ==
  ASSUME NEW t \in Thread, StatusInv(t), Return(t)
  PROVE  StatusInv(t)'
<1> DEFINE w == work[t]
<1>1. /\ w.at = "written" /\ UNCHANGED <<pc, streak, history, failed, lost>>
      /\ Goto(t, IF w.op = "wol" /\ w.next = "booting" THEN [w EXCEPT !.at = "poll"] ELSE Idle)
  BY DEF Return
<1>2. /\ w \in Work /\ streak \in 0 .. Confirm /\ failed \in 0 .. Confirm /\ WorkTyped(w) /\ RefreshHolds(w)
  BY DEF StatusInv
<1>3. streak <= failed
  BY <1>1, <1>2 DEF RefreshHolds
<1>4. CASE w.op = "wol" /\ w.next = "booting"
  <2>1. PICK v : v = [w EXCEPT !.at = "poll"]
    OBVIOUS
  <2>2. v \in Work /\ v.at = "poll" /\ v.op = w.op /\ v.prev = w.prev /\ v.next = w.next /\ v.keep = w.keep
    BY <1>2, <2>1, AtIs DEF Stage
  <2>3. Goto(t, v)
    BY <1>1, <1>4, <2>1
  <2>4. WorkTyped(v) /\ RefreshHolds(v)'
    BY <1>1, <1>2, <1>3, <1>4, <2>2 DEF WorkTyped, RefreshHolds
  <2> QED BY <1>1, <1>2, <2>2, <2>3, <2>4, QuietStep
<1>5. CASE ~(w.op = "wol" /\ w.next = "booting")
  <2>1. Goto(t, Idle)
    BY <1>1, <1>5
  <2>2. WorkTyped(Idle)
    BY IdleIs DEF WorkTyped
  <2>3. RefreshHolds(Idle)'
    BY <1>1, <1>3, IdleIs DEF RefreshHolds
  <2> QED BY <1>1, <1>2, <2>1, <2>2, <2>3, IdleIs, QuietStep
<1> QED BY <1>4, <1>5

\* The WOL job, the connection test, edits and the deletion.
LEMMA BeginInv ==
  ASSUME NEW t \in Thread, StatusInv(t), work[t] = Idle, NEW v \in Work, Goto(t, v),
         UNCHANGED <<pc, streak, history, failed, lost>>,
         v.op # "refresh", v.at \notin {"reset", "history", "write", "count", "store"},
         v.at \in {"current", "upsert"} => v.next \in Status, v.op = "wol" => v.prev \in Status,
         v.at = "upsert" => v.next = pc.status
  PROVE  StatusInv(t)'
<1>1. /\ pc \in Pc /\ streak \in 0 .. Confirm /\ failed \in 0 .. Confirm /\ streak <= failed
      /\ history \in Shown \X Shown /\ HistoryHolds(Idle)
  BY IdleIs DEF StatusInv, RefreshHolds
<1>2. WorkTyped(v)
  BY DEF WorkTyped
<1>3. RefreshHolds(v)'
  BY <1>1 DEF RefreshHolds
<1>4. HistoryHolds(v)'
  BY <1>1, IdleIs DEF HistoryHolds
<1> QED BY <1>1, <1>2, <1>3, <1>4, StepInv

LEMMA WolBeginsInv ==
  ASSUME NEW t \in Thread, StatusInv(t), WolBegins(t)
  PROVE  StatusInv(t)'
<1> DEFINE p == IF pc.here /\ pc.seen THEN "offline" ELSE "unknown"
<1>1. p \in Status /\ p \in Shown
  BY DEF Status, Shown
<1>2. PICK v : v = [Idle EXCEPT !.op = "wol", !.at = "send", !.prev = p]
  OBVIOUS
<1>3. Goto(t, v) /\ work[t] = Idle /\ UNCHANGED <<pc, streak, history, failed, lost>>
  BY <1>2 DEF WolBegins
<1> HIDE DEF p
<1>4. v = [op |-> "wol", at |-> "send", prev |-> p, next |-> None, seen |-> FALSE, keep |-> FALSE, count |-> 0]
  BY <1>2 DEF Idle
<1>5. v \in Work /\ v.op = "wol" /\ v.at = "send" /\ v.prev = p
  BY <1>1, <1>4 DEF Work, Operation, Stage, Shown
<1> QED BY <1>1, <1>3, <1>5, BeginInv

LEMMA SshAnswersInv ==
  ASSUME NEW t \in Thread, StatusInv(t), SshAnswers(t)
  PROVE  StatusInv(t)'
<1>1. PICK v : v = Update([Idle EXCEPT !.op = "ssh"], "online", TRUE, TRUE)
  OBVIOUS
<1>2. Goto(t, v) /\ work[t] = Idle /\ UNCHANGED <<pc, streak, history, failed, lost>>
  BY <1>1 DEF SshAnswers
<1>3. v = [op |-> "ssh", at |-> "current", prev |-> None, next |-> "online", seen |-> TRUE, keep |-> TRUE,
           count |-> 0]
  BY <1>1 DEF Idle, Update
<1>4. v \in Work /\ v.op = "ssh" /\ v.at = "current" /\ v.next \in Status
  BY <1>3 DEF Work, Operation, Stage, Shown, Status
<1> QED BY <1>2, <1>4, BeginInv

LEMMA EditBeginsInv ==
  ASSUME NEW t \in Thread, StatusInv(t), EditBegins(t)
  PROVE  StatusInv(t)'
<1>1. PICK v : v = [Idle EXCEPT !.op = "edit", !.at = "upsert", !.next = pc.status, !.seen = pc.seen]
  OBVIOUS
<1>2. Goto(t, v) /\ work[t] = Idle /\ UNCHANGED <<pc, streak, history, failed, lost>>
  BY <1>1 DEF EditBegins
<1>3. v = [op |-> "edit", at |-> "upsert", prev |-> None, next |-> pc.status, seen |-> pc.seen,
           keep |-> FALSE, count |-> 0]
  BY <1>1 DEF Idle
<1>4. pc \in Pc
  BY DEF StatusInv
<1>5. v \in Work /\ v.op = "edit" /\ v.at = "upsert" /\ v.next = pc.status /\ v.next \in Status
  BY <1>3, <1>4 DEF Work, Operation, Stage, Shown, Pc
<1> QED BY <1>2, <1>5, BeginInv

\* A WOL job calls update_runtime_status, which may clear the streak.
LEMMA WolUpdates ==
  ASSUME NEW t \in Thread, StatusInv(t), work[t].op = "wol", work[t].at \in {"send", "poll"},
         NEW n \in Status, NEW s, s \in BOOLEAN,
         Goto(t, [work[t] EXCEPT !.at = "current", !.next = n, !.seen = s, !.keep = FALSE]),
         UNCHANGED <<pc, streak, history, lost>>, failed' \in 0 .. Confirm,
         n = "offline" => failed' = failed
  PROVE  StatusInv(t)'
<1> DEFINE w == work[t]
<1>1. w \in Work /\ WorkTyped(w) /\ RefreshHolds(w) /\ streak \in 0 .. Confirm /\ failed \in 0 .. Confirm
  BY DEF StatusInv
<1>2. PICK v : v = [w EXCEPT !.at = "current", !.next = n, !.seen = s, !.keep = FALSE]
  OBVIOUS
<1>3. v = [op |-> w.op, at |-> "current", prev |-> w.prev, next |-> n, seen |-> s, keep |-> FALSE,
           count |-> w.count]
  BY <1>1, <1>2 DEF Work
<1>4. Goto(t, v) /\ w.op = "wol" /\ w.at \in {"send", "poll"}
  BY <1>2
<1> HIDE DEF w
<1>5. v \in Work /\ v.at = "current" /\ v.op = w.op /\ v.prev = w.prev /\ v.next = n /\ v.keep = FALSE
  BY <1>1, <1>3 DEF Work, Stage, Shown
<1>6. WorkTyped(v)
  BY <1>1, <1>4, <1>5 DEF WorkTyped
<1>7. streak <= failed
  BY <1>1, <1>4 DEF RefreshHolds
<1>8. RefreshHolds(v)'
  BY <1>4, <1>5, <1>7 DEF RefreshHolds
<1> QED BY <1>1, <1>4, <1>5, <1>6, <1>8, QuietStep DEF w

LEMMA WolSendsInv ==
  ASSUME NEW t \in Thread, StatusInv(t), WolSends(t)
  PROVE  StatusInv(t)'
<1> DEFINE n == IF Probe = "error" THEN "unreachable" ELSE "booting"
<1>1. n \in Status /\ n # "offline"
  BY DEF Status
<1>2. /\ work[t].op = "wol" /\ work[t].at = "send" /\ UNCHANGED <<pc, streak, history, failed, lost>>
      /\ Goto(t, [work[t] EXCEPT !.at = "current", !.next = n, !.seen = FALSE, !.keep = FALSE])
  BY DEF WolSends, At, Update
<1>3. failed' \in 0 .. Confirm
  BY <1>2 DEF StatusInv
<1> HIDE DEF n
<1> QED BY <1>1, <1>2, <1>3, WolUpdates

LEMMA WolPollsInv ==
  ASSUME NEW t \in Thread, StatusInv(t), WolPolls(t)
  PROVE  StatusInv(t)'
<1> DEFINE w == work[t]
<1>1. /\ w.op = "wol" /\ w.at = "poll" /\ UNCHANGED <<pc, streak, history, lost>>
      /\ failed' = IF Probe = "online" THEN 0 ELSE failed
  BY DEF WolPolls, At, Answers
<1>2. w \in Work /\ w.prev \in Status /\ streak \in 0 .. Confirm /\ failed \in 0 .. Confirm
      /\ WorkTyped(w) /\ RefreshHolds(w)
  BY <1>1 DEF StatusInv, WorkTyped
<1>3. failed' \in 0 .. Confirm
  BY <1>1, <1>2 DEF Confirm
<1>4. ASSUME NEW n \in Status, NEW s, s \in BOOLEAN, n = "offline" => failed' = failed,
             Goto(t, [w EXCEPT !.at = "current", !.next = n, !.seen = s, !.keep = FALSE])
      PROVE  StatusInv(t)'
  BY <1>1, <1>3, <1>4, WolUpdates
<1>5. {"online", "unreachable"} \subseteq Status
  BY DEF Status
<1>6. CASE Probe = "online" /\ Goto(t, Update(w, "online", TRUE, FALSE))
  BY <1>4, <1>5, <1>6 DEF Update
<1>7. CASE Probe = "error" /\ Goto(t, Update(w, "unreachable", FALSE, FALSE))
  BY <1>4, <1>5, <1>7 DEF Update
<1>8. CASE Probe = "offline" /\ Goto(t, [w EXCEPT !.count = @ + 1])
  <2>1. PICK v : v = [w EXCEPT !.count = @ + 1]
    OBVIOUS
  <2>2. v = [op |-> w.op, at |-> w.at, prev |-> w.prev, next |-> w.next, seen |-> w.seen, keep |-> w.keep,
             count |-> w.count + 1]
    BY <1>2, <2>1 DEF Work
  <2>3. Goto(t, v)
    BY <1>8, <2>1
  <2>4. streak <= failed /\ failed' = failed
    BY <1>1, <1>2, <1>8 DEF RefreshHolds
  <2> HIDE DEF w
  <2>5. v \in Work /\ v.at = w.at /\ v.op = w.op /\ v.prev = w.prev /\ v.next = w.next /\ v.keep = w.keep
    BY <1>2, <2>2 DEF Work
  <2>6. WorkTyped(v) /\ RefreshHolds(v)'
    BY <1>1, <1>2, <2>4, <2>5 DEF WorkTyped, RefreshHolds
  <2> QED BY <1>1, <1>2, <1>3, <2>3, <2>5, <2>6, QuietStep DEF w
<1>9. CASE Probe = "offline" /\ Goto(t, Update(w, w.prev, FALSE, FALSE))
  <2>1. failed' = failed
    BY <1>1, <1>9
  <2>2. Goto(t, [w EXCEPT !.at = "current", !.next = w.prev, !.seen = FALSE, !.keep = FALSE])
    BY <1>9 DEF Update
  <2> QED BY <1>2, <1>4, <2>1, <2>2
<1> QED BY <1>6, <1>7, <1>8, <1>9 DEF WolPolls

LEMMA EditWritesInv ==
  ASSUME NEW t \in Thread, StatusInv(t), EditWrites(t)
  PROVE  StatusInv(t)'
<1> DEFINE w == work[t]
<1>1. /\ w.op = "edit" /\ w.at = "upsert" /\ Goto(t, [w EXCEPT !.at = "cleanup"])
      /\ pc' = [here |-> TRUE, status |-> w.next, seen |-> w.seen \/ pc.seen]
      /\ UNCHANGED <<streak, history, failed, lost>>
  BY DEF EditWrites, At
<1>2. /\ w \in Work /\ w.next \in Status /\ streak \in 0 .. Confirm /\ failed \in 0 .. Confirm
      /\ WorkTyped(w) /\ RefreshHolds(w) /\ HistoryHolds(w) /\ pc \in Pc /\ history \in Shown \X Shown
  BY <1>1 DEF StatusInv, WorkTyped
<1>3. PICK v : v = [w EXCEPT !.at = "cleanup"]
  OBVIOUS
<1>4. v \in Work /\ v.at = "cleanup" /\ v.op = w.op /\ v.prev = w.prev /\ v.next = w.next /\ v.keep = w.keep
  BY <1>2, <1>3, AtIs DEF Stage
<1>5. Goto(t, v)
  BY <1>1, <1>3
<1> HIDE DEF w
<1>6. pc' \in Pc /\ pc'.here /\ pc'.status = w.next
  BY <1>1, <1>2 DEF Pc
<1>7. WorkTyped(v)
  BY <1>1, <1>2, <1>4 DEF WorkTyped
<1>8. RefreshHolds(v)'
  BY <1>1, <1>2, <1>4 DEF RefreshHolds
<1>9. HistoryHolds(v)'
  BY <1>1, <1>2, <1>4, <1>6 DEF HistoryHolds
<1> QED BY <1>1, <1>2, <1>4, <1>5, <1>6, <1>7, <1>8, <1>9, StepInv

LEMMA DeleteInv ==
  ASSUME NEW t \in Thread, StatusInv(t), Delete(t)
  PROVE  StatusInv(t)'
<1>1. PICK v : v = [Idle EXCEPT !.op = "delete", !.at = "cleanup"]
  OBVIOUS
<1>2. Goto(t, v) /\ work[t] = Idle /\ pc' = NoPc /\ lost' = TRUE /\ UNCHANGED <<streak, history, failed>>
  BY <1>1 DEF Delete
<1>3. v = [op |-> "delete", at |-> "cleanup", prev |-> None, next |-> None, seen |-> FALSE, keep |-> FALSE,
           count |-> 0]
  BY <1>1 DEF Idle
<1>4. v \in Work /\ v.op = "delete" /\ v.at = "cleanup"
  BY <1>3 DEF Work, Operation, Stage, Shown
<1>5. pc' \in Pc
  BY <1>2 DEF NoPc, Pc, Status
<1>6. WorkTyped(v) /\ HistoryHolds(v)'
  BY <1>2, <1>4 DEF WorkTyped, HistoryHolds
<1>7. streak <= failed
  BY <1>2, IdleIs DEF StatusInv, RefreshHolds
<1>8. RefreshHolds(v)'
  BY <1>2, <1>4, <1>7 DEF RefreshHolds
<1>9. streak' \in 0 .. Confirm /\ failed' \in 0 .. Confirm /\ history' \in Shown \X Shown
  BY <1>2 DEF StatusInv
<1> QED BY <1>2, <1>4, <1>5, <1>6, <1>8, <1>9, StepInv

LEMMA CleanupInv ==
  ASSUME NEW t \in Thread, StatusInv(t), Cleanup(t)
  PROVE  StatusInv(t)'
<1>1. Goto(t, Idle) /\ streak' = 0 /\ work[t].at = "cleanup" /\ UNCHANGED <<pc, history, failed, lost>>
  BY DEF Cleanup
<1>2. streak' \in 0 .. Confirm /\ failed' \in 0 .. Confirm /\ streak' <= failed'
  BY <1>1 DEF StatusInv, Confirm
<1>3. WorkTyped(Idle) /\ RefreshHolds(Idle)'
  BY <1>2, IdleIs DEF WorkTyped, RefreshHolds
<1> QED BY <1>1, <1>2, <1>3, IdleIs, QuietStep

LEMMA RestInv ==
  ASSUME NEW t \in Thread, StatusInv(t), StreakExpires \/ Restart \/ NetChanges \/ UNCHANGED statusVars
  PROVE  StatusInv(t)'
<1>0. pc \in Pc /\ failed \in 0 .. Confirm /\ history \in Shown \X Shown /\ streak \in 0 .. Confirm
      /\ work \in [Thread -> Work]
      /\ WorkTyped(work[t]) /\ RefreshHolds(work[t]) /\ HistoryHolds(work[t])
  BY DEF StatusInv
<1>1. CASE StreakExpires
  <2>1. streak' = 0 /\ UNCHANGED <<pc, history, work, failed, lost>>
    BY <1>1 DEF StreakExpires
  <2>2. streak' \in 0 .. Confirm /\ streak' <= failed /\ Capped(streak' + 1) <= Capped(streak + 1)
        /\ Capped(streak' + 1) \in Int /\ Capped(streak + 1) \in Int
    BY <1>0, <2>1 DEF Capped, Confirm
  <2>3. RefreshHolds(work[t])'
    BY <1>0, <2>1, <2>2 DEF RefreshHolds
  <2>4. HistoryHolds(work[t])'
    BY <1>0, <2>1 DEF HistoryHolds
  <2> QED BY <1>0, <2>1, <2>2, <2>3, <2>4 DEF StatusInv
<1>2. CASE Restart
  <2>1. streak' = 0 /\ work' = [u \in Thread |-> Idle] /\ lost' = TRUE /\ UNCHANGED <<pc, history, failed>>
    BY <1>2 DEF Restart
  <2>2. work' \in [Thread -> Work] /\ work'[t] = Idle
    BY <2>1, IdleIs
  <2>3. streak' \in 0 .. Confirm /\ streak' <= failed
    BY <1>0, <2>1 DEF Confirm
  <2>4. WorkTyped(work'[t]) /\ RefreshHolds(work[t])' /\ HistoryHolds(work[t])'
    BY <2>1, <2>2, <2>3, IdleIs DEF WorkTyped, RefreshHolds, HistoryHolds
  <2> QED BY <1>0, <2>1, <2>2, <2>3, <2>4 DEF StatusInv
<1>3. CASE NetChanges \/ UNCHANGED statusVars
  <2>1. UNCHANGED <<pc, streak, history, work, failed, lost>>
    BY <1>3 DEF NetChanges, statusVars
  <2>2. RefreshHolds(work[t])' /\ HistoryHolds(work[t])'
    BY <1>0, <2>1 DEF RefreshHolds, HistoryHolds
  <2> QED BY <1>0, <2>1, <2>2 DEF StatusInv
<1> QED BY <1>1, <1>2, <1>3

LEMMA StatusInvNext ==
  ASSUME NEW t, Thread = {t}, StatusInv(t), [StatusNext]_statusVars
  PROVE  StatusInv(t)'
<1>1. t \in Thread /\ \A u \in Thread : u = t
  OBVIOUS
<1>2. CASE Proceed(t)
  BY <1>1, <1>2, RefreshProbesInv, StreakEndsInv, StreakReadInv, StreakStoredInv, ReadCurrentInv,
     InsertHistoryInv, WriteStatusInv, ReturnInv, WolSendsInv, WolPollsInv, EditWritesInv, CleanupInv
  DEF Proceed
<1>3. CASE RefreshBegins(t) \/ WolBegins(t) \/ SshAnswers(t) \/ EditBegins(t) \/ Delete(t)
  BY <1>1, <1>3, RefreshBeginsInv, WolBeginsInv, SshAnswersInv, EditBeginsInv, DeleteInv
<1>4. CASE StreakExpires \/ Restart \/ NetChanges \/ UNCHANGED statusVars
  BY <1>1, <1>4, RestInv
<1> QED BY <1>1, <1>2, <1>3, <1>4 DEF StatusNext, OperationNext

\* The stage an operation is in decides which step it takes next.
LEMMA StageOf ==
  ASSUME NEW t \in Thread, Proceed(t)
  PROVE  /\ work[t].at = "store" => StreakStored(t)
         /\ work[t].at = "write" => WriteStatus(t)
<1>1. /\ RefreshProbes(t) => work[t].at = "probe"
      /\ StreakEnds(t) => work[t].at = "reset"
      /\ StreakRead(t) => work[t].at = "count"
      /\ StreakStored(t) => work[t].at = "store"
  BY DEF RefreshProbes, StreakEnds, StreakRead, StreakStored, At
<1>2. /\ ReadCurrent(t) => work[t].at = "current"
      /\ InsertHistory(t) => work[t].at = "history"
      /\ WriteStatus(t) => work[t].at = "write"
      /\ Return(t) => work[t].at = "written"
  BY DEF ReadCurrent, InsertHistory, WriteStatus, Return
<1>3. /\ WolSends(t) => work[t].at = "send"
      /\ WolPolls(t) => work[t].at = "poll"
      /\ EditWrites(t) => work[t].at = "upsert"
      /\ Cleanup(t) => work[t].at = "cleanup"
  BY DEF WolSends, WolPolls, EditWrites, Cleanup, At
<1> QED BY <1>1, <1>2, <1>3 DEF Proceed

LEMMA BeginsIdle ==
  ASSUME NEW t \in Thread, RefreshBegins(t) \/ WolBegins(t) \/ SshAnswers(t) \/ EditBegins(t) \/ Delete(t)
  PROVE  work[t] = Idle
  BY DEF RefreshBegins, WolBegins, SshAnswers, EditBegins, Delete

\* What the rules on failed probes forbid of one step.
LEMMA RulesStep ==
  ASSUME NEW t, Thread = {t}, StatusInv(t), [StatusNext]_statusVars
  PROVE  /\ At(t, "refresh", "store") /\ work'[t].next = "offline" /\ work[t].prev # "offline"
              => failed >= Confirm
         /\ At(t, "refresh", "write") /\ work[t].keep /\ work'[t].at = "written" /\ pc.here
              => pc'.status = pc.status
<1> DEFINE w == work[t]
<1>0. t \in Thread /\ \A u \in Thread : u = t
  OBVIOUS
<1>1. ASSUME w.op = "refresh", w.at = "store", work'[t].next = "offline", w.prev # "offline"
      PROVE  failed >= Confirm
  <2>1. w \in Work /\ w.next = None /\ w.count <= failed /\ failed \in 0 .. Confirm /\ w.count \in Nat
    BY <1>1 DEF StatusInv, WorkTyped, RefreshHolds, Work
  <2>2. None # "offline"
    BY StatusAssumption
  <2>3. work'[t] # w /\ work'[t] # Idle
    BY <1>1, <2>1, <2>2, IdleIs
  <2>4. StreakStored(t)
    <3>1. CASE Proceed(t)
      BY <1>1, <3>1, StageOf
    <3>2. CASE RefreshBegins(t) \/ WolBegins(t) \/ SshAnswers(t) \/ EditBegins(t) \/ Delete(t)
      BY <1>1, <3>2, IdleIs, BeginsIdle
    <3>3. CASE Restart
      BY <1>0, <2>3, <3>3 DEF Restart
    <3>4. CASE StreakExpires \/ NetChanges \/ UNCHANGED statusVars
      BY <2>3, <3>4 DEF StreakExpires, NetChanges, statusVars
    <3> QED BY <1>0, <3>1, <3>2, <3>3, <3>4 DEF StatusNext, OperationNext
  <2>5. SUFFICES ASSUME w.count < Confirm PROVE FALSE
    BY <2>1 DEF Confirm
  <2>6. Goto(t, Update(w, w.prev, FALSE, w.prev # "offline"))
    BY <2>4, <2>5 DEF StreakStored
  <2>7. PICK v : v = Update(w, w.prev, FALSE, w.prev # "offline")
    OBVIOUS
  <2>8. v = [op |-> w.op, at |-> "current", prev |-> w.prev, next |-> w.prev, seen |-> FALSE,
             keep |-> w.prev # "offline", count |-> w.count]
    BY <2>1, <2>7 DEF Work, Update
  <2>9. v.next = w.prev
    BY <2>8
  <2>10. work'[t] = v
    BY <1>0, <2>6, <2>7 DEF Goto, StatusInv
  <2> QED BY <1>1, <2>9, <2>10
<1>2. ASSUME w.op = "refresh", w.at = "write", w.keep, work'[t].at = "written", pc.here
      PROVE  pc'.status = pc.status
  <2>1. w.next = pc.status /\ pc \in Pc
    BY <1>2 DEF StatusInv, RefreshHolds
  <2>2. CASE WriteStatus(t)
    <3>1. pc' = [pc EXCEPT !.status = w.next, !.seen = @ \/ w.seen]
      BY <1>2, <2>2 DEF WriteStatus
    <3>2. pc' = [here |-> pc.here, status |-> w.next, seen |-> pc.seen \/ w.seen]
      BY <2>1, <3>1 DEF Pc
    <3> QED BY <2>1, <3>2
  <2>3. CASE ~WriteStatus(t)
    <3>1. ~Proceed(t)
      BY <1>2, <2>3, StageOf
    <3>2. ~(RefreshBegins(t) \/ WolBegins(t) \/ SshAnswers(t) \/ EditBegins(t) \/ Delete(t))
      BY <1>2, IdleIs, BeginsIdle
    <3>3. StreakExpires \/ NetChanges \/ Restart \/ UNCHANGED statusVars
      BY <1>0, <3>1, <3>2 DEF StatusNext, OperationNext
    <3> QED BY <3>3 DEF StreakExpires, NetChanges, Restart, statusVars
  <2> QED BY <2>2, <2>3
<1> QED BY <1>1, <1>2 DEF At

\* While operations on a PC do not overlap, a history row is written only when
\* the status differs from the row before (docs/backend/features/status.md),
\* however often the process restarts and the streak expires.
THEOREM HistoryAlwaysAlternates ==
  ASSUME NEW CONSTANT t, Thread = {t}
  PROVE  StatusSpec => []HistoryAlternates
<1>1. StatusInit => StatusInv(t)
  BY StatusInvInit
<1>2. StatusInv(t) /\ [StatusNext]_statusVars => StatusInv(t)'
  BY StatusInvNext
<1>3. StatusInv(t) => HistoryAlternates
  BY DEF StatusInv, HistoryHolds, HistoryAlternates
<1> QED BY <1>1, <1>2, <1>3, PTL DEF StatusSpec

\* While they do not overlap, a refresh reports offline only after two failed
\* probes that no answer came between, and writes nothing new after the first
\* one (STATUS_OFFLINE_CONFIRMATION_FAILURES).
THEOREM RefreshRulesHold ==
  ASSUME NEW CONSTANT one, Thread = {one}
  PROVE  StatusSpec => RefreshRules
<1> DEFINE Twice == \A t \in Thread :
                      At(t, "refresh", "store") /\ work'[t].next = "offline" /\ work[t].prev # "offline"
                        => failed >= Confirm
           Kept == \A t \in Thread :
                     /\ At(t, "refresh", "write") /\ work[t].keep
                     /\ work'[t].at = "written" /\ pc.here
                     => pc'.status = pc.status
<1>1. StatusSpec => []StatusInv(one)
  <2>1. StatusInit => StatusInv(one)
    BY StatusInvInit
  <2>2. StatusInv(one) /\ [StatusNext]_statusVars => StatusInv(one)'
    BY StatusInvNext
  <2> QED BY <2>1, <2>2, PTL DEF StatusSpec
<1>2. StatusInv(one) /\ [StatusNext]_statusVars => [Twice]_statusVars
  BY RulesStep
<1>3. StatusInv(one) /\ [StatusNext]_statusVars => [Kept]_statusVars
  BY RulesStep
<1>4. StatusSpec => [][Twice]_statusVars
  BY <1>1, <1>2, PTL DEF StatusSpec
<1>5. StatusSpec => [][Kept]_statusVars
  BY <1>1, <1>3, PTL DEF StatusSpec
<1> QED BY <1>4, <1>5 DEF RefreshRules, OfflineAfterTwoFailures, FirstFailureKeepsStatus
-----------------------------------------------------------------------------
(* The copies of the database. *)

Run == [at: {"none", "named", "copying", "copied", "pruning"}, name: Name \cup {NoName}, old: SUBSET Name]

BackupTyped ==
  /\ second \in Name
  /\ files \in [Name -> {"absent", "partial", "intact"}]
  /\ runs \in [Runner -> Run]
  /\ copied \subseteq Name

\* There are Keep files of later names.
Superseded(n) == Cardinality({m \in Listed(files) : m > n}) >= Keep

\* A run works on a file of its name once it has one.
RunNamed == \A r \in Runner : runs[r].at \in {"named", "copying"} => runs[r].name \in Name

\* The inductive invariant: also what a run is about to delete is superseded,
\* and stays so when other runs delete in between.
BackupInv ==
  /\ BackupTyped /\ RunNamed
  /\ \A n \in copied : files[n] # "intact" => Superseded(n)
  /\ \A r \in Runner : runs[r].at = "pruning" => \A n \in runs[r].old : Superseded(n)

LEMMA NamesFinite ==
  ASSUME NEW S \in SUBSET Name
  PROVE  IsFiniteSet(S) /\ Cardinality(S) \in Nat /\ \A T \in SUBSET S : Cardinality(T) <= Cardinality(S)
<1>1. IsFiniteSet(Name)
  BY FS_Interval, BackupAssumption DEF Name
<1>2. IsFiniteSet(S)
  BY <1>1, FS_Subset
<1> QED BY <1>2, FS_Subset, FS_CardinalityType

LEMMA ListedTyped ==
  ASSUME NEW fs
  PROVE  Listed(fs) \in SUBSET Name
  BY DEF Listed

\* More files supersede no less.
LEMMA MoreSupersede ==
  ASSUME NEW n \in Name, Superseded(n), Listed(files) \subseteq Listed(files')
  PROVE  Superseded(n)'
<1> DEFINE A == {m \in Listed(files) : m > n}
           B == {m \in Listed(files') : m > n}
<1>1. B \in SUBSET Name /\ A \in SUBSET B
  BY ListedTyped
<1>2. Cardinality(A) <= Cardinality(B) /\ Cardinality(A) \in Nat /\ Cardinality(B) \in Nat
  BY <1>1, NamesFinite
<1>3. Cardinality(A) >= Keep
  BY DEF Superseded
<1> HIDE DEF A, B
<1>4. Cardinality(B) >= Keep
  BY <1>2, <1>3, BackupAssumption
<1> QED BY <1>4 DEF Superseded, B

\* The deletion of a file that is superseded leaves the others so: the files
\* that are later than it remain.
LEMMA DeletingSupersedes ==
  ASSUME NEW n \in Name, Superseded(n), NEW d \in Name, Superseded(d),
         Listed(files') = Listed(files) \ {d}
  PROVE  Superseded(n)'
<1> DEFINE A(k) == {m \in Listed(files) : m > k}
           B == {m \in Listed(files') : m > n}
<1>0. n \in Nat /\ d \in Nat /\ \A m \in Listed(files) : m \in Nat
  BY ListedTyped DEF Name
<1>1. A(n) \subseteq B \/ A(d) \subseteq B
  <2>1. CASE d > n
    <3>1. A(d) \subseteq B
      BY <1>0, <2>1
    <3> QED BY <3>1
  <2>2. CASE ~(d > n)
    <3>1. A(n) \subseteq B
      BY <1>0, <2>2
    <3> QED BY <3>1
  <2> QED BY <2>1, <2>2
<1>2. B \in SUBSET Name /\ A(n) \in SUBSET Name /\ A(d) \in SUBSET Name
  BY ListedTyped
<1>3. Cardinality(A(n)) >= Keep /\ Cardinality(A(d)) >= Keep
  BY DEF Superseded
<1>4. /\ Cardinality(B) \in Nat /\ Cardinality(A(n)) \in Nat /\ Cardinality(A(d)) \in Nat
      /\ \A T \in SUBSET B : Cardinality(T) <= Cardinality(B)
  BY <1>2, NamesFinite
<1> HIDE DEF A, B
<1>5. Cardinality(B) >= Keep
  BY <1>1, <1>3, <1>4, BackupAssumption
<1> QED BY <1>5 DEF Superseded, B

LEMMA LeastName ==
  ASSUME NEW S \in SUBSET Name, S # {}
  PROVE  Min(S) \in S
<1>1. S \subseteq Nat
  BY DEF Name
<1>2. PICK x \in S : \A y \in S : ~(<<y, x>> \in OpToRel(<, Nat))
  BY <1>1, NatLessThanWellFounded, WFMin
<1>3. \A y \in S : ~(y < x)
  BY <1>1, <1>2 DEF OpToRel
<1>4. \A y \in S : x <= y
  BY <1>1, <1>3
<1> QED BY <1>4 DEF Min

LEMMA BackupInvInit == BackupInit => BackupInv
<1> SUFFICES ASSUME BackupInit PROVE BackupInv
  OBVIOUS
<1>1. NoRun \in Run /\ NoRun.at = "none"
  BY DEF NoRun, Run
<1>2. second \in Name
  BY BackupAssumption DEF BackupInit, Name
<1>3. BackupTyped
  BY <1>1, <1>2 DEF BackupInit, BackupTyped
<1> QED BY <1>1, <1>3 DEF BackupInit, BackupInv, RunNamed

\* A run goes on, or ends, and the files stay.
LEMMA RunStep ==
  ASSUME BackupInv, NEW r \in Runner, NEW q \in Run, runs' = [runs EXCEPT ![r] = q],
         UNCHANGED <<files, copied>>, second' \in Name,
         q.at \in {"named", "copying"} => q.name \in Name,
         q.at = "pruning" => \A n \in q.old : Superseded(n)
  PROVE  BackupInv'
<1>1. /\ runs' \in [Runner -> Run] /\ runs'[r] = q
      /\ \A k \in Runner \ {r} : runs'[k] = runs[k]
  BY DEF BackupInv, BackupTyped
<1>2. \A n : Superseded(n)' <=> Superseded(n)
  BY DEF Superseded
<1>3. BackupTyped'
  BY <1>1 DEF BackupInv, BackupTyped
<1>4. RunNamed'
  BY <1>1 DEF BackupInv, RunNamed
<1> QED BY <1>1, <1>2, <1>3, <1>4 DEF BackupInv

\* A file is made or filled.
LEMMA FileStep ==
  ASSUME BackupInv, NEW r \in Runner, NEW q \in Run, runs' = [runs EXCEPT ![r] = q],
         NEW n \in Name, NEW f \in {"partial", "intact"}, files' = [files EXCEPT ![n] = f],
         UNCHANGED second, f = "partial" => files[n] # "intact",
         copied' = copied \/ (f = "intact" /\ copied' = copied \cup {n}),
         q.at \in {"named", "copying"} => q.name \in Name, q.at # "pruning"
  PROVE  BackupInv'
<1>1. /\ runs' \in [Runner -> Run] /\ runs'[r] = q
      /\ \A k \in Runner \ {r} : runs'[k] = runs[k]
  BY DEF BackupInv, BackupTyped
<1>2. /\ files' \in [Name -> {"absent", "partial", "intact"}] /\ files'[n] = f
      /\ \A m \in Name \ {n} : files'[m] = files[m]
  BY DEF BackupInv, BackupTyped
<1>3. Listed(files) \subseteq Listed(files')
  BY <1>2 DEF Listed
<1>4. \A m \in Name : Superseded(m) => Superseded(m)'
  BY <1>3, MoreSupersede
<1>5. BackupTyped'
  BY <1>1, <1>2 DEF BackupInv, BackupTyped
<1>6. RunNamed'
  BY <1>1 DEF BackupInv, RunNamed
<1>7. ASSUME NEW m \in copied', files'[m] # "intact" PROVE Superseded(m)'
  <2>1. m \in Name /\ m \in copied /\ files[m] # "intact"
    BY <1>2, <1>5, <1>7 DEF BackupTyped
  <2> QED BY <1>4, <2>1 DEF BackupInv
<1>8. ASSUME NEW k \in Runner, runs'[k].at = "pruning", NEW m \in runs'[k].old PROVE Superseded(m)'
  <2>1. k # r /\ runs'[k] = runs[k] /\ runs[k] \in Run
    BY <1>1, <1>8 DEF BackupInv, BackupTyped
  <2>2. m \in Name /\ Superseded(m)
    BY <1>8, <2>1 DEF BackupInv, Run
  <2> QED BY <1>4, <2>2
<1> QED BY <1>5, <1>6, <1>7, <1>8 DEF BackupInv

\* The oldest file of a run's list is deleted.
LEMMA UnlinkInv ==
  ASSUME BackupInv, NEW r \in Runner, Unlink(r)
  PROVE  BackupInv'
<1> DEFINE w == runs[r]
           d == Min(w.old)
<1>1. /\ w.at = "pruning" /\ w.old # {} /\ files' = [files EXCEPT ![d] = "absent"]
      /\ \/ runs' = [runs EXCEPT ![r] = NoRun]
         \/ runs' = [runs EXCEPT ![r] = [w EXCEPT !.old = @ \ {d}]]
      /\ UNCHANGED <<second, copied>>
  BY DEF Unlink
<1>2. w \in Run /\ w.old \in SUBSET Name /\ runs \in [Runner -> Run]
  BY DEF BackupInv, BackupTyped, Run
<1>3. d \in w.old /\ d \in Name
  BY <1>1, <1>2, LeastName
<1>4. Superseded(d)
  BY <1>1, <1>3 DEF BackupInv
<1> HIDE DEF d
<1>5. /\ files' \in [Name -> {"absent", "partial", "intact"}] /\ files'[d] = "absent"
      /\ \A m \in Name \ {d} : files'[m] = files[m]
  BY <1>1, <1>3 DEF BackupInv, BackupTyped
<1>6. Listed(files') = Listed(files) \ {d}
  BY <1>3, <1>5 DEF Listed
<1>7. \A m \in Name : Superseded(m) => Superseded(m)'
  BY <1>3, <1>4, <1>6, DeletingSupersedes
<1>8. PICK q : q = [w EXCEPT !.old = @ \ {d}]
  OBVIOUS
<1>9. q = [at |-> w.at, name |-> w.name, old |-> w.old \ {d}]
  BY <1>2, <1>8 DEF Run
<1>10. q \in Run /\ q.at = "pruning" /\ q.old \subseteq w.old
  <2>1. w \in Run /\ w.at = "pruning"
    BY <1>1, <1>2
  <2> HIDE DEF w
  <2> QED BY <1>9, <2>1 DEF Run
<1>11. NoRun \in Run /\ NoRun.at = "none"
  BY DEF NoRun, Run
<1>12. runs' = [runs EXCEPT ![r] = NoRun] \/ runs' = [runs EXCEPT ![r] = q]
  BY <1>1, <1>8
<1>13. /\ runs' \in [Runner -> Run] /\ runs'[r] \in {NoRun, q}
       /\ \A k \in Runner \ {r} : runs'[k] = runs[k]
  BY <1>2, <1>10, <1>11, <1>12
<1>14. BackupTyped'
  BY <1>1, <1>5, <1>13 DEF BackupInv, BackupTyped
<1>15. RunNamed'
  BY <1>10, <1>11, <1>13 DEF BackupInv, RunNamed
<1>16. ASSUME NEW m \in copied', files'[m] # "intact" PROVE Superseded(m)'
  <2>1. m \in Name /\ m \in copied
    BY <1>1 DEF BackupInv, BackupTyped
  <2>2. Superseded(m)
    BY <1>4, <1>5, <1>16, <2>1 DEF BackupInv
  <2> QED BY <1>7, <2>1, <2>2
<1>17. ASSUME NEW k \in Runner, runs'[k].at = "pruning", NEW m \in runs'[k].old PROVE Superseded(m)'
  <2>1. CASE k = r
    <3>1. runs'[k] = q /\ m \in w.old
      BY <1>10, <1>11, <1>13, <1>17, <2>1
    <3>2. m \in Name /\ Superseded(m)
      BY <1>1, <1>2, <3>1 DEF BackupInv
    <3> QED BY <1>7, <3>2
  <2>2. CASE k # r
    <3>1. runs[k].at = "pruning" /\ m \in runs[k].old /\ runs[k] \in Run
      BY <1>2, <1>13, <1>17, <2>2
    <3>2. m \in Name /\ Superseded(m)
      BY <3>1 DEF BackupInv, Run
    <3> QED BY <1>7, <3>2
  <2> QED BY <2>1, <2>2
<1> QED BY <1>14, <1>15, <1>16, <1>17 DEF BackupInv

LEMMA BackupInvNext == BackupInv /\ [BackupNext]_backupVars => BackupInv'
<1> SUFFICES ASSUME BackupInv, [BackupNext]_backupVars PROVE BackupInv'
  OBVIOUS
<1>0. runs \in [Runner -> Run] /\ second \in Name /\ files \in [Name -> {"absent", "partial", "intact"}]
  BY DEF BackupInv, BackupTyped
<1>1. ASSUME NEW r \in Runner, BeginCopy(r) PROVE BackupInv'
  <2>1. PICK q : q = [NoRun EXCEPT !.at = "named", !.name = second]
    OBVIOUS
  <2>2. q = [at |-> "named", name |-> second, old |-> {}]
    BY <2>1 DEF NoRun
  <2>3. q \in Run /\ q.at = "named" /\ q.name = second
    BY <1>0, <2>2 DEF Run
  <2>4. runs' = [runs EXCEPT ![r] = q] /\ UNCHANGED <<second, files, copied>>
    BY <1>1, <2>1 DEF BeginCopy
  <2> QED BY <1>0, <2>3, <2>4, RunStep
<1>2. ASSUME NEW r \in Runner, NEW a \in {"copying", "copied"},
             NEW q, q = [runs[r] EXCEPT !.at = a]
      PROVE  q \in Run /\ q.at = a /\ q.name = runs[r].name
  <2>1. runs[r] \in Run
    BY <1>0
  <2>2. q = [at |-> a, name |-> runs[r].name, old |-> runs[r].old]
    BY <1>2, <2>1 DEF Run
  <2> QED BY <2>1, <2>2 DEF Run
<1>3. ASSUME NEW r \in Runner, Connect(r) PROVE BackupInv'
  <2>1. runs[r].name \in Name /\ runs' = [runs EXCEPT ![r].at = "copying"] /\ UNCHANGED <<second, copied>>
        /\ files' = [files EXCEPT ![runs[r].name] = IF @ = "absent" THEN "partial" ELSE @]
    BY <1>3 DEF Connect, BackupInv, RunNamed
  <2>2. PICK q : q = [runs[r] EXCEPT !.at = "copying"]
    OBVIOUS
  <2>3. runs' = [runs EXCEPT ![r] = q]
    BY <2>1, <2>2
  <2>4. q \in Run /\ q.at = "copying" /\ q.name \in Name
    BY <1>2, <2>1, <2>2
  <2>5. CASE files[runs[r].name] = "absent"
    <3>1. files' = [files EXCEPT ![runs[r].name] = "partial"]
      BY <2>1, <2>5
    <3> QED BY <2>1, <2>3, <2>4, <2>5, <3>1, FileStep
  <2>6. CASE files[runs[r].name] # "absent"
    <3>1. files' = files
      BY <1>0, <2>1, <2>6
    <3> QED BY <1>0, <2>1, <2>3, <2>4, <3>1, RunStep
  <2> QED BY <2>5, <2>6
<1>4. ASSUME NEW r \in Runner, Copy(r) PROVE BackupInv'
  <2>1. /\ runs[r].name \in Name /\ runs' = [runs EXCEPT ![r].at = "copied"] /\ UNCHANGED second
        /\ files' = [files EXCEPT ![runs[r].name] = "intact"] /\ copied' = copied \cup {runs[r].name}
    BY <1>4 DEF Copy, BackupInv, RunNamed
  <2>2. PICK q : q = [runs[r] EXCEPT !.at = "copied"]
    OBVIOUS
  <2>3. runs' = [runs EXCEPT ![r] = q]
    BY <2>1, <2>2
  <2>4. q \in Run /\ q.at = "copied"
    BY <1>2, <2>2
  <2> QED BY <2>1, <2>3, <2>4, FileStep
<1>5. ASSUME NEW r \in Runner, List(r) PROVE BackupInv'
  <2>1. /\ runs' = [runs EXCEPT ![r].at = "pruning", ![r].old = Prune(Listed(files))]
        /\ UNCHANGED <<second, files, copied>>
    BY <1>5 DEF List
  <2>2. runs[r] \in Run /\ Prune(Listed(files)) \in SUBSET Name
    BY <1>0 DEF Prune, Listed
  <2>3. PICK q : q = [runs[r] EXCEPT !.at = "pruning", !.old = Prune(Listed(files))]
    OBVIOUS
  <2>4. runs' = [runs EXCEPT ![r] = q]
    BY <1>0, <2>1, <2>3
  <2>5. q = [at |-> "pruning", name |-> runs[r].name, old |-> Prune(Listed(files))]
    BY <2>2, <2>3 DEF Run
  <2>6. q \in Run /\ q.at = "pruning" /\ q.old = Prune(Listed(files))
    BY <2>2, <2>5 DEF Run
  <2>7. \A n \in Prune(Listed(files)) : Superseded(n)
    BY DEF Prune, Superseded
  <2> QED BY <1>0, <2>1, <2>4, <2>6, <2>7, RunStep
<1>6. ASSUME NEW r \in Runner, Stop(r) PROVE BackupInv'
  <2>1. NoRun \in Run /\ NoRun.at = "none"
    BY DEF NoRun, Run
  <2> QED BY <1>0, <1>6, <2>1, RunStep DEF Stop
<1>7. ASSUME UNCHANGED <<files, runs, copied>>, second' \in Name PROVE BackupInv'
  BY <1>7 DEF BackupInv, BackupTyped, RunNamed, Superseded
<1>8. ASSUME NEW t \in Name, SetClock(t) PROVE BackupInv'
  BY <1>7, <1>8 DEF SetClock
<1>9. CASE UNCHANGED backupVars
  BY <1>0, <1>7, <1>9 DEF backupVars
<1> QED BY <1>1, <1>3, <1>4, <1>5, <1>6, <1>8, <1>9, UnlinkInv DEF BackupNext

\* Of the copies kept, all are listed; when one of the copies made is not
\* intact, Keep files supersede it.
LEMMA EnoughIntact ==
  ASSUME BackupInv
  PROVE  BackupsKept
<1> DEFINE L == Listed(files)
           I == {n \in Name : files[n] = "intact"}
           P == {n \in Name : files[n] = "partial"}
           least == Min({Keep, Cardinality(copied)})
<1>1. L = I \cup P /\ I \cap P = {} /\ I \in SUBSET Name /\ P \in SUBSET Name /\ L \in SUBSET Name
      /\ copied \in SUBSET Name
  BY DEF BackupInv, BackupTyped, Listed
<1> HIDE DEF L, I, P
<1>2. IsFiniteSet(I) /\ IsFiniteSet(P) /\ Cardinality(I) \in Nat /\ Cardinality(P) \in Nat
      /\ Cardinality(L) \in Nat /\ Cardinality(copied) \in Nat
      /\ \A T \in SUBSET L : Cardinality(T) <= Cardinality(L)
  BY <1>1, NamesFinite
<1>3. Cardinality(L) = Cardinality(I) + Cardinality(P)
  <2>1. Cardinality(I \cup P) = Cardinality(I) + Cardinality(P) - Cardinality(I \cap P)
    BY <1>2, FS_Union
  <2>2. Cardinality({}) = 0
    BY FS_EmptySet
  <2> QED BY <1>1, <1>2, <2>1, <2>2
<1>4. Keep \in Nat
  BY BackupAssumption
<1>5. least \in {Keep, Cardinality(copied)} /\ least <= Keep /\ least <= Cardinality(copied)
  <2>1. \E x \in {Keep, Cardinality(copied)} : \A y \in {Keep, Cardinality(copied)} : x <= y
    BY <1>2, <1>4
  <2>2. /\ least \in {Keep, Cardinality(copied)}
        /\ \A y \in {Keep, Cardinality(copied)} : least <= y
    BY <2>1 DEF Min
  <2> HIDE DEF least
  <2> QED BY <2>2
<1> HIDE DEF least
<1>6. Cardinality(L) >= least
  <2>1. CASE \A n \in copied : files[n] = "intact"
    <3>1. copied \in SUBSET L
      BY <1>1, <2>1 DEF I
    <3>2. Cardinality(copied) <= Cardinality(L)
      BY <1>2, <3>1
    <3> QED BY <1>2, <1>4, <1>5, <3>2
  <2>2. ASSUME NEW n \in copied, files[n] # "intact" PROVE Cardinality(L) >= least
    <3> DEFINE A == {m \in Listed(files) : m > n}
    <3>1. Cardinality(A) >= Keep
      BY <2>2 DEF BackupInv, Superseded
    <3>2. A \in SUBSET L /\ A \in SUBSET Name
      BY <1>1 DEF L
    <3>3. Cardinality(A) <= Cardinality(L) /\ Cardinality(A) \in Nat
      BY <1>2, <3>2, NamesFinite
    <3> HIDE DEF A
    <3> QED BY <1>2, <1>4, <1>5, <3>1, <3>3
  <2> QED BY <2>1, <2>2
<1>7. Cardinality(I) >= least - Cardinality(P)
  BY <1>2, <1>3, <1>4, <1>5, <1>6
<1>8. \A n \in copied : files[n] # "intact" => Cardinality({m \in Listed(files) : m > n}) >= Keep
  BY DEF BackupInv, Superseded
<1> QED BY <1>7, <1>8 DEF BackupsKept, I, P, least

\* For every number of runs at once, however they end and however the clock is
\* set, a copy is deleted only when Keep later files are there
\* (run_backup, _prune_targets).
THEOREM BackupsAlwaysKept == BackupSpec => []BackupsKept
<1> QED BY BackupInvInit, BackupInvNext, EnoughIntact, PTL DEF BackupSpec
-----------------------------------------------------------------------------
(* The log list. *)

\* An id names one row.
Distinct(rs) == \A r, s \in rs : r.id = s.id => r = s

Ordered(rs) == \A i, j \in DOMAIN rs : i < j => rs[i].id > rs[j].id
EndsAt(rs, next) == next # 0 => rs # << >> /\ next = Last(rs).id

\* Rows with distinct ids are finitely many, and newer ones are counted fewer.
LEMMA NewerFacts ==
  ASSUME LogAssumption, NEW rs \in SUBSET LogRow, Distinct(rs)
  PROVE  /\ IsFiniteSet(rs) /\ Cardinality(rs) \in Nat
         /\ \A r \in rs : Newer(r, rs) \in 0 .. Cardinality(rs) - 1
         /\ \A r, s \in rs : r.id > s.id => Newer(r, rs) < Newer(s, rs)
<1> DEFINE id == [r \in rs |-> r.id]
           above(r) == {s \in rs : s.id > r.id}
<1>1. \A r \in rs : r.id \in Nat /\ r.id \in 1 .. MaxId
  BY LogAssumption DEF LogRow
<1>2. id \in Injection(rs, 1 .. MaxId)
  BY <1>1 DEF Injection, IsInjective, Distinct
<1>3. IsFiniteSet(rs) /\ Cardinality(rs) \in Nat
  BY <1>2, FS_Injection, FS_Interval, FS_CardinalityType, LogAssumption
<1>4. ASSUME NEW r \in rs
      PROVE  /\ IsFiniteSet(above(r)) /\ Cardinality(above(r)) \in Nat
             /\ Cardinality(above(r)) < Cardinality(rs)
  <2>1. above(r) \in SUBSET rs /\ r \notin above(r)
    BY <1>1
  <2> HIDE DEF above
  <2>2. IsFiniteSet(above(r)) /\ Cardinality(above(r)) <= Cardinality(rs) /\ Cardinality(above(r)) # Cardinality(rs)
    BY <1>3, <2>1, FS_Subset
  <2> QED BY <1>3, <2>2, FS_CardinalityType
<1>5. ASSUME NEW r \in rs, NEW s \in rs, r.id > s.id
      PROVE  Cardinality(above(r)) < Cardinality(above(s))
  <2>1. above(r) \in SUBSET above(s) /\ r \in above(s) /\ r \notin above(r)
    BY <1>1, <1>5
  <2> HIDE DEF above
  <2>2. Cardinality(above(r)) <= Cardinality(above(s)) /\ Cardinality(above(r)) # Cardinality(above(s))
    BY <1>4, <2>1, FS_Subset
  <2> QED BY <1>4, <2>2
<1>6. \A r \in rs : Newer(r, rs) = Cardinality(above(r))
  BY DEF Newer
<1> HIDE DEF above
<1>7. \A r \in rs : Newer(r, rs) \in 0 .. Cardinality(rs) - 1
  BY <1>3, <1>4, <1>6
<1> QED BY <1>3, <1>5, <1>6, <1>7

\* Each row has its place in the list of a set of rows.
LEMMA NewestFirstFacts ==
  ASSUME LogAssumption, NEW rs \in SUBSET LogRow, Distinct(rs)
  PROVE  /\ NewestFirst(rs) \in Seq(rs) /\ NewestFirst(rs) \in Seq(LogRow)
         /\ Len(NewestFirst(rs)) = Cardinality(rs) /\ Cardinality(rs) \in Nat
         /\ \A r \in rs : \E i \in DOMAIN NewestFirst(rs) : NewestFirst(rs)[i] = r
         /\ \A i \in DOMAIN NewestFirst(rs) : NewestFirst(rs)[i] \in rs
         /\ Ordered(NewestFirst(rs))
<1> DEFINE size == Cardinality(rs)
           place == [r \in rs |-> Newer(r, rs) + 1]
           nth(n) == CHOOSE r \in rs : Newer(r, rs) = n - 1
           list == [n \in 1 .. size |-> nth(n)]
<1>1. IsFiniteSet(rs) /\ size \in Nat
  BY NewerFacts
<1>2. \A r \in rs : r.id \in Int
  BY LogAssumption DEF LogRow
<1>3. \A r, s \in rs : r.id > s.id => Newer(r, rs) < Newer(s, rs)
  BY NewerFacts
<1>4. \A r \in rs : Newer(r, rs) \in 0 .. size - 1
  BY NewerFacts
<1> HIDE DEF size
<1>5. ASSUME NEW r \in rs, NEW s \in rs, Newer(r, rs) = Newer(s, rs) PROVE r = s
  <2>1. ~(r.id > s.id) /\ ~(s.id > r.id)
    BY <1>1, <1>3, <1>4, <1>5
  <2>2. r.id = s.id
    BY <1>2, <2>1
  <2> QED BY <2>2 DEF Distinct
<1>6. \A r \in rs : place[r] = Newer(r, rs) + 1 /\ place[r] \in 1 .. size
  BY <1>1, <1>4
<1>7. \A r, s \in rs : place[r] = place[s] => r = s
  <2> SUFFICES ASSUME NEW r \in rs, NEW s \in rs, place[r] = place[s] PROVE r = s
    OBVIOUS
  <2>1. Newer(r, rs) = Newer(s, rs)
    BY <1>1, <1>4, <1>6
  <2> QED BY <1>5, <2>1
<1>8. place \in Injection(rs, 1 .. size)
  BY <1>6, <1>7 DEF Injection, IsInjective
<1>9. place \in Surjection(rs, 1 .. size)
  BY <1>1, <1>8, FS_Interval, FS_Injection DEF size
<1>10. ASSUME NEW n \in 1 .. size PROVE nth(n) \in rs /\ Newer(nth(n), rs) = n - 1
  <2>1. PICK r \in rs : place[r] = n
    BY <1>9 DEF Surjection
  <2>2. Newer(r, rs) = n - 1
    BY <1>1, <1>4, <1>6, <2>1
  <2> QED BY <2>2
<1>11. NewestFirst(rs) = list
  BY DEF NewestFirst, size
<1> HIDE DEF nth, place
<1>12. DOMAIN list = 1 .. size /\ \A n \in 1 .. size : list[n] = nth(n) /\ list[n] \in rs
  BY <1>10
<1> HIDE DEF list
<1>13. list \in Seq(rs) /\ Len(list) = size
  <2>1. list \in [1 .. size -> rs]
    BY <1>10 DEF list
  <2> QED BY <1>1, <2>1
<1>14. ASSUME NEW r \in rs PROVE \E i \in DOMAIN list : list[i] = r
  <2>1. place[r] \in 1 .. size /\ Newer(nth(place[r]), rs) = place[r] - 1
    BY <1>6, <1>10
  <2>2. Newer(nth(place[r]), rs) = Newer(r, rs)
    BY <1>1, <1>4, <1>6, <2>1
  <2>3. nth(place[r]) = r
    BY <1>5, <1>10, <2>1, <2>2
  <2> QED BY <1>12, <2>1, <2>3
<1>15. ASSUME NEW i \in DOMAIN list, NEW j \in DOMAIN list, i < j PROVE list[i].id > list[j].id
  <2>1. list[i] \in rs /\ list[j] \in rs /\ Newer(list[i], rs) = i - 1 /\ Newer(list[j], rs) = j - 1
    BY <1>10, <1>12
  <2>2. ~(list[j].id > list[i].id) /\ list[i] # list[j]
    BY <1>1, <1>3, <1>12, <1>15, <2>1
  <2>3. list[i].id # list[j].id
    BY <2>1, <2>2 DEF Distinct
  <2> QED BY <1>2, <2>1, <2>2, <2>3
<1>16. list \in Seq(LogRow)
  BY <1>13
<1> QED BY <1>1, <1>11, <1>12, <1>13, <1>14, <1>15, <1>16 DEF Ordered, size

LEMMA TopRow ==
  ASSUME LogAssumption, NEW rs \in SUBSET LogRow, Distinct(rs), rs # {}
  PROVE  \E r \in rs : \A s \in rs : s.id <= r.id
<1> DEFINE list == NewestFirst(rs)
           r == list[1]
<1>1. /\ list \in Seq(rs) /\ Ordered(list) /\ \A s \in rs : \E i \in DOMAIN list : list[i] = s
      /\ \A i \in DOMAIN list : list[i] \in rs
  BY NewestFirstFacts
<1> HIDE DEF list
<1>2. Len(list) # 0 /\ Len(list) \in Nat /\ DOMAIN list = 1 .. Len(list)
  BY <1>1
<1>3. 1 \in DOMAIN list /\ r \in rs
  BY <1>1, <1>2
<1>4. \A s \in rs : s.id \in Int
  BY LogAssumption DEF LogRow
<1>5. ASSUME NEW s \in rs PROVE s.id <= r.id
  <2>1. PICK i \in DOMAIN list : list[i] = s
    BY <1>1
  <2>2. i = 1 \/ 1 < i
    BY <1>2
  <2>3. i = 1 \/ r.id > s.id
    BY <1>1, <1>3, <2>1, <2>2 DEF Ordered
  <2> QED BY <1>3, <1>4, <2>1, <2>3
<1> QED BY <1>3, <1>5

\* The newest n rows are n at most, and with a row come the newer ones.
LEMMA NewestFacts ==
  ASSUME LogAssumption, NEW rs \in SUBSET LogRow, Distinct(rs), NEW n \in Nat
  PROVE  /\ Newest(n, rs) \in SUBSET rs /\ Distinct(Newest(n, rs))
         /\ Cardinality(Newest(n, rs)) \in Nat /\ Cardinality(Newest(n, rs)) <= n
         /\ \A r \in Newest(n, rs), s \in rs : s.id >= r.id => s \in Newest(n, rs)
         /\ Cardinality(rs) <= n => Newest(n, rs) = rs
         /\ n > 0 => \A r \in rs : (\A s \in rs : s.id <= r.id) => r \in Newest(n, rs)
         /\ n > 0 /\ rs # {} => Newest(n, rs) # {}
<1> DEFINE top == Newest(n, rs)
<1>1. top \in SUBSET rs /\ Distinct(top)
  BY DEF Newest, Distinct
<1>2. IsFiniteSet(rs) /\ Cardinality(rs) \in Nat /\ \A r \in rs : Newer(r, rs) \in 0 .. Cardinality(rs) - 1
  BY NewerFacts
<1>3. \A r, s \in rs : r.id > s.id => Newer(r, rs) < Newer(s, rs)
  BY NewerFacts
<1>4. \A r \in rs : r.id \in Int
  BY LogAssumption DEF LogRow
<1>5. \A r \in rs : r \in top <=> Newer(r, rs) < n
  BY DEF Newest
<1>6. IsFiniteSet(top) /\ Cardinality(top) \in Nat
  BY <1>1, <1>2, FS_Subset, FS_CardinalityType
<1>7. Cardinality(top) <= n
  <2> DEFINE f == [r \in top |-> Newer(r, rs)]
  <2>1. \A r \in top : f[r] \in 0 .. n - 1
    BY <1>1, <1>2, <1>5
  <2>2. ASSUME NEW r \in top, NEW s \in top, Newer(r, rs) = Newer(s, rs) PROVE r = s
    <3>1. ~(r.id > s.id) /\ ~(s.id > r.id)
      BY <1>1, <1>2, <1>3, <2>2
    <3>2. r.id = s.id
      BY <1>1, <1>4, <3>1
    <3> QED BY <1>1, <3>2 DEF Distinct
  <2>3. f \in Injection(top, 0 .. n - 1)
    BY <2>1, <2>2 DEF Injection, IsInjective
  <2>4. IsFiniteSet(0 .. n - 1) /\ Cardinality(0 .. n - 1) = n
    BY FS_Interval
  <2> QED BY <2>3, <2>4, FS_Injection
<1>8. ASSUME NEW r \in top, NEW s \in rs, s.id >= r.id PROVE s \in top
  <2>1. CASE s.id = r.id
    BY <1>1, <1>8, <2>1 DEF Distinct
  <2>2. CASE s.id > r.id
    <3>1. Newer(s, rs) < Newer(r, rs) /\ Newer(r, rs) < n
      BY <1>1, <1>3, <1>5, <2>2
    <3> QED BY <1>1, <1>2, <1>5, <3>1
  <2> QED BY <1>1, <1>4, <1>8, <2>1, <2>2
<1>9. ASSUME Cardinality(rs) <= n PROVE top = rs
  BY <1>1, <1>2, <1>5, <1>9
<1>10. ASSUME n > 0, NEW r \in rs, \A s \in rs : s.id <= r.id PROVE r \in top
  <2>1. {s \in rs : s.id > r.id} = {}
    BY <1>4, <1>10
  <2>2. Newer(r, rs) = 0
    BY <2>1, FS_EmptySet DEF Newer
  <2> QED BY <1>5, <1>10, <2>2
<1>11. ASSUME n > 0, rs # {} PROVE top # {}
  BY <1>10, <1>11, TopRow
<1> HIDE DEF top
<1>12. /\ top \in SUBSET rs /\ Distinct(top) /\ Cardinality(top) \in Nat /\ Cardinality(top) <= n
       /\ \A r \in top, s \in rs : s.id >= r.id => s \in top
  BY <1>1, <1>6, <1>7, <1>8
<1>13. n > 0 => \A r \in rs : (\A s \in rs : s.id <= r.id) => r \in top
  BY <1>10
<1>14. (Cardinality(rs) <= n => top = rs) /\ (n > 0 /\ rs # {} => top # {})
  BY <1>9, <1>11
<1> QED BY <1>12, <1>13, <1>14 DEF top

\* A page is in the order of its rows, lies before its cursor and ends at the next one.
PageInOrder(k, p) ==
  /\ Ordered(p.items) /\ EndsAt(p.items, p.next)
  /\ k # 0 => \A i \in DOMAIN p.items : p.items[i].id < k

\* What fetch_logs answers: no row from the cursor to the next one is left out.
LEMMA PageFacts ==
  ASSUME LogAssumption, logRows \in SUBSET LogRow, Distinct(logRows), NEW k \in Key
  PROVE  /\ Page(k) \in APage /\ PageInOrder(k, Page(k))
         /\ \A i \in DOMAIN Page(k).items : Page(k).items[i] \in logRows
         /\ \A r \in logRows : (k = 0 \/ r.id < k) /\ r.id >= Page(k).next
              => \E i \in DOMAIN Page(k).items : Page(k).items[i] = r
<1> DEFINE found == {r \in logRows : k = 0 \/ r.id < k}
           top == Newest(PageLimit, found)
           rows == NewestFirst(top)
           cursor == IF Cardinality(found) > PageLimit THEN Last(rows).id ELSE 0
<1>1. Page(k) = [items |-> rows, next |-> cursor]
  BY DEF Page
<1>2. found \in SUBSET LogRow /\ Distinct(found) /\ found \in SUBSET logRows
  BY DEF Distinct
<1>3. PageLimit \in Nat /\ PageLimit > 0
  BY LogAssumption
<1>4. k \in Nat /\ \A r \in LogRow : r.id \in 1 .. MaxId
  BY LogAssumption DEF Key, LogRow
<1> HIDE DEF found
<1>5. /\ top \in SUBSET found /\ Distinct(top)
      /\ \A r \in top, s \in found : s.id >= r.id => s \in top
      /\ Cardinality(found) <= PageLimit => top = found
      /\ found # {} => top # {}
  BY <1>2, <1>3, NewestFacts
<1>6. Cardinality(found) \in Nat /\ (found = {} => Cardinality(found) = 0)
  BY <1>2, NewerFacts, FS_EmptySet
<1> HIDE DEF top
<1>7. top \in SUBSET LogRow
  BY <1>2, <1>5
<1>8. /\ rows \in Seq(LogRow) /\ Ordered(rows)
      /\ \A r \in top : \E i \in DOMAIN rows : rows[i] = r
      /\ \A i \in DOMAIN rows : rows[i] \in top
  BY <1>5, <1>7, NewestFirstFacts
<1> HIDE DEF rows
<1>9. ASSUME Cardinality(found) > PageLimit PROVE rows # << >> /\ Last(rows) \in top
  <2>1. top # {}
    BY <1>3, <1>5, <1>6, <1>9
  <2>2. Len(rows) \in DOMAIN rows /\ rows # << >>
    BY <1>8, <2>1
  <2> QED BY <1>8, <2>2 DEF Last
<1>10. cursor \in Key /\ EndsAt(rows, cursor)
  <2>1. CASE Cardinality(found) > PageLimit
    <3>1. cursor = Last(rows).id
      BY <2>1
    <3> QED BY <1>4, <1>7, <1>9, <2>1, <3>1 DEF EndsAt, Key
  <2>2. CASE ~(Cardinality(found) > PageLimit)
    BY <2>2, LogAssumption DEF EndsAt, Key
  <2> QED BY <2>1, <2>2
<1>11. ASSUME k # 0, NEW i \in DOMAIN rows PROVE rows[i].id < k
  BY <1>5, <1>8, <1>11 DEF found
<1>12. ASSUME NEW r \in found, r.id >= cursor PROVE r \in top
  <2>1. CASE Cardinality(found) > PageLimit
    <3>1. cursor = Last(rows).id
      BY <2>1
    <3> QED BY <1>5, <1>9, <1>12, <2>1, <3>1
  <2>2. CASE ~(Cardinality(found) > PageLimit)
    BY <1>3, <1>5, <1>6, <2>2
  <2> QED BY <2>1, <2>2
<1>13. \A r \in logRows : (k = 0 \/ r.id < k) => r \in found
  BY DEF found
<1> HIDE DEF cursor
<1>14. Page(k) \in APage
  BY <1>1, <1>8, <1>10 DEF APage
<1>15. PageInOrder(k, Page(k))
  BY <1>1, <1>8, <1>10, <1>11 DEF PageInOrder
<1>16. \A i \in DOMAIN rows : rows[i] \in logRows
  BY <1>2, <1>5, <1>8
<1>17. \A r \in logRows : (k = 0 \/ r.id < k) /\ r.id >= cursor => \E i \in DOMAIN rows : rows[i] = r
  BY <1>8, <1>12, <1>13
<1> QED BY <1>1, <1>14, <1>15, <1>16, <1>17

\* The pages the browser has under a key, cached or on their way.
PagesAt(k) == {pageCache[k], pagesInFlight[k]} \ {NoPage, NotAsked, Requested}

\* No clear has met pages of before, and none is about to take effect.
Trusted == ~overlap /\ clear # "done"

AtLeast(n) == \E r \in logRows : r.id >= n

\* No row between a page's cursor and the next one is left out.
PageComplete(k, p) ==
  /\ \A i \in DOMAIN p.items : p.items[i].gen = gen
  /\ p.items # << >> => AtLeast(p.items[1].id)
  /\ \A r \in logRows :
       /\ r.id >= p.next
       /\ IF k = 0 THEN p.items # << >> /\ r.id <= p.items[1].id ELSE r.id < k
       => \E i \in DOMAIN p.items : p.items[i] = r

\* The rows are of the present generation; each clear is counted once.
TableHolds ==
  /\ Distinct(logRows) /\ \A r \in logRows : r.gen = gen
  /\ clear = "done" => gen >= 1
  /\ logSeq + (IF clear = "done" THEN 1 ELSE 0) <= MaxLogLoads + gen

PagesAtHold ==
  \A k \in Key :
    /\ \A p \in PagesAt(k) : PageInOrder(k, p) /\ (Trusted => PageComplete(k, p))
    /\ Trusted /\ k # 0 /\ (pageCache[k] # NoPage \/ pagesInFlight[k] # NotAsked) => AtLeast(k)

\* A call waits for a request in flight and for no page that is cached; that of
\* the newest load waits for the first page or the one that follows the list.
AwaitedHold ==
  /\ \A w \in pagesAwaited : w.seq <= logSeq /\ pageCache[w.key] = NoPage /\ pagesInFlight[w.key] # NotAsked
  /\ CurrentPage(0) => loading
  /\ \A k \in Key \ {0} : CurrentPage(k) => k = nextCursor /\ ~loading

ShownHolds ==
  /\ Ordered(logs) /\ EndsAt(logs, nextCursor)
  /\ Trusted => /\ \A i \in DOMAIN logs : logs[i].gen = gen
                /\ logs # << >> => AtLeast(logs[1].id)
                /\ logs # << >> => \A r \in logRows : r.id <= logs[1].id /\ r.id >= nextCursor
                                      => \E i \in DOMAIN logs : logs[i] = r

\* The inductive invariant.
LogInv == LogTypeOK /\ TableHolds /\ PagesAtHold /\ AwaitedHold /\ ShownHolds /\ LoadingHasReason

LEMMA LogFacts ==
  ASSUME LogAssumption
  PROVE  /\ 0 \in Key /\ Key \subseteq Nat
         /\ \A r \in LogRow : r.id \in 1 .. MaxId /\ r.id \in Nat /\ r.id \in Key
         /\ NoPage \notin APage /\ NotAsked \notin APage /\ Requested \notin APage
         /\ MaxLogLoads \in Nat /\ MaxGen \in Nat /\ MaxId \in Nat
  BY DEF LogAssumption, Key, LogRow

LEMMA PagesAtTyped ==
  ASSUME LogAssumption, LogTypeOK, NEW k \in Key
  PROVE  /\ PagesAt(k) \subseteq APage
         /\ pageCache[k] # NoPage => pageCache[k] \in PagesAt(k)
         /\ pagesInFlight[k] \notin {NotAsked, Requested} => pagesInFlight[k] \in PagesAt(k)
         /\ \A p \in PagesAt(k) : pageCache[k] # NoPage \/ pagesInFlight[k] # NotAsked
  BY LogFacts DEF LogTypeOK, PagesAt

LEMMA LogInvHolds == LogAssumption /\ LogInv => PagesHold /\ ClearIsFinal
<1> SUFFICES ASSUME LogAssumption, LogInv PROVE PagesHold /\ ClearIsFinal
  OBVIOUS
<1>1. ShownInOrder
  BY DEF LogInv, ShownHolds, ShownInOrder, Ordered, EndsAt
<1>2. NothingSkipped
  BY DEF LogInv, ShownHolds, NothingSkipped, Trusted, ToSet
<1>3. ASSUME Trusted, NEW r \in ToSet(logs) PROVE r.gen = gen
  BY <1>3 DEF LogInv, ShownHolds, ToSet
<1>4. ASSUME Trusted, NEW k \in Key, pageCache[k] # NoPage, NEW r \in ToSet(pageCache[k].items) PROVE r.gen = gen
  BY <1>4, PagesAtTyped DEF LogInv, PagesAtHold, PageComplete, ToSet
<1>5. ClearIsFinal
  BY <1>3, <1>4 DEF ClearIsFinal, Trusted
<1> QED BY <1>1, <1>2, <1>5 DEF LogInv, PagesHold

LEMMA LogInvInit == LogAssumption /\ LogInit => LogInv
<1> SUFFICES ASSUME LogAssumption, LogInit PROVE LogInv
  OBVIOUS
<1>1. Cardinality({}) = 0
  BY FS_EmptySet
<1>2. LogTypeOK
  BY <1>1, LogFacts DEF LogInit, LogTypeOK, LogAssumption
<1>3. \A k \in Key : PagesAt(k) = {} /\ pageCache[k] = NoPage /\ pagesInFlight[k] = NotAsked
  BY DEF LogInit, PagesAt
<1>4. TableHolds /\ PagesAtHold
  BY <1>3, LogFacts DEF LogInit, TableHolds, PagesAtHold, Distinct
<1>5. AwaitedHold /\ ShownHolds /\ LoadingHasReason
  BY DEF LogInit, AwaitedHold, ShownHolds, LoadingHasReason, CurrentPage, Ordered, EndsAt
<1> QED BY <1>2, <1>4, <1>5 DEF LogInv

\* Pages that were there before still hold what they held while the table stays.
LEMMA PagesStay ==
  ASSUME LogAssumption, LogInv, UNCHANGED table, Trusted' => Trusted,
         \A k \in Key :
           /\ PagesAt(k)' \subseteq PagesAt(k)
           /\ Trusted /\ k # 0 /\ (pageCache'[k] # NoPage \/ pagesInFlight'[k] # NotAsked)
                => pageCache[k] # NoPage \/ pagesInFlight[k] # NotAsked \/ AtLeast(k)
  PROVE  PagesAtHold'
<1>1. ASSUME NEW k \in Key, NEW p \in PagesAt(k)' PROVE PageInOrder(k, p) /\ (Trusted' => PageComplete(k, p)')
  BY <1>1 DEF LogInv, PagesAtHold, PageComplete, AtLeast, table
<1>2. ASSUME NEW k \in Key, Trusted', k # 0, pageCache'[k] # NoPage \/ pagesInFlight'[k] # NotAsked
      PROVE  AtLeast(k)'
  BY <1>2 DEF LogInv, PagesAtHold, AtLeast, table
<1> QED BY <1>1, <1>2 DEF PagesAtHold, PageInOrder, Ordered, EndsAt

LEMMA ShownStays ==
  ASSUME LogInv, UNCHANGED <<table, logs, nextCursor>>, Trusted' => Trusted
  PROVE  ShownHolds'
  BY DEF LogInv, ShownHolds, AtLeast, table, Ordered, EndsAt

LEMMA TableStays ==
  ASSUME LogAssumption, LogInv, UNCHANGED <<table, logSeq>>, clear' = "done" => clear = "done"
  PROVE  TableHolds'
<1>1. logRows' = logRows /\ gen' = gen /\ logSeq' = logSeq
  BY DEF table
<1>2. logSeq \in Nat /\ gen \in Nat
  BY LogFacts DEF LogInv, LogTypeOK
<1>3. logSeq + (IF clear = "done" THEN 1 ELSE 0) <= MaxLogLoads + gen
  BY DEF LogInv, TableHolds
<1>4. logSeq + (IF clear' = "done" THEN 1 ELSE 0) <= MaxLogLoads + gen
  BY <1>2, <1>3, LogFacts
<1> QED BY <1>1, <1>4 DEF LogInv, TableHolds, Distinct

\* The list shows a first page.
LEMMA ShowFirstHolds ==
  ASSUME LogAssumption, LogInv, UNCHANGED table, Trusted' => Trusted, NEW p \in PagesAt(0), ShowFirst(p)
  PROVE  ShownHolds' /\ logs' \in Seq(LogRow) /\ nextCursor' \in Key
<1>1. p \in APage
  BY LogFacts, PagesAtTyped DEF LogInv
<1>2. PageInOrder(0, p) /\ (Trusted => PageComplete(0, p))
  BY LogFacts DEF LogInv, PagesAtHold
<1>3. logs' = p.items /\ nextCursor' = p.next /\ logRows' = logRows /\ gen' = gen
  BY DEF ShowFirst, table
<1>4. Ordered(p.items) /\ EndsAt(p.items, p.next)
  BY <1>2 DEF PageInOrder
<1>5. ASSUME Trusted'
      PROVE  /\ \A i \in DOMAIN p.items : p.items[i].gen = gen
             /\ p.items # << >> => AtLeast(p.items[1].id)
             /\ p.items # << >> => \A r \in logRows : r.id <= p.items[1].id /\ r.id >= p.next
                                      => \E i \in DOMAIN p.items : p.items[i] = r
  BY <1>2, <1>5 DEF PageComplete
<1>6. ShownHolds'
  BY <1>3, <1>4, <1>5 DEF ShownHolds, AtLeast, Ordered, EndsAt
<1> QED BY <1>1, <1>3, <1>6 DEF APage

\* The page at the end of the list is added to it: it is older throughout, so
\* none of its rows was seen.
LEMMA ShowMoreHolds ==
  ASSUME LogAssumption, LogInv, UNCHANGED table, Trusted' => Trusted,
         nextCursor # 0, NEW p \in PagesAt(nextCursor), ShowMore(p)
  PROVE  ShownHolds' /\ logs' \in Seq(LogRow) /\ nextCursor' \in Key
<1> DEFINE k == nextCursor
           fresh == {r \in ToSet(p.items) : r.id \notin Ids(ToSet(logs))}
           more == NewestFirst(fresh)
           list == logs \o more
<1>1. k \in Key /\ k \in Nat /\ logs \in Seq(LogRow)
  BY LogFacts DEF LogInv, LogTypeOK
<1>2. p \in APage /\ p.items \in Seq(LogRow) /\ p.next \in Key /\ p.next \in Nat
  BY <1>1, LogFacts, PagesAtTyped DEF LogInv, APage
<1>3. PageInOrder(k, p) /\ (Trusted => PageComplete(k, p))
  BY <1>1 DEF LogInv, PagesAtHold
<1>4. logs' = list /\ nextCursor' = p.next /\ logRows' = logRows /\ gen' = gen
  BY DEF ShowMore, Unseen, table
<1>5. Ordered(logs) /\ logs # << >> /\ k = logs[Len(logs)].id /\ Len(logs) \in Nat \ {0} /\ DOMAIN logs = 1 .. Len(logs)
  BY <1>1 DEF LogInv, ShownHolds, EndsAt, Last
<1>6. ASSUME NEW i \in DOMAIN logs PROVE logs[i] \in LogRow /\ logs[i].id \in Nat /\ logs[i].id >= k
  <2>1. logs[i] \in LogRow /\ logs[Len(logs)] \in LogRow
    BY <1>1, <1>5
  <2>2. i = Len(logs) \/ i < Len(logs)
    BY <1>5
  <2>3. i = Len(logs) \/ logs[i].id > logs[Len(logs)].id
    BY <1>5, <2>2 DEF Ordered
  <2> QED BY <1>5, <2>1, <2>3, LogFacts
<1>7. ASSUME NEW r \in ToSet(p.items) PROVE r \in LogRow /\ r.id \in Nat /\ r.id < k /\ r \in fresh
  <2>1. PICK i \in DOMAIN p.items : p.items[i] = r
    BY DEF ToSet
  <2>2. r \in LogRow /\ r.id < k /\ r.id \in Nat
    BY <1>2, <1>3, <2>1, LogFacts DEF PageInOrder
  <2>3. ASSUME r.id \in Ids(ToSet(logs)) PROVE FALSE
    <3>1. PICK j \in DOMAIN logs : logs[j].id = r.id
      BY <2>3 DEF Ids, ToSet
    <3> QED BY <1>1, <1>6, <2>2, <3>1
  <2> QED BY <2>2, <2>3
<1>8. fresh = ToSet(p.items) /\ fresh \in SUBSET LogRow
  BY <1>7
<1> HIDE DEF fresh
<1>9. Distinct(fresh)
  <2> SUFFICES ASSUME NEW r \in ToSet(p.items), NEW s \in ToSet(p.items), r.id = s.id PROVE r = s
    BY <1>8 DEF Distinct
  <2>1. PICK i \in DOMAIN p.items : p.items[i] = r
    BY DEF ToSet
  <2>2. PICK j \in DOMAIN p.items : p.items[j] = s
    BY DEF ToSet
  <2>3. i \in Nat /\ j \in Nat /\ r.id \in Nat
    BY <1>2, <1>7
  <2>4. ~(i < j) /\ ~(j < i)
    BY <1>3, <2>1, <2>2, <2>3 DEF PageInOrder, Ordered
  <2> QED BY <2>1, <2>2, <2>3, <2>4
<1>10. /\ more \in Seq(LogRow) /\ Len(more) = Cardinality(fresh) /\ Ordered(more)
       /\ \A r \in fresh : \E i \in DOMAIN more : more[i] = r
       /\ \A i \in DOMAIN more : more[i] \in fresh
  BY <1>8, <1>9, NewestFirstFacts
<1> HIDE DEF more
<1>11. /\ list \in Seq(LogRow) /\ Len(list) = Len(logs) + Len(more) /\ DOMAIN list = 1 .. Len(list)
       /\ \A i \in DOMAIN logs : i \in DOMAIN list /\ list[i] = logs[i]
       /\ \A i \in DOMAIN more : Len(logs) + i \in DOMAIN list /\ list[Len(logs) + i] = more[i]
  BY <1>1, <1>10
<1>12. Len(more) \in Nat /\ DOMAIN more = 1 .. Len(more)
  BY <1>10
<1>13. ASSUME NEW i \in DOMAIN list
       PROVE  i \in DOMAIN logs \/ (i - Len(logs) \in DOMAIN more /\ list[i] = more[i - Len(logs)])
  <2>1. i \in DOMAIN logs \/ i - Len(logs) \in DOMAIN more
    BY <1>5, <1>11, <1>12
  <2> QED BY <1>5, <1>11, <1>12, <2>1
<1>14. list # << >> /\ list[1] = logs[1]
  BY <1>5, <1>11
<1> HIDE DEF list
<1>15. Ordered(list)
  <2> SUFFICES ASSUME NEW i \in DOMAIN list, NEW j \in DOMAIN list, i < j PROVE list[i].id > list[j].id
    BY DEF Ordered
  <2>1. i \in Nat /\ j \in Nat
    BY <1>11
  <2>2. CASE j \in DOMAIN logs
    <3>1. i \in DOMAIN logs
      BY <1>5, <2>1, <2>2, <1>11
    <3> QED BY <1>5, <1>11, <2>2, <3>1 DEF Ordered
  <2>3. CASE i \in DOMAIN logs /\ j - Len(logs) \in DOMAIN more /\ list[j] = more[j - Len(logs)]
    <3>1. list[i].id >= k /\ list[i].id \in Nat
      BY <1>6, <1>11, <2>3
    <3>2. list[j].id < k /\ list[j].id \in Nat
      BY <1>7, <1>8, <1>10, <2>3
    <3> QED BY <1>1, <3>1, <3>2
  <2>4. CASE /\ i - Len(logs) \in DOMAIN more /\ list[i] = more[i - Len(logs)]
             /\ j - Len(logs) \in DOMAIN more /\ list[j] = more[j - Len(logs)]
    <3>1. i - Len(logs) < j - Len(logs)
      BY <1>5, <2>1
    <3> QED BY <1>10, <2>4, <3>1 DEF Ordered
  <2>5. i \in DOMAIN logs \/ (i - Len(logs) \in DOMAIN more /\ list[i] = more[i - Len(logs)])
    BY <1>13
  <2>6. j \in DOMAIN logs \/ (j - Len(logs) \in DOMAIN more /\ list[j] = more[j - Len(logs)])
    BY <1>13
  <2> QED BY <2>2, <2>3, <2>4, <2>5, <2>6
<1>16. EndsAt(list, p.next)
  <2> SUFFICES ASSUME p.next # 0 PROVE p.next = Last(list).id
    BY <1>14 DEF EndsAt
  <2>1. p.items # << >> /\ p.next = p.items[Len(p.items)].id /\ Len(p.items) \in DOMAIN p.items
    BY <1>2, <1>3 DEF PageInOrder, EndsAt, Last
  <2> DEFINE last == p.items[Len(p.items)]
  <2>2. last \in fresh
    BY <1>8, <2>1 DEF ToSet
  <2>3. PICK m \in DOMAIN more : more[m] = last
    BY <1>10, <2>2
  <2>4. m \in Nat /\ m <= Len(more) /\ Len(more) \in DOMAIN more
    BY <1>12, <2>3
  <2>5. more[Len(more)] \in ToSet(p.items)
    BY <1>8, <1>10, <2>4
  <2>6. PICK n \in DOMAIN p.items : p.items[n] = more[Len(more)]
    BY <2>5 DEF ToSet
  <2>7. n \in Nat /\ n <= Len(p.items)
    BY <1>2, <2>6
  <2>8. last.id \in Nat /\ more[Len(more)].id \in Nat
    BY <1>2, <2>1, <2>4, <1>10, LogFacts
  <2>9. m = Len(more) \/ last.id > more[Len(more)].id
    BY <1>10, <2>3, <2>4 DEF Ordered
  <2>10. n = Len(p.items) \/ more[Len(more)].id > last.id
    BY <1>2, <1>3, <2>1, <2>6, <2>7 DEF PageInOrder, Ordered
  <2>11. more[Len(more)] = last
    BY <2>3, <2>6, <2>8, <2>9, <2>10
  <2>12. Len(list) = Len(logs) + Len(more) /\ list[Len(list)] = more[Len(more)]
    BY <1>11, <2>4
  <2> QED BY <2>1, <2>11, <2>12 DEF Last
<1>17. ASSUME Trusted, NEW i \in DOMAIN list PROVE list[i].gen = gen
  <2>1. CASE i \in DOMAIN logs
    BY <1>11, <1>17, <2>1 DEF LogInv, ShownHolds
  <2>2. CASE i - Len(logs) \in DOMAIN more /\ list[i] = more[i - Len(logs)]
    <3>1. list[i] \in ToSet(p.items)
      BY <1>8, <1>10, <2>2
    <3> QED BY <1>3, <1>17, <3>1 DEF PageComplete, ToSet
  <2> QED BY <1>13, <2>1, <2>2
<1>18. ASSUME Trusted PROVE AtLeast(list[1].id)
  BY <1>5, <1>14, <1>18 DEF LogInv, ShownHolds
<1>19. ASSUME Trusted, NEW r \in logRows, r.id <= list[1].id, r.id >= p.next
       PROVE  \E i \in DOMAIN list : list[i] = r
  <2>1. r \in LogRow /\ r.id \in Nat
    BY LogFacts DEF LogInv, LogTypeOK
  <2>2. CASE r.id >= k
    <3>1. \E i \in DOMAIN logs : logs[i] = r
      BY <1>5, <1>14, <1>19, <2>2 DEF LogInv, ShownHolds
    <3> QED BY <1>11, <3>1
  <2>3. CASE r.id < k
    <3>1. PICK i \in DOMAIN p.items : p.items[i] = r
      BY <1>3, <1>19, <2>3 DEF PageComplete
    <3>2. r \in fresh
      BY <1>8, <3>1 DEF ToSet
    <3> QED BY <1>10, <1>11, <3>2
  <2> QED BY <1>1, <2>1, <2>2, <2>3
<1>20. ShownHolds'
  BY <1>4, <1>15, <1>16, <1>17, <1>18, <1>19 DEF ShownHolds, AtLeast, Ordered, EndsAt
<1> QED BY <1>2, <1>4, <1>11, <1>20

\* The row that is added is the newest, is kept, and is the only new one.
LEMMA InsertFacts ==
  ASSUME LogAssumption, LogInv, InsertRow
  PROVE  \E n \in LogRow :
           /\ n.gen = gen /\ \A r \in logRows : r.id < n.id
           /\ n \in logRows' /\ logRows' \subseteq logRows \cup {n}
           /\ logRows' \subseteq LogRow /\ Distinct(logRows')
           /\ Cardinality(logRows') \in Nat /\ Cardinality(logRows') <= MaxRows
<1> DEFINE ids == Ids(logRows) \cup {0}
           id == 1 + Max(ids)
           n == [id |-> id, gen |-> gen]
           grown == logRows \cup {n}
<1>1. logRows \in SUBSET LogRow /\ Distinct(logRows) /\ gen \in 0 .. MaxGen
  BY DEF LogInv, LogTypeOK, TableHolds
<1>2. \A r \in logRows : r.id \in 1 .. MaxId
  BY <1>1 DEF LogRow
<1>3. \E x \in ids : x \in Nat /\ \A y \in ids : x >= y
  <2>1. CASE logRows = {}
    BY <2>1 DEF Ids
  <2>2. CASE logRows # {}
    <3>1. PICK r \in logRows : \A s \in logRows : s.id <= r.id
      BY <1>1, <2>2, TopRow
    <3> QED BY <1>2, <3>1, LogFacts DEF Ids
  <2> QED BY <2>1, <2>2
<1>4. Max(ids) \in ids /\ \A y \in ids : Max(ids) >= y
  BY <1>3 DEF Max
<1>5. Max(ids) \in Nat /\ \A r \in logRows : r.id < id
  <2>1. \A y \in ids : y \in Nat
    BY <1>2, LogFacts DEF Ids
  <2>2. \A r \in logRows : r.id \in ids
    BY DEF Ids
  <2> HIDE DEF ids
  <2> QED BY <1>4, <2>1, <2>2
<1>6. id \in 1 .. MaxId
  BY <1>5, LogFacts DEF InsertRow
<1>7. PICK kept \in 1 .. Cardinality(grown) : logRows' = Newest(MaxRows, Newest(kept, grown))
  BY DEF InsertRow
<1> HIDE DEF id, ids
<1>8. n \in LogRow /\ n.id = id /\ n.gen = gen
  BY <1>1, <1>6 DEF LogRow
<1>9. \A r \in logRows : r.id < n.id
  BY <1>5, <1>8
<1> HIDE DEF n
<1>10. grown \in SUBSET LogRow /\ \A s \in grown : s.id <= n.id
  <2>1. n.id <= n.id /\ \A r \in logRows : r.id \in Int
    BY <1>2, <1>6, <1>8
  <2> QED BY <1>1, <1>2, <1>6, <1>8, <1>9
<1>11. Distinct(grown)
  BY <1>1, <1>2, <1>6, <1>8, <1>9 DEF Distinct
<1> HIDE DEF grown
<1>12. kept \in Nat /\ kept > 0 /\ MaxRows \in Nat /\ MaxRows > 0
  BY <1>7, LogAssumption
<1> DEFINE recent == Newest(kept, grown)
<1>13. recent \in SUBSET grown /\ Distinct(recent) /\ n \in recent
  BY <1>10, <1>11, <1>12, NewestFacts DEF grown
<1> HIDE DEF recent
<1>14. /\ Newest(MaxRows, recent) \in SUBSET recent /\ Distinct(Newest(MaxRows, recent))
       /\ Cardinality(Newest(MaxRows, recent)) \in Nat /\ Cardinality(Newest(MaxRows, recent)) <= MaxRows
       /\ n \in Newest(MaxRows, recent)
  BY <1>10, <1>12, <1>13, NewestFacts
<1>15. logRows' = Newest(MaxRows, recent)
  BY <1>7 DEF recent
<1>16. logRows' \subseteq logRows \cup {n}
  BY <1>13, <1>14, <1>15 DEF grown
<1> QED BY <1>8, <1>9, <1>10, <1>13, <1>14, <1>15, <1>16

LEMMA InsertRowInv == ASSUME LogAssumption, LogInv, InsertRow PROVE LogInv'
<1>1. PICK n \in LogRow :
        /\ n.gen = gen /\ \A r \in logRows : r.id < n.id
        /\ n \in logRows' /\ logRows' \subseteq logRows \cup {n}
        /\ logRows' \subseteq LogRow /\ Distinct(logRows')
        /\ Cardinality(logRows') \in Nat /\ Cardinality(logRows') <= MaxRows
  BY InsertFacts
<1>2. UNCHANGED <<gen, browser, view, clear, cutShort, overlap>>
  BY DEF InsertRow
<1>3. logRows \in SUBSET LogRow /\ n.id \in Nat /\ \A r \in logRows : r.id \in Nat
  BY LogFacts DEF LogInv, LogTypeOK
<1>4. ASSUME NEW m \in Nat, AtLeast(m) PROVE AtLeast(m)'
  BY <1>1, <1>3, <1>4 DEF AtLeast
<1>5. ASSUME NEW m \in Nat, AtLeast(m) PROVE m < n.id
  BY <1>1, <1>3, <1>5 DEF AtLeast
<1>6. \A k \in Key : PagesAt(k)' = PagesAt(k)
  BY <1>2 DEF PagesAt, browser
<1>7. LogTypeOK'
  BY <1>1, <1>2 DEF LogInv, LogTypeOK, browser, view
<1>8. TableHolds'
  <2>1. \A r \in logRows' : r.gen = gen
    BY <1>1 DEF LogInv, TableHolds
  <2>2. logSeq' = logSeq /\ clear' = clear /\ gen' = gen
    BY <1>2 DEF view
  <2> QED BY <1>1, <2>1, <2>2 DEF LogInv, TableHolds, Distinct
<1>9. PagesAtHold'
  <2>1. ASSUME NEW k \in Key, NEW p \in PagesAt(k), Trusted PROVE PageComplete(k, p)'
    <3>1. PageComplete(k, p) /\ p \in APage /\ k \in Nat
      BY <2>1, LogFacts, PagesAtTyped DEF LogInv, PagesAtHold
    <3>2. k # 0 => AtLeast(k)
      BY <2>1, PagesAtTyped DEF LogInv, PagesAtHold
    <3>3. k # 0 => k < n.id
      BY <1>5, <3>1, <3>2
    <3>4. ASSUME p.items # << >> PROVE AtLeast(p.items[1].id) /\ p.items[1].id \in Nat
      <4>1. p.items[1] \in LogRow
        BY <3>1, <3>4 DEF APage
      <4> QED BY <3>1, <3>4, <4>1, LogFacts DEF PageComplete
    <3>5. p.items # << >> => p.items[1].id < n.id /\ AtLeast(p.items[1].id)'
      BY <1>4, <1>5, <3>4
    <3>6. ASSUME NEW r \in logRows', r.id >= p.next,
                 IF k = 0 THEN p.items # << >> /\ r.id <= p.items[1].id ELSE r.id < k
          PROVE  \E i \in DOMAIN p.items : p.items[i] = r
      <4>1. r # n
        BY <1>3, <3>1, <3>3, <3>4, <3>5, <3>6
      <4> QED BY <1>1, <3>1, <3>6, <4>1 DEF PageComplete
    <3>7. \A i \in DOMAIN p.items : p.items[i].gen = gen'
      BY <1>2, <3>1 DEF PageComplete
    <3> QED BY <3>5, <3>6, <3>7 DEF PageComplete
  <2>2. ASSUME NEW k \in Key, NEW p \in PagesAt(k) PROVE PageInOrder(k, p)'
    BY <2>2 DEF LogInv, PagesAtHold, PageInOrder, Ordered, EndsAt
  <2>3. Trusted' = Trusted
    BY <1>2 DEF Trusted
  <2>4. ASSUME NEW k \in Key, Trusted, k # 0, pageCache'[k] # NoPage \/ pagesInFlight'[k] # NotAsked
        PROVE  AtLeast(k)'
    <3>1. AtLeast(k) /\ k \in Nat
      BY <1>2, <2>4, LogFacts DEF LogInv, PagesAtHold, browser
    <3> QED BY <1>4, <3>1
  <2> QED BY <1>6, <2>1, <2>2, <2>3, <2>4 DEF PagesAtHold
<1>10. AwaitedHold' /\ LoadingHasReason'
  BY <1>2 DEF LogInv, AwaitedHold, LoadingHasReason, CurrentPage, browser, view
<1>11. ShownHolds'
  <2>1. logs' = logs /\ nextCursor' = nextCursor /\ gen' = gen /\ Trusted' = Trusted
    BY <1>2 DEF view, Trusted
  <2>2. ASSUME Trusted, logs # << >> PROVE AtLeast(logs[1].id)' /\ logs[1].id < n.id /\ logs[1].id \in Nat
    <3>1. logs[1] \in LogRow
      BY <2>2 DEF LogInv, LogTypeOK
    <3>2. logs[1].id \in Nat /\ AtLeast(logs[1].id)
      BY <2>2, <3>1, LogFacts DEF LogInv, ShownHolds
    <3>3. (\E r \in logRows' : r.id >= logs[1].id)
      BY <1>4, <3>2 DEF AtLeast
    <3> QED BY <1>5, <2>1, <3>2, <3>3 DEF AtLeast
  <2>3. ASSUME Trusted, logs # << >>, NEW r \in logRows', r.id <= logs[1].id, r.id >= nextCursor
        PROVE  \E i \in DOMAIN logs : logs[i] = r
    <3>1. r # n
      BY <1>3, <2>2, <2>3
    <3> QED BY <1>1, <2>3, <3>1 DEF LogInv, ShownHolds
  <2>4. Ordered(logs) /\ EndsAt(logs, nextCursor) /\ (Trusted => \A i \in DOMAIN logs : logs[i].gen = gen)
    BY DEF LogInv, ShownHolds
  <2> QED BY <2>1, <2>2, <2>3, <2>4 DEF ShownHolds, AtLeast, Ordered, EndsAt
<1> QED BY <1>7, <1>8, <1>9, <1>10, <1>11 DEF LogInv

LEMMA ServePageInv == ASSUME LogAssumption, LogInv, NEW k \in Key, ServePage(k) PROVE LogInv'
<1>1. /\ pagesInFlight[k] = Requested /\ pagesInFlight' = [pagesInFlight EXCEPT ![k] = Page(k)]
      /\ UNCHANGED <<table, pageCache, pagesAwaited, view, clear, cutShort, overlap>>
  BY DEF ServePage
<1>2. /\ Page(k) \in APage /\ PageInOrder(k, Page(k))
      /\ \A i \in DOMAIN Page(k).items : Page(k).items[i] \in logRows
      /\ \A r \in logRows : (k = 0 \/ r.id < k) /\ r.id >= Page(k).next
           => \E i \in DOMAIN Page(k).items : Page(k).items[i] = r
  BY PageFacts DEF LogInv, LogTypeOK, TableHolds
<1> DEFINE p == Page(k)
<1> HIDE DEF p
<1>3. /\ pagesInFlight \in [Key -> APage \cup {NotAsked, Requested}]
      /\ pagesInFlight' = [pagesInFlight EXCEPT ![k] = p] /\ p \in APage
  BY <1>1, <1>2 DEF p, LogInv, LogTypeOK
<1>4. /\ pagesInFlight'[k] = p /\ \A j \in Key \ {k} : pagesInFlight'[j] = pagesInFlight[j]
      /\ pagesInFlight' \in [Key -> APage \cup {NotAsked, Requested}]
  BY <1>3
<1>5. LogTypeOK'
  BY <1>1, <1>4 DEF LogInv, LogTypeOK, table, view
<1>6. TableHolds'
  BY <1>1, TableStays DEF view
<1>7. ShownHolds'
  BY <1>1, ShownStays DEF view, Trusted
<1>8. AwaitedHold' /\ LoadingHasReason'
  <2>1. \A j \in Key : pagesInFlight[j] # NotAsked => pagesInFlight'[j] # NotAsked
    BY <1>3, <1>4, LogFacts
  <2>2. \A w \in pagesAwaited : w.key \in Key
    BY DEF LogInv, LogTypeOK
  <2>3. UNCHANGED <<pagesAwaited, pageCache, logSeq, nextCursor, loading, loadingMore, cutShort>>
    BY <1>1 DEF view
  <2> QED BY <2>1, <2>2, <2>3 DEF LogInv, AwaitedHold, LoadingHasReason, CurrentPage
<1>9. Trusted => PageComplete(k, p)
  <2> SUFFICES ASSUME Trusted PROVE PageComplete(k, p)
    OBVIOUS
  <2>1. \A i \in DOMAIN p.items : p.items[i].gen = gen
    BY <1>2 DEF p, LogInv, TableHolds
  <2>2. ASSUME p.items # << >> PROVE AtLeast(p.items[1].id)
    <3>1. p.items[1] \in logRows /\ p.items[1] \in LogRow
      BY <1>2, <1>3, <2>2 DEF p, APage
    <3>2. p.items[1].id >= p.items[1].id
      BY <3>1, LogFacts
    <3> QED BY <3>1, <3>2 DEF AtLeast
  <2>3. \A r \in logRows : (k = 0 \/ r.id < k) /\ r.id >= p.next => \E i \in DOMAIN p.items : p.items[i] = r
    BY <1>2 DEF p
  <2> QED BY <2>1, <2>2, <2>3 DEF PageComplete
<1>10. PagesAtHold'
  <2>1. Trusted' = Trusted /\ logRows' = logRows /\ gen' = gen /\ pageCache' = pageCache
    BY <1>1 DEF Trusted, table
  <2>2. ASSUME NEW j \in Key, NEW q \in PagesAt(j)' PROVE PageInOrder(j, q) /\ (Trusted => PageComplete(j, q))
    <3>1. q \in PagesAt(j) \/ (j = k /\ q = p)
      BY <1>4, <2>1, <2>2 DEF PagesAt
    <3> QED BY <1>2, <1>9, <3>1 DEF p, LogInv, PagesAtHold
  <2>3. ASSUME NEW j \in Key, Trusted, j # 0, pageCache'[j] # NoPage \/ pagesInFlight'[j] # NotAsked
        PROVE  AtLeast(j)
    <3>1. pageCache[j] # NoPage \/ pagesInFlight[j] # NotAsked
      BY <1>1, <1>4, <2>1, <2>3, LogAssumption
    <3> QED BY <2>3, <3>1 DEF LogInv, PagesAtHold
  <2> QED BY <2>1, <2>2, <2>3 DEF PagesAtHold, PageInOrder, PageComplete, AtLeast, Ordered, EndsAt
<1> QED BY <1>5, <1>6, <1>7, <1>8, <1>10 DEF LogInv

\* Nothing is shown or kept: whatever the table becomes, no page is of before.
LEMMA NothingKept ==
  ASSUME LogAssumption, logs' = << >>, nextCursor' = 0,
         \A k \in Key : pageCache'[k] = NoPage /\ pagesInFlight'[k] = NotAsked
  PROVE  PagesAtHold' /\ ShownHolds'
<1>1. \A k \in Key : PagesAt(k)' = {}
  BY DEF PagesAt
<1> QED BY <1>1 DEF PagesAtHold, ShownHolds, Ordered, EndsAt

\* While a clear takes effect nothing is said of the pages but their order.
LEMMA NotTrusted ==
  ASSUME LogInv, ~Trusted', UNCHANGED <<browser, logs, nextCursor>>
  PROVE  PagesAtHold' /\ ShownHolds'
<1>1. \A k \in Key : PagesAt(k)' = PagesAt(k)
  BY DEF PagesAt, browser
<1>2. PagesAtHold'
  BY <1>1 DEF LogInv, PagesAtHold, PageInOrder, Ordered, EndsAt
<1>3. ShownHolds'
  BY DEF LogInv, ShownHolds, Ordered, EndsAt
<1> QED BY <1>2, <1>3

LEMMA ClearElsewhereInv == ASSUME LogAssumption, LogInv, ClearElsewhere PROVE LogInv'
<1>1. /\ gen < MaxGen /\ logRows' = {} /\ gen' = gen + 1
      /\ overlap' = (overlap \/ logs # << >> \/ \E k \in Key : pageCache[k] # NoPage \/ pagesInFlight[k] # NotAsked)
      /\ UNCHANGED <<browser, view, clear, cutShort>>
  BY DEF ClearElsewhere
<1>2. gen \in 0 .. MaxGen /\ logSeq \in Nat
  BY LogFacts DEF LogInv, LogTypeOK
<1>3. gen' \in 0 .. MaxGen
  BY <1>1, <1>2, LogFacts
<1>4. Cardinality({}) = 0
  BY FS_EmptySet
<1>5. LogTypeOK'
  <2>1. logRows' \subseteq LogRow /\ Cardinality(logRows') <= MaxRows
    BY <1>1, <1>4, LogAssumption
  <2>2. overlap' \in BOOLEAN
    BY <1>1
  <2> QED BY <1>1, <1>3, <2>1, <2>2 DEF LogInv, LogTypeOK, browser, view
<1>6. TableHolds'
  <2>1. logSeq + (IF clear = "done" THEN 1 ELSE 0) <= MaxLogLoads + gen
    BY DEF LogInv, TableHolds
  <2>2. logSeq + (IF clear = "done" THEN 1 ELSE 0) <= MaxLogLoads + (gen + 1) /\ gen + 1 >= 1
    BY <1>2, <2>1, LogFacts
  <2> QED BY <1>1, <2>2 DEF TableHolds, Distinct, view
<1>7. PagesAtHold' /\ ShownHolds'
  <2>1. CASE overlap'
    BY <1>1, <2>1, NotTrusted DEF Trusted, view
  <2>2. CASE ~overlap'
    <3>1. logs = << >> /\ \A k \in Key : pageCache[k] = NoPage /\ pagesInFlight[k] = NotAsked
      BY <1>1, <2>2
    <3>2. nextCursor = 0
      BY <3>1 DEF LogInv, ShownHolds, EndsAt
    <3> QED BY <1>1, <3>1, <3>2, NothingKept DEF browser, view
  <2> QED BY <2>1, <2>2
<1>8. AwaitedHold' /\ LoadingHasReason'
  BY <1>1 DEF LogInv, AwaitedHold, LoadingHasReason, CurrentPage, browser, view
<1> QED BY <1>5, <1>6, <1>7, <1>8 DEF LogInv

LEMMA ClearAskInv == ASSUME LogAssumption, LogInv, ClearAsk PROVE LogInv'
<1>1. /\ clear = "idle" /\ clear' = "asked" /\ loadingMore' = FALSE
      /\ UNCHANGED <<table, browser, logs, nextCursor, loading, logSeq, cutShort, overlap>>
  BY DEF ClearAsk
<1>2. Trusted' => Trusted
  BY <1>1 DEF Trusted
<1>3. LogTypeOK'
  BY <1>1 DEF LogInv, LogTypeOK, table, browser
<1>4. TableHolds' /\ ShownHolds'
  BY <1>1, <1>2, TableStays, ShownStays
<1>5. PagesAtHold'
  BY <1>1, <1>2, PagesStay DEF browser, PagesAt
<1>6. AwaitedHold' /\ LoadingHasReason'
  BY <1>1 DEF LogInv, AwaitedHold, LoadingHasReason, CurrentPage, browser
<1> QED BY <1>3, <1>4, <1>5, <1>6 DEF LogInv

LEMMA ClearServeInv == ASSUME LogAssumption, LogInv, ClearServe PROVE LogInv'
<1>1. /\ clear = "asked" /\ gen < MaxGen /\ logRows' = {} /\ gen' = gen + 1 /\ clear' = "done"
      /\ UNCHANGED <<browser, view, cutShort, overlap>>
  BY DEF ClearServe
<1>2. gen \in 0 .. MaxGen /\ logSeq \in Nat
  BY LogFacts DEF LogInv, LogTypeOK
<1>3. gen' \in 0 .. MaxGen
  BY <1>1, <1>2, LogFacts
<1>4. logRows' \subseteq LogRow /\ Cardinality(logRows') <= MaxRows
  BY <1>1, FS_EmptySet, LogAssumption
<1>5. LogTypeOK'
  BY <1>1, <1>3, <1>4 DEF LogInv, LogTypeOK, browser, view
<1>6. TableHolds'
  <2>1. logSeq <= MaxLogLoads + gen
    BY <1>1, <1>2 DEF LogInv, TableHolds
  <2>2. logSeq + 1 <= MaxLogLoads + (gen + 1) /\ gen + 1 >= 1
    BY <1>2, <2>1, LogFacts
  <2> QED BY <1>1, <2>2 DEF TableHolds, Distinct, view
<1>7. PagesAtHold' /\ ShownHolds'
  BY <1>1, NotTrusted DEF Trusted, view
<1>8. AwaitedHold' /\ LoadingHasReason'
  BY <1>1 DEF LogInv, AwaitedHold, LoadingHasReason, CurrentPage, browser, view
<1> QED BY <1>5, <1>6, <1>7, <1>8 DEF LogInv

LEMMA ClearFailInv == ASSUME LogAssumption, LogInv, ClearFail PROVE LogInv'
<1>1. /\ clear # "idle" /\ clear' = "idle" /\ overlap' = (overlap \/ clear = "done")
      /\ UNCHANGED <<table, browser, view, cutShort>>
  BY DEF ClearFail
<1>2. Trusted' => Trusted
  BY <1>1 DEF Trusted
<1>3. LogTypeOK'
  <2>1. overlap' \in BOOLEAN
    BY <1>1
  <2> QED BY <1>1, <2>1 DEF LogInv, LogTypeOK, table, browser, view
<1>4. TableHolds' /\ ShownHolds'
  BY <1>1, <1>2, TableStays, ShownStays DEF view
<1>5. PagesAtHold'
  BY <1>1, <1>2, PagesStay DEF browser, PagesAt
<1>6. AwaitedHold' /\ LoadingHasReason'
  BY <1>1 DEF LogInv, AwaitedHold, LoadingHasReason, CurrentPage, browser, view
<1> QED BY <1>3, <1>4, <1>5, <1>6 DEF LogInv

\* A new load outdates every call.
LEMMA Outdated ==
  ASSUME LogAssumption, LogInv, NEW k \in Key
  PROVE  [seq |-> logSeq + 1, key |-> k] \notin pagesAwaited
<1>1. logSeq \in Nat /\ \A w \in pagesAwaited : w.seq <= logSeq
  BY LogFacts DEF LogInv, LogTypeOK, AwaitedHold
<1> SUFFICES ASSUME [seq |-> logSeq + 1, key |-> k] \in pagesAwaited PROVE FALSE
  OBVIOUS
<1>2. logSeq + 1 <= logSeq
  BY <1>1
<1> QED BY <1>1, <1>2

LEMMA ClearDoneInv == ASSUME LogAssumption, LogInv, ClearDone PROVE LogInv'
<1>1. /\ clear = "done" /\ clear' = "idle"
      /\ pageCache' = [k \in Key |-> NoPage]
      /\ logSeq' = logSeq + 1 /\ logs' = << >> /\ nextCursor' = 0
      /\ cutShort' = (loading \/ loadingMore)
      /\ overlap' = (overlap \/ \E k \in Key : pagesInFlight[k] # NotAsked)
      /\ UNCHANGED <<table, pagesInFlight, pagesAwaited, loading, loadingMore>>
  BY DEF ClearDone
<1>2. gen \in 0 .. MaxGen /\ logSeq \in Nat
  BY LogFacts DEF LogInv, LogTypeOK
<1>3. logSeq + 1 <= MaxLogLoads + gen
  BY <1>1, <1>2 DEF LogInv, TableHolds
<1>4. logSeq + 1 \in 0 .. MaxLogLoads + MaxGen
  BY <1>2, <1>3, LogFacts
<1>5. LogTypeOK'
  <2>1. overlap' \in BOOLEAN /\ cutShort' \in BOOLEAN
    BY <1>1
  <2>2. logs' \in Seq(LogRow) /\ nextCursor' \in Key /\ logSeq' \in 0 .. MaxLogLoads + MaxGen
    BY <1>1, <1>4, LogFacts
  <2>3. pageCache' \in [Key -> APage \cup {NoPage}]
    BY <1>1
  <2> QED BY <1>1, <2>1, <2>2, <2>3 DEF LogInv, LogTypeOK, table
<1>6. TableHolds'
  <2>1. logSeq' + 0 <= MaxLogLoads + gen
    BY <1>1, <1>2, <1>3
  <2> QED BY <1>1, <2>1 DEF LogInv, TableHolds, Distinct, table
<1>7. PagesAtHold' /\ ShownHolds'
  <2>1. CASE overlap'
    <3>1. \A k \in Key : PagesAt(k)' \subseteq PagesAt(k)
      BY <1>1 DEF PagesAt
    <3>2. ~Trusted' /\ ~Trusted
      BY <1>1, <2>1 DEF Trusted
    <3>3. PagesAtHold'
      BY <1>1, <3>1, <3>2, PagesStay
    <3>4. ShownHolds'
      BY <1>1, <3>2 DEF ShownHolds, Ordered, EndsAt
    <3> QED BY <3>3, <3>4
  <2>2. CASE ~overlap'
    BY <1>1, <2>2, NothingKept
  <2> QED BY <2>1, <2>2
<1>8. \A k \in Key : ~CurrentPage(k)'
  BY <1>1, Outdated DEF CurrentPage
<1>9. AwaitedHold'
  <2>1. \A w \in pagesAwaited : w.seq \in Nat /\ w.key \in Key
    BY LogFacts DEF LogInv, LogTypeOK
  <2>2. \A w \in pagesAwaited : w.seq <= logSeq + 1
    BY <1>2, <2>1 DEF LogInv, AwaitedHold
  <2> QED BY <1>1, <1>8, <2>1, <2>2, LogFacts DEF LogInv, AwaitedHold
<1>10. LoadingHasReason'
  BY <1>1 DEF LoadingHasReason
<1> QED BY <1>5, <1>6, <1>7, <1>9, <1>10 DEF LogInv

\* A request is sent or joined: nothing new is cached or under way but that.
LEMMA FetchFacts ==
  ASSUME LogAssumption, LogInv, NEW k \in Key, FetchPage(k)
  PROVE  /\ pagesInFlight' \in [Key -> APage \cup {NotAsked, Requested}]
         /\ pagesInFlight'[k] # NotAsked
         /\ \A j \in Key : \/ pagesInFlight'[j] = pagesInFlight[j]
                           \/ j = k /\ pagesInFlight[j] = NotAsked /\ pagesInFlight'[j] = Requested
<1>1. pagesInFlight \in [Key -> APage \cup {NotAsked, Requested}]
  BY DEF LogInv, LogTypeOK
<1>2. pagesInFlight' = [pagesInFlight EXCEPT ![k] = IF pagesInFlight[k] = NotAsked THEN Requested ELSE pagesInFlight[k]]
  BY DEF FetchPage
<1>3. pagesInFlight'[k] = (IF pagesInFlight[k] = NotAsked THEN Requested ELSE pagesInFlight[k])
  BY <1>1, <1>2
<1>4. \A j \in Key \ {k} : pagesInFlight'[j] = pagesInFlight[j]
  BY <1>1, <1>2
<1>5. pagesInFlight' \in [Key -> APage \cup {NotAsked, Requested}]
  BY <1>1, <1>2
<1> QED BY <1>3, <1>4, <1>5, LogAssumption

\* What a call of the hook awaits.
LEMMA AwaitedTyped ==
  ASSUME LogAssumption, LogInv, NEW n \in 1 .. MaxLogLoads + MaxGen, NEW k \in Key
  PROVE  pagesAwaited \cup {[seq |-> n, key |-> k]} \subseteq [seq : 1 .. MaxLogLoads + MaxGen, key : Key]
  BY DEF LogInv, LogTypeOK

LEMMA LoadLogsInv == ASSUME LogAssumption, LogInv, LoadLogs PROVE LogInv'
<1>1. PICK invalidates \in BOOLEAN :
        LET kept == IF invalidates THEN [k \in Key |-> NoPage] ELSE pageCache
        IN /\ logSeq < MaxLogLoads
           /\ logSeq' = logSeq + 1 /\ loadingMore' = FALSE /\ cutShort' = FALSE
           /\ pageCache' = kept
           /\ FetchPage(0)
           /\ \/ /\ kept[0] # NoPage
                 /\ ShowFirst(kept[0]) /\ loading' = FALSE
                 /\ UNCHANGED pagesAwaited
              \/ /\ kept[0] = NoPage
                 /\ loading' = TRUE
                 /\ pagesAwaited' = pagesAwaited \cup {[seq |-> logSeq', key |-> 0]}
                 /\ UNCHANGED <<logs, nextCursor>>
           /\ UNCHANGED <<table, clear, overlap>>
  BY DEF LoadLogs
<1>2. /\ logSeq < MaxLogLoads /\ logSeq' = logSeq + 1 /\ loadingMore' = FALSE /\ cutShort' = FALSE
      /\ FetchPage(0) /\ UNCHANGED <<table, clear, overlap>>
  BY <1>1
<1>3. pageCache' = [k \in Key |-> NoPage] \/ pageCache' = pageCache
  BY <1>1
<1>4. \/ /\ pageCache'[0] # NoPage /\ ShowFirst(pageCache'[0]) /\ loading' = FALSE /\ UNCHANGED pagesAwaited
      \/ /\ pageCache'[0] = NoPage /\ loading' = TRUE
         /\ pagesAwaited' = pagesAwaited \cup {[seq |-> logSeq + 1, key |-> 0]} /\ UNCHANGED <<logs, nextCursor>>
  BY <1>1
<1>5. /\ gen \in 0 .. MaxGen /\ logSeq \in Nat /\ pageCache \in [Key -> APage \cup {NoPage}]
      /\ \A w \in pagesAwaited : w.seq \in Nat /\ w.key \in Key
  BY LogFacts DEF LogInv, LogTypeOK
<1>6. \A k \in Key : pageCache'[k] # NoPage => pageCache'[k] = pageCache[k]
  BY <1>3
<1>7. /\ pagesInFlight' \in [Key -> APage \cup {NotAsked, Requested}] /\ pagesInFlight'[0] # NotAsked
      /\ \A j \in Key : \/ pagesInFlight'[j] = pagesInFlight[j]
                        \/ j = 0 /\ pagesInFlight[j] = NotAsked /\ pagesInFlight'[j] = Requested
  BY <1>2, FetchFacts, LogFacts
<1>8. Trusted' = Trusted
  BY <1>2 DEF Trusted
<1>9. PagesAtHold'
  <2>1. \A k \in Key : PagesAt(k)' \subseteq PagesAt(k)
    BY <1>6, <1>7 DEF PagesAt
  <2>2. \A k \in Key : k # 0 /\ (pageCache'[k] # NoPage \/ pagesInFlight'[k] # NotAsked)
          => pageCache[k] # NoPage \/ pagesInFlight[k] # NotAsked
    BY <1>6, <1>7
  <2> QED BY <1>2, <1>8, <2>1, <2>2, PagesStay
<1>10. ShownHolds' /\ logs' \in Seq(LogRow) /\ nextCursor' \in Key
  <2>1. CASE pageCache'[0] # NoPage /\ ShowFirst(pageCache'[0])
    <3>1. pageCache'[0] \in PagesAt(0)
      BY <1>6, <2>1, LogFacts, PagesAtTyped DEF LogInv
    <3> QED BY <1>2, <1>8, <2>1, <3>1, ShowFirstHolds
  <2>2. CASE UNCHANGED <<logs, nextCursor>>
    <3>1. ShownHolds'
      BY <1>2, <1>8, <2>2, ShownStays
    <3> QED BY <2>2, <3>1 DEF LogInv, LogTypeOK
  <2> QED BY <1>4, <2>1, <2>2
<1>11. logSeq' \in 1 .. MaxLogLoads + MaxGen
  BY <1>2, <1>5, LogFacts
<1>12. pagesAwaited' \subseteq [seq : 1 .. MaxLogLoads + MaxGen, key : Key]
  <2>1. pagesAwaited' = pagesAwaited \/ pagesAwaited' = pagesAwaited \cup {[seq |-> logSeq', key |-> 0]}
    BY <1>2, <1>4
  <2> QED BY <1>11, <2>1, LogFacts, AwaitedTyped DEF LogInv, LogTypeOK
<1>13. LogTypeOK'
  <2>1. pageCache' \in [Key -> APage \cup {NoPage}]
    BY <1>3, <1>5
  <2>2. loading' \in BOOLEAN /\ loadingMore' \in BOOLEAN /\ cutShort' \in BOOLEAN
    BY <1>2, <1>4
  <2>3. logSeq' \in 0 .. MaxLogLoads + MaxGen
    BY <1>11, LogFacts
  <2> QED BY <1>2, <1>7, <1>10, <1>12, <2>1, <2>2, <2>3 DEF LogInv, LogTypeOK, table
<1>14. TableHolds'
  <2>1. logSeq + 1 + (IF clear = "done" THEN 1 ELSE 0) <= MaxLogLoads + gen
    <3>1. CASE clear = "done"
      <4>1. gen >= 1
        BY <3>1 DEF LogInv, TableHolds
      <4> QED BY <1>2, <1>5, <3>1, <4>1, LogFacts
    <3>2. CASE clear # "done"
      BY <1>2, <1>5, <3>2, LogFacts
    <3> QED BY <3>1, <3>2
  <2> QED BY <1>2, <2>1 DEF LogInv, TableHolds, Distinct, table
<1>15. \A k \in Key : CurrentPage(k)' => k = 0 /\ loading'
  BY <1>2, <1>4, Outdated DEF CurrentPage
<1>16. AwaitedHold'
  <2>1. ASSUME NEW w \in pagesAwaited
        PROVE  w.seq <= logSeq' /\ pageCache'[w.key] = NoPage /\ pagesInFlight'[w.key] # NotAsked
    <3>1. w.seq <= logSeq /\ pageCache[w.key] = NoPage /\ pagesInFlight[w.key] # NotAsked
      BY DEF LogInv, AwaitedHold
    <3>2. w.key \in Key /\ w.seq \in Nat
      BY <1>5
    <3>3. w.seq <= logSeq + 1
      BY <1>5, <3>1, <3>2
    <3> QED BY <1>2, <1>6, <1>7, <3>1, <3>2, <3>3
  <2>2. ASSUME NEW w \in pagesAwaited'
        PROVE  w.seq <= logSeq' /\ pageCache'[w.key] = NoPage /\ pagesInFlight'[w.key] # NotAsked
    <3>1. CASE w \in pagesAwaited
      BY <2>1, <3>1
    <3>2. CASE w \notin pagesAwaited
      <4>1. w = [seq |-> logSeq + 1, key |-> 0] /\ pageCache'[0] = NoPage
        BY <1>4, <2>2, <3>2
      <4>2. logSeq + 1 <= logSeq'
        BY <1>2, <1>5
      <4> QED BY <1>7, <4>1, <4>2
    <3> QED BY <3>1, <3>2
  <2> QED BY <1>15, <2>2, LogFacts DEF AwaitedHold
<1>17. LoadingHasReason'
  BY <1>2, <1>4 DEF LoadingHasReason, CurrentPage
<1> QED BY <1>9, <1>10, <1>13, <1>14, <1>16, <1>17 DEF LogInv

LEMMA LoadMoreInv == ASSUME LogAssumption, LogInv, LoadMore PROVE LogInv'
<1> DEFINE k == nextCursor
<1>1. /\ logSeq > 0 /\ k # 0 /\ ~loading /\ ~loadingMore /\ FetchPage(k)
      /\ \/ pageCache[k] # NoPage /\ ShowMore(pageCache[k]) /\ UNCHANGED <<loadingMore, pagesAwaited>>
         \/ /\ pageCache[k] = NoPage /\ loadingMore' = TRUE
            /\ pagesAwaited' = pagesAwaited \cup {[seq |-> logSeq, key |-> k]}
            /\ UNCHANGED <<logs, nextCursor>>
      /\ UNCHANGED <<table, pageCache, loading, logSeq, clear, cutShort, overlap>>
  BY DEF LoadMore
<1>2. k \in Key /\ k \in Nat /\ logSeq \in 1 .. MaxLogLoads + MaxGen
  BY <1>1, LogFacts DEF LogInv, LogTypeOK
<1>3. /\ pagesInFlight' \in [Key -> APage \cup {NotAsked, Requested}] /\ pagesInFlight'[k] # NotAsked
      /\ \A j \in Key : \/ pagesInFlight'[j] = pagesInFlight[j]
                        \/ j = k /\ pagesInFlight[j] = NotAsked /\ pagesInFlight'[j] = Requested
  BY <1>1, <1>2, FetchFacts
<1>4. Trusted' = Trusted
  BY <1>1 DEF Trusted
<1>5. TableHolds'
  BY <1>1, TableStays
<1>6. AwaitedHold
  BY DEF LogInv
<1>7. Trusted => AtLeast(k)
  <2> SUFFICES ASSUME Trusted PROVE AtLeast(k)
    OBVIOUS
  <2>1. logs # << >> /\ k = logs[Len(logs)].id /\ logs \in Seq(LogRow) /\ Ordered(logs) /\ AtLeast(logs[1].id)
    BY <1>1 DEF LogInv, LogTypeOK, ShownHolds, EndsAt, Last
  <2>2. Len(logs) \in Nat \ {0} /\ 1 \in DOMAIN logs /\ Len(logs) \in DOMAIN logs
    BY <2>1
  <2>3. logs[1].id \in Nat /\ logs[Len(logs)].id \in Nat
    BY <2>1, <2>2, LogFacts
  <2>4. logs[1].id >= k
    BY <2>1, <2>2, <2>3 DEF Ordered
  <2>5. \A r \in logRows : r.id \in Nat
    BY LogFacts DEF LogInv, LogTypeOK
  <2> QED BY <1>2, <2>1, <2>3, <2>4, <2>5 DEF AtLeast
<1>8. PagesAtHold'
  <2>1. \A j \in Key : PagesAt(j)' \subseteq PagesAt(j)
    BY <1>1, <1>3 DEF PagesAt
  <2> QED BY <1>1, <1>3, <1>4, <1>7, <2>1, PagesStay
<1>9. ShownHolds' /\ logs' \in Seq(LogRow) /\ nextCursor' \in Key
  <2>1. CASE pageCache[k] # NoPage /\ ShowMore(pageCache[k])
    <3>1. pageCache[k] \in PagesAt(k)
      BY <1>2, <2>1, PagesAtTyped DEF LogInv
    <3> QED BY <1>1, <1>4, <2>1, <3>1, ShowMoreHolds
  <2>2. CASE UNCHANGED <<logs, nextCursor>>
    <3>1. ShownHolds'
      BY <1>1, <1>4, <2>2, ShownStays
    <3> QED BY <2>2, <3>1 DEF LogInv, LogTypeOK
  <2> QED BY <1>1, <2>1, <2>2
<1>10. LogTypeOK'
  <2>1. pagesAwaited' \subseteq [seq : 1 .. MaxLogLoads + MaxGen, key : Key]
    BY <1>1, <1>2, AwaitedTyped DEF LogInv, LogTypeOK
  <2>2. loadingMore' \in BOOLEAN
    BY <1>1 DEF LogInv, LogTypeOK
  <2> QED BY <1>1, <1>3, <1>9, <2>1, <2>2 DEF LogInv, LogTypeOK, table
<1>11. AwaitedHold' /\ LoadingHasReason'
  <2>1. CASE pageCache[k] # NoPage /\ UNCHANGED <<loadingMore, pagesAwaited>>
    <3>1. \A j \in Key : ~CurrentPage(j)
      <4> SUFFICES ASSUME NEW j \in Key, CurrentPage(j) PROVE FALSE
        OBVIOUS
      <4>1. j # 0
        BY <1>1, <1>6 DEF AwaitedHold
      <4>2. j = k
        BY <1>6, <4>1 DEF AwaitedHold
      <4>3. pageCache[[seq |-> logSeq, key |-> j].key] = NoPage
        BY <1>6 DEF AwaitedHold, CurrentPage
      <4> QED BY <2>1, <4>2, <4>3
    <3>2. \A j \in Key : ~CurrentPage(j)'
      BY <1>1, <2>1, <3>1 DEF CurrentPage
    <3>3. \A w \in pagesAwaited : w.key \in Key
      BY DEF LogInv, LogTypeOK
    <3>4. \A w \in pagesAwaited : w.seq <= logSeq /\ pageCache[w.key] = NoPage /\ pagesInFlight'[w.key] # NotAsked
      BY <1>3, <1>6, <3>3 DEF AwaitedHold
    <3>5. AwaitedHold'
      BY <1>1, <2>1, <3>2, <3>4, LogFacts DEF AwaitedHold
    <3> QED BY <1>1, <2>1, <3>5 DEF LoadingHasReason
  <2>2. CASE /\ pageCache[k] = NoPage /\ loadingMore' = TRUE
             /\ pagesAwaited' = pagesAwaited \cup {[seq |-> logSeq, key |-> k]}
             /\ UNCHANGED <<logs, nextCursor>>
    <3>1. \A j \in Key : CurrentPage(j)' => CurrentPage(j) \/ j = k
      BY <1>1, <2>2 DEF CurrentPage
    <3>2. CurrentPage(k)'
      BY <1>1, <2>2 DEF CurrentPage
    <3>3. ASSUME NEW w \in pagesAwaited'
          PROVE  w.seq <= logSeq /\ pageCache[w.key] = NoPage /\ pagesInFlight'[w.key] # NotAsked
      <4>1. CASE w \in pagesAwaited
        <5>1. w.key \in Key
          BY <4>1 DEF LogInv, LogTypeOK
        <5> QED BY <1>3, <1>6, <4>1, <5>1 DEF AwaitedHold
      <4>2. CASE w = [seq |-> logSeq, key |-> k]
        BY <1>2, <1>3, <2>2, <4>2
      <4> QED BY <2>2, <4>1, <4>2
    <3>4. ASSUME NEW j \in Key, CurrentPage(j)' PROVE j = nextCursor' /\ ~loading' /\ j # 0
      <4>1. CASE j = k
        BY <1>1, <2>2, <4>1
      <4>2. CASE CurrentPage(j)
        <5>1. j # 0
          BY <1>1, <1>6, <4>2 DEF AwaitedHold
        <5> QED BY <1>1, <1>6, <2>2, <4>2, <5>1 DEF AwaitedHold
      <4> QED BY <3>1, <3>4, <4>1, <4>2
    <3>5. AwaitedHold'
      BY <1>1, <3>3, <3>4, LogFacts DEF AwaitedHold
    <3>6. LoadingHasReason'
      BY <1>1, <1>2, <3>2 DEF LoadingHasReason
    <3> QED BY <3>5, <3>6
  <2> QED BY <1>1, <2>1, <2>2
<1> QED BY <1>5, <1>8, <1>9, <1>10, <1>11 DEF LogInv

\* An answer or a failure ends the calls that await a key.
LEMMA SettleFacts ==
  ASSUME LogAssumption, LogInv, NEW k \in Key, SettlePage(k), Finish(k), UNCHANGED <<logSeq, cutShort>>
  PROVE  /\ pagesInFlight' \in [Key -> APage \cup {NotAsked, Requested}] /\ pagesInFlight'[k] = NotAsked
         /\ \A j \in Key \ {k} : pagesInFlight'[j] = pagesInFlight[j]
         /\ pagesAwaited' \subseteq pagesAwaited /\ \A w \in pagesAwaited' : w.key # k
         /\ loading' \in BOOLEAN /\ loadingMore' \in BOOLEAN
         /\ \A j \in Key : CurrentPage(j)' <=> CurrentPage(j) /\ j # k
         /\ LoadingHasReason'
<1>1. /\ pagesInFlight' = [pagesInFlight EXCEPT ![k] = NotAsked] /\ pagesAwaited' = {w \in pagesAwaited : w.key # k}
      /\ loading' = (loading /\ ~(CurrentPage(k) /\ k = 0))
      /\ loadingMore' = (loadingMore /\ ~(CurrentPage(k) /\ k # 0))
  BY DEF SettlePage, Finish
<1>2. pagesInFlight \in [Key -> APage \cup {NotAsked, Requested}]
  BY DEF LogInv, LogTypeOK
<1>3. /\ pagesInFlight' \in [Key -> APage \cup {NotAsked, Requested}] /\ pagesInFlight'[k] = NotAsked
      /\ \A j \in Key \ {k} : pagesInFlight'[j] = pagesInFlight[j]
  BY <1>1, <1>2
<1>4. \A j \in Key : CurrentPage(j)' <=> CurrentPage(j) /\ j # k
  BY <1>1 DEF CurrentPage
<1>5. ASSUME loading' PROVE cutShort' \/ CurrentPage(0)'
  <2>1. cutShort \/ CurrentPage(0)
    BY <1>1, <1>5 DEF LogInv, LoadingHasReason
  <2> QED BY <1>1, <1>4, <1>5, <2>1, LogFacts
<1>6. ASSUME loadingMore' PROVE cutShort' \/ \E j \in Key \ {0} : CurrentPage(j)'
  <2>1. cutShort \/ \E j \in Key \ {0} : CurrentPage(j)
    BY <1>1, <1>6 DEF LogInv, LoadingHasReason
  <2> QED BY <1>1, <1>4, <1>6, <2>1
<1>7. LoadingHasReason'
  BY <1>5, <1>6 DEF LoadingHasReason
<1> QED BY <1>1, <1>3, <1>4, <1>7

LEMMA ForgetPageInv == ASSUME LogAssumption, LogInv, NEW k \in Key, ForgetPage(k) PROVE LogInv'
<1>1. /\ pageCache[k] # NoPage /\ pageCache' = [pageCache EXCEPT ![k] = NoPage]
      /\ UNCHANGED <<table, pagesInFlight, pagesAwaited, view, clear, cutShort, overlap>>
  BY DEF ForgetPage
<1>2. pageCache \in [Key -> APage \cup {NoPage}] /\ \A w \in pagesAwaited : w.key \in Key
  BY DEF LogInv, LogTypeOK
<1>3. /\ pageCache' \in [Key -> APage \cup {NoPage}]
      /\ \A j \in Key : pageCache'[j] = NoPage \/ pageCache'[j] = pageCache[j]
  BY <1>1, <1>2
<1>4. LogTypeOK'
  BY <1>1, <1>3 DEF LogInv, LogTypeOK, table, view
<1>5. TableHolds' /\ ShownHolds'
  BY <1>1, TableStays, ShownStays DEF view, Trusted
<1>6. PagesAtHold'
  <2>1. \A j \in Key : PagesAt(j)' \subseteq PagesAt(j)
    BY <1>1, <1>3 DEF PagesAt
  <2> QED BY <1>1, <1>3, <2>1, PagesStay DEF Trusted
<1>7. AwaitedHold' /\ LoadingHasReason'
  BY <1>1, <1>2, <1>3 DEF LogInv, AwaitedHold, LoadingHasReason, CurrentPage, view
<1> QED BY <1>4, <1>5, <1>6, <1>7 DEF LogInv

LEMMA FailPageInv == ASSUME LogAssumption, LogInv, NEW k \in Key, FailPage(k) PROVE LogInv'
<1>1. /\ SettlePage(k) /\ Finish(k)
      /\ UNCHANGED <<table, pageCache, logs, nextCursor, logSeq, clear, cutShort, overlap>>
  BY DEF FailPage
<1>2. /\ pagesInFlight' \in [Key -> APage \cup {NotAsked, Requested}] /\ pagesInFlight'[k] = NotAsked
      /\ \A j \in Key \ {k} : pagesInFlight'[j] = pagesInFlight[j]
      /\ pagesAwaited' \subseteq pagesAwaited /\ \A w \in pagesAwaited' : w.key # k
      /\ loading' \in BOOLEAN /\ loadingMore' \in BOOLEAN
      /\ LoadingHasReason'
  BY <1>1, SettleFacts
<1>3. \A j \in Key : CurrentPage(j)' <=> CurrentPage(j) /\ j # k
  BY <1>1, SettleFacts
<1>4. \A w \in pagesAwaited : w.key \in Key
  BY DEF LogInv, LogTypeOK
<1>5. LogTypeOK'
  BY <1>1, <1>2 DEF LogInv, LogTypeOK, table
<1>6. TableHolds' /\ ShownHolds'
  BY <1>1, TableStays, ShownStays DEF Trusted
<1>7. PagesAtHold'
  <2>1. \A j \in Key : PagesAt(j)' \subseteq PagesAt(j)
    BY <1>1, <1>2 DEF PagesAt
  <2>2. \A j \in Key : pagesInFlight'[j] # NotAsked => pagesInFlight[j] # NotAsked
    BY <1>2
  <2> QED BY <1>1, <2>1, <2>2, PagesStay DEF Trusted
<1>8. AwaitedHold'
  <2>1. \A w \in pagesAwaited' : w.seq <= logSeq /\ pageCache[w.key] = NoPage /\ pagesInFlight'[w.key] # NotAsked
    BY <1>2, <1>4 DEF LogInv, AwaitedHold
  <2>2. CurrentPage(0)' => loading'
    <3>1. CurrentPage(0)' => CurrentPage(0) /\ k # 0
      BY <1>3, LogFacts
    <3> QED BY <1>1, <3>1 DEF LogInv, AwaitedHold, Finish
  <2>3. ASSUME NEW j \in Key \ {0}, CurrentPage(j)' PROVE j = nextCursor' /\ ~loading'
    BY <1>1, <1>3, <2>3 DEF LogInv, AwaitedHold, Finish
  <2> QED BY <1>1, <2>1, <2>2, <2>3 DEF AwaitedHold
<1> QED BY <1>2, <1>5, <1>6, <1>7, <1>8 DEF LogInv

LEMMA DeliverInv == ASSUME LogAssumption, LogInv, NEW k \in Key, Deliver(k) PROVE LogInv'
<1> DEFINE p == pagesInFlight[k]
<1>1. /\ p \notin {NotAsked, Requested} /\ pageCache' = [pageCache EXCEPT ![k] = p]
      /\ SettlePage(k) /\ Finish(k)
      /\ \/ ~CurrentPage(k) /\ UNCHANGED <<logs, nextCursor>>
         \/ CurrentPage(k) /\ k = 0 /\ ShowFirst(p)
         \/ CurrentPage(k) /\ k # 0 /\ ShowMore(p)
      /\ UNCHANGED <<table, logSeq, clear, cutShort, overlap>>
  BY DEF Deliver
<1>2. /\ pagesInFlight' \in [Key -> APage \cup {NotAsked, Requested}] /\ pagesInFlight'[k] = NotAsked
      /\ \A j \in Key \ {k} : pagesInFlight'[j] = pagesInFlight[j]
      /\ pagesAwaited' \subseteq pagesAwaited /\ \A w \in pagesAwaited' : w.key # k
      /\ loading' \in BOOLEAN /\ loadingMore' \in BOOLEAN
      /\ LoadingHasReason'
  BY <1>1, SettleFacts
<1>3. \A j \in Key : CurrentPage(j)' <=> CurrentPage(j) /\ j # k
  BY <1>1, SettleFacts
<1>4. /\ \A w \in pagesAwaited : w.key \in Key
      /\ pageCache \in [Key -> APage \cup {NoPage}] /\ pagesInFlight \in [Key -> APage \cup {NotAsked, Requested}]
  BY DEF LogInv, LogTypeOK
<1>5. p \in APage /\ p \in PagesAt(k)
  BY <1>1, <1>4, PagesAtTyped DEF LogInv
<1>6. /\ pageCache' \in [Key -> APage \cup {NoPage}] /\ pageCache'[k] = p
      /\ \A j \in Key \ {k} : pageCache'[j] = pageCache[j]
  <2> HIDE DEF p
  <2> QED BY <1>1, <1>4, <1>5
<1>7. Trusted' = Trusted
  BY <1>1 DEF Trusted
<1>8. CurrentPage(k) /\ k # 0 => k = nextCursor
  BY DEF LogInv, AwaitedHold
<1> HIDE DEF p
<1>9. ShownHolds' /\ logs' \in Seq(LogRow) /\ nextCursor' \in Key
  <2>1. CASE k = 0 /\ ShowFirst(p)
    BY <1>1, <1>5, <1>7, <2>1, ShowFirstHolds
  <2>2. CASE CurrentPage(k) /\ k # 0 /\ ShowMore(p)
    BY <1>1, <1>5, <1>7, <1>8, <2>2, ShowMoreHolds
  <2>3. CASE UNCHANGED <<logs, nextCursor>>
    <3>1. ShownHolds'
      BY <1>1, <1>7, <2>3, ShownStays
    <3> QED BY <2>3, <3>1 DEF LogInv, LogTypeOK
  <2> QED BY <1>1, <2>1, <2>2, <2>3
<1>10. LogTypeOK'
  BY <1>1, <1>2, <1>6, <1>9 DEF LogInv, LogTypeOK, table
<1>11. TableHolds'
  BY <1>1, TableStays
<1>12. PagesAtHold'
  <2>1. ASSUME NEW j \in Key PROVE PagesAt(j)' \subseteq PagesAt(j)
    <3>1. CASE j = k
      BY <1>2, <1>5, <1>6, <3>1 DEF PagesAt
    <3>2. CASE j # k
      BY <1>2, <1>6, <3>2 DEF PagesAt
    <3> QED BY <3>1, <3>2
  <2>2. ASSUME NEW j \in Key, pageCache'[j] # NoPage \/ pagesInFlight'[j] # NotAsked
        PROVE  pageCache[j] # NoPage \/ pagesInFlight[j] # NotAsked
    BY <1>1, <1>2, <1>6, <2>2 DEF p
  <2> QED BY <1>1, <1>7, <2>1, <2>2, PagesStay
<1>13. AwaitedHold'
  <2>1. \A w \in pagesAwaited' : w.seq <= logSeq /\ pageCache'[w.key] = NoPage /\ pagesInFlight'[w.key] # NotAsked
    BY <1>2, <1>4, <1>6 DEF LogInv, AwaitedHold
  <2>2. CurrentPage(0)' => loading'
    <3>1. CurrentPage(0)' => CurrentPage(0) /\ k # 0
      BY <1>3, LogFacts
    <3> QED BY <1>1, <3>1 DEF LogInv, AwaitedHold, Finish
  <2>3. ASSUME NEW j \in Key \ {0}, CurrentPage(j)' PROVE j = nextCursor' /\ ~loading'
    <3>1. CurrentPage(j) /\ j # k /\ j = nextCursor /\ ~loading
      BY <1>3, <2>3 DEF LogInv, AwaitedHold
    <3>2. ~CurrentPage(k)
      BY <1>8, <3>1 DEF LogInv, AwaitedHold
    <3> QED BY <1>1, <3>1, <3>2 DEF Finish
  <2> QED BY <1>1, <2>1, <2>2, <2>3 DEF AwaitedHold
<1> QED BY <1>2, <1>9, <1>10, <1>11, <1>12, <1>13 DEF LogInv

LEMMA LogInvNext == LogAssumption /\ LogInv /\ [LogNext]_logVars => LogInv'
<1> SUFFICES ASSUME LogAssumption, LogInv, [LogNext]_logVars PROVE LogInv'
  OBVIOUS
<1>1. CASE InsertRow \/ ClearElsewhere
  BY <1>1, InsertRowInv, ClearElsewhereInv
<1>2. CASE LoadLogs \/ LoadMore
  BY <1>2, LoadLogsInv, LoadMoreInv
<1>3. ASSUME NEW k \in Key, ServePage(k) \/ Deliver(k) \/ FailPage(k) \/ ForgetPage(k) PROVE LogInv'
  BY <1>3, ServePageInv, DeliverInv, FailPageInv, ForgetPageInv
<1>4. CASE ClearAsk \/ ClearServe \/ ClearDone \/ ClearFail
  BY <1>4, ClearAskInv, ClearServeInv, ClearDoneInv, ClearFailInv
<1>5. CASE UNCHANGED logVars
  <2>1. UNCHANGED <<table, browser, view, clear, cutShort, overlap>>
    BY <1>5 DEF logVars
  <2>2. Trusted' = Trusted
    BY <2>1 DEF Trusted
  <2>3. LogTypeOK'
    BY <2>1 DEF LogInv, LogTypeOK, table, browser, view
  <2>4. TableHolds' /\ ShownHolds'
    BY <2>1, <2>2, TableStays, ShownStays DEF view
  <2>5. PagesAtHold'
    BY <2>1, <2>2, PagesStay DEF browser, PagesAt
  <2>6. AwaitedHold' /\ LoadingHasReason'
    BY <2>1 DEF LogInv, AwaitedHold, LoadingHasReason, CurrentPage, browser, view
  <2> QED BY <2>3, <2>4, <2>5, <2>6 DEF LogInv
<1> QED BY <1>1, <1>2, <1>3, <1>4, <1>5 DEF LogNext

LEMMA LogInvariant == LogSpec => []LogInv
<1>1. LogInit => LogInv
  BY LogAssumption, LogInvInit
<1>2. LogInv /\ [LogNext]_logVars => LogInv'
  BY LogAssumption, LogInvNext
<1> QED BY <1>1, <1>2, PTL DEF LogSpec

\* The list shows the newest rows first, none twice and none left out down to
\* its cursor, and says that it is loading only with a reason: for every page
\* size, every retention and limit of the table and any order of answers
\* (useLogsData, fetch_logs, insert_log_row).
THEOREM PagesAlwaysHold == LogSpec => []PagesHold
<1>1. LogInv => PagesHold
  BY LogAssumption, LogInvHolds
<1> QED BY <1>1, LogInvariant, PTL

\* A row that was cleared does not come back, out of the cache or otherwise,
\* unless a request was in flight when the clear ended or another client
\* cleared the table (clearLogs).
THEOREM ClearIsAlwaysFinal == LogSpec => []ClearIsFinal
<1>1. LogInv => ClearIsFinal
  BY LogAssumption, LogInvHolds
<1> QED BY <1>1, LogInvariant, PTL
=============================================================================
