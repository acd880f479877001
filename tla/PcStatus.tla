------------------------------ MODULE PcStatus ------------------------------
(***************************************************************************)
(* The runtime status of one PC: status refreshes with the rule that two   *)
(* failed probes in a row make a PC offline, the WOL job with its boot     *)
(* polling, the connection test's "online", edits that write the status    *)
(* back, and the status history the uptime figures are computed from.      *)
(*                                                                         *)
(* Threads run these operations at the same time; every database           *)
(* transaction and every access to the in-memory streak is one step.       *)
(***************************************************************************)
EXTENDS Naturals

CONSTANTS
  Thread,    \* pool threads
  Net,       \* how probes can turn out, of "up", "down", "broken"
  MaxPolls,  \* BOOTING_POLL_MAX_ATTEMPTS
  None

ASSUME StatusAssumption ==
  /\ Net \subseteq {"up", "down", "broken"} /\ Net # {}
  /\ MaxPolls \in Nat \ {0}
  /\ None \notin {"online", "offline", "unknown", "booting", "unreachable"}

VARIABLES
  pc,       \* the pcs row: registered or not, status, whether last_seen_at is set
  streak,   \* the cached offline streak; from 2 on its value makes no difference
  history,  \* the last two rows of status_history, the newer one second
  net,      \* what a probe would find now
  work,     \* work[t]: the operation thread t is in the middle of
  failed,   \* history: refresh probes that failed since a refresh or a boot poll was
            \* answered, up to 2
  lost      \* history: a restart or a deletion has cut an operation or a PC short

statusVars == <<pc, streak, history, net, work, failed, lost>>

\* STATUS_OFFLINE_CONFIRMATION_FAILURES
Confirm == 2
Status == {"online", "offline", "unknown", "booting", "unreachable"}
Capped(n) == IF n < Confirm THEN n ELSE Confirm

NoPc == [here |-> FALSE, status |-> "unknown", seen |-> FALSE]
Idle == [op |-> "none", at |-> "idle", prev |-> None, next |-> None,
         seen |-> FALSE, keep |-> FALSE, count |-> 0]

StatusInit ==
  /\ pc = [NoPc EXCEPT !.here = TRUE]
  /\ streak = 0
  /\ history = <<None, None>>
  /\ net \in Net
  /\ work = [t \in Thread |-> Idle]
  /\ failed = 0
  /\ lost = FALSE

At(t, op, stage) == work[t].op = op /\ work[t].at = stage
Goto(t, w) == work' = [work EXCEPT ![t] = w]

\* The call of _update_runtime_status: seen is mark_seen, keep is
\* preserve_offline_streak.
Update(w, next, seen, keep) ==
  [w EXCEPT !.at = "current", !.next = next, !.seen = seen, !.keep = keep]

\* status_service.get_pc_status: "error" is its ValueError.
Probe == IF ~pc.here \/ net = "broken" THEN "error"
         ELSE IF net = "up" THEN "online" ELSE "offline"
Answers == failed' = IF Probe = "online" THEN 0 ELSE failed
-----------------------------------------------------------------------------
\* Plausible bug: a booting PC is left to the WOL job it came from.
RefreshBeginsUnlessBooting(t) ==
  /\ work[t] = Idle
  /\ pc.here /\ pc.status # "booting"
  /\ Goto(t, [Idle EXCEPT !.op = "refresh", !.at = "probe", !.prev = pc.status])
  /\ UNCHANGED <<pc, streak, history, net, failed, lost>>

\* _refresh_pc_status_internal: the previous status, ...
RefreshBegins(t) ==
  /\ work[t] = Idle
  /\ pc.here
  /\ Goto(t, [Idle EXCEPT !.op = "refresh", !.at = "probe", !.prev = pc.status])
  /\ UNCHANGED <<pc, streak, history, net, failed, lost>>

\* ... the probe, ...
RefreshProbes(t) ==
  LET w == work[t]
      found == IF Probe = "error" \/ (Probe = "offline" /\ w.prev = "unreachable")
               THEN "unreachable" ELSE Probe
  IN /\ At(t, "refresh", "probe")
     /\ Goto(t, IF found = "offline" THEN [w EXCEPT !.at = "count"]
                ELSE [w EXCEPT !.at = "reset", !.next = found])
     /\ failed' = IF Probe = "offline" THEN Capped(failed + 1)
                  ELSE IF Probe = "online" THEN 0 ELSE failed
     /\ UNCHANGED <<pc, streak, history, net, lost>>

\* ... anything but a failure ends the streak; ...
StreakEnds(t) ==
  LET w == work[t]
  IN /\ At(t, "refresh", "reset")
     /\ streak' = 0
     /\ Goto(t, Update(w, w.next, w.next = "online", FALSE))
     /\ UNCHANGED <<pc, history, net, failed, lost>>

\* ... a failure is added to the streak that was read, ...
StreakRead(t) ==
  /\ At(t, "refresh", "count")
  /\ Goto(t, [work[t] EXCEPT !.at = "store", !.count = Capped(streak + 1)])
  /\ UNCHANGED <<pc, streak, history, net, failed, lost>>

\* Plausible bugs: one failure is enough; the first failure clears the streak.
StreakStoredHasty(t) ==
  LET w == work[t]
  IN /\ At(t, "refresh", "store")
     /\ streak' = w.count
     /\ Goto(t, Update(w, "offline", FALSE, FALSE))
     /\ UNCHANGED <<pc, history, net, failed, lost>>
StreakStoredCleared(t) ==
  LET w == work[t]
  IN /\ At(t, "refresh", "store")
     /\ streak' = w.count
     /\ Goto(t, IF w.count < Confirm THEN Update(w, w.prev, FALSE, FALSE)
                ELSE Update(w, "offline", FALSE, FALSE))
     /\ UNCHANGED <<pc, history, net, failed, lost>>

\* ... and while it is below Confirm the previous status is kept.
StreakStored(t) ==
  LET w == work[t]
  IN /\ At(t, "refresh", "store")
     /\ streak' = w.count
     /\ Goto(t, IF w.count < Confirm THEN Update(w, w.prev, FALSE, w.prev # "offline")
                ELSE Update(w, "offline", FALSE, FALSE))
     /\ UNCHANGED <<pc, history, net, failed, lost>>
-----------------------------------------------------------------------------
\* Plausible bug: a history row for every write.
ReadCurrentAlways(t) ==
  LET w == work[t]
  IN /\ w.at = "current"
     /\ streak' = IF w.next # "offline" /\ ~w.keep THEN 0 ELSE streak
     /\ Goto(t, IF pc.here THEN [w EXCEPT !.at = "history"] ELSE [w EXCEPT !.at = "written"])
     /\ UNCHANGED <<pc, history, net, failed, lost>>

\* _update_runtime_status, update_runtime_status: the streak is cleared unless
\* kept and the row is read (the streak and the row are independent). A missing
\* row ends the update.
ReadCurrent(t) ==
  LET w == work[t]
  IN /\ w.at = "current"
     /\ streak' = IF w.next # "offline" /\ ~w.keep THEN 0 ELSE streak
     /\ Goto(t, IF ~pc.here THEN [w EXCEPT !.at = "written"]
                ELSE IF pc.status = w.next THEN [w EXCEPT !.at = "write"]
                ELSE [w EXCEPT !.at = "history"])
     /\ UNCHANGED <<pc, history, net, failed, lost>>

\* record_status_transition, insert_status_history.
InsertHistory(t) ==
  /\ work[t].at = "history"
  /\ history' = <<history[2], work[t].next>>
  /\ Goto(t, [work[t] EXCEPT !.at = "write"])
  /\ UNCHANGED <<pc, streak, net, failed, lost>>

\* update_pc_status: no row, no effect.
WriteStatus(t) ==
  /\ work[t].at = "write"
  /\ pc' = IF pc.here THEN [pc EXCEPT !.status = work[t].next, !.seen = @ \/ work[t].seen]
           ELSE pc
  /\ Goto(t, [work[t] EXCEPT !.at = "written"])
  /\ UNCHANGED <<streak, history, net, failed, lost>>

\* After the update a WOL job that reported booting polls, the rest returns.
Return(t) ==
  /\ work[t].at = "written"
  /\ Goto(t, IF work[t].op = "wol" /\ work[t].next = "booting"
             THEN [work[t] EXCEPT !.at = "poll"] ELSE Idle)
  /\ UNCHANGED <<pc, streak, history, net, failed, lost>>
-----------------------------------------------------------------------------
\* send_wol: whether the PC was ever seen (prev holds the answer a timeout
\* will report), ...
WolBegins(t) ==
  /\ work[t] = Idle
  /\ Goto(t, [Idle EXCEPT !.op = "wol", !.at = "send",
                          !.prev = IF pc.here /\ pc.seen THEN "offline" ELSE "unknown"])
  /\ UNCHANGED <<pc, streak, history, net, failed, lost>>

\* ... the magic packet: a ValueError makes the PC unreachable, ...
WolSends(t) ==
  /\ At(t, "wol", "send")
  /\ Goto(t, Update(work[t], IF Probe = "error" THEN "unreachable" ELSE "booting",
                    FALSE, FALSE))
  /\ UNCHANGED <<pc, streak, history, net, failed, lost>>

\* ... and polls until the PC answers, a probe raises, or the attempts or the
\* 60 seconds are used up.
WolPolls(t) ==
  LET w == work[t]
  IN /\ At(t, "wol", "poll")
     /\ Answers
     /\ \/ Probe = "online" /\ Goto(t, Update(w, "online", TRUE, FALSE))
        \/ Probe = "error" /\ Goto(t, Update(w, "unreachable", FALSE, FALSE))
        \/ /\ Probe = "offline" /\ w.count + 1 < MaxPolls
           /\ Goto(t, [w EXCEPT !.count = @ + 1])
        \/ Probe = "offline" /\ Goto(t, Update(w, w.prev, FALSE, FALSE))
     /\ UNCHANGED <<pc, streak, history, net, lost>>

\* verify_pc_ssh_connection reached the PC: update_runtime_status, without
\* touching the streak.
SshAnswers(t) ==
  /\ work[t] = Idle
  /\ Probe = "online"
  /\ Goto(t, Update([Idle EXCEPT !.op = "ssh"], "online", TRUE, TRUE))
  /\ UNCHANGED <<pc, streak, history, net, failed, lost>>

\* update_pc reads the row, create_pc that there is none, ...
EditBegins(t) ==
  /\ work[t] = Idle
  /\ Goto(t, [Idle EXCEPT !.op = "edit", !.at = "upsert", !.next = pc.status, !.seen = pc.seen])
  /\ UNCHANGED <<pc, streak, history, net, failed, lost>>

\* ... and upsert_pc writes the status read then; a last_seen_at that was not
\* set is taken from the row again, right before the write.
EditWrites(t) ==
  /\ At(t, "edit", "upsert")
  /\ pc' = [here |-> TRUE, status |-> work[t].next, seen |-> work[t].seen \/ pc.seen]
  /\ Goto(t, [work[t] EXCEPT !.at = "cleanup"])
  /\ UNCHANGED <<streak, history, net, failed, lost>>

\* delete_pc; status_history keeps its rows: foreign keys are off.
Delete(t) ==
  /\ work[t] = Idle
  /\ pc.here
  /\ pc' = NoPc
  /\ Goto(t, [Idle EXCEPT !.op = "delete", !.at = "cleanup"])
  /\ lost' = TRUE
  /\ UNCHANGED <<streak, history, net, failed>>

\* create_pc, update_pc and delete_pc clear the streak last.
Cleanup(t) ==
  /\ work[t].at = "cleanup"
  /\ streak' = 0
  /\ Goto(t, Idle)
  /\ UNCHANGED <<pc, history, net, failed, lost>>

\* STATUS_OFFLINE_STREAK_TTL_SECONDS, or eviction from the cache.
StreakExpires ==
  /\ streak' = 0
  /\ UNCHANGED <<pc, history, net, work, failed, lost>>

Restart ==
  /\ streak' = 0
  /\ work' = [t \in Thread |-> Idle]
  /\ lost' = TRUE
  /\ UNCHANGED <<pc, history, net, failed>>

\* The PC is switched on or off, the network or the configuration changes.
NetChanges ==
  /\ net' \in Net
  /\ UNCHANGED <<pc, streak, history, work, failed, lost>>
-----------------------------------------------------------------------------
Proceed(t) ==
  \/ RefreshProbes(t) \/ StreakEnds(t) \/ StreakRead(t) \/ StreakStored(t)
  \/ ReadCurrent(t) \/ InsertHistory(t) \/ WriteStatus(t) \/ Return(t)
  \/ WolSends(t) \/ WolPolls(t) \/ EditWrites(t) \/ Cleanup(t)

\* The operations on a PC that stays registered, in a process that goes on.
OperationNext ==
  \/ \E t \in Thread :
       Proceed(t) \/ RefreshBegins(t) \/ WolBegins(t) \/ SshAnswers(t) \/ EditBegins(t)
  \/ NetChanges

StatusNext == OperationNext \/ (\E t \in Thread : Delete(t)) \/ StreakExpires \/ Restart

StatusSpec == StatusInit /\ [][StatusNext]_statusVars

\* Every operation has bounded loops and timeouts, and the status monitor
\* requests a refresh of all PCs every 60 seconds.
StatusFairSpec ==
  /\ StatusInit /\ [][OperationNext]_statusVars
  /\ \A t \in Thread : WF_statusVars(Proceed(t))
  /\ WF_statusVars(\E t \in Thread : RefreshBegins(t))
-----------------------------------------------------------------------------
\* A refresh reports offline only after two failed probes without a refresh or
\* boot poll that was answered in between (docs/backend/features/status.md,
\* STATUS_OFFLINE_CONFIRMATION_FAILURES).
OfflineAfterTwoFailures ==
  [][\A t \in Thread : At(t, "refresh", "store") /\ work'[t].next = "offline" /\ work[t].prev # "offline"
       => failed >= Confirm]_statusVars

\* The first failed probe leaves the status as it is: a write after a failed
\* probe either confirms offline or changes nothing (status.md).
FirstFailureKeepsStatus ==
  [][\A t \in Thread :
       /\ At(t, "refresh", "write") /\ work[t].keep
       /\ work'[t].at = "written" /\ pc.here
       => pc'.status = pc.status]_statusVars

\* The rules on failed probes together (docs/backend/features/status.md).
RefreshRules == OfflineAfterTwoFailures /\ FirstFailureKeepsStatus

\* A history row is written only when the status differs from the row before
\* (status.md, what is stored), unless an operation was cut short.
HistoryAlternates == ~lost /\ history[2] # None => history[1] # history[2]

\* When the PC stays up and is only refreshed from some time on, it is shown
\* online in the end, whatever operations were still under way.
UpIsShown ==
  <>[](pc.here /\ net = "up" /\ \A t \in Thread : work[t].op \in {"none", "refresh"})
    => <>[](pc.status = "online")

\* When it stays down, it is shown offline (or unreachable, if it was) in the
\* end: the streak that two refreshes build is not lost between them.
DownIsShown ==
  <>[](pc.here /\ net = "down" /\ \A t \in Thread : work[t].op \in {"none", "refresh"})
    => <>[](pc.status \in {"offline", "unreachable"})
=============================================================================
