----------------------------- MODULE JobTracking -----------------------------
(***************************************************************************)
(* A power operation or a refresh of all PCs in the browser: the request   *)
(* that registers the job (sendPcWolEntry, shutdownPcEntry,                *)
(* refreshAllStatusesEntry), the tracker that polls it (useJobTracker) and *)
(* the event handler that reloads for the jobs the tracker does not know   *)
(* (useDashboardSse).                                                      *)
(***************************************************************************)
EXTENDS Integers, SequencesExt

CONSTANTS
  Job, Target,
  TargetOf,        \* TargetOf[j]: the PC the job is for, or all PCs
  MaxEntries,      \* jobs shown (12)
  MaxAttempts      \* polls of a job (90)

ASSUME JobTrackingAssumption ==
  /\ TargetOf \in [Job -> Target]
  /\ MaxEntries \in Nat \ {0} /\ MaxAttempts \in Nat \ {0}

VARIABLES
  server,      \* state of each job in the backend
  call,        \* where the operation for each job is: idle, asked, waiting, fetching, read or refreshing
  answer,      \* the state the job's last poll read
  attempt,     \* polls made
  inFlightRef, \* powerInFlightRef and refreshAllInFlightRef: targets with an operation
  jobs,        \* the entries shown, newest first
  tracked,     \* trackedJobIdsRef, set after a render
  event,       \* the event of the job's end: none, sent, fetching or handled
  reloaded,    \* history: lists were loaded after the job ended
  gaveUp,      \* history: polling ended before the job
  missed       \* history: the event was lost, or the job could not be read for it

trackVars == <<server, call, answer, attempt, inFlightRef, jobs, tracked, event, reloaded, gaveUp, missed>>

Ended == {"succeeded", "failed"}

TrackInit ==
  /\ server = [j \in Job |-> "none"] /\ call = [j \in Job |-> "idle"] /\ answer = [j \in Job |-> "none"]
  /\ attempt = [j \in Job |-> 0]
  /\ inFlightRef = {} /\ jobs = << >> /\ tracked = {}
  /\ event = [j \in Job |-> "none"]
  /\ reloaded = {} /\ gaveUp = {} /\ missed = {}
-----------------------------------------------------------------------------
(* The backend. *)

\* The job is registered, by this browser or by another client, the monitor or
\* the request of this browser that joins it.
Register(j) ==
  /\ server[j] = "none"
  /\ server' = [server EXCEPT ![j] = "queued"]
  /\ UNCHANGED <<call, answer, attempt, inFlightRef, jobs, tracked, event, reloaded, gaveUp, missed>>

Run(j) ==
  /\ server[j] = "queued"
  /\ server' = [server EXCEPT ![j] = "running"]
  /\ UNCHANGED <<call, answer, attempt, inFlightRef, jobs, tracked, event, reloaded, gaveUp, missed>>

\* The event of the end is sent, or dropped because the queue is full or the
\* stream is not open.
End(j) ==
  /\ server[j] = "running"
  /\ \E s \in Ended : server' = [server EXCEPT ![j] = s]
  /\ \/ event' = [event EXCEPT ![j] = "sent"] /\ UNCHANGED missed
     \/ event' = [event EXCEPT ![j] = "handled"] /\ missed' = missed \cup {j}
  /\ UNCHANGED <<call, answer, attempt, inFlightRef, jobs, tracked, reloaded, gaveUp>>
-----------------------------------------------------------------------------
(* The operation and its tracker. *)

\* A click is ignored while an operation for the target is under way.
Click(j) ==
  /\ call[j] = "idle" /\ server[j] \notin Ended
  /\ TargetOf[j] \notin inFlightRef
  /\ inFlightRef' = inFlightRef \cup {TargetOf[j]}
  /\ call' = [call EXCEPT ![j] = "asked"]
  /\ UNCHANGED <<server, answer, attempt, jobs, tracked, event, reloaded, gaveUp, missed>>

\* finally of the operation.
Release(j) == inFlightRef' = inFlightRef \ {TargetOf[j]} /\ call' = [call EXCEPT ![j] = "idle"]

Declined(j) ==
  /\ call[j] = "asked"
  /\ Release(j)
  /\ UNCHANGED <<server, answer, attempt, jobs, tracked, event, reloaded, gaveUp, missed>>

Relabel(id, s) ==
  jobs' = [i \in DOMAIN jobs |-> IF jobs[i].id = id THEN [jobs[i] EXCEPT !.state = s] ELSE jobs[i]]

\* Plausible bug: a job that is tracked again keeps its old entry.
QueueOnce(j) ==
  LET all == <<[id |-> j, state |-> "queued"]>> \o jobs
  IN jobs' = IF \E e \in ToSet(jobs) : e.id = j THEN jobs
             ELSE SubSeq(all, 1, IF Len(all) < MaxEntries THEN Len(all) ELSE MaxEntries)

\* A queued entry in front instead of an older one, of which there is at most
\* one (OutcomeShown); the oldest fall out.
Queue(j) ==
  LET older == {i \in DOMAIN jobs : jobs[i].id = j}
      others == IF older = {} THEN jobs ELSE RemoveAt(jobs, CHOOSE i \in older : TRUE)
      all == <<[id |-> j, state |-> "queued"]>> \o others
  IN jobs' = SubSeq(all, 1, IF Len(all) < MaxEntries THEN Len(all) ELSE MaxEntries)

\* The job is registered, and trackJob starts.
Accepted(j) ==
  /\ call[j] = "asked" /\ server[j] # "none"
  /\ call' = [call EXCEPT ![j] = "waiting"]
  /\ attempt' = [attempt EXCEPT ![j] = 0]
  /\ Queue(j)
  /\ gaveUp' = gaveUp \ {j}
  /\ UNCHANGED <<server, answer, inFlightRef, tracked, event, reloaded, missed>>

\* The effect on jobs.
Rendered ==
  /\ tracked # {e.id : e \in ToSet(jobs)}
  /\ tracked' = {e.id : e \in ToSet(jobs)}
  /\ UNCHANGED <<server, call, answer, attempt, inFlightRef, jobs, event, reloaded, gaveUp, missed>>

\* Plausible bug: the attempts are not counted.
PollForever(j) ==
  /\ call[j] = "waiting"
  /\ call' = [call EXCEPT ![j] = "fetching"]
  /\ UNCHANGED <<server, answer, attempt, inFlightRef, jobs, tracked, event, reloaded, gaveUp, missed>>

\* The interval has passed: the job is asked for, or polling ends.
Poll(j) ==
  /\ call[j] = "waiting"
  /\ IF attempt[j] < MaxAttempts
     THEN /\ call' = [call EXCEPT ![j] = "fetching"]
          /\ attempt' = [attempt EXCEPT ![j] = @ + 1]
          /\ UNCHANGED <<inFlightRef, jobs, gaveUp>>
     ELSE /\ Relabel(j, "failed") /\ gaveUp' = gaveUp \cup {j}
          /\ Release(j) /\ UNCHANGED attempt
  /\ UNCHANGED <<server, answer, tracked, event, reloaded, missed>>

ReadJob(j) ==
  /\ call[j] = "fetching"
  /\ call' = [call EXCEPT ![j] = "read"] /\ answer' = [answer EXCEPT ![j] = server[j]]
  /\ UNCHANGED <<server, attempt, inFlightRef, jobs, tracked, event, reloaded, gaveUp, missed>>

\* The answer updates the entry; at the end onTerminal loads the lists. The
\* logs are loaded on the way (LogPaging has loads at any time).
Polled(j) ==
  /\ call[j] = "read"
  /\ Relabel(j, answer[j])
  /\ call' = [call EXCEPT ![j] = IF answer[j] \in Ended THEN "refreshing" ELSE "waiting"]
  /\ reloaded' = IF answer[j] \in Ended THEN reloaded \cup {j} ELSE reloaded
  /\ UNCHANGED <<server, answer, attempt, inFlightRef, tracked, event, gaveUp, missed>>

\* Plausible bug: a poll that fails ends the tracker and leaves the guard.
PollFailsKeepsGuard(j) ==
  /\ call[j] \in {"fetching", "read"}
  /\ Relabel(j, "failed") /\ gaveUp' = gaveUp \cup {j}
  /\ call' = [call EXCEPT ![j] = "idle"]
  /\ UNCHANGED <<server, answer, attempt, inFlightRef, tracked, event, reloaded, missed>>

\* A poll fails: the entry shows the job as failed and polling ends.
PollFails(j) ==
  /\ call[j] \in {"fetching", "read"}
  /\ Relabel(j, "failed") /\ gaveUp' = gaveUp \cup {j}
  /\ Release(j)
  /\ UNCHANGED <<server, answer, attempt, tracked, event, reloaded, missed>>

\* The loads that onTerminal awaits have ended, well or not.
Refreshed(j) ==
  /\ call[j] = "refreshing"
  /\ Release(j)
  /\ UNCHANGED <<server, answer, attempt, jobs, tracked, event, reloaded, gaveUp, missed>>
-----------------------------------------------------------------------------
(* handleJobEvent. *)

\* Plausible bug: the event of every job is left to the tracker.
EventIgnored(j) ==
  /\ event[j] = "sent"
  /\ event' = [event EXCEPT ![j] = "handled"]
  /\ UNCHANGED <<server, call, answer, attempt, inFlightRef, jobs, tracked, reloaded, gaveUp, missed>>

\* A job that has an entry is left to the tracker; of another one the type and
\* the PC are asked for.
Event(j) ==
  /\ event[j] = "sent"
  /\ event' = [event EXCEPT ![j] = IF j \in tracked THEN "handled" ELSE "fetching"]
  /\ UNCHANGED <<server, call, answer, attempt, inFlightRef, jobs, tracked, reloaded, gaveUp, missed>>

EventReloads(j) ==
  /\ event[j] = "fetching"
  /\ event' = [event EXCEPT ![j] = "handled"]
  /\ reloaded' = reloaded \cup {j}
  /\ UNCHANGED <<server, call, answer, attempt, inFlightRef, jobs, tracked, gaveUp, missed>>

\* The job cannot be read; the event names no PC, so nothing is loaded.
EventFails(j) ==
  /\ event[j] = "fetching"
  /\ event' = [event EXCEPT ![j] = "handled"]
  /\ missed' = missed \cup {j}
  /\ UNCHANGED <<server, call, answer, attempt, inFlightRef, jobs, tracked, reloaded, gaveUp>>

\* Steps of an operation that happen by themselves: timers, and requests, which
\* are answered or fail.
Proceed(j) ==
  Declined(j) \/ Accepted(j) \/ Poll(j) \/ ReadJob(j) \/ Polled(j) \/ PollFails(j) \/ Refreshed(j)
Handle(j) == Event(j) \/ EventReloads(j) \/ EventFails(j)

TrackNext ==
  \/ \E j \in Job : Register(j) \/ Run(j) \/ End(j) \/ Click(j)
  \/ \E j \in Job : Proceed(j) \/ Handle(j)
  \/ Rendered

\* The backend's jobs need not end.
TrackFairness == WF_trackVars(Rendered) /\ \A j \in Job : WF_trackVars(Proceed(j)) /\ WF_trackVars(Handle(j))
TrackSpec == TrackInit /\ [][TrackNext]_trackVars /\ TrackFairness
-----------------------------------------------------------------------------
\* A job has one entry, and an entry that shows an end shows the one the job
\* had, unless polling ended early, although a job may be tracked again after
\* that (useJobTracker).
OutcomeShown ==
  \A i \in DOMAIN jobs :
    /\ jobs[i].state \in Ended /\ jobs[i].id \notin gaveUp => server[jobs[i].id] = jobs[i].state
    /\ \A k \in DOMAIN jobs : jobs[k].id = jobs[i].id => k = i

\* The guard of a target is held while its operation runs, and by one operation
\* (powerInFlightRef, refreshAllInFlightRef).
OneOperationPerTarget ==
  /\ inFlightRef = {TargetOf[j] : j \in {i \in Job : call[i] # "idle"}}
  /\ \A i, j \in Job : call[i] # "idle" /\ call[j] # "idle" /\ TargetOf[i] = TargetOf[j] => i = j

\* Every operation ends and its buttons come back, however the requests end
\* and even when the job does not (finally of sendPcWolEntry, shutdownPcEntry).
OperationEnds == \A t \in Target : t \in inFlightRef ~> t \notin inFlightRef

\* After every job that ends the lists are loaded, by the tracker or by the
\* event, unless polling ended early or the event was lost or could not be read.
EveryEndReloads == \A j \in Job : server[j] \in Ended ~> j \in reloaded \cup gaveUp \cup missed
=============================================================================
