--------------------------- MODULE SessionProofs ----------------------------
(***************************************************************************)
(* A session in the browser, for every set of jobs, targets and tokens,    *)
(* every length of the list shown and every number of revalidations,       *)
(* changes and saves: the guard of every target and the outcome of every   *)
(* entry, and who is let in and who is locked out.                         *)
(***************************************************************************)
EXTENDS JobTracking, TokenSession, SequenceTheorems, TLAPS

-----------------------------------------------------------------------------
(* Job tracking. *)

State == {"none", "queued", "running"} \cup Ended
Entry == [id: Job, state: State]

TrackTyped ==
  /\ server \in [Job -> State]
  /\ call \in [Job -> {"idle", "asked", "waiting", "fetching", "read", "refreshing"}]
  /\ answer \in [Job -> State]
  /\ jobs \in Seq(Entry)

\* An end that a poll has read is the end the job had: it is final.
ReadIsFinal == \A j \in Job : call[j] = "read" /\ answer[j] \in Ended => server[j] = answer[j]

\* The inductive invariant.
TrackInv == TrackTyped /\ OneOperationPerTarget /\ OutcomeShown /\ ReadIsFinal

LEMMA RelabelFacts ==
  ASSUME jobs \in Seq(Entry), NEW j \in Job, NEW s \in State, Relabel(j, s)
  PROVE  /\ jobs' \in Seq(Entry) /\ DOMAIN jobs' = DOMAIN jobs
         /\ \A i \in DOMAIN jobs :
              /\ jobs'[i].id = jobs[i].id
              /\ jobs'[i].state = IF jobs[i].id = j THEN s ELSE jobs[i].state
<1>1. ASSUME NEW i \in DOMAIN jobs
      PROVE  /\ jobs[i] \in Entry /\ jobs'[i] \in Entry /\ jobs'[i].id = jobs[i].id
             /\ jobs'[i].state = IF jobs[i].id = j THEN s ELSE jobs[i].state
  <2>1. jobs[i] \in Entry
    OBVIOUS
  <2>2. jobs'[i] = IF jobs[i].id = j THEN [jobs[i] EXCEPT !.state = s] ELSE jobs[i]
    BY DEF Relabel
  <2>3. CASE jobs[i].id = j
    <3>1. jobs'[i] = [jobs[i] EXCEPT !.state = s]
      BY <2>2, <2>3
    <3>2. jobs'[i] = [id |-> jobs[i].id, state |-> s]
      BY <2>1, <3>1 DEF Entry
    <3> QED BY <2>1, <2>3, <3>2 DEF Entry
  <2>4. CASE jobs[i].id # j
    <3>1. jobs'[i] = jobs[i]
      BY <2>2, <2>4
    <3> QED BY <2>1, <2>4, <3>1
  <2> QED BY <2>3, <2>4
<1>2. DOMAIN jobs' = 1 .. Len(jobs) /\ DOMAIN jobs = 1 .. Len(jobs) /\ Len(jobs) \in Nat
  BY DEF Relabel
<1>3. jobs' = [i \in 1 .. Len(jobs) |-> jobs'[i]]
  BY <1>2 DEF Relabel
<1>4. jobs' \in Seq(Entry)
  BY <1>1, <1>2, <1>3, IsASeq
<1> QED BY <1>1, <1>2, <1>4

\* Queueing a job puts one entry in front and keeps others of other jobs, each
\* at most once.
LEMMA QueueFacts ==
  ASSUME jobs \in Seq(Entry), NEW j \in Job, Queue(j),
         \A i, k \in DOMAIN jobs : jobs[i].id = jobs[k].id => i = k
  PROVE  /\ jobs' \in Seq(Entry)
         /\ \A i \in DOMAIN jobs' :
              \/ i = 1 /\ jobs'[i].id = j /\ jobs'[i].state = "queued"
              \/ \E k \in DOMAIN jobs : jobs'[i] = jobs[k] /\ jobs[k].id # j
         /\ \A i, k \in DOMAIN jobs' : jobs'[i].id = jobs'[k].id => i = k
<1> DEFINE older == {i \in DOMAIN jobs : jobs[i].id = j}
           p == CHOOSE i \in older : TRUE
           others == IF older = {} THEN jobs ELSE RemoveAt(jobs, p)
           e == [id |-> j, state |-> "queued"]
           all == <<e>> \o others
           n == IF Len(all) < MaxEntries THEN Len(all) ELSE MaxEntries
<1>0. /\ Len(jobs) \in Nat /\ DOMAIN jobs = 1 .. Len(jobs)
      /\ \A i \in 1 .. Len(jobs) : jobs[i] \in Entry
  OBVIOUS
<1>1. \E f \in [1 .. Len(others) -> DOMAIN jobs] :
        /\ others \in Seq(Entry) /\ Len(others) \in Nat
        /\ \A m \in 1 .. Len(others) : others[m] = jobs[f[m]] /\ jobs[f[m]].id # j
        /\ \A m, q \in 1 .. Len(others) : f[m] = f[q] => m = q
  <2>1. CASE older = {}
    <3>1. others = jobs
      BY <2>1
    <3>2. [m \in 1 .. Len(jobs) |-> m] \in [1 .. Len(jobs) -> DOMAIN jobs]
      BY <1>0
    <3> QED BY <1>0, <2>1, <3>1, <3>2
  <2>2. CASE older # {}
    <3>1. p \in 1 .. Len(jobs) /\ jobs[p].id = j
      BY <1>0, <2>2
    <3> HIDE DEF p
    <3>2. others = SubSeq(jobs, 1, p - 1) \o SubSeq(jobs, p + 1, Len(jobs))
      BY <2>2 DEF RemoveAt, p
    <3> DEFINE f == [m \in 1 .. Len(jobs) - 1 |-> IF m < p THEN m ELSE m + 1]
    <3>3. /\ others \in Seq(Entry) /\ Len(others) = Len(jobs) - 1
          /\ \A m \in 1 .. Len(jobs) - 1 : others[m] = jobs[IF m < p THEN m ELSE m + 1]
      <4> DEFINE a == SubSeq(jobs, 1, p - 1)
                 b == SubSeq(jobs, p + 1, Len(jobs))
      <4>1. /\ a \in Seq(Entry) /\ Len(a) = p - 1
            /\ \A m \in 1 .. p - 1 : a[m] = jobs[m]
        BY <1>0, <3>1, SubSeqProperties
      <4>2. /\ b \in Seq(Entry) /\ Len(b) = Len(jobs) - p
            /\ \A m \in 1 .. Len(jobs) - p : b[m] = jobs[m + p]
        <5> DEFINE lo == p + 1
                   hi == Len(jobs)
        <5>1. lo \in Int /\ hi \in Int /\ lo <= hi + 1 /\ hi - lo + 1 = Len(jobs) - p
              /\ \A i \in lo .. hi : jobs[i] \in Entry
          BY <1>0, <3>1
        <5>2. \A m \in 1 .. Len(jobs) - p : lo + m - 1 = m + p
          BY <1>0, <3>1
        <5> HIDE DEF lo, hi
        <5>3. /\ SubSeq(jobs, lo, hi) \in Seq(Entry)
              /\ Len(SubSeq(jobs, lo, hi)) = IF lo <= hi THEN hi - lo + 1 ELSE 0
              /\ \A m \in 1 .. hi - lo + 1 : SubSeq(jobs, lo, hi)[m] = jobs[lo + m - 1]
          BY <5>1, SubSeqProperties
        <5>4. Len(SubSeq(jobs, lo, hi)) = hi - lo + 1
          BY <5>1, <5>3
        <5>5. b = SubSeq(jobs, lo, hi)
          BY DEF lo, hi
        <5> HIDE DEF b
        <5> QED BY <5>1, <5>2, <5>3, <5>4, <5>5
      <4> HIDE DEF a, b, others
      <4>3. others = a \o b
        BY <3>2 DEF a, b
      <4>4. /\ others \in Seq(Entry) /\ Len(others) = Len(a) + Len(b)
            /\ \A i \in 1 .. Len(a) + Len(b) : others[i] = IF i <= Len(a) THEN a[i] ELSE b[i - Len(a)]
        BY <4>1, <4>2, <4>3, ConcatProperties
      <4>5. ASSUME NEW m \in 1 .. Len(jobs) - 1 PROVE others[m] = jobs[IF m < p THEN m ELSE m + 1]
        <5>1. others[m] = IF m <= p - 1 THEN a[m] ELSE b[m - (p - 1)]
          BY <1>0, <3>1, <4>1, <4>2, <4>4
        <5>2. CASE m < p
          BY <1>0, <3>1, <4>1, <5>1, <5>2
        <5>3. CASE ~(m < p)
          <6>1. m - (p - 1) \in 1 .. Len(jobs) - p /\ m - (p - 1) + p = m + 1
            BY <1>0, <3>1, <5>3
          <6>2. b[m - (p - 1)] = jobs[m + 1]
            BY <4>2, <6>1
          <6> QED BY <1>0, <3>1, <5>1, <5>3, <6>2
        <5> QED BY <5>2, <5>3
      <4> QED BY <1>0, <3>1, <4>1, <4>2, <4>4, <4>5
    <3> HIDE DEF others
    <3>4. f \in [1 .. Len(others) -> DOMAIN jobs]
      BY <1>0, <3>1, <3>3
    <3>5. \A m \in 1 .. Len(others) : others[m] = jobs[f[m]] /\ f[m] # p
      BY <1>0, <3>1, <3>3
    <3>6. \A m \in 1 .. Len(others) : jobs[f[m]].id # j
      BY <1>0, <3>1, <3>4, <3>5
    <3>7. \A m, q \in 1 .. Len(others) : f[m] = f[q] => m = q
      BY <1>0, <3>1, <3>3
    <3>8. Len(others) \in Nat
      BY <3>3
    <3> HIDE DEF f
    <3> QED BY <3>3, <3>4, <3>5, <3>6, <3>7, <3>8
  <2> QED BY <2>1, <2>2
<1>2. jobs' = SubSeq(all, 1, n)
  BY DEF Queue
<1> HIDE DEF others
<1>3. PICK f \in [1 .. Len(others) -> DOMAIN jobs] :
        /\ others \in Seq(Entry) /\ Len(others) \in Nat
        /\ \A m \in 1 .. Len(others) : others[m] = jobs[f[m]] /\ jobs[f[m]].id # j
        /\ \A m, q \in 1 .. Len(others) : f[m] = f[q] => m = q
  BY <1>1
<1>4. e \in Entry /\ e.id = j /\ e.state = "queued"
  BY DEF Entry, State
<1> HIDE DEF e
<1>5. /\ all \in Seq(Entry) /\ Len(all) = Len(others) + 1 /\ all[1] = e
      /\ \A i \in 2 .. Len(all) : all[i] = others[i - 1]
  BY <1>3, <1>4
<1> HIDE DEF all
<1>6. n \in Nat /\ n <= Len(all)
  BY <1>3, <1>5, JobTrackingAssumption
<1> HIDE DEF n
<1>7. /\ jobs' \in Seq(Entry) /\ Len(jobs') = n /\ DOMAIN jobs' = 1 .. n
      /\ \A i \in 1 .. n : jobs'[i] = all[i]
  BY <1>2, <1>5, <1>6, SubSeqProperties
<1>8. ASSUME NEW i \in 1 .. n, i # 1
      PROVE  /\ i - 1 \in 1 .. Len(others) /\ f[i - 1] \in DOMAIN jobs
             /\ jobs'[i] = jobs[f[i - 1]] /\ jobs[f[i - 1]].id # j
  <2>1. i - 1 \in 1 .. Len(others) /\ i \in 2 .. Len(all)
    BY <1>3, <1>5, <1>6, <1>8
  <2> QED BY <1>3, <1>5, <1>7, <2>1
<1>9. ASSUME 1 \in 1 .. n PROVE jobs'[1].id = j /\ jobs'[1].state = "queued"
  BY <1>4, <1>5, <1>7, <1>9
<1>10. ASSUME NEW i \in 1 .. n, NEW k \in 1 .. n, jobs'[i].id = jobs'[k].id PROVE i = k
  <2>1. CASE i = 1 \/ k = 1
    BY <1>6, <1>8, <1>9, <1>10, <2>1
  <2>2. CASE i # 1 /\ k # 1
    <3>1. f[i - 1] = f[k - 1] /\ i - 1 \in 1 .. Len(others) /\ k - 1 \in 1 .. Len(others)
      BY <1>8, <1>10, <2>2
    <3>2. i - 1 = k - 1
      BY <1>3, <3>1
    <3> QED BY <1>6, <3>2
  <2> QED BY <2>1, <2>2
<1> QED BY <1>7, <1>8, <1>9, <1>10

-----------------------------------------------------------------------------
\* The operation of one job moves on: whether it holds the guard stays.
LEMMA MovingKeepsGuards ==
  ASSUME TrackInv, NEW j \in Job, NEW c, c # "idle", call[j] # "idle",
         call' = [call EXCEPT ![j] = c], UNCHANGED inFlightRef
  PROVE  OneOperationPerTarget'
<1>1. \A i \in Job : call'[i] # "idle" <=> call[i] # "idle"
  BY DEF TrackInv, TrackTyped
<1> QED BY <1>1 DEF TrackInv, OneOperationPerTarget

\* The end of an operation frees its guard and no other one.
LEMMA ReleaseKeepsGuards ==
  ASSUME TrackInv, NEW j \in Job, call[j] # "idle", Release(j)
  PROVE  OneOperationPerTarget'
<1>1. \A i \in Job : call'[i] # "idle" <=> i # j /\ call[i] # "idle"
  BY DEF TrackInv, TrackTyped, Release
<1>2. ASSUME NEW i \in Job, i # j, call[i] # "idle" PROVE TargetOf[i] # TargetOf[j]
  BY <1>2 DEF TrackInv, OneOperationPerTarget
<1>3. inFlightRef' = {TargetOf[i] : i \in {k \in Job : call[k] # "idle"}} \ {TargetOf[j]}
  BY DEF TrackInv, OneOperationPerTarget, Release
<1>4. inFlightRef' = {TargetOf[i] : i \in {k \in Job : call'[k] # "idle"}}
  BY <1>1, <1>2, <1>3
<1>5. \A i, k \in Job : call'[i] # "idle" /\ call'[k] # "idle" /\ TargetOf[i] = TargetOf[k] => i = k
  BY <1>1 DEF TrackInv, OneOperationPerTarget
<1> QED BY <1>4, <1>5 DEF OneOperationPerTarget

\* A click takes a guard that no operation holds.
LEMMA ClickKeepsGuards ==
  ASSUME TrackInv, NEW j \in Job, Click(j)
  PROVE  OneOperationPerTarget'
<1>1. \A i \in Job : call'[i] # "idle" <=> i = j \/ call[i] # "idle"
  BY DEF TrackInv, TrackTyped, Click
<1>2. ASSUME NEW i \in Job, call[i] # "idle" PROVE TargetOf[i] # TargetOf[j]
  BY <1>2 DEF TrackInv, OneOperationPerTarget, Click
<1>3. inFlightRef' = {TargetOf[i] : i \in {k \in Job : call[k] # "idle"}} \cup {TargetOf[j]}
  BY DEF TrackInv, OneOperationPerTarget, Click
<1>4. inFlightRef' = {TargetOf[i] : i \in {k \in Job : call'[k] # "idle"}}
  BY <1>1, <1>3
<1>5. \A i, k \in Job : call'[i] # "idle" /\ call'[k] # "idle" /\ TargetOf[i] = TargetOf[k] => i = k
  BY <1>1, <1>2 DEF TrackInv, OneOperationPerTarget
<1> QED BY <1>4, <1>5 DEF OneOperationPerTarget

\* A new state of the entries of a job leaves every entry true that is about
\* another one, and is true if the job has ended so or polling ended early.
LEMMA RelabelKeepsOutcome ==
  ASSUME TrackInv, NEW j \in Job, NEW s \in State, Relabel(j, s), UNCHANGED server,
         \A i \in Job : i # j /\ i \notin gaveUp' => i \notin gaveUp,
         s \in Ended /\ j \notin gaveUp' => server[j] = s
  PROVE  OutcomeShown'
<1>1. jobs \in Seq(Entry)
  BY DEF TrackInv, TrackTyped
<1>2. /\ jobs' \in Seq(Entry) /\ DOMAIN jobs' = DOMAIN jobs
      /\ \A i \in DOMAIN jobs :
           /\ jobs'[i].id = jobs[i].id
           /\ jobs'[i].state = IF jobs[i].id = j THEN s ELSE jobs[i].state
  BY <1>1, RelabelFacts
<1>3. ASSUME NEW i \in DOMAIN jobs, jobs'[i].state \in Ended, jobs'[i].id \notin gaveUp'
      PROVE  server[jobs'[i].id] = jobs'[i].state
  <2>0. jobs[i] \in Entry
    BY <1>1
  <2>1. jobs[i].id \in Job
    BY <2>0 DEF Entry
  <2>2. CASE jobs[i].id = j
    BY <1>2, <1>3, <2>2
  <2>3. CASE jobs[i].id # j
    BY <1>2, <1>3, <2>1, <2>3 DEF TrackInv, OutcomeShown
  <2> QED BY <2>2, <2>3
<1>4. \A i, k \in DOMAIN jobs : jobs'[k].id = jobs'[i].id => k = i
  BY <1>2 DEF TrackInv, OutcomeShown
<1> QED BY <1>2, <1>3, <1>4 DEF OutcomeShown

\* A job that moves on in the backend had not ended: no entry shows an end of it.
LEMMA BackendKeepsOutcome ==
  ASSUME TrackInv, NEW j \in Job, NEW s \in State, server[j] \notin Ended,
         server' = [server EXCEPT ![j] = s], UNCHANGED <<call, answer, jobs, gaveUp>>
  PROVE  OutcomeShown' /\ ReadIsFinal'
<1>1. \A i \in Job : server'[i] = IF i = j THEN s ELSE server[i]
  BY DEF TrackInv, TrackTyped
<1>0. \A i \in DOMAIN jobs : jobs[i] \in Entry
  BY DEF TrackInv, TrackTyped
<1>2. \A i \in DOMAIN jobs : jobs[i].id \in Job
  BY <1>0 DEF Entry
<1>3. OutcomeShown'
  BY <1>1, <1>2 DEF TrackInv, OutcomeShown
<1>4. ReadIsFinal'
  BY <1>1 DEF TrackInv, ReadIsFinal
<1> QED BY <1>3, <1>4

\* The front entry is queued; the others are true of jobs that are not tracked
\* again.
LEMMA QueueKeepsOutcome ==
  ASSUME TrackInv, NEW j \in Job, Accepted(j)
  PROVE  OutcomeShown' /\ jobs' \in Seq(Entry)
<1>1. jobs \in Seq(Entry) /\ \A i, k \in DOMAIN jobs : jobs[i].id = jobs[k].id => i = k
  BY DEF TrackInv, TrackTyped, OutcomeShown
<1>2. /\ jobs' \in Seq(Entry)
      /\ \A i \in DOMAIN jobs' :
           \/ i = 1 /\ jobs'[i].id = j /\ jobs'[i].state = "queued"
           \/ \E k \in DOMAIN jobs : jobs'[i] = jobs[k] /\ jobs[k].id # j
      /\ \A i, k \in DOMAIN jobs' : jobs'[i].id = jobs'[k].id => i = k
  BY <1>1, QueueFacts DEF Accepted
<1>3. ASSUME NEW i \in DOMAIN jobs', jobs'[i].state \in Ended, jobs'[i].id \notin gaveUp'
      PROVE  server'[jobs'[i].id] = jobs'[i].state
  <2>1. PICK k \in DOMAIN jobs : jobs'[i] = jobs[k] /\ jobs[k].id # j
    BY <1>2, <1>3 DEF Ended
  <2>2. jobs[k].id \notin gaveUp
    BY <1>3, <2>1 DEF Accepted
  <2>3. server' = server
    BY DEF Accepted
  <2> QED BY <1>3, <2>1, <2>2, <2>3 DEF TrackInv, OutcomeShown
<1> QED BY <1>2, <1>3 DEF OutcomeShown
-----------------------------------------------------------------------------
\* Type correctness, action by action where a value changes.
LEMMA NextTyped ==
  ASSUME TrackInv, [TrackNext]_trackVars
  PROVE  TrackTyped'
<1> USE DEF TrackInv, TrackTyped, State, Ended
<1>1. ASSUME NEW j \in Job, Register(j) \/ Run(j) \/ End(j) PROVE TrackTyped'
  BY <1>1 DEF Register, Run, End
<1>2. ASSUME NEW j \in Job, Click(j) \/ Declined(j) \/ ReadJob(j) \/ Refreshed(j) PROVE TrackTyped'
  BY <1>2 DEF Click, Declined, ReadJob, Refreshed, Release
<1>3. ASSUME NEW j \in Job, Accepted(j) PROVE TrackTyped'
  <2>1. jobs' \in Seq(Entry)
    BY <1>3, QueueKeepsOutcome
  <2> QED BY <1>3, <2>1 DEF Accepted
<1>4. ASSUME NEW j \in Job, NEW s \in State, Relabel(j, s) PROVE jobs' \in Seq(Entry)
  BY <1>4, RelabelFacts
<1>5. ASSUME NEW j \in Job, Poll(j) PROVE TrackTyped'
  <2>1. jobs' \in Seq(Entry)
    BY <1>4, <1>5 DEF Poll
  <2> QED BY <1>5, <2>1 DEF Poll, Release
<1>6. ASSUME NEW j \in Job, Polled(j) PROVE TrackTyped'
  <2>1. jobs' \in Seq(Entry)
    BY <1>4, <1>6 DEF Polled
  <2> QED BY <1>6, <2>1 DEF Polled
<1>7. ASSUME NEW j \in Job, PollFails(j) PROVE TrackTyped'
  <2>1. jobs' \in Seq(Entry)
    BY <1>4, <1>7 DEF PollFails
  <2> QED BY <1>7, <2>1 DEF PollFails, Release
<1>8. ASSUME NEW j \in Job, Handle(j) PROVE TrackTyped'
  BY <1>8 DEF Handle, Event, EventReloads, EventFails
<1>9. CASE Rendered \/ UNCHANGED trackVars
  BY <1>9 DEF Rendered, trackVars
<1> QED BY <1>1, <1>2, <1>3, <1>5, <1>6, <1>7, <1>8, <1>9 DEF TrackNext, Proceed

\* Nothing that the invariant relates changes.
LEMMA OthersKeep ==
  ASSUME TrackInv, UNCHANGED <<server, call, answer, inFlightRef, jobs, gaveUp>>
  PROVE  OneOperationPerTarget' /\ OutcomeShown' /\ ReadIsFinal'
  BY DEF TrackInv, OneOperationPerTarget, OutcomeShown, ReadIsFinal

\* Only ReadJob sets what a poll read; another step of the call cannot make it
\* a read one.
LEMMA NotReading ==
  ASSUME TrackInv, NEW j \in Job, NEW c, c # "read",
         call' = [call EXCEPT ![j] = c], UNCHANGED <<server, answer>>
  PROVE  ReadIsFinal'
  BY DEF TrackInv, TrackTyped, ReadIsFinal

LEMMA SameEntries ==
  ASSUME TrackInv, UNCHANGED <<server, jobs, gaveUp>>
  PROVE  OutcomeShown'
  BY DEF TrackInv, OutcomeShown

LEMMA TrackInvNext ==
  ASSUME TrackInv, [TrackNext]_trackVars
  PROVE  TrackInv'
<1> DEFINE Goal == OneOperationPerTarget' /\ OutcomeShown' /\ ReadIsFinal'
<1>1. ASSUME NEW j \in Job, Register(j) \/ Run(j) \/ End(j) PROVE Goal
  <2>1. PICK s \in State : server' = [server EXCEPT ![j] = s]
    BY <1>1 DEF Register, Run, End, State, Ended
  <2>2. server[j] \notin Ended
    BY <1>1 DEF Register, Run, End, Ended
  <2>3. UNCHANGED <<call, answer, inFlightRef, jobs, gaveUp>>
    BY <1>1 DEF Register, Run, End
  <2>4. OneOperationPerTarget'
    BY <2>3 DEF TrackInv, OneOperationPerTarget
  <2> QED BY <2>1, <2>2, <2>3, <2>4, BackendKeepsOutcome
<1>2. ASSUME NEW j \in Job, Click(j) PROVE Goal
  <2>1. OneOperationPerTarget'
    BY <1>2, ClickKeepsGuards
  <2>2. OutcomeShown' /\ ReadIsFinal'
    BY <1>2, SameEntries, NotReading DEF Click
  <2> QED BY <2>1, <2>2
<1>3. ASSUME NEW j \in Job, Declined(j) \/ Refreshed(j) PROVE Goal
  <2>1. call[j] # "idle" /\ Release(j) /\ UNCHANGED <<server, answer, jobs, gaveUp>>
    BY <1>3 DEF Declined, Refreshed
  <2>2. OneOperationPerTarget'
    BY <2>1, ReleaseKeepsGuards
  <2>3. OutcomeShown' /\ ReadIsFinal'
    BY <2>1, SameEntries, NotReading DEF Release
  <2> QED BY <2>2, <2>3
<1>4. ASSUME NEW j \in Job, Accepted(j) PROVE Goal
  <2>1. OutcomeShown'
    BY <1>4, QueueKeepsOutcome
  <2>2. OneOperationPerTarget' /\ ReadIsFinal'
    BY <1>4, MovingKeepsGuards, NotReading DEF Accepted
  <2> QED BY <2>1, <2>2
<1>5. ASSUME NEW j \in Job, call[j] # "idle", UNCHANGED <<server, answer>>,
             Relabel(j, "failed"), gaveUp' = gaveUp \cup {j}, Release(j)
      PROVE  Goal
  <2>1. OneOperationPerTarget'
    BY <1>5, ReleaseKeepsGuards
  <2>2. OutcomeShown'
    BY <1>5, RelabelKeepsOutcome DEF State, Ended
  <2>3. ReadIsFinal'
    BY <1>5, NotReading DEF Release
  <2> QED BY <2>1, <2>2, <2>3
<1>6. ASSUME NEW j \in Job, Poll(j) PROVE Goal
  <2>1. CASE attempt[j] < MaxAttempts
    <3>1. OneOperationPerTarget' /\ ReadIsFinal'
      BY <1>6, <2>1, MovingKeepsGuards, NotReading DEF Poll
    <3>2. OutcomeShown'
      BY <1>6, <2>1, SameEntries DEF Poll
    <3> QED BY <3>1, <3>2
  <2>2. CASE ~(attempt[j] < MaxAttempts)
    <3>1. /\ call[j] # "idle" /\ UNCHANGED <<server, answer>>
          /\ Relabel(j, "failed") /\ gaveUp' = gaveUp \cup {j} /\ Release(j)
      BY <1>6, <2>2 DEF Poll
    <3> QED BY <3>1, <1>5
  <2> QED BY <2>1, <2>2
<1>7. ASSUME NEW j \in Job, ReadJob(j) PROVE Goal
  <2>1. OneOperationPerTarget' /\ OutcomeShown'
    BY <1>7, MovingKeepsGuards, SameEntries DEF ReadJob
  <2>2. ReadIsFinal'
    BY <1>7 DEF ReadJob, TrackInv, TrackTyped, ReadIsFinal
  <2> QED BY <2>1, <2>2
<1>8. ASSUME NEW j \in Job, Polled(j) PROVE Goal
  <2>1. PICK c \in {"refreshing", "waiting"} : call' = [call EXCEPT ![j] = c]
    BY <1>8 DEF Polled
  <2>2. call[j] = "read" /\ Relabel(j, answer[j]) /\ UNCHANGED <<server, answer, inFlightRef, gaveUp>>
    BY <1>8 DEF Polled
  <2>3. OneOperationPerTarget' /\ ReadIsFinal'
    BY <2>1, <2>2, MovingKeepsGuards, NotReading
  <2>4. answer[j] \in State /\ (answer[j] \in Ended => server[j] = answer[j])
    BY <2>2 DEF TrackInv, TrackTyped, ReadIsFinal
  <2>5. OutcomeShown'
    BY <2>2, <2>4, RelabelKeepsOutcome
  <2> QED BY <2>3, <2>5
<1>9. ASSUME NEW j \in Job, PollFails(j) PROVE Goal
  BY <1>5, <1>9 DEF PollFails
<1>10. ASSUME NEW j \in Job, Handle(j) PROVE Goal
  <2>1. UNCHANGED <<server, call, answer, inFlightRef, jobs, gaveUp>>
    BY <1>10 DEF Handle, Event, EventReloads, EventFails
  <2> QED BY <2>1, OthersKeep
<1>11. ASSUME Rendered \/ UNCHANGED trackVars PROVE Goal
  <2>1. UNCHANGED <<server, call, answer, inFlightRef, jobs, gaveUp>>
    BY <1>11 DEF Rendered, trackVars
  <2> QED BY <2>1, OthersKeep
<1> HIDE DEF Goal
<1>12. Goal
  BY <1>1, <1>2, <1>3, <1>4, <1>6, <1>7, <1>8, <1>9, <1>10, <1>11 DEF TrackNext, Proceed
<1> QED BY <1>12, NextTyped DEF TrackInv, Goal

LEMMA TrackInvInit == TrackInit => TrackInv
<1> SUFFICES ASSUME TrackInit PROVE TrackInv
  OBVIOUS
<1>1. TrackTyped
  BY DEF TrackInit, TrackTyped, State
<1>2. OneOperationPerTarget
  BY DEF TrackInit, OneOperationPerTarget
<1>3. OutcomeShown /\ ReadIsFinal
  BY DEF TrackInit, OutcomeShown, ReadIsFinal
<1> QED BY <1>1, <1>2, <1>3 DEF TrackInv

LEMMA TrackInvAlways == TrackSpec => []TrackInv
<1>1. TrackInit => TrackInv
  BY TrackInvInit
<1>2. TrackInv /\ [TrackNext]_trackVars => TrackInv'
  BY TrackInvNext
<1> QED BY <1>1, <1>2, PTL DEF TrackSpec

\* Two operations never follow jobs of one target at a time, and a guard is
\* held by nothing else (powerInFlightRef and refreshAllInFlightRef are freed
\* in the finally of the operation).
THEOREM OneOperationAlways == TrackSpec => []OneOperationPerTarget
<1>1. TrackInv => OneOperationPerTarget
  BY DEF TrackInv
<1> QED BY <1>1, TrackInvAlways, PTL

\* A job has one entry, and what an entry shows as the end of a job is its end
\* in the backend, unless polling ended early (useJobTracker).
THEOREM OutcomeAlwaysShown == TrackSpec => []OutcomeShown
<1>1. TrackInv => OutcomeShown
  BY DEF TrackInv
<1> QED BY <1>1, TrackInvAlways, PTL

-----------------------------------------------------------------------------
(* The token of a tab. *)

Stored == Token \cup {None}
Answers == {"ok", "refused", "failed"}
Checks == {"none", "asked"} \cup Answers
Validation == [token: Stored, valid: BOOLEAN]
Request == [token: Stored, verdict: {"none", "asked", "refused"}]
SaveAsked == [token: Token, verdict: {"asked"} \cup Answers]

SessionTyped ==
  /\ accepted \subseteq Token
  /\ stored \in Stored /\ storedState \in Stored
  /\ validation \in Validation
  /\ first \in Checks /\ again \in [Revalidation -> Checks]
  /\ sent \in Request /\ saves \subseteq SaveAsked

\* What a verdict says of the token it is about.
True(k, verdict) ==
  /\ verdict = "ok" => k \in confirmed
  /\ verdict = "refused" => k \notin accepted

\* The verdicts not handled yet are about the token the tab shows now, and true
\* of it: checks of the one before are cancelled.
PendingTrue == True(storedState, first) /\ \A i \in Revalidation : True(storedState, again[i])

\* A request that was refused had a token that is not accepted, and never is
\* again.
RefusalTrue == sent.verdict = "refused" => sent.token \notin accepted

\* The validation is true of the token it names, which may be another one than
\* the tab shows.
ValidationTrue ==
  /\ validation.valid => validation.token \in confirmed
  /\ ~validation.valid /\ validation.token # None =>
       validation.token \notin accepted \/ reason \in {"failed", "crossed"}

\* The inductive invariant.
SessionInv == SessionTyped /\ PendingTrue /\ RefusalTrue /\ ValidationTrue
-----------------------------------------------------------------------------
\* Confirmed tokens stay confirmed and refused ones stay refused.
LEMMA TrueStays ==
  ASSUME NEW k, NEW verdict, True(k, verdict), confirmed \subseteq confirmed', accepted' \subseteq accepted
  PROVE  True(k, verdict)'
  BY DEF True

\* The state in which no handler has been: what the checks say is shown.
LEMMA VerdictsTrue ==
  ASSUME NEW v \in Verdicts(storedState), Confirm(v), UNCHANGED <<accepted, storedState>>
  PROVE  True(storedState, v)' /\ v \in Answers /\ confirmed \subseteq confirmed'
  BY DEF Verdicts, Confirm, True, Answers

\* Showing a token keeps the checks of it or has none that is answered.
LEMMA ShowKeeps ==
  ASSUME SessionTyped, PendingTrue, NEW k \in Stored, Show(k), UNCHANGED <<accepted, confirmed>>
  PROVE  /\ PendingTrue'
         /\ storedState' \in Stored /\ first' \in Checks /\ again' \in [Revalidation -> Checks]
<1>1. CASE k = storedState
  BY <1>1 DEF Show, PendingTrue, True, SessionTyped
<1>2. CASE k # storedState
  <2>1. first' \in {"none", "asked"} /\ again' = [i \in Revalidation |-> "none"] /\ storedState' = k
    BY <1>2 DEF Show, Asking, Unasked
  <2> QED BY <2>1 DEF PendingTrue, True, Checks
<1> QED BY <1>1, <1>2

\* A verdict that is true of a token makes a validation that is true of it.
LEMMA ValidateKeeps ==
  ASSUME NEW k \in Stored, NEW verdict, Validate(k, verdict), UNCHANGED <<accepted, confirmed>>,
         True(k, verdict), verdict \in Answers \cup {"crossed"}
  PROVE  ValidationTrue' /\ validation' \in Validation
<1>1. validation' = [token |-> k, valid |-> verdict = "ok"]
  BY DEF Validate
<1>2. validation'.token = k /\ validation'.valid = (verdict = "ok") /\ validation' \in Validation
  BY <1>1 DEF Validation
<1>3. CASE verdict = "ok"
  BY <1>2, <1>3 DEF ValidationTrue, True
<1>4. CASE verdict # "ok"
  <2>1. reason' = verdict
    BY <1>4 DEF Validate
  <2> QED BY <1>2, <1>4, <2>1 DEF ValidationTrue, True, Answers
<1> QED BY <1>2, <1>3, <1>4

\* No verdict is waiting: the checks of the token are over.
LEMMA UnaskedTrue ==
  ASSUME again' = Unasked
  PROVE  again' \in [Revalidation -> Checks] /\ \A i \in Revalidation : True(storedState, again[i])'
  BY DEF Unasked, Checks, True
-----------------------------------------------------------------------------
LEMMA SessionInvInit == SessionInit => SessionInv
<1> SUFFICES ASSUME SessionInit PROVE SessionInv
  OBVIOUS
<1>1. validation = [token |-> None, valid |-> FALSE] /\ sent = [token |-> None, verdict |-> "none"]
  BY DEF SessionInit, NoValidation, NoRequest
<1>2. validation \in Validation /\ sent \in Request
  BY <1>1 DEF Validation, Request, Stored
<1>3. SessionTyped
  BY <1>2 DEF SessionInit, SessionTyped, Stored, Checks, Asking, Unasked
<1>4. PendingTrue
  BY DEF SessionInit, PendingTrue, True, Asking, Unasked
<1>5. RefusalTrue /\ ValidationTrue
  BY <1>1 DEF RefusalTrue, ValidationTrue
<1> QED BY <1>3, <1>4, <1>5 DEF SessionInv

\* Steps that leave the validation alone.
LEMMA ValidationStays ==
  ASSUME ValidationTrue, UNCHANGED <<validation, reason>>,
         confirmed \subseteq confirmed', accepted' \subseteq accepted
  PROVE  ValidationTrue'
  BY DEF ValidationTrue

LEMMA RefusalStays ==
  ASSUME RefusalTrue, UNCHANGED sent, accepted' \subseteq accepted
  PROVE  RefusalTrue'
  BY DEF RefusalTrue

LEMMA PendingStays ==
  ASSUME PendingTrue, UNCHANGED <<storedState, first, again>>,
         confirmed \subseteq confirmed', accepted' \subseteq accepted
  PROVE  PendingTrue'
  BY DEF PendingTrue, True

\* Tokens that come and go, in the server, in the storage and in the settings.
LEMMA StorageKeeps ==
  ASSUME SessionInv,
         \/ \E k \in Token : Expel(k) \/ Save(k)
         \/ \E k \in Stored : OtherTab(k)
         \/ StorageEvent \/ Clear
         \/ \E s \in saves : ReadSave(s) \/ SaveDone(s)
  PROVE  SessionInv'
<1> USE DEF SessionInv
<1>1. ASSUME NEW k \in Token, Expel(k) PROVE SessionInv'
  <2>1. accepted' \subseteq accepted /\ confirmed' = confirmed
    BY <1>1 DEF Expel
  <2>2. SessionTyped'
    BY <1>1 DEF Expel, SessionTyped
  <2> QED BY <1>1, <2>1, <2>2, PendingStays, RefusalStays, ValidationStays DEF Expel
<1>2. ASSUME NEW k \in Token, Save(k) PROVE SessionInv'
  <2>1. [token |-> k, verdict |-> "asked"] \in SaveAsked
    BY DEF SaveAsked
  <2>2. SessionTyped'
    BY <1>2, <2>1 DEF Save, SessionTyped
  <2> QED BY <1>2, <2>2, PendingStays, RefusalStays, ValidationStays DEF Save
<1>3. ASSUME NEW k \in Stored, OtherTab(k) PROVE SessionInv'
  <2>1. SessionTyped'
    BY <1>3 DEF OtherTab, SessionTyped
  <2> QED BY <1>3, <2>1, PendingStays, RefusalStays, ValidationStays DEF OtherTab
<1>4. ASSUME NEW k \in Stored, Show(k), stored' \in Stored, saves' \subseteq SaveAsked,
             UNCHANGED <<accepted, validation, sent, confirmed, reason>>
      PROVE  SessionInv'
  <2>1. /\ PendingTrue'
        /\ storedState' \in Stored /\ first' \in Checks /\ again' \in [Revalidation -> Checks]
    BY <1>4, ShowKeeps
  <2>2. SessionTyped'
    BY <1>4, <2>1 DEF SessionTyped
  <2> QED BY <1>4, <2>1, <2>2, RefusalStays, ValidationStays
<1>5. CASE StorageEvent
  BY <1>4, <1>5 DEF StorageEvent, SessionTyped
<1>6. CASE Clear
  BY <1>4, <1>6 DEF Clear, SessionTyped, Stored
<1>7. ASSUME NEW s \in saves, ReadSave(s) PROVE SessionInv'
  <2>1. PICK v \in Answers : saves' = (saves \ {s}) \cup {[s EXCEPT !.verdict = v]}
    BY <1>7 DEF ReadSave, Verdicts, Answers
  <2>2. s \in SaveAsked
    BY DEF SessionTyped
  <2>3. PICK q : q = [s EXCEPT !.verdict = v]
    OBVIOUS
  <2>4. q = [token |-> s.token, verdict |-> v]
    BY <2>2, <2>3 DEF SaveAsked
  <2>5. q \in SaveAsked
    BY <2>2, <2>4 DEF SaveAsked
  <2>6. saves' \subseteq SaveAsked
    BY <2>1, <2>3, <2>5 DEF SessionTyped
  <2>7. /\ confirmed' = confirmed /\ accepted' = accepted
        /\ UNCHANGED <<stored, storedState, validation, first, again, sent, reason>>
    BY <1>7 DEF ReadSave
  <2>8. SessionTyped'
    BY <2>6, <2>7 DEF SessionTyped
  <2> QED BY <2>7, <2>8, PendingStays, RefusalStays, ValidationStays
<1>8. ASSUME NEW s \in saves, SaveDone(s) PROVE SessionInv'
  <2>1. s.token \in Stored /\ saves' \subseteq SaveAsked
    BY <1>8 DEF SaveDone, SessionTyped, SaveAsked, Stored
  <2>2. CASE s.verdict = "ok"
    BY <1>4, <1>8, <2>1, <2>2 DEF SaveDone
  <2>3. CASE s.verdict # "ok"
    <3>1. SessionTyped'
      BY <1>8, <2>1, <2>3 DEF SaveDone, SessionTyped
    <3> QED BY <1>8, <2>3, <3>1, PendingStays, RefusalStays, ValidationStays DEF SaveDone
  <2> QED BY <2>2, <2>3
<1> QED BY <1>1, <1>2, <1>3, <1>5, <1>6, <1>7, <1>8

\* The checks of the token shown.
LEMMA CheckKeeps ==
  ASSUME SessionInv,
         ReadFirst \/ FirstDone \/ \E i \in Revalidation : Revalidate(i) \/ ReadAgain(i) \/ AgainDone(i)
  PROVE  SessionInv'
<1> USE DEF SessionInv
<1>1. CASE ReadFirst
  <2>1. first' \in Verdicts(storedState) /\ Confirm(first') /\ UNCHANGED <<accepted, storedState>>
    BY <1>1 DEF ReadFirst
  <2>2. PICK v \in Verdicts(storedState) : first' = v /\ Confirm(v)
    BY <2>1
  <2>3. True(storedState, v)' /\ v \in Answers /\ confirmed \subseteq confirmed'
    BY <2>1, <2>2, VerdictsTrue
  <2>4. SessionTyped'
    BY <1>1, <2>2, <2>3 DEF ReadFirst, SessionTyped, Checks
  <2>5. PendingTrue'
    BY <1>1, <2>2, <2>3 DEF ReadFirst, PendingTrue, True
  <2> QED BY <1>1, <2>3, <2>4, <2>5, RefusalStays, ValidationStays DEF ReadFirst
<1>2. CASE FirstDone
  <2>1. /\ storedState \in Stored /\ Validate(storedState, first) /\ UNCHANGED <<accepted, confirmed>>
        /\ True(storedState, first) /\ first \in Answers
    BY <1>2 DEF FirstDone, SessionTyped, PendingTrue, Checks
  <2>2. ValidationTrue' /\ validation' \in Validation
    BY <2>1, ValidateKeeps
  <2>3. SessionTyped'
    BY <1>2, <2>2 DEF FirstDone, SessionTyped, Checks, Unasked
  <2>4. PendingTrue'
    BY <1>2 DEF FirstDone, PendingTrue, True, Unasked
  <2> QED BY <1>2, <2>2, <2>3, <2>4, RefusalStays DEF FirstDone
<1>3. ASSUME NEW i \in Revalidation, Revalidate(i) PROVE SessionInv'
  <2>1. SessionTyped'
    BY <1>3 DEF Revalidate, SessionTyped, Checks
  <2>2. \A k \in Revalidation : again'[k] = again[k] \/ again'[k] = "asked"
    BY <1>3 DEF Revalidate, SessionTyped
  <2>3. UNCHANGED <<accepted, confirmed, storedState, first, sent, validation, reason>>
    BY <1>3 DEF Revalidate
  <2>4. PendingTrue'
    BY <2>2, <2>3 DEF PendingTrue, True
  <2> QED BY <2>1, <2>3, <2>4, RefusalStays, ValidationStays
<1>4. ASSUME NEW i \in Revalidation, ReadAgain(i) PROVE SessionInv'
  <2>1. PICK v \in Verdicts(storedState) : again' = [again EXCEPT ![i] = v] /\ Confirm(v)
    BY <1>4 DEF ReadAgain
  <2>2. UNCHANGED <<accepted, stored, storedState, first, saves, sent, validation, reason>>
    BY <1>4 DEF ReadAgain
  <2>3. True(storedState, v)' /\ v \in Answers /\ confirmed \subseteq confirmed'
    BY <2>1, <2>2, VerdictsTrue
  <2>4. SessionTyped'
    BY <2>1, <2>2, <2>3 DEF SessionTyped, Checks
  <2>5. \A k \in Revalidation : again'[k] = again[k] \/ again'[k] = v
    BY <2>1 DEF SessionTyped
  <2>6. PendingTrue'
    BY <2>2, <2>3, <2>5 DEF PendingTrue, True
  <2> QED BY <2>2, <2>3, <2>4, <2>6, RefusalStays, ValidationStays
<1>5. ASSUME NEW i \in Revalidation, AgainDone(i) PROVE SessionInv'
  <2>1. /\ storedState \in Stored /\ Validate(storedState, again[i]) /\ UNCHANGED <<accepted, confirmed>>
        /\ True(storedState, again[i]) /\ again[i] \in Answers
    BY <1>5 DEF AgainDone, SessionTyped, PendingTrue, Checks
  <2>2. ValidationTrue' /\ validation' \in Validation
    BY <2>1, ValidateKeeps
  <2>3. UNCHANGED <<accepted, stored, storedState, first, saves, sent, confirmed>>
    BY <1>5 DEF AgainDone
  <2>4. /\ again' \in [Revalidation -> Checks]
        /\ \A k \in Revalidation : again'[k] = again[k] \/ again'[k] = "none"
    BY <1>5 DEF AgainDone, SessionTyped, Unasked, Checks
  <2>5. SessionTyped'
    BY <2>2, <2>3, <2>4 DEF SessionTyped
  <2>6. PendingTrue'
    BY <2>3, <2>4 DEF PendingTrue, True
  <2> QED BY <2>2, <2>3, <2>5, <2>6, RefusalStays
<1> QED BY <1>1, <1>2, <1>3, <1>4, <1>5

\* The requests, refused or not.
LEMMA RequestKeeps ==
  ASSUME SessionInv, Send \/ Answer \/ Refused
  PROVE  SessionInv'
<1> USE DEF SessionInv
<1>1. NoRequest \in Request /\ NoRequest.verdict = "none"
  BY DEF NoRequest, Request, Stored
<1>2. ASSUME sent' \in Request, RefusalTrue',
             UNCHANGED <<accepted, stored, storedState, validation, first, again, saves, confirmed, reason>>
      PROVE  SessionInv'
  <2>1. SessionTyped'
    BY <1>2 DEF SessionTyped
  <2> QED BY <1>2, <2>1, PendingStays, ValidationStays
<1>3. CASE Send
  <2>1. sent' = [token |-> stored, verdict |-> "asked"]
    BY <1>3 DEF Send
  <2>2. sent' \in Request /\ RefusalTrue'
    BY <2>1 DEF RefusalTrue, Request, SessionTyped
  <2> QED BY <1>2, <1>3, <2>2 DEF Send
<1>4. CASE Answer
  <2>0. UNCHANGED <<accepted, stored, storedState, validation, first, again, saves, confirmed, reason>>
    BY <1>4 DEF Answer
  <2>1. CASE sent.token \in accepted
    <3>1. sent' = NoRequest
      BY <1>4, <2>1 DEF Answer
    <3>2. sent' \in Request /\ RefusalTrue'
      BY <1>1, <3>1 DEF RefusalTrue
    <3> QED BY <1>2, <2>0, <3>2
  <2>2. CASE sent.token \notin accepted
    <3>1. sent' = [sent EXCEPT !.verdict = "refused"] /\ sent \in Request
      BY <1>4, <2>2 DEF Answer, SessionTyped
    <3>2. sent' = [token |-> sent.token, verdict |-> "refused"]
      BY <3>1 DEF Request
    <3>3. sent \in Request
      BY <3>1
    <3>4. sent' \in Request /\ sent'.token = sent.token
      BY <3>2, <3>3 DEF Request
    <3>5. RefusalTrue'
      BY <2>0, <2>2, <3>4 DEF RefusalTrue
    <3> QED BY <1>2, <2>0, <3>4, <3>5
  <2> QED BY <2>1, <2>2
<1>5. CASE Refused
  <2>1. sent' \in Request /\ RefusalTrue'
    BY <1>1, <1>5 DEF Refused, RefusalTrue
  <2>2. CASE stored = None
    BY <1>2, <1>5, <2>1, <2>2 DEF Refused
  <2>3. CASE stored # None
    <3>1. PICK v \in {"refused", "crossed"} : Validate(stored, v) /\ (v = "refused" => stored = sent.token)
      BY <1>5, <2>3 DEF Refused
    <3>2. again' = Unasked /\ UNCHANGED <<accepted, stored, storedState, first, saves, confirmed>>
      BY <1>5, <2>3 DEF Refused
    <3>3. True(stored, v)
      BY <1>5, <3>1 DEF Refused, RefusalTrue, True
    <3>4. ValidationTrue' /\ validation' \in Validation
      BY <3>1, <3>2, <3>3, ValidateKeeps DEF SessionTyped, Answers
    <3>5. SessionTyped'
      BY <2>1, <3>2, <3>4, UnaskedTrue DEF SessionTyped
    <3>6. PendingTrue'
      BY <3>2, UnaskedTrue DEF PendingTrue, True
    <3> QED BY <2>1, <3>4, <3>5, <3>6
  <2> QED BY <2>2, <2>3
<1> QED BY <1>3, <1>4, <1>5

LEMMA SessionInvNext == SessionInv /\ [SessionNext]_sessionVars => SessionInv'
<1> SUFFICES ASSUME SessionInv, [SessionNext]_sessionVars PROVE SessionInv'
  OBVIOUS
<1>1. CASE UNCHANGED sessionVars
  <2>1. SessionTyped'
    BY <1>1 DEF sessionVars, SessionInv, SessionTyped
  <2>2. UNCHANGED <<accepted, storedState, validation, first, again, sent, confirmed, reason>>
    BY <1>1 DEF sessionVars
  <2> QED BY <2>1, <2>2, PendingStays, RefusalStays, ValidationStays DEF SessionInv
<1>2. CASE SessionNext
  BY <1>2, StorageKeeps, CheckKeeps, RequestKeeps DEF SessionNext, Stored
<1> QED BY <1>1, <1>2

LEMMA SessionInvAlways == SessionSpec => []SessionInv
<1> QED BY SessionInvInit, SessionInvNext, PTL DEF SessionSpec

\* The dashboard is open only with a token that a check of this tab found
\* accepted, whatever is stored, cleared, cancelled or answered late meanwhile
\* (useTokenValidation).
THEOREM AdmittedAlwaysAccepted == SessionSpec => []AdmittedWasAccepted
<1>1. SessionInv => AdmittedWasAccepted
  BY DEF SessionInv, ValidationTrue, AdmittedWasAccepted, Verified
<1> QED BY <1>1, SessionInvAlways, PTL

\* It is locked only when the server refuses the token, a check failed, or a
\* request with another token was refused (dispatchStoredTokenInvalid).
THEOREM LockedAlwaysWithReason == SessionSpec => []LockedOnlyWithReason
<1>1. SessionInv => LockedOnlyWithReason
  BY DEF SessionInv, ValidationTrue, LockedOnlyWithReason, Locked
<1> QED BY <1>1, SessionInvAlways, PTL
=============================================================================
