---------------------------- MODULE SingleFlight ----------------------------
(***************************************************************************)
(* What the jobs table promises to the rest of the backend, without saying *)
(* how: a job is opened once, stays open until it is closed once, and is   *)
(* forgotten only after that; and two open jobs never carry the same       *)
(* exclusive work (two shutdowns of one PC, two refreshes of all PCs).     *)
(***************************************************************************)
CONSTANTS JobId,      \* job identifiers
          Work,       \* what a job may be asked to do
          Exclusive,  \* the work that is run at most once at a time
          NoWork

VARIABLE slot         \* slot[j]: the phase of job j and its work

Absent == [phase |-> "absent", work |-> NoWork]
Opened(wk) == [phase |-> "open", work |-> wk]
ClosedPhase(j) == slot[j].phase = "closed"

Init == slot = [j \in JobId |-> Absent]

\* A new job is opened and some closed jobs are forgotten on the way.
Open(j, wk) ==
  /\ slot[j] = Absent
  /\ wk \in Exclusive => \A k \in JobId : slot[k] # Opened(wk)
  /\ \E forgotten \in SUBSET {k \in JobId : ClosedPhase(k)} :
       slot' = [k \in JobId |-> IF k = j THEN Opened(wk)
                                ELSE IF k \in forgotten THEN Absent
                                ELSE slot[k]]

Close(j) ==
  /\ slot[j].phase = "open"
  /\ slot' = [slot EXCEPT ![j] = [@ EXCEPT !.phase = "closed"]]

Next == \E j \in JobId : Close(j) \/ \E wk \in Work : Open(j, wk)

Spec == Init /\ [][Next]_slot
=============================================================================
