----------------------------- MODULE MCSession ------------------------------
(* Instances for TLC of what outlives a page: the operations that follow a   *)
(* job and the token of the tab.  They share nothing here, so each behaviour *)
(* runs one of them and leaves the other in an initial state, in which none  *)
(* of its fair actions is enabled.                                           *)
EXTENDS JobTracking, TokenSession

VARIABLE part

MCTargetOf == [j \in Job |-> "a"]

Init ==
  /\ part \in {"tracking", "session"}
  /\ TrackInit /\ SessionInit
  /\ part # "session" => stored = None /\ accepted = {}
Next ==
  \/ part = "tracking" /\ TrackNext /\ UNCHANGED <<sessionVars, part>>
  \/ part = "session" /\ SessionNext /\ UNCHANGED <<trackVars, part>>
Spec == Init /\ [][Next]_<<trackVars, sessionVars, part>> /\ TrackFairness /\ SessionFairness
=============================================================================
