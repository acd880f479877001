------------------------------ MODULE MCUptime ------------------------------
(* Instances for TLC of the uptime figures (days of one, three and one tick) *)
(* and of the days drawn from them.  They share nothing, so each behaviour   *)
(* runs one of them and leaves the other in its initial state.               *)
EXTENDS UptimeHistory, TimelineDays, TLC

CONSTANTS
  MaxRequests,  \* requests for figures in a behaviour
  MaxOverlap,   \* last tick at which two of them are under way
  MaxChanging   \* changes whose rows are not inserted; one less while time passes

VARIABLES part, asked

MCDayStart == [d \in 0 .. LastDay + 1 |-> IF d < 2 THEN d ELSE d + 2]

\* Requests in a behaviour are few, and only the first is a timeline, which uses
\* no totals.
FewRequests ==
  /\ \A r \in Request : req[r] = NoRequest /\ req'[r] # NoRequest /\ asked > 0 => req'[r].kind = "summary"
  /\ asked' = IF \E r \in Request : req[r] = NoRequest /\ req'[r] # NoRequest THEN asked + 1 ELSE asked
  /\ asked' <= MaxRequests

\* They overlap until a given tick, summaries of the same days only.
Overlapping == Cardinality({r \in Request : req[r] # NoRequest}) > 1
FewOverlap == Overlapping' =>
  /\ now' <= MaxOverlap
  /\ \A r, k \in Request : req'[r].kind = "summary" /\ req'[r].from = req'[k].from /\ req'[r].to = req'[k].to

\* Few rows wait to be inserted.
FewWait == Cardinality(changing') <= (IF now' = now THEN MaxChanging ELSE MaxChanging - 1)

\* Changes alternate, the first one to online.
Alternating == \A w \in changing' : w.online <=> w.nth % 2 = 1

Init == part \in {"uptime", "timeline"} /\ asked = 0 /\ UptimeInit /\ TimelineInit
Next ==
  \/ /\ part = "uptime" /\ UptimeNext
     /\ FewRequests /\ FewOverlap /\ FewWait /\ Alternating
     /\ UNCHANGED <<pieces, part>>
  \/ part = "timeline" /\ TimelineNext /\ UNCHANGED <<uptimeVars, part, asked>>
Spec == Init /\ [][Next]_<<uptimeVars, pieces, part, asked>>

Symmetry == Permutations(Request)
=============================================================================
