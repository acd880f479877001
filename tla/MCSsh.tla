------------------------------- MODULE MCSsh --------------------------------
(* Instance of SshSettings and ShutdownFlow for TLC: the settings of a PC    *)
(* alone, or, with fewer changes, while a shutdown is under way.             *)
EXTENDS ShutdownFlow, TLC

CONSTANT MaxFlowEpoch  \* settings changes in the behaviours with a shutdown

VARIABLE part

MCInit == FlowInit /\ part \in {"settings", "shutdown"}
MCNext ==
  \/ part = "settings" /\ Next /\ UNCHANGED <<job, part>>
  \/ part = "shutdown" /\ FlowNext /\ epoch' <= MaxFlowEpoch /\ UNCHANGED part
MCSpec == MCInit /\ [][MCNext]_<<flowVars, part>>

Symmetry == Permutations(Ip) \cup Permutations(Login) \cup Permutations(Tester)
=============================================================================
