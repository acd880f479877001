------------------------------ MODULE MCBrowser -----------------------------
(* Instances for TLC of what a page shows: the list of PCs and its dialogs,  *)
(* the lock of the page behind a dialog, the groups and pulls of the logs,   *)
(* the uptime page and the panel of the API tokens.  They share nothing      *)
(* here, so each behaviour runs one of them and leaves the others in an      *)
(* initial state.                                                            *)
EXTENDS PcListView, PcDialogs, ScrollLocks, LogGroups, LogPull, UptimePanel, TokenPanel, TLC

CONSTANTS
  MaxKeptChanges,  \* changes of the table while the backend's cache may be behind
  MaxRevoked       \* tokens that are revoked or gone

VARIABLE part

MCLength == [b \in Bucket |-> IF b = "month" THEN 3 ELSE 2]

listVars == <<pcListVars, dialogVars, lockVars>>
logListVars == <<groupVars, pullVars>>

Init ==
  /\ part \in {"list", "dialogs", "locks", "groups", "pull", "uptime", "tokens"}
  /\ PcListInit /\ DialogInit /\ LockInit /\ GroupInit /\ PullInit /\ PageInit /\ PanelInit
  /\ part # "list" => \A p \in Pc : truth[p] = None
  /\ part # "dialogs" => \A p \in ListedPc : items[p] = Absent
  /\ part # "locks" => scrollY = 0
  /\ part # "pull" => isMobile
  /\ part # "uptime" => ~mobile /\ pc = CHOOSE p \in PanelPc : TRUE
  /\ part # "tokens" => stored = NoToken /\ admin = {} /\ \A k \in Token : server[k] = "absent"

Next ==
  \/ part = "list" /\ PcListNext /\ (kept' = {} \/ changes' <= MaxKeptChanges)
     /\ UNCHANGED <<dialogVars, lockVars, logListVars, pageVars, panelVars, part>>
  \/ part = "dialogs" /\ DialogNext /\ UNCHANGED <<pcListVars, lockVars, logListVars, pageVars, panelVars,
                                                   part>>
  \/ part = "locks" /\ LockNext /\ UNCHANGED <<pcListVars, dialogVars, logListVars, pageVars, panelVars, part>>
  \/ part = "groups" /\ GroupNext /\ UNCHANGED <<listVars, pullVars, pageVars, panelVars, part>>
  \/ part = "pull" /\ PullNext /\ UNCHANGED <<listVars, groupVars, pageVars, panelVars, part>>
  \/ part = "uptime" /\ PageNext /\ UNCHANGED <<listVars, logListVars, panelVars, part>>
  \/ part = "tokens" /\ PanelNext /\ Cardinality({k \in Token : server'[k] \in {"revoked", "gone"}}) <= MaxRevoked
     /\ UNCHANGED <<listVars, logListVars, pageVars, part>>
Spec == Init /\ [][Next]_<<listVars, logListVars, pageVars, panelVars, part>>

Symmetry == Permutations(Token)
=============================================================================
