------------------------------ MODULE MCServer ------------------------------
(* Instances for TLC of what the backend keeps apart from jobs, settings and *)
(* uptime: statuses, tokens, the limiter's table, the list cache, the        *)
(* backups and the logs (with their pages in the browser).  They share       *)
(* nothing, so each behaviour runs one of them and leaves the others in      *)
(* their initial states.                                                     *)
EXTENDS PcStatus, ApiTokens, RateLimiter, ReadThroughCache, Backups, LogPaging, TLC

VARIABLE part

\* A short rule and a long one, as wol_send and admin_tokens_write; two ticks
\* are a second.
MCLimit == [r \in Rule |-> IF r = "short" THEN 1 ELSE 2]
MCWindow == [r \in Rule |-> IF r = "short" THEN 2 ELSE 4]

Init ==
  /\ part \in {"status", "tokens", "rate", "cache", "backups", "logs"}
  /\ StatusInit /\ TokensInit /\ RateInit /\ CacheInit /\ BackupInit /\ LogInit
  /\ part # "status" => net = "up"
Next ==
  \/ part = "status" /\ StatusNext /\ UNCHANGED <<tokensVars, rateVars, cacheVars, backupVars, logVars, part>>
  \/ part = "tokens" /\ TokensNext /\ UNCHANGED <<statusVars, rateVars, cacheVars, backupVars, logVars, part>>
  \/ part = "rate" /\ RateNext /\ UNCHANGED <<statusVars, tokensVars, cacheVars, backupVars, logVars, part>>
  \/ part = "cache" /\ CacheNext /\ UNCHANGED <<statusVars, tokensVars, rateVars, backupVars, logVars, part>>
  \/ part = "backups" /\ BackupNext /\ UNCHANGED <<statusVars, tokensVars, rateVars, cacheVars, logVars, part>>
  \/ part = "logs" /\ LogNext /\ UNCHANGED <<statusVars, tokensVars, rateVars, cacheVars, backupVars, part>>
Spec == Init /\ [][Next]_<<statusVars, tokensVars, rateVars, cacheVars, backupVars, logVars, part>>

Symmetry == Permutations(Server)
=============================================================================
