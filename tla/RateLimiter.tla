---------------------------- MODULE RateLimiter ----------------------------
(***************************************************************************)
(* The in-memory sliding window rate limiter.  Every rule limits what a    *)
(* subject (a token, or an address while there is no token) may do in its  *)
(* own window; the keys of all rules share one table.  consume runs on the *)
(* event loop under a lock and is one step.  Time passes in ticks, so that *)
(* requests can come between two full seconds.                             *)
(***************************************************************************)
EXTENDS Integers, FiniteSets, Sequences

CONSTANTS
  Rule,       \* the rules, e.g. wol_send and admin_tokens_write
  Subject,
  Limit,      \* Limit[r]: requests allowed ...
  Window,     \* ... in Window[r] ticks
  PerSecond,  \* ticks in a second
  MaxKeys,    \* table size from which keys are compacted (2048, at least 64)
  MaxNow     \* bound on time, for TLC

ASSUME RateAssumption ==
  /\ IsFiniteSet(Rule) /\ IsFiniteSet(Subject)
  /\ Limit \in [Rule -> Nat \ {0}]
  /\ PerSecond \in Nat \ {0}
  /\ Window \in [Rule -> Nat \ {0}] /\ \A r \in Rule : Window[r] % PerSecond = 0
  /\ MaxKeys \in Nat \ {0} /\ MaxNow \in Nat

RateKey == Rule \X Subject

VARIABLES
  now,
  log,     \* log[k]: when a request of key k was let through, in order; ...
  popped,  \* ... its first popped[k] times are no longer in the bucket
  keys,    \* keys that have a bucket
  forgot,  \* history: whether a bucket has been compacted away
  told     \* told[k]: earliest time a refused client was told to come back (history)

rateVars == <<now, log, popped, keys, forgot, told>>

Never == MaxNow + 1

RateInit ==
  /\ now = 0
  /\ log = [k \in RateKey |-> << >>]
  /\ popped = [k \in RateKey |-> 0]
  /\ keys = {}
  /\ forgot = FALSE
  /\ told = [k \in RateKey |-> Never]

LastOf(times) == times[Len(times)]
Cutoff(k) == now - Window[k[1]]

\* Plausible bug: times are popped a tick early.
PopsEarly(k, n) ==
  /\ n \in popped[k] .. Len(log[k])
  /\ \A i \in popped[k] + 1 .. n : log[k][i] <= Cutoff(k) + 1
  /\ n < Len(log[k]) => log[k][n + 1] > Cutoff(k) + 1

\* The bucket's times up to the cutoff are popped: n are popped in the end.
Pops(k, n) ==
  /\ n \in popped[k] .. Len(log[k])
  /\ \A i \in popped[k] + 1 .. n : log[k][i] <= Cutoff(k)
  /\ n < Len(log[k]) => log[k][n + 1] > Cutoff(k)

\* _compact_if_needed: the keys without a time after the cutoff.
StaleKeys(table, logs, cutoff) ==
  IF Cardinality(table) <= MaxKeys THEN {}
  ELSE {k \in table : LastOf(logs[k]) <= cutoff}

\* Plausible bug: the seconds to wait are rounded down.
RefuseRoundsDown(k) ==
  \E n \in 0 .. Len(log[k]) :
    /\ Pops(k, n)
    /\ Len(log[k]) - n >= Limit[k[1]]
    /\ popped' = [popped EXCEPT ![k] = n]
    /\ LET left == Window[k[1]] - (now - log[k][n + 1])
           back == now + PerSecond * (IF left <= PerSecond THEN 1 ELSE left \div PerSecond)
       IN told' = [told EXCEPT ![k] = IF back < @ THEN back ELSE @]
    /\ keys' = keys \cup {k}
    /\ UNCHANGED <<now, log, forgot>>

\* consume: a full bucket refuses, ...
Refuse(k) ==
  \E n \in 0 .. Len(log[k]) :
    /\ Pops(k, n)
    /\ Len(log[k]) - n >= Limit[k[1]]
    /\ popped' = [popped EXCEPT ![k] = n]
    /\ LET left == Window[k[1]] - (now - log[k][n + 1])
           seconds == IF left <= PerSecond THEN 1 ELSE (left + PerSecond - 1) \div PerSecond
           back == now + PerSecond * seconds
       IN told' = [told EXCEPT ![k] = IF back < @ THEN back ELSE @]
    /\ keys' = keys \cup {k}
    /\ UNCHANGED <<now, log, forgot>>

\* ... otherwise the time is recorded and the table compacted with the cutoff
\* of the rule at hand.
Accept(k) ==
  \E n \in 0 .. Len(log[k]) :
    /\ Pops(k, n)
    /\ Len(log[k]) - n < Limit[k[1]]
    /\ log' = [log EXCEPT ![k] = Append(@, now)]
    /\ LET stale == StaleKeys(keys \cup {k}, log', Cutoff(k))
       IN /\ keys' = (keys \cup {k}) \ stale
          /\ popped' = [j \in RateKey |-> IF j \in stale THEN Len(log'[j])
                                      ELSE IF j = k THEN n ELSE popped[j]]
          /\ forgot' = (forgot \/ stale # {})
    /\ told' = [told EXCEPT ![k] = Never]
    /\ UNCHANGED now

RateTick ==
  /\ now < MaxNow
  /\ now' = now + 1
  /\ UNCHANGED <<log, popped, keys, forgot, told>>

RateNext == (\E k \in RateKey : Refuse(k) \/ Accept(k)) \/ RateTick

RateSpec == RateInit /\ [][RateNext]_rateVars
-----------------------------------------------------------------------------
\* Types; a bucket in the table is not empty and never holds more than the limit.
RateTypeOK ==
  /\ now \in 0 .. MaxNow
  /\ log \in [RateKey -> Seq(0 .. MaxNow)]
  /\ popped \in [RateKey -> Nat]
  /\ keys \subseteq RateKey /\ forgot \in BOOLEAN
  /\ told \in [RateKey -> Nat]
  /\ \A k \in RateKey :
       LET bucket == Len(log[k]) - popped[k]
       IN IF k \in keys THEN bucket \in 1 .. Limit[k[1]] ELSE bucket = 0

Shortest(r) == \A q \in Rule : Window[r] <= Window[q]

\* No window of a rule holds more requests of a subject than its limit: of
\* any Limit + 1 requests let through, the last is a window after the first
\* (InMemoryRateLimiter.consume; limits of auth-device-tokens.md). Compaction
\* with the cutoff of another rule cannot break that for the rule with the
\* shortest window; for the others it holds while no bucket was compacted away.
WithinLimit ==
  \A k \in RateKey : ~forgot \/ Shortest(k[1]) =>
    \A i \in 1 .. Len(log[k]) :
      i + Limit[k[1]] <= Len(log[k]) => log[k][i + Limit[k[1]]] - log[k][i] >= Window[k[1]]

\* A client that was refused and waits as long as Retry-After says is let
\* through, unless a request with the same key was in between (consume).
RetryAfterSuffices ==
  \A k \in RateKey :
    now >= told[k] => \E n \in 0 .. Len(log[k]) : Pops(k, n) /\ Len(log[k]) - n < Limit[k[1]]

\* The table outgrows MaxKeys only by keys used, for some rule, in its window
\* before the last request let through (_compact_if_needed).
TableBounded ==
  Cardinality(keys) > MaxKeys =>
    \E r \in Rule : \A j, k \in keys : LastOf(log[j]) - LastOf(log[k]) < Window[r]

\* Types, the size of the table and what refused clients are told
\* (InMemoryRateLimiter).
LimiterHolds ==
  /\ RateTypeOK
  /\ RetryAfterSuffices
  /\ TableBounded
=============================================================================
