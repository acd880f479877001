---------------------------- MODULE MemoryProofs ----------------------------
(***************************************************************************)
(* What a server process keeps in its memory.  The limits of the rate      *)
(* limiter hold for every set of rules, limits, windows and subjects, and  *)
(* however small the table is; the list cache is stale only for a reason   *)
(* and a bounded time, for every set of keys and threads, every capacity   *)
(* and every time to live.                                                 *)
(***************************************************************************)
EXTENDS RateLimiter, ReadThroughCache, FiniteSetTheorems, SequenceTheorems, WellFoundedInduction, TLAPS

-----------------------------------------------------------------------------
(* The rate limiter. *)

\* The times of a key are in order and not in the future.
Chronological ==
  \A k \in RateKey :
    /\ \A i, m \in 1 .. Len(log[k]) : i <= m => log[k][i] <= log[k][m]
    /\ \A i \in 1 .. Len(log[k]) : log[k][i] <= now

\* What a bucket no longer holds left its window, unless another rule's
\* compaction took it.
PoppedIsPast ==
  \A k \in RateKey : ~forgot \/ Shortest(k[1]) =>
    \A i \in 1 .. popped[k] : log[k][i] <= Cutoff(k)

\* The inductive invariant.
RateInv == RateTypeOK /\ Chronological /\ PoppedIsPast /\ WithinLimit

\* A key names one of the rules, whose window and limit are positive.
LEMMA KeyFacts ==
  ASSUME NEW k \in RateKey
  PROVE  /\ k[1] \in Rule /\ Window[k[1]] \in Nat \ {0} /\ Limit[k[1]] \in Nat \ {0}
         /\ PerSecond \in Nat \ {0}
  BY RateAssumption DEF RateKey

\* What the types say of one bucket.
LEMMA BucketFacts ==
  ASSUME NEW k \in RateKey, RateTypeOK
  PROVE  /\ now \in Nat /\ popped[k] \in Nat /\ Len(log[k]) \in Nat
         /\ popped[k] <= Len(log[k]) /\ Len(log[k]) - popped[k] <= Limit[k[1]]
         /\ log[k] \in Seq(0 .. MaxNow)
         /\ \A i \in 1 .. Len(log[k]) : log[k][i] \in Nat
<1>1. log[k] \in Seq(0 .. MaxNow) /\ popped[k] \in Nat /\ now \in Nat /\ MaxNow \in Nat
  BY RateAssumption DEF RateTypeOK
<1>2. Len(log[k]) \in Nat
  BY <1>1
<1>3. ASSUME NEW i \in 1 .. Len(log[k]) PROVE log[k][i] \in Nat
  <2>1. log[k][i] \in 0 .. MaxNow
    BY <1>1
  <2> QED BY <2>1
<1>4. popped[k] <= Len(log[k]) /\ Len(log[k]) - popped[k] <= Limit[k[1]]
  BY <1>1, <1>2, KeyFacts DEF RateTypeOK
<1> QED BY <1>1, <1>2, <1>3, <1>4

LEMMA InitInv == RateInit => RateInv
<1> SUFFICES ASSUME RateInit PROVE RateInv OBVIOUS
<1> USE DEF RateInit
<1>1. RateTypeOK
  <2>1. MaxNow \in Nat /\ now \in 0 .. MaxNow
    BY RateAssumption
  <2>2. log \in [RateKey -> Seq(0 .. MaxNow)]
    <3>1. << >> \in Seq(0 .. MaxNow)
      OBVIOUS
    <3> QED BY <3>1
  <2>3. told \in [RateKey -> Nat]
    BY <2>1 DEF Never
  <2>4. ASSUME NEW k \in RateKey PROVE k \notin keys /\ Len(log[k]) - popped[k] = 0
    <3>1. log[k] = << >> /\ popped[k] = 0
      OBVIOUS
    <3>2. Len(log[k]) = 0
      BY <3>1
    <3> QED BY <3>1, <3>2
  <2>5. popped \in [RateKey -> Nat] /\ keys \subseteq RateKey /\ forgot \in BOOLEAN
    OBVIOUS
  <2> HIDE DEF RateInit
  <2> QED BY <2>1, <2>2, <2>3, <2>4, <2>5 DEF RateTypeOK
<1>2. Chronological
  BY DEF Chronological
<1>3. PoppedIsPast
  BY DEF PoppedIsPast
<1>4. WithinLimit
  BY KeyFacts DEF WithinLimit
<1> QED BY <1>1, <1>2, <1>3, <1>4 DEF RateInv

LEMMA TickInv == RateInv /\ RateTick => RateInv'
<1> SUFFICES ASSUME RateInv, RateTick PROVE RateInv' OBVIOUS
<1> USE DEF RateInv, RateTick
<1>1. RateTypeOK'
  BY RateAssumption DEF RateTypeOK
<1>2. Chronological'
  <2>1. now \in Nat /\ now' = now + 1
    BY RateAssumption DEF RateTypeOK
  <2>2. ASSUME NEW k \in RateKey, NEW i \in 1 .. Len(log[k])
        PROVE  log[k][i] <= now'
    <3>1. log[k][i] \in Nat /\ now \in Nat
      BY BucketFacts
    <3>2. log[k][i] <= now
      BY DEF Chronological
    <3> QED BY <2>1, <3>1, <3>2
  <2> QED BY <2>2 DEF Chronological
<1>3. PoppedIsPast'
  <2>1. ASSUME NEW k \in RateKey, ~forgot \/ Shortest(k[1]), NEW i \in 1 .. popped[k]
        PROVE  log[k][i] <= now' - Window[k[1]]
    <3>1. log[k][i] <= now - Window[k[1]]
      BY <2>1 DEF PoppedIsPast, Cutoff
    <3>2. i \in 1 .. Len(log[k]) /\ now \in Nat /\ Window[k[1]] \in Nat
      BY BucketFacts, KeyFacts
    <3>3. log[k][i] \in Nat
      BY <3>2, BucketFacts
    <3>4. now' = now + 1
      OBVIOUS
    <3> QED BY <3>1, <3>2, <3>3, <3>4
  <2>2. log' = log /\ popped' = popped /\ forgot' = forgot
    OBVIOUS
  <2> QED BY <2>1, <2>2 DEF PoppedIsPast, Cutoff, Shortest
<1>4. WithinLimit'
  BY DEF WithinLimit, Shortest
<1> QED BY <1>1, <1>2, <1>3, <1>4

LEMMA RefuseInv == ASSUME NEW k \in RateKey, RateInv, Refuse(k) PROVE RateInv'
<1> USE DEF RateInv
<1>1. PICK n \in 0 .. Len(log[k]) :
        /\ Pops(k, n)
        /\ Len(log[k]) - n >= Limit[k[1]]
        /\ popped' = [popped EXCEPT ![k] = n]
        /\ LET left == Window[k[1]] - (now - log[k][n + 1])
               seconds == IF left <= PerSecond THEN 1
                          ELSE (left + PerSecond - 1) \div PerSecond
               back == now + PerSecond * seconds
           IN told' = [told EXCEPT ![k] = IF back < @ THEN back ELSE @]
        /\ keys' = keys \cup {k}
        /\ UNCHANGED <<now, log, forgot>>
  BY DEF Refuse
<1> DEFINE left == Window[k[1]] - (now - log[k][n + 1])
           seconds == IF left <= PerSecond THEN 1 ELSE (left + PerSecond - 1) \div PerSecond
           back == now + PerSecond * seconds
<1>2. /\ n \in Nat /\ n >= popped[k] /\ n + 1 \in 1 .. Len(log[k])
      /\ Len(log[k]) \in Nat /\ Len(log[k]) - popped[k] <= Limit[k[1]]
      /\ now \in Nat /\ log[k][n + 1] \in Nat
  <2>1. n \in Nat /\ n >= popped[k]
    BY <1>1, BucketFacts DEF Pops
  <2>2. n + 1 \in 1 .. Len(log[k])
    BY <1>1, <2>1, BucketFacts, KeyFacts
  <2> QED BY <2>1, <2>2, BucketFacts
<1>3. back \in Nat
  <2>1. left \in Int /\ PerSecond \in Nat \ {0}
    BY <1>2, KeyFacts
  <2>2. seconds \in Nat
    <3>1. CASE left <= PerSecond
      BY <3>1
    <3>2. CASE ~(left <= PerSecond)
      <4>1. left + PerSecond - 1 \in Nat
        BY <2>1, <3>2
      <4> HIDE DEF left
      <4> QED BY <2>1, <3>2, <4>1
    <3> QED BY <3>1, <3>2
  <2>3. PerSecond * seconds \in Nat
    <3> HIDE DEF seconds
    <3> QED BY <2>1, <2>2
  <2> HIDE DEF seconds
  <2> QED BY <1>2, <2>3
<1>4. told' \in [RateKey -> Nat]
  <2> HIDE DEF back
  <2> QED BY <1>1, <1>3 DEF RateTypeOK, back
<1>5. popped' \in [RateKey -> Nat] /\ popped'[k] = n
      /\ \A j \in RateKey \ {k} : popped'[j] = popped[j]
  BY <1>1, <1>2 DEF RateTypeOK
<1>6. RateTypeOK'
  <2>1. ASSUME NEW j \in RateKey
        PROVE  IF j \in keys' THEN Len(log'[j]) - popped'[j] \in 1 .. Limit[j[1]]
               ELSE Len(log'[j]) - popped'[j] = 0
    BY <1>1, <1>2, <1>5, KeyFacts DEF RateTypeOK
  <2> QED BY <1>1, <1>4, <1>5, <2>1 DEF RateTypeOK
<1>7. Chronological'
  BY <1>1 DEF Chronological
<1>8. PoppedIsPast'
  <2>1. ASSUME NEW j \in RateKey, ~forgot \/ Shortest(j[1]), NEW i \in 1 .. popped'[j]
        PROVE  log[j][i] <= Cutoff(j)
    <3>1. CASE i \in 1 .. popped[j]
      BY <2>1, <3>1 DEF PoppedIsPast
    <3>2. CASE i \notin 1 .. popped[j]
      <4>1. j = k /\ i \in popped[k] + 1 .. n
        BY <1>2, <1>5, <3>2, BucketFacts
      <4> QED BY <1>1, <4>1 DEF Pops
    <3> QED BY <3>1, <3>2
  <2> QED BY <1>1, <2>1 DEF PoppedIsPast, Cutoff, Shortest
<1>9. WithinLimit'
  BY <1>1 DEF WithinLimit, Shortest
<1> QED BY <1>6, <1>7, <1>8, <1>9

LEMMA AcceptInv == ASSUME NEW k \in RateKey, RateInv, Accept(k) PROVE RateInv'
<1> USE DEF RateInv
<1> DEFINE stale == StaleKeys(keys \cup {k}, log', Cutoff(k))
<1>1. PICK n \in 0 .. Len(log[k]) :
        /\ Pops(k, n)
        /\ Len(log[k]) - n < Limit[k[1]]
        /\ log' = [log EXCEPT ![k] = Append(@, now)]
        /\ keys' = (keys \cup {k}) \ stale
        /\ popped' = [j \in RateKey |-> IF j \in stale THEN Len(log'[j])
                                       ELSE IF j = k THEN n ELSE popped[j]]
        /\ forgot' = (forgot \/ stale # {})
        /\ told' = [told EXCEPT ![k] = Never]
        /\ UNCHANGED now
  BY DEF Accept
<1>2. /\ n \in Nat /\ n >= popped[k] /\ n <= Len(log[k]) /\ Len(log[k]) \in Nat
      /\ now \in Nat /\ now \in 0 .. MaxNow
  BY <1>1, BucketFacts DEF Pops, RateTypeOK

\* The log grows by the present time at its end.
<1>3. /\ Len(log'[k]) = Len(log[k]) + 1 /\ log'[k] \in Seq(0 .. MaxNow)
      /\ log'[k][Len(log[k]) + 1] = now
      /\ \A i \in 1 .. Len(log[k]) : log'[k][i] = log[k][i]
      /\ \A j \in RateKey \ {k} : log'[j] = log[j]
      /\ log' \in [RateKey -> Seq(0 .. MaxNow)]
  <2>1. log[k] \in Seq(0 .. MaxNow) /\ log \in [RateKey -> Seq(0 .. MaxNow)]
    BY DEF RateTypeOK
  <2>2. log'[k] = Append(log[k], now) /\ \A j \in RateKey \ {k} : log'[j] = log[j]
    BY <1>1, <2>1
  <2>3. Append(log[k], now) \in Seq(0 .. MaxNow)
    BY <1>2, <2>1
  <2>4. log' \in [RateKey -> Seq(0 .. MaxNow)]
    BY <1>1, <2>1, <2>3
  <2> QED BY <2>1, <2>2, <2>3, <2>4
<1>4. /\ stale \subseteq RateKey /\ stale \subseteq keys \cup {k}
      /\ \A j \in stale : LastOf(log'[j]) <= Cutoff(k)
  BY DEF StaleKeys, RateTypeOK
<1> HIDE DEF stale
<1>5. k \notin stale
  <2>1. LastOf(log'[k]) = now
    BY <1>3 DEF LastOf
  <2> QED BY <1>2, <1>4, <2>1, KeyFacts DEF Cutoff
<1>6. \A j \in RateKey : popped'[j] = IF j \in stale THEN Len(log'[j])
                                      ELSE IF j = k THEN n ELSE popped[j]
  BY <1>1
<1>7. RateTypeOK'
  <2>1. popped' \in [RateKey -> Nat]
    <3>1. ASSUME NEW j \in RateKey PROVE popped'[j] \in Nat
      <4>1. Len(log'[j]) \in Nat /\ popped[j] \in Nat
        BY <1>2, <1>3, BucketFacts
      <4> QED BY <1>2, <1>6, <4>1
    <3> QED BY <1>1, <3>1
  <2>2. told' \in [RateKey -> Nat]
    <3>1. Never \in Nat
      BY RateAssumption DEF Never
    <3> QED BY <1>1, <3>1 DEF RateTypeOK
  <2>3. ASSUME NEW j \in RateKey
        PROVE  IF j \in keys' THEN Len(log'[j]) - popped'[j] \in 1 .. Limit[j[1]]
               ELSE Len(log'[j]) - popped'[j] = 0
    <3>1. CASE j = k
      <4>1. Len(log'[j]) - popped'[j] = Len(log[k]) + 1 - n /\ j \in keys'
        BY <1>1, <1>3, <1>5, <1>6, <3>1
      <4>2. Limit[k[1]] \in Nat
        BY KeyFacts
      <4> QED BY <1>1, <1>2, <3>1, <4>1, <4>2
    <3>2. CASE j # k /\ j \in stale
      <4>1. j \notin keys' /\ popped'[j] = Len(log[j]) /\ log'[j] = log[j]
        BY <1>1, <1>3, <1>6, <3>2
      <4> QED BY <4>1, BucketFacts
    <3>3. CASE j # k /\ j \notin stale
      <4>1. popped'[j] = popped[j] /\ log'[j] = log[j] /\ (j \in keys' <=> j \in keys)
        BY <1>1, <1>3, <1>6, <3>3
      <4> QED BY <4>1 DEF RateTypeOK
    <3> QED BY <3>1, <3>2, <3>3
  <2>4. keys' \subseteq RateKey /\ forgot' \in BOOLEAN /\ now' \in 0 .. MaxNow
    BY <1>1, <1>2 DEF RateTypeOK
  <2> QED BY <1>3, <2>1, <2>2, <2>3, <2>4 DEF RateTypeOK
<1>8. Chronological'
  <2>1. ASSUME NEW j \in RateKey, NEW i \in 1 .. Len(log'[j])
        PROVE  log'[j][i] <= now /\ \A m \in 1 .. Len(log'[j]) : i <= m => log'[j][i] <= log'[j][m]
    <3>1. CASE j = k
      <4>1. \A m \in 1 .. Len(log[k]) : log[k][m] \in Nat /\ log[k][m] <= now
        BY BucketFacts DEF Chronological
      <4>2. \A m \in 1 .. Len(log'[k]) : m \in 1 .. Len(log[k]) \/ m = Len(log[k]) + 1
        BY <1>2, <1>3
      <4>3. \A p, m \in 1 .. Len(log[k]) : p <= m => log[k][p] <= log[k][m]
        BY DEF Chronological
      <4>4. \A m \in 1 .. Len(log'[k]) : log'[k][m] \in Nat /\ log'[k][m] <= now
        BY <1>2, <1>3, <4>1, <4>2
      <4>5. ASSUME NEW m \in 1 .. Len(log'[k]), i <= m PROVE log'[k][i] <= log'[k][m]
        <5>1. CASE m = Len(log[k]) + 1
          BY <1>3, <3>1, <4>4, <5>1
        <5>2. CASE m \in 1 .. Len(log[k])
          <6>1. i \in 1 .. Len(log[k])
            BY <1>2, <1>3, <3>1, <4>5, <5>2
          <6> QED BY <1>3, <4>3, <4>5, <5>2, <6>1
        <5> QED BY <4>2, <5>1, <5>2
      <4> QED BY <3>1, <4>4, <4>5
    <3>2. CASE j # k
      BY <1>3, <3>2 DEF Chronological
    <3> QED BY <3>1, <3>2
  <2> QED BY <1>1, <2>1 DEF Chronological

\* Compaction takes from a rule with the shortest window only what is past
\* its own window too: every time of a stale key is at most the last one.
<1>9. PoppedIsPast'
  <2>1. ASSUME NEW j \in RateKey, ~forgot' \/ Shortest(j[1]), NEW i \in 1 .. popped'[j]
        PROVE  log'[j][i] <= Cutoff(j)
    <3>1. CASE j \in stale
      <4>1. Shortest(j[1]) /\ j # k /\ log'[j] = log[j] /\ popped'[j] = Len(log[j])
        BY <1>1, <1>3, <1>5, <1>6, <2>1, <3>1
      <4>2. log[j][Len(log[j])] <= now - Window[k[1]]
        BY <1>4, <3>1, <4>1 DEF LastOf, Cutoff
      <4>3. Window[j[1]] <= Window[k[1]]
        BY <4>1, KeyFacts DEF Shortest
      <4>4. /\ i \in 1 .. Len(log[j]) /\ Len(log[j]) \in 1 .. Len(log[j])
            /\ i <= Len(log[j])
        BY <4>1, BucketFacts
      <4>5. log[j][i] <= log[j][Len(log[j])]
        BY <4>4 DEF Chronological
      <4>6. log[j][i] \in Nat /\ log[j][Len(log[j])] \in Nat
        BY <4>4, BucketFacts
      <4>7. Window[j[1]] \in Nat /\ Window[k[1]] \in Nat
        BY KeyFacts
      <4>8. log[j][i] <= now - Window[j[1]]
        BY <1>2, <4>2, <4>3, <4>5, <4>6, <4>7
      <4> QED BY <4>1, <4>8 DEF Cutoff
    <3>2. CASE j \notin stale /\ j = k
      <4>1. popped'[k] = n /\ i \in 1 .. n /\ i \in 1 .. Len(log[k]) /\ log'[k][i] = log[k][i]
        BY <1>2, <1>3, <1>6, <3>2
      <4>2. CASE i \in 1 .. popped[k]
        BY <1>1, <2>1, <3>2, <4>1, <4>2 DEF PoppedIsPast
      <4>3. CASE i \notin 1 .. popped[k]
        <5>1. i \in popped[k] + 1 .. n
          BY <1>2, <4>1, <4>3, BucketFacts
        <5> QED BY <1>1, <3>2, <4>1, <5>1 DEF Pops
      <4> QED BY <4>2, <4>3
    <3>3. CASE j \notin stale /\ j # k
      <4>1. popped'[j] = popped[j] /\ log'[j] = log[j]
        BY <1>3, <1>6, <3>3
      <4> QED BY <1>1, <2>1, <4>1 DEF PoppedIsPast
    <3> QED BY <3>1, <3>2, <3>3
  <2> QED BY <1>1, <2>1 DEF PoppedIsPast, Cutoff, Shortest

\* The request Limit before the new one is no longer in the bucket.
<1>10. WithinLimit'
  <2>1. ASSUME NEW j \in RateKey, ~forgot' \/ Shortest(j[1]),
               NEW i \in 1 .. Len(log'[j]), i + Limit[j[1]] <= Len(log'[j])
        PROVE  log'[j][i + Limit[j[1]]] - log'[j][i] >= Window[j[1]]
    <3>1. CASE j # k
      BY <1>1, <1>3, <2>1, <3>1 DEF WithinLimit
    <3>2. CASE j = k /\ i + Limit[k[1]] <= Len(log[k])
      <4>1. /\ i \in 1 .. Len(log[k]) /\ i + Limit[k[1]] \in 1 .. Len(log[k])
        BY <1>2, <1>3, <2>1, <3>2, KeyFacts
      <4>2. log[k][i + Limit[k[1]]] - log[k][i] >= Window[k[1]]
        BY <1>1, <2>1, <3>2, <4>1 DEF WithinLimit
      <4> QED BY <1>3, <3>2, <4>1, <4>2
    <3>3. CASE j = k /\ ~(i + Limit[k[1]] <= Len(log[k]))
      <4>1. /\ i + Limit[k[1]] = Len(log[k]) + 1 /\ i \in 1 .. n /\ i \in 1 .. Len(log[k])
        <5>1. i + Limit[k[1]] <= Len(log[k]) + 1 /\ i \in Nat \ {0}
          BY <1>2, <1>3, <2>1, <3>3
        <5>2. Limit[k[1]] \in Nat \ {0} /\ Len(log[k]) - n < Limit[k[1]]
          BY <1>1, KeyFacts
        <5>3. ~(i + Limit[k[1]] <= Len(log[k]))
          BY <3>3
        <5>4. i + Limit[k[1]] = Len(log[k]) + 1
          BY <1>2, <5>1, <5>2, <5>3
        <5>5. i <= n
          BY <1>2, <5>1, <5>2, <5>4
        <5> QED BY <1>2, <5>1, <5>4, <5>5
      <4>2. i \in 1 .. popped'[k]
        BY <1>5, <1>6, <4>1
      <4>3. log'[k][i] <= now - Window[k[1]]
        BY <1>1, <1>9, <2>1, <3>3, <4>2 DEF PoppedIsPast, Cutoff, Shortest
      <4>4. log'[k][i] \in Nat /\ log'[k][i + Limit[k[1]]] = now
        BY <1>3, <4>1, BucketFacts
      <4>5. Window[k[1]] \in Nat
        BY KeyFacts
      <4> QED BY <1>2, <3>3, <4>3, <4>4, <4>5
    <3> QED BY <3>1, <3>2, <3>3
  <2> QED BY <2>1 DEF WithinLimit, Shortest
<1> QED BY <1>7, <1>8, <1>9, <1>10

\* The inductive invariant of the limiter: a bucket holds the newest requests in order,
\* and what was taken out of it lies outside the window, for the shortest window always
\* and for the others until a bucket is compacted away (consume, _compact_if_needed).
THEOREM RateInvariant == RateSpec => []RateInv
<1>1. RateInv /\ [RateNext]_rateVars => RateInv'
  <2> SUFFICES ASSUME RateInv, [RateNext]_rateVars PROVE RateInv' OBVIOUS
  <2>1. ASSUME NEW k \in RateKey, Refuse(k) PROVE RateInv'
    BY <2>1, RefuseInv
  <2>2. ASSUME NEW k \in RateKey, Accept(k) PROVE RateInv'
    BY <2>2, AcceptInv
  <2>3. CASE RateTick
    BY <2>3, TickInv
  <2>4. CASE UNCHANGED rateVars
    BY <2>4 DEF rateVars, RateInv, RateTypeOK, Chronological, PoppedIsPast, WithinLimit,
                Cutoff, Shortest
  <2> QED BY <2>1, <2>2, <2>3, <2>4 DEF RateNext
<1> QED BY InitInv, <1>1, PTL DEF RateSpec

\* In no window does a rule let a subject through more often than its limit,
\* for every table size; a bucket never holds more than the limit.
THEOREM LimitsHold == RateSpec => [](RateTypeOK /\ WithinLimit)
<1>1. RateInv => RateTypeOK /\ WithinLimit
  BY DEF RateInv
<1> QED BY RateInvariant, <1>1, PTL
-----------------------------------------------------------------------------
\* A refused client is told to come back when the request that is the limit's
\* number before the next one has left the window.
ToldIsEnough ==
  \A k \in RateKey :
    told[k] <= MaxNow =>
      /\ Limit[k[1]] <= Len(log[k])
      /\ log[k][Len(log[k]) - Limit[k[1]] + 1] + Window[k[1]] <= told[k]

\* The inductive invariant of what clients are told and of the table's size.
LimiterInv == RateInv /\ ToldIsEnough /\ TableBounded

LEMMA LeastNatural ==
  ASSUME NEW S \in SUBSET Nat, S # {}
  PROVE  \E x \in S : \A y \in S : x <= y
<1>1. PICK x \in S : \A y \in S : ~(<<y, x>> \in OpToRel(<, Nat))
  BY NatLessThanWellFounded, WFMin
<1>2. \A y \in S : ~(y < x)
  BY <1>1 DEF OpToRel
<1> QED BY <1>2

\* Every bucket can be popped: up to the first time after the cutoff.
LEMMA PopsExists ==
  ASSUME NEW k \in RateKey, RateTypeOK
  PROVE  \E n \in 0 .. Len(log[k]) : Pops(k, n)
<1> DEFINE S == {n \in popped[k] .. Len(log[k]) : n < Len(log[k]) => log[k][n + 1] > Cutoff(k)}
<1>1. /\ popped[k] \in Nat /\ Len(log[k]) \in Nat /\ popped[k] <= Len(log[k])
      /\ \A i \in 1 .. Len(log[k]) : log[k][i] \in Nat
  BY BucketFacts
<1>2. S \in SUBSET Nat /\ Len(log[k]) \in S
  BY <1>1
<1>3. PICK n \in S : \A m \in S : n <= m
  BY <1>2, LeastNatural
<1>4. Cutoff(k) \in Int
  BY BucketFacts, KeyFacts DEF Cutoff
<1>5. ASSUME NEW i \in popped[k] + 1 .. n PROVE log[k][i] <= Cutoff(k)
  <2>1. i - 1 \in popped[k] .. Len(log[k]) /\ i - 1 < n /\ i - 1 < Len(log[k]) /\ i - 1 + 1 = i
        /\ i \in 1 .. Len(log[k])
    BY <1>1
  <2>2. i - 1 \notin S
    BY <1>1, <1>3, <2>1
  <2>3. ~(log[k][i] > Cutoff(k))
    BY <2>1, <2>2
  <2> QED BY <1>1, <1>4, <2>1, <2>3
<1>6. n \in popped[k] .. Len(log[k]) /\ (n < Len(log[k]) => log[k][n + 1] > Cutoff(k))
  BY <1>3
<1>7. Pops(k, n)
  BY <1>5, <1>6 DEF Pops
<1>8. n \in 0 .. Len(log[k])
  BY <1>1, <1>6
<1> QED BY <1>7, <1>8

\* What clients are told is enough.
LEMMA ToldSuffices ==
  ASSUME RateInv, ToldIsEnough
  PROVE  RetryAfterSuffices
<1> SUFFICES ASSUME NEW k \in RateKey, now >= told[k]
             PROVE  \E n \in 0 .. Len(log[k]) : Pops(k, n) /\ Len(log[k]) - n < Limit[k[1]]
  BY DEF RetryAfterSuffices
<1> DEFINE first == Len(log[k]) - Limit[k[1]] + 1
<1>1. /\ now \in Nat /\ Len(log[k]) \in Nat /\ \A i \in 1 .. Len(log[k]) : log[k][i] \in Nat
      /\ Window[k[1]] \in Nat \ {0} /\ Limit[k[1]] \in Nat \ {0}
  BY BucketFacts, KeyFacts DEF RateInv
<1>2. told[k] \in Nat /\ told[k] <= MaxNow
  BY RateAssumption DEF RateInv, RateTypeOK
<1>3. Limit[k[1]] <= Len(log[k]) /\ log[k][first] + Window[k[1]] <= told[k]
  BY <1>2 DEF ToldIsEnough
<1>4. first \in 1 .. Len(log[k])
  BY <1>1, <1>3
<1> HIDE DEF first
<1>5. log[k][first] <= Cutoff(k) /\ Cutoff(k) \in Int
  BY <1>1, <1>2, <1>3, <1>4 DEF Cutoff
<1>6. PICK n \in 0 .. Len(log[k]) : Pops(k, n)
  BY PopsExists DEF RateInv
<1>7. n >= first
  <2>1. SUFFICES ASSUME n < first PROVE FALSE
    BY <1>1, <1>4
  <2>2. n + 1 \in 1 .. Len(log[k]) /\ n + 1 <= first /\ n < Len(log[k])
    BY <1>1, <1>4, <2>1
  <2>3. log[k][n + 1] <= log[k][first]
    BY <1>4, <2>2 DEF RateInv, Chronological
  <2>4. log[k][n + 1] > Cutoff(k)
    BY <1>6, <2>2 DEF Pops
  <2> QED BY <1>1, <1>4, <1>5, <2>2, <2>3, <2>4
<1>8. Len(log[k]) - n < Limit[k[1]]
  BY <1>1, <1>7 DEF first
<1> QED BY <1>6, <1>8

\* Seconds rounded up are no less than the ticks left.
LEMMA RoundedUp ==
  ASSUME NEW left \in Int, NEW per \in Nat \ {0}
  PROVE  per * (IF left <= per THEN 1 ELSE (left + per - 1) \div per) >= left
<1>1. CASE left <= per
  BY <1>1
<1>2. CASE ~(left <= per)
  <2> DEFINE q == (left + per - 1) \div per
             m == (left + per - 1) % per
  <2>1. left + per - 1 = per * q + m /\ m \in 0 .. per - 1 /\ q \in Int
    BY <1>2
  <2> HIDE DEF q, m
  <2>2. per * q \in Int
    BY <2>1
  <2>3. per * q >= left
    BY <2>1, <2>2
  <2> QED BY <1>2, <2>3 DEF q
<1> QED BY <1>1, <1>2

LEMMA RefuseTold ==
  ASSUME NEW k \in RateKey, LimiterInv, Refuse(k)
  PROVE  ToldIsEnough' /\ TableBounded'
<1>1. PICK n \in 0 .. Len(log[k]) :
        /\ Pops(k, n)
        /\ Len(log[k]) - n >= Limit[k[1]]
        /\ LET left == Window[k[1]] - (now - log[k][n + 1])
               seconds == IF left <= PerSecond THEN 1
                          ELSE (left + PerSecond - 1) \div PerSecond
               back == now + PerSecond * seconds
           IN told' = [told EXCEPT ![k] = IF back < @ THEN back ELSE @]
        /\ keys' = keys \cup {k}
        /\ UNCHANGED <<now, log, forgot>>
  BY DEF Refuse
<1> DEFINE left == Window[k[1]] - (now - log[k][n + 1])
           seconds == IF left <= PerSecond THEN 1 ELSE (left + PerSecond - 1) \div PerSecond
           back == now + PerSecond * seconds
<1>2. /\ now \in Nat /\ Len(log[k]) \in Nat /\ popped[k] \in Nat /\ Limit[k[1]] \in Nat \ {0}
      /\ Window[k[1]] \in Nat \ {0} /\ PerSecond \in Nat \ {0}
      /\ Len(log[k]) - popped[k] <= Limit[k[1]] /\ \A i \in 1 .. Len(log[k]) : log[k][i] \in Nat
  BY BucketFacts, KeyFacts DEF LimiterInv, RateInv
<1>3. n \in popped[k] .. Len(log[k])
  BY <1>1 DEF Pops
\* The bucket holds the limit, and its first time decides.
<1>4. n = Len(log[k]) - Limit[k[1]] /\ n + 1 \in 1 .. Len(log[k]) /\ Limit[k[1]] <= Len(log[k])
  BY <1>1, <1>2, <1>3
<1>5. log[k][n + 1] \in Nat
  BY <1>2, <1>4
<1>6. left \in Int /\ log[k][n + 1] + Window[k[1]] = now + left
  BY <1>2, <1>5
<1>7. told' = [told EXCEPT ![k] = IF back < @ THEN back ELSE @]
  BY <1>1
<1> HIDE DEF left
<1>8. PerSecond * seconds >= left
  BY <1>2, <1>6, RoundedUp
<1>9. seconds \in Int
  BY <1>2, <1>6
<1> HIDE DEF seconds
<1>10. PerSecond * seconds \in Int
  BY <1>2, <1>9
<1>11. back \in Int /\ log[k][n + 1] + Window[k[1]] <= back
  BY <1>2, <1>6, <1>8, <1>10
<1> HIDE DEF back
<1>12. /\ told'[k] = IF back < told[k] THEN back ELSE told[k]
       /\ \A j \in RateKey \ {k} : told'[j] = told[j]
  BY <1>7 DEF LimiterInv, RateInv, RateTypeOK
<1>13. ToldIsEnough'
  <2>1. ASSUME NEW j \in RateKey, told'[j] <= MaxNow
        PROVE  /\ Limit[j[1]] <= Len(log[j])
               /\ log[j][Len(log[j]) - Limit[j[1]] + 1] + Window[j[1]] <= told'[j]
    <3>1. CASE j # k \/ told'[j] = told[j]
      BY <1>12, <2>1, <3>1 DEF LimiterInv, ToldIsEnough
    <3>2. CASE j = k /\ told'[j] = back
      BY <1>4, <1>11, <3>2
    <3> QED BY <1>12, <3>1, <3>2
  <2> QED BY <1>1, <2>1 DEF ToldIsEnough
<1>14. k \in keys
  BY <1>1, <1>2, <1>3 DEF LimiterInv, RateInv, RateTypeOK
<1>15. keys' = keys /\ log' = log
  BY <1>1, <1>14
<1>16. TableBounded'
  BY <1>15 DEF LimiterInv, TableBounded
<1> QED BY <1>13, <1>16

\* The last time of a log that is not empty.
LEMMA LastTyped ==
  ASSUME NEW times \in Seq(0 .. MaxNow), Len(times) \in 1 .. Len(times)
  PROVE  times[Len(times)] \in Nat
<1>1. \A m \in 1 .. Len(times) : times[m] \in 0 .. MaxNow
  BY RateAssumption
<1> QED BY <1>1

LEMMA AcceptTold ==
  ASSUME NEW k \in RateKey, LimiterInv, Accept(k)
  PROVE  ToldIsEnough' /\ TableBounded'
<1> DEFINE stale == StaleKeys(keys \cup {k}, log', Cutoff(k))
<1>1. /\ log' = [log EXCEPT ![k] = Append(@, now)] /\ keys' = (keys \cup {k}) \ stale
      /\ told' = [told EXCEPT ![k] = Never] /\ now' = now
  BY DEF Accept
<1>2. RateInv'
  BY AcceptInv DEF LimiterInv
<1>3. ToldIsEnough'
  <2>1. /\ told'[k] = Never /\ \A j \in RateKey \ {k} : told'[j] = told[j] /\ log'[j] = log[j]
    BY <1>1 DEF LimiterInv, RateInv, RateTypeOK
  <2>2. ~(Never <= MaxNow)
    BY RateAssumption DEF Never
  <2> QED BY <2>1, <2>2 DEF LimiterInv, ToldIsEnough
\* Keys that are left over the limit have a time after the cutoff.
<1>4. ASSUME Cardinality(keys') > MaxKeys
      PROVE  \A i, j \in keys' : LastOf(log'[i]) - LastOf(log'[j]) < Window[k[1]]
  <2>1. ~(Cardinality(keys \cup {k}) <= MaxKeys)
    <3>1. SUFFICES ASSUME Cardinality(keys \cup {k}) <= MaxKeys PROVE FALSE
      OBVIOUS
    <3>2. keys' = keys \cup {k}
      BY <1>1, <3>1 DEF StaleKeys
    <3>3. Cardinality(keys') <= MaxKeys /\ Cardinality(keys') > MaxKeys
      BY <1>4, <3>1, <3>2
    <3>4. MaxKeys \in Nat /\ Cardinality(keys') \in Nat
      <4>1. IsFiniteSet(RateKey)
        BY RateAssumption, FS_Product DEF RateKey
      <4>2. keys' \subseteq RateKey
        BY <1>2 DEF RateInv, RateTypeOK
      <4> QED BY <4>1, <4>2, FS_Subset, FS_CardinalityType, RateAssumption
    <3> QED BY <3>3, <3>4
  <2>2. stale = {i \in keys \cup {k} : LastOf(log'[i]) <= Cutoff(k)}
    BY <2>1 DEF StaleKeys
  <2>3. now \in Nat /\ Window[k[1]] \in Nat
    BY BucketFacts, KeyFacts DEF LimiterInv, RateInv
  <2>4. ASSUME NEW i \in keys'
        PROVE  LastOf(log'[i]) \in Nat /\ LastOf(log'[i]) <= now /\ LastOf(log'[i]) > now - Window[k[1]]
    <3>1. i \in RateKey /\ Len(log'[i]) - popped'[i] \in 1 .. Limit[i[1]] /\ popped'[i] \in Nat
          /\ log'[i] \in Seq(0 .. MaxNow)
      BY <1>2 DEF RateInv, RateTypeOK
    <3>2. Len(log'[i]) \in 1 .. Len(log'[i])
      BY <3>1, KeyFacts
    <3>3. LastOf(log'[i]) \in Nat
      BY <3>1, <3>2, LastTyped DEF LastOf
    <3>4. LastOf(log'[i]) <= now
      BY <1>1, <1>2, <3>1, <3>2 DEF RateInv, Chronological, LastOf
    <3>5. ~(LastOf(log'[i]) <= Cutoff(k))
      BY <1>1, <2>2
    <3> QED BY <2>3, <3>3, <3>4, <3>5 DEF Cutoff
  <2> QED BY <2>3, <2>4
<1>5. TableBounded'
  <2>1. k[1] \in Rule
    BY KeyFacts
  <2> QED BY <1>4, <2>1 DEF TableBounded
<1> QED BY <1>3, <1>5

LEMMA LimiterInvAlways == RateSpec => []LimiterInv
<1>1. RateInit => LimiterInv
  <2> SUFFICES ASSUME RateInit PROVE LimiterInv
    OBVIOUS
  <2>1. ToldIsEnough
    BY RateAssumption DEF RateInit, ToldIsEnough, Never
  <2>2. TableBounded
    <3>1. Cardinality({}) = 0
      BY FS_EmptySet
    <3> QED BY <3>1, RateAssumption DEF RateInit, TableBounded
  <2> QED BY <2>1, <2>2, InitInv DEF LimiterInv
<1>2. LimiterInv /\ [RateNext]_rateVars => LimiterInv'
  <2> SUFFICES ASSUME LimiterInv, [RateNext]_rateVars PROVE LimiterInv'
    OBVIOUS
  <2>1. ASSUME NEW k \in RateKey, Refuse(k) PROVE LimiterInv'
    BY <2>1, RefuseInv, RefuseTold DEF LimiterInv
  <2>2. ASSUME NEW k \in RateKey, Accept(k) PROVE LimiterInv'
    BY <2>2, AcceptInv, AcceptTold DEF LimiterInv
  <2>3. ASSUME UNCHANGED <<log, keys, told>> PROVE ToldIsEnough' /\ TableBounded'
    BY <2>3 DEF LimiterInv, ToldIsEnough, TableBounded
  <2>4. CASE RateTick
    BY <2>3, <2>4, TickInv DEF LimiterInv, RateTick
  <2>5. CASE UNCHANGED rateVars
    <3>1. RateInv'
      BY <2>5 DEF rateVars, LimiterInv, RateInv, RateTypeOK, Chronological, PoppedIsPast, WithinLimit,
                  Cutoff, Shortest
    <3> QED BY <2>3, <2>5, <3>1 DEF LimiterInv, rateVars
  <2> QED BY <2>1, <2>2, <2>4, <2>5 DEF RateNext
<1> QED BY <1>1, <1>2, PTL DEF RateSpec

\* A client that waits as long as it was told is let through, and the table
\* outgrows its size only by keys in use, for every set of rules, every limit,
\* window and table size (InMemoryRateLimiter).
THEOREM LimiterAlwaysHolds == RateSpec => []LimiterHolds
<1>1. LimiterInv => LimiterHolds
  BY ToldSuffices DEF LimiterInv, LimiterHolds, RateInv
<1> QED BY <1>1, LimiterInvAlways, PTL
-----------------------------------------------------------------------------
(* The list cache. *)

Item == [key: ListKey, value: 0 .. MaxVersion, expires: Nat, late: BOOLEAN]
ListRequest == [at: {"free", "hit", "miss", "loaded", "changed"}, key: ListKey \cup {NoKey},
                value: 0 .. MaxVersion, since: 0 .. MaxClock, late: BOOLEAN]
Dict(s) == s \in Seq(Item) /\ \A i, j \in DOMAIN s : s[i].key = s[j].key => i = j

Changing == \E t \in Server : Serves(t, "changed")

\* A list expires within the time to live from now, and if it is out of date,
\* within that and the time a read takes from the change.
ItemHolds(i) ==
  /\ i.value <= version /\ i.expires <= clock + Ttl
  /\ i.value = version \/ i.late \/ Changing
  /\ i.value < version => i.expires <= endedAt[i.value] + Ttl + MaxRead

\* A request is short, and what it has read was true at some time since it began.
RequestHolds(r) ==
  /\ r.at # "free" => r.since <= clock /\ clock <= r.since + MaxRead
  /\ r.at \in {"miss", "loaded"} => r.key \in ListKey
  /\ r.value <= version
  /\ r.at = "loaded" => /\ r.value = version \/ r.late \/ Changing
                        /\ r.value < version => r.since <= endedAt[r.value]
  /\ r.at = "hit" /\ r.value < version => r.since - endedAt[r.value] < Ttl + MaxRead

\* The inductive invariant.
CacheInv ==
  /\ CacheTypeOK
  /\ \A i \in DOMAIN items : ItemHolds(items[i])
  /\ \A t \in Server : RequestHolds(server[t])

LEMMA CacheInvHolds == CacheInv => CacheHolds
  BY DEF CacheInv, CacheHolds, StaleOnlyByOverlap, BoundedStaleness, ItemHolds, RequestHolds, Changing, Serves

\* The places of a dictionary that are kept, by number: they are counted one by one.
LEMMA KeptFacts ==
  ASSUME NEW S, NEW s \in Seq(S), NEW P \in SUBSET DOMAIN s
  PROVE  /\ Kept(s, P) \in Seq(S) /\ Len(Kept(s, P)) <= Len(s)
         /\ \A m \in DOMAIN Kept(s, P) : \E i \in P : Kept(s, P)[m] = s[i]
         /\ \A m, k \in DOMAIN Kept(s, P) :
              (\A i, j \in P : Kept(s, P)[m] = s[i] /\ Kept(s, P)[k] = s[j] => i = j) => m = k
<1> DEFINE size == Cardinality(P)
           upTo(i) == {j \in P : j <= i}
           rank == [i \in P |-> Cardinality(upTo(i))]
           nth(n) == CHOOSE i \in P : Cardinality(upTo(i)) = n
           r == [n \in 1 .. size |-> s[nth(n)]]
<1>1. Len(s) \in Nat /\ DOMAIN s = 1 .. Len(s) /\ \A i \in P : i \in Int /\ s[i] \in S
  OBVIOUS
<1>2. IsFiniteSet(DOMAIN s) /\ Cardinality(DOMAIN s) = Len(s)
  BY <1>1, FS_Interval
<1>3. IsFiniteSet(P) /\ size \in Nat /\ size <= Len(s)
  BY <1>2, FS_Subset, FS_CardinalityType
<1>4. ASSUME NEW i \in P PROVE IsFiniteSet(upTo(i)) /\ rank[i] \in 1 .. size
  <2>1. upTo(i) \in SUBSET P /\ upTo(i) # {}
    BY <1>1
  <2>2. IsFiniteSet(upTo(i)) /\ Cardinality(upTo(i)) <= size
    BY <1>3, <2>1, FS_Subset
  <2>3. Cardinality(upTo(i)) \in Nat /\ Cardinality(upTo(i)) # 0
    BY <2>1, <2>2, FS_CardinalityType, FS_EmptySet
  <2> QED BY <1>3, <2>2, <2>3
<1>5. ASSUME NEW i \in P, NEW j \in P, i < j PROVE rank[i] # rank[j]
  <2>1. upTo(i) \in SUBSET upTo(j) /\ j \in upTo(j) /\ j \notin upTo(i)
    BY <1>1, <1>5
  <2>2. Cardinality(upTo(i)) # Cardinality(upTo(j))
    BY <1>4, <2>1, FS_Subset
  <2> QED BY <2>2
<1>6. \A i, j \in P : rank[i] = rank[j] => i = j
  <2> HIDE DEF rank
  <2> QED BY <1>1, <1>5
<1>7. rank \in Injection(P, 1 .. size)
  BY <1>4, <1>6 DEF Injection, IsInjective
<1>8. rank \in Surjection(P, 1 .. size)
  BY <1>3, <1>7, FS_Interval, FS_Injection
<1>9. ASSUME NEW n \in 1 .. size PROVE nth(n) \in P /\ rank[nth(n)] = n
  <2>1. PICK i \in P : rank[i] = n
    BY <1>8 DEF Surjection
  <2> QED BY <2>1
<1>10. Kept(s, P) = r
  BY DEF Kept
<1>11. DOMAIN r = 1 .. size /\ \A n \in 1 .. size : r[n] = s[nth(n)]
  OBVIOUS
<1> HIDE DEF nth, rank
<1>12. r \in Seq(S) /\ Len(r) = size
  <2>1. r \in [1 .. size -> S]
    BY <1>1, <1>9
  <2> QED BY <1>3, <2>1
<1>13. \A m, k \in DOMAIN r : (\A i, j \in P : r[m] = s[i] /\ r[k] = s[j] => i = j) => m = k
  BY <1>9, <1>11
<1> HIDE DEF r, size
<1> QED BY <1>3, <1>9, <1>10, <1>11, <1>12, <1>13

LEMMA KeptDict ==
  ASSUME NEW s, Dict(s), NEW P \in SUBSET DOMAIN s
  PROVE  /\ Dict(Kept(s, P)) /\ Len(Kept(s, P)) <= Len(s)
         /\ \A m \in DOMAIN Kept(s, P) : \E i \in P : Kept(s, P)[m] = s[i]
<1> DEFINE r == Kept(s, P)
<1>1. s \in Seq(Item) /\ \A i, j \in DOMAIN s : s[i].key = s[j].key => i = j
  BY DEF Dict
<1>2. /\ r \in Seq(Item) /\ Len(r) <= Len(s)
      /\ \A m \in DOMAIN r : \E i \in P : r[m] = s[i]
      /\ \A m, k \in DOMAIN r : (\A i, j \in P : r[m] = s[i] /\ r[k] = s[j] => i = j) => m = k
  BY <1>1, KeptFacts
<1> HIDE DEF r
<1>3. \A m, k \in DOMAIN r : r[m].key = r[k].key => m = k
  BY <1>1, <1>2
<1> QED BY <1>2, <1>3 DEF Dict, r

LEMMA TrimmedDict ==
  ASSUME CacheAssumption, NEW s, Dict(s)
  PROVE  /\ Dict(Trimmed(s)) /\ Len(Trimmed(s)) <= MaxItems
         /\ \A m \in DOMAIN Trimmed(s) : \E i \in DOMAIN s : Trimmed(s)[m] = s[i]
<1>1. /\ s \in Seq(Item) /\ (\A i, j \in DOMAIN s : s[i].key = s[j].key => i = j)
      /\ Len(s) \in Nat /\ DOMAIN s = 1 .. Len(s) /\ MaxItems \in Nat \ {0}
  BY DEF Dict, CacheAssumption
<1>2. CASE ~(Len(s) > MaxItems)
  BY <1>1, <1>2 DEF Trimmed
<1>3. CASE Len(s) > MaxItems
  <2> DEFINE d == Len(s) - MaxItems
             r == SubSeq(s, d + 1, Len(s))
  <2>1. d \in Nat /\ d + 1 \in 1 .. Len(s) + 1 /\ d + 1 <= Len(s) /\ Len(s) - (d + 1) + 1 = MaxItems
    BY <1>1, <1>3
  <2>2. \A i \in d + 1 .. Len(s) : s[i] \in Item
    BY <1>1, <2>1
  <2> HIDE DEF d
  <2>3. /\ r \in Seq(Item) /\ Len(r) = MaxItems
        /\ \A m \in 1 .. MaxItems : r[m] = s[d + m]
    <3>1. /\ r \in Seq(Item) /\ Len(r) = Len(s) - (d + 1) + 1
          /\ \A m \in 1 .. Len(s) - (d + 1) + 1 : r[m] = s[d + 1 + m - 1]
      BY <1>1, <2>1, <2>2, SubSeqProperties
    <3>2. \A m \in 1 .. MaxItems : d + 1 + m - 1 = d + m
      BY <1>1, <2>1
    <3> QED BY <2>1, <3>1, <3>2
  <2>4. \A m \in 1 .. MaxItems : d + m \in DOMAIN s
    BY <1>1, <2>1
  <2> HIDE DEF r
  <2>5. DOMAIN r = 1 .. MaxItems
    BY <1>1, <2>3
  <2>6. ASSUME NEW m \in DOMAIN r, NEW k \in DOMAIN r, r[m].key = r[k].key PROVE m = k
    <3>1. s[d + m].key = s[d + k].key /\ d + m \in DOMAIN s /\ d + k \in DOMAIN s
      BY <2>3, <2>4, <2>5, <2>6
    <3>2. d + m = d + k
      BY <1>1, <3>1
    <3> QED BY <1>1, <2>1, <2>5, <3>2
  <2>7. \A m \in DOMAIN r : \E i \in DOMAIN s : r[m] = s[i]
    BY <2>3, <2>4, <2>5
  <2>8. Trimmed(s) = r
    BY <1>3 DEF Trimmed, r, d
  <2> QED BY <1>1, <2>3, <2>6, <2>7, <2>8 DEF Dict
<1> QED BY <1>2, <1>3

LEMMA AppendDict ==
  ASSUME NEW s, Dict(s), NEW e \in Item, \A i \in DOMAIN s : s[i].key # e.key
  PROVE  /\ Dict(Append(s, e))
         /\ \A m \in DOMAIN Append(s, e) : Append(s, e)[m] = e \/ \E i \in DOMAIN s : Append(s, e)[m] = s[i]
<1> DEFINE r == Append(s, e)
<1>1. /\ s \in Seq(Item) /\ (\A i, j \in DOMAIN s : s[i].key = s[j].key => i = j)
      /\ Len(s) \in Nat /\ DOMAIN s = 1 .. Len(s)
  BY DEF Dict
<1>2. /\ r \in Seq(Item) /\ Len(r) = Len(s) + 1 /\ r[Len(s) + 1] = e
      /\ \A i \in 1 .. Len(s) : r[i] = s[i]
  BY <1>1, AppendProperties
<1> HIDE DEF r
<1>3. DOMAIN r = 1 .. Len(s) + 1
  BY <1>1, <1>2
<1>4. \A m, k \in DOMAIN r : r[m].key = r[k].key => m = k
  BY <1>1, <1>2, <1>3
<1>5. \A m \in DOMAIN r : r[m] = e \/ \E i \in DOMAIN s : r[m] = s[i]
  BY <1>1, <1>2, <1>3
<1> QED BY <1>2, <1>4, <1>5 DEF Dict, r

LEMMA CacheInvInit == CacheAssumption /\ CacheInit => CacheInv
<1> SUFFICES ASSUME CacheAssumption, CacheInit PROVE CacheInv
  OBVIOUS
<1>1. {MaxClock, MaxVersion, MaxItems, Ttl, MaxRead} \subseteq Nat
  BY DEF CacheAssumption
<1>2. items \in Seq(Item) /\ Len(items) = 0 /\ DOMAIN items = {}
  BY EmptySeq DEF CacheInit
<1>3. Free \in ListRequest
  BY <1>1 DEF Free, ListRequest
<1>4. CacheTypeOK
  BY <1>1, <1>2, <1>3 DEF CacheInit, CacheTypeOK, Item, ListRequest
<1>5. \A t \in Server : RequestHolds(server[t])
  BY <1>1 DEF CacheInit, RequestHolds, Free
<1> QED BY <1>2, <1>4, <1>5 DEF CacheInv

LEMMA CacheFacts ==
  ASSUME CacheAssumption, CacheInv
  PROVE  /\ Dict(items) /\ Len(items) <= MaxItems /\ sweepAt \in Nat
         /\ server \in [Server -> ListRequest]
         /\ clock \in 0 .. MaxClock /\ version \in 0 .. MaxVersion
         /\ endedAt \in [0 .. MaxVersion -> 0 .. MaxClock]
         /\ Ttl \in Nat \ {0} /\ SweepEvery \in Nat \ {0}
         /\ MaxRead \in Nat /\ MaxClock \in Nat /\ MaxVersion \in Nat /\ NoKey \notin ListKey
  BY DEF CacheInv, CacheTypeOK, Dict, Item, ListRequest, CacheAssumption

LEMMA DictTypes ==
  ASSUME Dict(items), Len(items) <= MaxItems, sweepAt \in Nat, server \in [Server -> ListRequest],
         clock \in 0 .. MaxClock, version \in 0 .. MaxVersion, endedAt \in [0 .. MaxVersion -> 0 .. MaxClock]
  PROVE  CacheTypeOK
  BY DEF CacheTypeOK, Dict, Item, ListRequest

\* A thread goes on, and what the cache then holds are items that hold now.
LEMMA ServeStep ==
  ASSUME CacheAssumption, CacheInv, NEW t \in Server, NEW r \in ListRequest, NEW s,
         server' = [server EXCEPT ![t] = r], items' = s, sweepAt' \in Nat,
         UNCHANGED <<clock, version, endedAt>>,
         server[t].at # "changed", r.at # "changed", RequestHolds(r),
         Dict(s), Len(s) <= MaxItems, \A m \in DOMAIN s : ItemHolds(s[m])
  PROVE  CacheInv'
<1>1. server' \in [Server -> ListRequest] /\ server'[t] = r /\ \A u \in Server \ {t} : server'[u] = server[u]
  BY CacheFacts
<1>2. Changing' <=> Changing
  BY <1>1 DEF Changing, Serves
<1>3. CacheTypeOK'
  BY <1>1, CacheFacts, DictTypes DEF Dict, CacheTypeOK, Item, ListRequest
<1>4. \A m \in DOMAIN items' : ItemHolds(items[m])'
  BY <1>2 DEF ItemHolds
<1>5. ASSUME NEW u \in Server PROVE RequestHolds(server[u])'
  <2>1. CASE u = t
    BY <1>1, <1>2, <2>1 DEF RequestHolds
  <2>2. CASE u # t
    BY <1>1, <1>2, <2>2 DEF CacheInv, RequestHolds
  <2> QED BY <2>1, <2>2
<1> QED BY <1>3, <1>4, <1>5 DEF CacheInv

\* A sweep leaves items of before, and those that have not expired.
LEMMA SweptFacts ==
  ASSUME CacheAssumption, CacheInv
  PROVE  /\ Dict(Swept) /\ Len(Swept) <= MaxItems
         /\ \A m \in DOMAIN Swept : ItemHolds(Swept[m])
         /\ Sweeps => sweepAt' \in Nat
<1>1. Dict(items) /\ Len(items) <= MaxItems /\ Len(items) \in Nat /\ \A i \in DOMAIN items : ItemHolds(items[i])
  BY CacheFacts DEF CacheInv, Dict
<1>2. MaxItems \in Nat
  BY DEF CacheAssumption
<1>3. CASE clock < sweepAt
  BY <1>1, <1>3, CacheFacts DEF Swept, Sweeps
<1>4. CASE ~(clock < sweepAt)
  <2> DEFINE P == {i \in DOMAIN items : items[i].expires > clock}
  <2>1. Swept = Kept(items, P) /\ P \in SUBSET DOMAIN items
    BY <1>4 DEF Swept
  <2> HIDE DEF P
  <2>2. /\ Dict(Swept) /\ Len(Swept) <= Len(items)
        /\ \A m \in DOMAIN Swept : \E i \in P : Swept[m] = items[i]
    BY <1>1, <2>1, KeptDict
  <2>3. \A m \in DOMAIN Swept : ItemHolds(Swept[m])
    BY <1>1, <2>1, <2>2
  <2>4. Len(Swept) <= MaxItems
    BY <1>1, <1>2, <2>2 DEF Dict
  <2>5. Sweeps => sweepAt' \in Nat
    BY <1>4, CacheFacts DEF Sweeps
  <2> QED BY <2>2, <2>3, <2>4, <2>5
<1> QED BY <1>3, <1>4

\* What is dropped is the item of one key.
LEMMA WithoutFacts ==
  ASSUME CacheAssumption, CacheInv, NEW k
  PROVE  LET s == Without(Swept, k)
         IN  /\ Dict(s) /\ Len(s) <= MaxItems
             /\ \A m \in DOMAIN s : ItemHolds(s[m]) /\ s[m].key # k
<1> DEFINE s == Without(Swept, k)
           P == {i \in DOMAIN Swept : Swept[i].key # k}
<1>1. Dict(Swept) /\ Len(Swept) <= MaxItems /\ Len(Swept) \in Nat /\ \A i \in DOMAIN Swept : ItemHolds(Swept[i])
  BY SweptFacts DEF Dict
<1>2. s = Kept(Swept, P) /\ P \in SUBSET DOMAIN Swept /\ \A i \in P : Swept[i].key # k
  BY DEF Without
<1> HIDE DEF P, s
<1>3. Dict(s) /\ Len(s) <= Len(Swept) /\ \A m \in DOMAIN s : \E i \in P : s[m] = Swept[i]
  BY <1>1, <1>2, KeptDict
<1>4. \A m \in DOMAIN s : ItemHolds(s[m]) /\ s[m].key # k
  BY <1>1, <1>2, <1>3
<1>5. Len(s) <= MaxItems
  BY <1>1, <1>3 DEF Dict, CacheAssumption
<1> QED BY <1>3, <1>4, <1>5 DEF s

LEMMA FreeHolds ==
  ASSUME CacheAssumption, CacheInv
  PROVE  /\ Free \in ListRequest /\ RequestHolds(Free) /\ Free.at # "changed"
         /\ Free.key = NoKey /\ Free.value = 0 /\ Free.late = FALSE
  BY CacheFacts DEF Free, ListRequest, RequestHolds

LEMMA GetInv ==
  ASSUME CacheAssumption, CacheInv, NEW t \in Server, NEW k \in ListKey, Get(t, k)
  PROVE  CacheInv'
<1> DEFINE live == {i \in ToSet(Swept) : i.key = k /\ i.expires > clock}
<1>1. server[t].at = "free" /\ sweepAt' \in Nat /\ UNCHANGED <<clock, version, endedAt>>
  BY SweptFacts DEF Get, Serves
<1>2. CASE live = {}
  <2> DEFINE r == [at |-> "miss", key |-> k, value |-> 0, since |-> clock, late |-> FALSE]
             s == Without(Swept, k)
  <2>1. server' = [server EXCEPT ![t] = [Free EXCEPT !.at = "miss", !.key = k, !.since = clock]] /\ items' = s
    BY <1>2 DEF Get
  <2>2. [Free EXCEPT !.at = "miss", !.key = k, !.since = clock] = r
    <3>1. PICK q : q = [Free EXCEPT !.at = "miss", !.key = k, !.since = clock]
      OBVIOUS
    <3>2. q = r
      BY <3>1, FreeHolds DEF ListRequest
    <3> QED BY <3>1, <3>2
  <2>3. r \in ListRequest
    BY CacheFacts DEF ListRequest
  <2>4. RequestHolds(r)
    BY CacheFacts DEF RequestHolds
  <2>5. r.at # "changed"
    OBVIOUS
  <2> HIDE DEF r, s
  <2>6. Dict(s) /\ Len(s) <= MaxItems /\ \A m \in DOMAIN s : ItemHolds(s[m])
    BY WithoutFacts DEF s
  <2>7. server' = [server EXCEPT ![t] = r]
    BY <2>1, <2>2
  <2> QED BY <1>1, <2>1, <2>3, <2>4, <2>5, <2>6, <2>7, ServeStep
<1>3. CASE live # {}
  <2> DEFINE i == CHOOSE x \in live : TRUE
             r == [at |-> "hit", key |-> NoKey, value |-> i.value, since |-> clock, late |-> FALSE]
  <2>1. /\ server' = [server EXCEPT ![t] = [Free EXCEPT !.at = "hit", !.since = clock, !.value = i.value]]
        /\ items' = Swept
    BY <1>3 DEF Get
  <2>2. i \in ToSet(Swept) /\ i.expires > clock
    BY <1>3
  <2> HIDE DEF i, live
  <2>3. [Free EXCEPT !.at = "hit", !.since = clock, !.value = i.value] = r
    <3>1. PICK q : q = [Free EXCEPT !.at = "hit", !.since = clock, !.value = i.value]
      OBVIOUS
    <3>2. q = r
      BY <3>1, FreeHolds DEF ListRequest
    <3> QED BY <3>1, <3>2
  <2>4. i \in Item /\ ItemHolds(i)
    BY <2>2, SweptFacts DEF Dict, ToSet
  <2>5. r \in ListRequest
    BY <2>4, CacheFacts DEF ListRequest, Item
  <2>6. i.value < version => clock - endedAt[i.value] < Ttl + MaxRead
    <3>1. i.value \in 0 .. MaxVersion /\ i.expires \in Nat
      BY <2>4 DEF Item
    <3>2. endedAt[i.value] \in 0 .. MaxClock
      BY <3>1, CacheFacts
    <3>3. i.value < version => i.expires <= endedAt[i.value] + Ttl + MaxRead
      BY <2>4 DEF ItemHolds
    <3> QED BY <2>2, <3>1, <3>2, <3>3, CacheFacts
  <2>7. RequestHolds(r)
    BY <2>4, <2>6, CacheFacts DEF RequestHolds, ItemHolds
  <2>8. r.at # "changed"
    OBVIOUS
  <2> HIDE DEF r
  <2>9. server' = [server EXCEPT ![t] = r]
    BY <2>1, <2>3
  <2> QED BY <1>1, <2>1, <2>5, <2>7, <2>8, <2>9, SweptFacts, ServeStep
<1> QED BY <1>2, <1>3

\* What does not touch the cache.
LEMMA IdleStep ==
  ASSUME CacheAssumption, CacheInv, NEW t \in Server, NEW r \in ListRequest,
         server' = [server EXCEPT ![t] = r], UNCHANGED <<clock, version, endedAt, items, sweepAt>>,
         server[t].at # "changed", r.at # "changed", RequestHolds(r)
  PROVE  CacheInv'
<1>1. Dict(items) /\ Len(items) <= MaxItems /\ sweepAt \in Nat /\ \A m \in DOMAIN items : ItemHolds(items[m])
  BY CacheFacts DEF CacheInv
<1>2. PICK s : s = items
  OBVIOUS
<1>3. Dict(s) /\ Len(s) <= MaxItems /\ items' = s /\ sweepAt' \in Nat /\ \A m \in DOMAIN s : ItemHolds(s[m])
  BY <1>1, <1>2
<1> QED BY <1>3, ServeStep

LEMMA AnswerInv == ASSUME CacheAssumption, CacheInv, NEW t \in Server, Answer(t) PROVE CacheInv'
  BY FreeHolds, IdleStep DEF Answer, Serves

LEMMA LoadListInv == ASSUME CacheAssumption, CacheInv, NEW t \in Server, LoadList(t) PROVE CacheInv'
<1> DEFINE w == server[t]
           r == [at |-> "loaded", key |-> w.key, value |-> version, since |-> w.since, late |-> w.late]
<1>1. w \in ListRequest /\ w.at = "miss" /\ RequestHolds(w)
  BY CacheFacts DEF LoadList, Serves, CacheInv
<1>2. UNCHANGED <<clock, version, endedAt, items, sweepAt>>
  BY DEF LoadList
<1>3. server' = [server EXCEPT ![t] = r]
  <2>1. PICK q : q = [w EXCEPT !.at = "loaded", !.value = version]
    OBVIOUS
  <2>2. server' = [server EXCEPT ![t] = q]
    BY <2>1, CacheFacts DEF LoadList
  <2> HIDE DEF w
  <2>3. q = r
    BY <1>1, <2>1 DEF ListRequest
  <2> QED BY <2>2, <2>3
<1>4. r \in ListRequest
  BY <1>1, CacheFacts DEF ListRequest
<1>5. RequestHolds(r)
  BY <1>1, CacheFacts DEF RequestHolds
<1> HIDE DEF w, r
<1>6. r.at # "changed" /\ w.at # "changed"
  BY <1>1 DEF r
<1> QED BY <1>2, <1>3, <1>4, <1>5, <1>6, IdleStep DEF w

LEMMA SetInv == ASSUME CacheAssumption, CacheInv, NEW t \in Server, Set(t) PROVE CacheInv'
<1> DEFINE w == server[t]
           e == [key |-> w.key, value |-> w.value, expires |-> clock + Ttl, late |-> w.late]
           kept == Without(Swept, w.key)
           more == Append(kept, e)
           s == Trimmed(more)
<1>1. /\ w \in ListRequest /\ w.at = "loaded" /\ RequestHolds(w) /\ items' = s /\ sweepAt' \in Nat
      /\ server' = [server EXCEPT ![t] = Free] /\ UNCHANGED <<clock, version, endedAt>>
  BY CacheFacts, SweptFacts DEF Set, Serves, CacheInv
<1>2. e \in Item
  BY <1>1, CacheFacts DEF Item, ListRequest, RequestHolds
<1>3. ItemHolds(e)
  <2>1. w.value \in 0 .. MaxVersion /\ w.since \in 0 .. MaxClock /\ endedAt[w.value] \in 0 .. MaxClock
    BY <1>1, CacheFacts DEF ListRequest
  <2>2. /\ w.value <= version /\ (w.value = version \/ w.late \/ Changing)
        /\ w.value < version => w.since <= endedAt[w.value]
        /\ clock <= w.since + MaxRead
    BY <1>1 DEF RequestHolds
  <2>3. w.value < version => clock + Ttl <= endedAt[w.value] + Ttl + MaxRead
    BY <2>1, <2>2, CacheFacts
  <2>4. clock + Ttl <= clock + Ttl
    BY CacheFacts
  <2> QED BY <2>2, <2>3, <2>4 DEF ItemHolds
<1>4. e.key = w.key
  OBVIOUS
<1> HIDE DEF e, w
<1>5. Dict(kept) /\ \A m \in DOMAIN kept : ItemHolds(kept[m]) /\ kept[m].key # e.key
  BY <1>4, WithoutFacts
<1> HIDE DEF kept
<1>6. Dict(more) /\ \A m \in DOMAIN more : more[m] = e \/ \E i \in DOMAIN kept : more[m] = kept[i]
  BY <1>2, <1>5, AppendDict
<1>7. \A m \in DOMAIN more : ItemHolds(more[m])
  BY <1>3, <1>5, <1>6
<1> HIDE DEF more
<1>8. Dict(s) /\ Len(s) <= MaxItems /\ \A m \in DOMAIN s : \E i \in DOMAIN more : s[m] = more[i]
  BY <1>6, TrimmedDict
<1> HIDE DEF s
<1>9. \A m \in DOMAIN s : ItemHolds(s[m])
  BY <1>7, <1>8
<1>10. server[t].at # "changed"
  BY <1>1 DEF w
<1> QED BY <1>1, <1>8, <1>9, <1>10, FreeHolds, ServeStep

\* A change makes the lists out of date, and its thread is about to empty the cache.
LEMMA ChangeInv == ASSUME CacheAssumption, CacheInv, NEW t \in Server, Change(t) PROVE CacheInv'
<1> DEFINE r == [at |-> "changed", key |-> NoKey, value |-> 0, since |-> clock, late |-> FALSE]
<1>1. /\ version < MaxVersion /\ version' = version + 1 /\ endedAt' = [endedAt EXCEPT ![version] = clock]
      /\ server' = [server EXCEPT ![t] = [Free EXCEPT !.at = "changed", !.since = clock]]
      /\ UNCHANGED <<clock, items, sweepAt>>
  BY DEF Change
<1>2. [Free EXCEPT !.at = "changed", !.since = clock] = r
  <2>1. PICK q : q = [Free EXCEPT !.at = "changed", !.since = clock]
    OBVIOUS
  <2>2. q = r
    BY <2>1, FreeHolds DEF ListRequest
  <2> QED BY <2>1, <2>2
<1>3. r \in ListRequest /\ r.at = "changed"
  BY CacheFacts DEF ListRequest
<1>4. server' \in [Server -> ListRequest] /\ server'[t] = r /\ \A u \in Server \ {t} : server'[u] = server[u]
  BY <1>1, <1>2, <1>3, CacheFacts
<1>5. Changing'
  BY <1>3, <1>4 DEF Changing, Serves
<1>6. /\ version' \in 0 .. MaxVersion /\ endedAt' \in [0 .. MaxVersion -> 0 .. MaxClock]
      /\ endedAt'[version] = clock /\ \A v \in 0 .. MaxVersion : v # version => endedAt'[v] = endedAt[v]
  BY <1>1, CacheFacts
<1>7. CacheTypeOK'
  BY <1>1, <1>4, <1>6, CacheFacts DEF CacheTypeOK, CacheInv, Item, ListRequest
<1>8. ASSUME NEW m \in DOMAIN items PROVE ItemHolds(items[m])'
  <2>1. PICK i \in Item : i = items[m] /\ ItemHolds(i)
    BY CacheFacts DEF CacheInv, Dict
  <2>2. i.value \in 0 .. MaxVersion /\ i.expires \in Nat
    BY <2>1 DEF Item
  <2>3. i.value <= version /\ i.expires <= clock + Ttl
        /\ (i.value < version => i.expires <= endedAt[i.value] + Ttl + MaxRead)
    BY <2>1 DEF ItemHolds
  <2>4. i.value <= version' /\ i.expires <= clock' + Ttl
    BY <1>1, <2>2, <2>3, CacheFacts
  <2>5. i.expires <= endedAt'[i.value] + Ttl + MaxRead
    <3>1. CASE i.value = version
      BY <1>6, <2>2, <2>3, <3>1, CacheFacts
    <3>2. CASE i.value # version
      <4>1. i.value < version /\ endedAt'[i.value] = endedAt[i.value]
        BY <1>6, <2>2, <2>3, <3>2, CacheFacts
      <4> QED BY <2>3, <4>1
    <3> QED BY <3>1, <3>2
  <2> QED BY <1>1, <1>5, <2>1, <2>4, <2>5 DEF ItemHolds
<1>9. ASSUME NEW u \in Server PROVE RequestHolds(server[u])'
  <2>1. CASE u = t
    <3>1. server'[u] = r
      BY <1>4, <2>1
    <3>2. r.value <= version' /\ r.since <= clock' /\ clock' <= r.since + MaxRead
      BY <1>1, CacheFacts
    <3> QED BY <3>1, <3>2 DEF RequestHolds
  <2>2. CASE u # t
    <3>1. PICK q \in ListRequest : q = server[u] /\ RequestHolds(q)
      BY CacheFacts DEF CacheInv
    <3>2. q.value \in 0 .. MaxVersion /\ q.since \in 0 .. MaxClock /\ server'[u] = q
      BY <1>4, <2>2, <3>1 DEF ListRequest
    <3>3. q.value <= version' /\ (q.at \in {"miss", "loaded"} => q.key \in ListKey)
      BY <1>1, <3>1, <3>2, CacheFacts DEF RequestHolds
    <3>4. q.at # "free" => q.since <= clock' /\ clock' <= q.since + MaxRead
      BY <1>1, <3>1 DEF RequestHolds
    <3>5. q.at = "loaded" /\ q.value < version' => q.since <= endedAt'[q.value]
      BY <1>6, <3>1, <3>2, CacheFacts DEF RequestHolds
    <3>6. q.at = "hit" /\ q.value < version' => q.since - endedAt'[q.value] < Ttl + MaxRead
      <4> SUFFICES ASSUME q.at = "hit" PROVE q.value < version' => q.since - endedAt'[q.value] < Ttl + MaxRead
        OBVIOUS
      <4>1. CASE q.value = version
        BY <1>1, <1>6, <3>2, <3>4, <4>1, CacheFacts
      <4>2. CASE q.value # version
        <5>1. q.value < version /\ endedAt'[q.value] = endedAt[q.value]
          BY <1>6, <3>1, <3>2, <4>2, CacheFacts DEF RequestHolds
        <5> QED BY <3>1, <5>1 DEF RequestHolds
      <4> QED BY <4>1, <4>2
    <3> QED BY <1>5, <3>2, <3>3, <3>4, <3>5, <3>6 DEF RequestHolds
  <2> QED BY <2>1, <2>2
<1> QED BY <1>1, <1>7, <1>8, <1>9 DEF CacheInv

\* The cache is emptied; what is being loaded is known to be late.
LEMMA InvalidateInv == ASSUME CacheAssumption, CacheInv, NEW t \in Server, Invalidate(t) PROVE CacheInv'
<1>1. /\ items' = << >> /\ UNCHANGED <<clock, version, endedAt, sweepAt>>
      /\ server' = [u \in Server |-> IF u = t THEN Free ELSE [server[u] EXCEPT !.late = Serves(u, "loaded")]]
  BY DEF Invalidate
<1>2. ASSUME NEW u \in Server, u # t
      PROVE  \E q \in ListRequest : /\ server'[u] = q /\ q.at = server[u].at /\ q.key = server[u].key
                                    /\ q.value = server[u].value /\ q.since = server[u].since
                                    /\ q.at = "loaded" => q.late
  <2>1. PICK l \in BOOLEAN : l = Serves(u, "loaded")
    BY DEF Serves
  <2>2. server'[u] = [server[u] EXCEPT !.late = l]
    BY <1>1, <1>2, <2>1
  <2>3. server[u] \in ListRequest
    BY CacheFacts
  <2> DEFINE q == [at |-> server[u].at, key |-> server[u].key, value |-> server[u].value,
                   since |-> server[u].since, late |-> l]
  <2>4. server'[u] = q /\ q \in ListRequest
    BY <2>2, <2>3 DEF ListRequest
  <2> QED BY <2>1, <2>4 DEF Serves
<1>3. server'[t] = Free
  BY <1>1
<1>4. server' \in [Server -> ListRequest]
  <2>1. \A u \in Server : server'[u] \in ListRequest
    BY <1>2, <1>3, FreeHolds
  <2>2. server' = [u \in Server |-> server'[u]]
    BY <1>1
  <2> QED BY <2>1, <2>2
<1>5. items' \in Seq(Item) /\ Len(items') = 0 /\ DOMAIN items' = {}
  BY <1>1, EmptySeq
<1>6. CacheTypeOK'
  BY <1>1, <1>4, <1>5, CacheFacts DEF CacheTypeOK, Item, ListRequest, CacheAssumption
<1>7. ASSUME NEW u \in Server PROVE RequestHolds(server[u])'
  <2>1. CASE u = t
    <3>1. RequestHolds(Free) /\ Free.at # "loaded"
      BY FreeHolds DEF Free
    <3> QED BY <1>1, <1>3, <2>1, <3>1 DEF RequestHolds
  <2>2. CASE u # t
    <3>1. RequestHolds(server[u])
      BY DEF CacheInv
    <3> QED BY <1>1, <1>2, <2>2, <3>1 DEF RequestHolds
  <2> QED BY <2>1, <2>2
<1> QED BY <1>5, <1>6, <1>7 DEF CacheInv

\* Time passes while no request is at its end.
LEMMA CacheTickInv == CacheAssumption /\ CacheInv /\ CacheTick => CacheInv'
<1> SUFFICES ASSUME CacheAssumption, CacheInv, CacheTick PROVE CacheInv'
  OBVIOUS
<1>1. /\ clock < MaxClock /\ clock' = clock + 1 /\ UNCHANGED <<version, endedAt, items, sweepAt, server>>
      /\ \A t \in Server : server[t].at = "free" \/ clock < server[t].since + MaxRead
  BY DEF CacheTick, Serves
<1>2. clock' \in 0 .. MaxClock
  BY <1>1, CacheFacts
<1>3. CacheTypeOK'
  BY <1>1, <1>2 DEF CacheTypeOK, CacheInv
<1>4. Changing' <=> Changing
  BY <1>1 DEF Changing, Serves
<1>5. ASSUME NEW m \in DOMAIN items PROVE ItemHolds(items[m])'
  <2>1. PICK i \in Item : i = items[m] /\ ItemHolds(i)
    BY CacheFacts DEF CacheInv, Dict
  <2>2. i.expires \in Nat /\ i.expires <= clock + Ttl
    BY <2>1 DEF Item, ItemHolds
  <2>3. i.expires <= clock' + Ttl
    BY <1>1, <2>2, CacheFacts
  <2> QED BY <1>1, <1>4, <2>1, <2>3 DEF ItemHolds
<1>6. ASSUME NEW u \in Server PROVE RequestHolds(server[u])'
  <2>1. PICK q \in ListRequest : q = server[u] /\ RequestHolds(q)
    BY CacheFacts DEF CacheInv
  <2>2. q.since \in 0 .. MaxClock
    BY <2>1 DEF ListRequest
  <2>3. q.at # "free" => q.since <= clock' /\ clock' <= q.since + MaxRead
    BY <1>1, <2>1, <2>2, CacheFacts DEF RequestHolds
  <2> QED BY <1>1, <1>4, <2>1, <2>3 DEF RequestHolds
<1> QED BY <1>1, <1>3, <1>5, <1>6 DEF CacheInv

LEMMA CacheInvNext == CacheAssumption /\ CacheInv /\ [CacheNext]_cacheVars => CacheInv'
<1> SUFFICES ASSUME CacheAssumption, CacheInv, [CacheNext]_cacheVars PROVE CacheInv'
  OBVIOUS
<1>1. ASSUME NEW t \in Server, NEW k \in ListKey, Get(t, k) PROVE CacheInv'
  BY <1>1, GetInv
<1>2. ASSUME NEW t \in Server, Answer(t) \/ LoadList(t) \/ Set(t) \/ Change(t) \/ Invalidate(t) PROVE CacheInv'
  BY <1>2, AnswerInv, LoadListInv, SetInv, ChangeInv, InvalidateInv
<1>3. CASE CacheTick
  BY <1>3, CacheTickInv
<1>4. CASE UNCHANGED cacheVars
  BY <1>4 DEF cacheVars, CacheInv, CacheTypeOK, ItemHolds, RequestHolds, Changing, Serves
<1> QED BY <1>1, <1>2, <1>3, <1>4 DEF CacheNext

\* A cached list is out of date only while a change is about to empty the cache, or if it
\* was being loaded when one did; and none is served for longer than the time to live
\* and the time a read takes after it went out of date: for every set of keys and
\* threads, every capacity, time to live and pace of sweeping (MemoryCache, list_pcs).
THEOREM CacheAlwaysHolds == CacheSpec => []CacheHolds
<1> QED BY CacheAssumption, CacheInvInit, CacheInvNext, CacheInvHolds, PTL DEF CacheSpec
=============================================================================
