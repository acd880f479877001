---------------------------- MODULE UptimeProofs ----------------------------
(***************************************************************************)
(* What the uptime figures say and what the days drawn from them show, for *)
(* every number of requests, every length of days, history and retention.  *)
(* Sums over sets are counted as sizes of unions of disjoint sets.         *)
(***************************************************************************)
EXTENDS UptimeHistory, TimelineDays, FiniteSetTheorems, WellFoundedInduction, TLAPS

LEMMA LeastNatural ==
  ASSUME NEW S \in SUBSET Nat, S # {}
  PROVE  \E x \in S : \A y \in S : x <= y
<1>1. PICK x \in S : \A y \in S : ~(<<y, x>> \in OpToRel(<, Nat))
  BY NatLessThanWellFounded, WFMin
<1>2. \A y \in S : ~(y < x)
  BY <1>1 DEF OpToRel
<1> QED BY <1>2

-----------------------------------------------------------------------------
(* Sums. *)

\* The elements of some of the parts.
Joined(part, s) == UNION {part[x] : x \in s}

LEMMA JoinedFinite ==
  ASSUME NEW D, IsFiniteSet(D), NEW part, \A x \in D : IsFiniteSet(part[x]), NEW s \in SUBSET D
  PROVE  IsFiniteSet(Joined(part, s)) /\ Cardinality(Joined(part, s)) \in Nat
<1>1. IsFiniteSet(s)
  BY FS_Subset
<1>2. IsFiniteSet({part[x] : x \in s})
  <2> DEFINE f == [x \in s |-> part[x]]
             T == {part[x] : x \in s}
  <2>1. f \in Surjection(s, T)
    BY DEF Surjection
  <2> QED BY <1>1, <2>1, FS_Surjection
<1>3. \A T \in {part[x] : x \in s} : IsFiniteSet(T)
  OBVIOUS
<1>4. IsFiniteSet(UNION {part[x] : x \in s})
  BY <1>2, <1>3, FS_UNION
<1> QED BY <1>4, FS_CardinalityType DEF Joined

LEMMA OnePartMore ==
  ASSUME NEW D, IsFiniteSet(D), NEW part, \A x \in D : IsFiniteSet(part[x]),
         \A x, y \in D : x # y => part[x] \cap part[y] = {},
         NEW s \in SUBSET D, NEW x \in s
  PROVE  Cardinality(Joined(part, s)) = Cardinality(part[x]) + Cardinality(Joined(part, s \ {x}))
<1>1. Joined(part, s) = part[x] \cup Joined(part, s \ {x})
  BY DEF Joined
<1>2. part[x] \cap Joined(part, s \ {x}) = {}
  BY DEF Joined
<1>3. IsFiniteSet(Joined(part, s \ {x})) /\ Cardinality(Joined(part, s \ {x})) \in Nat
  BY JoinedFinite, s \ {x} \in SUBSET D
<1>4. Cardinality(part[x]) \in Nat /\ IsFiniteSet(part[x])
  BY FS_CardinalityType
<1>5. Cardinality(part[x] \cup Joined(part, s \ {x})) =
        Cardinality(part[x]) + Cardinality(Joined(part, s \ {x}))
          - Cardinality(part[x] \cap Joined(part, s \ {x}))
  BY <1>3, <1>4, FS_Union
<1>6. Cardinality({}) = 0
  BY FS_EmptySet
<1>7. Cardinality(part[x] \cap Joined(part, s \ {x})) = 0
  BY <1>2, <1>6
<1> QED BY <1>1, <1>3, <1>4, <1>5, <1>7

\* A sum over a set, element by element in the order of CHOOSE.
Adds(f, g) ==
  g = [s \in SUBSET DOMAIN f |-> IF s = {} THEN 0
                                 ELSE f[CHOOSE x \in s : TRUE] + g[s \ {CHOOSE x \in s : TRUE}]]

LEMMA SumAdds ==
  ASSUME NEW f, NEW g, Adds(f, g)
  PROVE  \E h : Adds(f, h) /\ SumFunction(f) = h[DOMAIN f]
<1> DEFINE h == CHOOSE h : Adds(f, h)
<1>1. SumFunction(f) = h[DOMAIN f]
  BY DEF SumFunction, SumFunctionOnSet, FoldFunctionOnSet, MapThenFoldSet, Adds
<1>2. Adds(f, h)
  OBVIOUS
<1> QED BY <1>1, <1>2

\* The sum of the sizes of disjoint sets is the size of their union.
LEMMA SumOfParts ==
  ASSUME NEW D, IsFiniteSet(D), NEW part, \A x \in D : IsFiniteSet(part[x]),
         \A x, y \in D : x # y => part[x] \cap part[y] = {}
  PROVE  SumFunction([x \in D |-> Cardinality(part[x])]) = Cardinality(Joined(part, D))
<1> DEFINE f == [x \in D |-> Cardinality(part[x])]
           g == [s \in SUBSET D |-> Cardinality(Joined(part, s))]
<1>1. DOMAIN f = D
  OBVIOUS
<1>2. Joined(part, {}) = {} /\ Cardinality({}) = 0
  BY FS_EmptySet DEF Joined
<1>g. \A s \in SUBSET D : g[s] = Cardinality(Joined(part, s))
  OBVIOUS
<1>f. \A x \in D : f[x] = Cardinality(part[x])
  OBVIOUS
<1>3. ASSUME NEW s \in SUBSET D, s # {}
      PROVE  g[s] = f[CHOOSE x \in s : TRUE] + g[s \ {CHOOSE x \in s : TRUE}]
  <2>1. (CHOOSE x \in s : TRUE) \in s
    BY <1>3
  <2>0. PICK c \in s : c = CHOOSE x \in s : TRUE
    BY <2>1
  <2>2. Cardinality(Joined(part, s)) = Cardinality(part[c]) + Cardinality(Joined(part, s \ {c}))
    BY OnePartMore
  <2>3. s \ {c} \in SUBSET D /\ c \in D
    OBVIOUS
  <2>4. f[c] = Cardinality(part[c]) /\ g[s] = Cardinality(Joined(part, s))
        /\ g[s \ {c}] = Cardinality(Joined(part, s \ {c}))
    BY <1>f, <1>g, <2>3
  <2> HIDE DEF f, g
  <2> QED BY <2>0, <2>2, <2>4
<1>4. Adds(f, g)
  BY <1>1, <1>2, <1>3 DEF Adds
<1>5. PICK h : Adds(f, h) /\ SumFunction(f) = h[DOMAIN f]
  BY <1>4, SumAdds
<1> HIDE DEF f, g
<1>6. ASSUME NEW s \in SUBSET D, s # {}
      PROVE  h[s] = f[CHOOSE x \in s : TRUE] + h[s \ {CHOOSE x \in s : TRUE}]
  BY <1>1, <1>5, <1>6 DEF Adds
<1>7. h[{}] = 0 /\ g[{}] = 0
  BY <1>1, <1>2, <1>5 DEF Adds, g
<1> DEFINE Wrong == {n \in Nat : \E s \in SUBSET D : Cardinality(s) = n /\ h[s] # g[s]}
<1>8. Wrong = {}
  <2> SUFFICES ASSUME Wrong # {} PROVE FALSE
    OBVIOUS
  <2>1. PICK n \in Wrong : \A m \in Wrong : n <= m
    BY LeastNatural, Wrong \in SUBSET Nat, Zenon
  <2>2. PICK s \in SUBSET D : Cardinality(s) = n /\ h[s] # g[s]
    OBVIOUS
  <2>3. s # {}
    BY <2>2, <1>7
  <2>4. PICK c \in s : c = CHOOSE x \in s : TRUE
    BY <2>3
  <2>5. h[s] = f[c] + h[s \ {c}] /\ g[s] = f[c] + g[s \ {c}]
    BY <1>3, <1>6, <2>3, <2>4
  <2>6. h[s \ {c}] # g[s \ {c}]
    BY <2>2, <2>5
  <2>7. IsFiniteSet(s) /\ Cardinality(s \ {c}) = n - 1 /\ Cardinality(s \ {c}) \in Nat
    BY <2>2, FS_Subset, FS_RemoveElement, FS_CardinalityType
  <2>8. n - 1 \in Wrong
    BY <2>6, <2>7
  <2> HIDE DEF Wrong
  <2>9. n <= n - 1
    BY <2>1, <2>8
  <2> QED BY <2>7, <2>2, <2>9, FS_CardinalityType
<1>9. IsFiniteSet(D) /\ Cardinality(D) \in Nat
  BY FS_CardinalityType
<1>10. h[D] = g[D]
  BY <1>8, <1>9
<1>11. g[D] = Cardinality(Joined(part, D))
  BY DEF g
<1> QED BY <1>1, <1>5, <1>10, <1>11 DEF f

-----------------------------------------------------------------------------
(* Rows and the time between them. *)

\* Rows are numbered in the order of their times.
Orderly(rs) ==
  /\ rs \subseteq Rows
  /\ \A v, w \in rs : v.nth = w.nth => v = w
  /\ \A v, w \in rs : v.nth < w.nth => v.at <= w.at

Sole(rs) == IF rs = {} THEN {} ELSE {LatestOf(rs)}
UpTo(rs, t) == {w \in rs : w.at <= t}
Says(rs, t) == \E w \in Sole(UpTo(rs, t)) : w.online

LEMMA RowTypes ==
  \A w \in Rows : w.nth \in Nat /\ w.at \in Nat /\ w.online \in BOOLEAN
<1>1. DayStart[LastDay + 1] \in Nat
  BY UptimeAssumption
<1> QED BY <1>1 DEF Rows, Tick

LEMMA LatestIs ==
  ASSUME NEW rs, Orderly(rs), rs # {}
  PROVE  LatestOf(rs) \in rs /\ \A v \in rs \ {LatestOf(rs)} : Later(LatestOf(rs), v)
<1> DEFINE S == {n \in Nat : \E w \in rs : n = MaxChanges - w.nth}
<1>1. \A w \in rs : w.nth \in 1 .. MaxChanges /\ w.at \in Nat
  BY RowTypes DEF Orderly, Rows
<1>2. MaxChanges \in Nat
  BY UptimeAssumption
<1>3. \A w \in rs : MaxChanges - w.nth \in S
  BY <1>1, <1>2
<1>4. PICK n \in S : \A m \in S : n <= m
  <2>1. S # {} /\ S \in SUBSET Nat
    BY <1>3
  <2> HIDE DEF S
  <2> QED BY <2>1, LeastNatural
<1>5. PICK w \in rs : n = MaxChanges - w.nth
  OBVIOUS
<1>6. ASSUME NEW v \in rs, v # w
      PROVE  Later(w, v)
  <2>1. v.nth <= w.nth
    BY <1>1, <1>2, <1>3, <1>4, <1>5
  <2>2. v.nth < w.nth /\ v.at <= w.at
    BY <1>1, <1>6, <2>1 DEF Orderly
  <2> QED BY <1>1, <2>2 DEF Later
<1>7. \E u \in rs : \A v \in rs \ {u} : Later(u, v)
  BY <1>6
<1> QED BY <1>7 DEF LatestOf

LEMMA LatestUnique ==
  ASSUME NEW rs, Orderly(rs), NEW w \in rs, \A v \in rs \ {w} : Later(w, v)
  PROVE  LatestOf(rs) = w
<1>1. LatestOf(rs) \in rs /\ \A v \in rs \ {LatestOf(rs)} : Later(LatestOf(rs), v)
  BY LatestIs
<1>2. \A v \in rs : v.nth \in Nat /\ v.at \in Nat
  BY RowTypes DEF Orderly
<1> QED BY <1>1, <1>2 DEF Later

\* What a set of rows says does not change with rows that are not the latest.
LEMMA SameLatest ==
  ASSUME NEW rs, Orderly(rs), NEW ss \in SUBSET rs, rs # {}, LatestOf(rs) \in ss
  PROVE  LatestOf(ss) = LatestOf(rs)
<1>1. Orderly(ss)
  BY DEF Orderly
<1>2. \A v \in ss \ {LatestOf(rs)} : Later(LatestOf(rs), v)
  BY LatestIs
<1> QED BY <1>1, <1>2, LatestUnique

\* The next of some times after t, or the end.
NextTime(times, t, end) == Min({u \in times : u > t} \cup {end})

LEMMA NextTimeIs ==
  ASSUME NEW start \in Nat, NEW end \in Nat, NEW times \in SUBSET (start .. end - 1), NEW t \in times
  PROVE  /\ NextTime(times, t, end) \in Nat /\ t < NextTime(times, t, end) /\ NextTime(times, t, end) <= end
         /\ \A u \in times : t < u => NextTime(times, t, end) <= u
         /\ NextTime(times, t, end) \in times \cup {end}
<1> DEFINE S == {u \in times : u > t} \cup {end}
<1>0. \A u \in times : u \in Nat /\ u < end
  OBVIOUS
<1>1. S \in SUBSET Nat /\ S # {}
  BY <1>0
<1>2. \E x \in S : \A y \in S : x <= y
  <2> HIDE DEF S
  <2> QED BY <1>1, LeastNatural
<1>3. Min(S) \in S /\ \A y \in S : Min(S) <= y
  BY <1>2 DEF Min
<1>4. t \in Nat /\ t < end /\ t < Min(S)
  BY <1>0, <1>3
<1>5. Min(S) <= end /\ \A u \in times : t < u => Min(S) <= u
  BY <1>0, <1>3
<1>6. Min(S) \in times \cup {end} /\ Min(S) \in Nat
  BY <1>1, <1>3
<1>7. NextTime(times, t, end) = Min(S)
  BY DEF NextTime
<1> HIDE DEF S
<1> QED BY <1>4, <1>5, <1>6, <1>7

LEMMA GreatestUpTo ==
  ASSUME NEW times \in SUBSET Nat, NEW t \in Nat, \E u \in times : u <= t
  PROVE  \E u \in times : u <= t /\ \A v \in times : v <= t => v <= u
<1> DEFINE S == {n \in Nat : \E u \in times : u <= t /\ n = t - u}
<1>0. \A u \in times : u \in Nat
  OBVIOUS
<1>1. ASSUME NEW u \in times, u <= t
      PROVE  t - u \in S
  <2>1. t - u \in Nat
    BY <1>0, <1>1
  <2> QED BY <1>1, <2>1
<1>2. PICK n \in S : \A m \in S : n <= m
  <2>1. S \in SUBSET Nat /\ S # {}
    BY <1>1
  <2> HIDE DEF S
  <2> QED BY <2>1, LeastNatural
<1>3. PICK u \in times : u <= t /\ n = t - u
  OBVIOUS
<1>4. \A v \in times : v <= t => n <= t - v
  BY <1>1, <1>2
<1> HIDE DEF S
<1> QED BY <1>0, <1>3, <1>4

\* What _collect_online_intervals reads.
Reading(before, between, start, end) ==
  /\ start \in Nat /\ end \in Nat /\ start < end
  /\ Orderly(before \cup between)
  /\ \A w \in before : w.at < start
  /\ \A w \in between : start <= w.at /\ w.at < end

Times(before, between, start) == {w.at : w \in between} \cup (IF before # {} THEN {start} ELSE {})
StatusAt(before, between, t) ==
  LET there == {w \in between : w.at = t}
  IN IF there # {} THEN LatestOf(there).online ELSE LatestOf(before).online

LEMMA IntervalsAre ==
  ASSUME NEW before, NEW between, NEW start, NEW end
  PROVE  Intervals(before, between, start, end) =
           LET times == Times(before, between, start)
           IN  {<<t, NextTime(times, t, end)>> : t \in {u \in times : StatusAt(before, between, u)}}
  BY DEF Intervals, Times, StatusAt, NextTime

LEMMA TimesAre ==
  ASSUME NEW before, NEW between, NEW start, NEW end, Reading(before, between, start, end)
  PROVE  Times(before, between, start) \in SUBSET (start .. end - 1)
<1>1. \A w \in before \cup between : w.at \in Nat
  BY RowTypes DEF Reading, Orderly
<1> QED BY <1>1 DEF Times, Reading

\* The status at the last time up to t is what the rows say at t.
LEMMA StatusIsSaid ==
  ASSUME NEW before, NEW between, NEW start, NEW end, Reading(before, between, start, end),
         NEW t \in start .. end - 1, NEW u \in Times(before, between, start),
         u <= t, \A v \in Times(before, between, start) : v <= t => v <= u
  PROVE  StatusAt(before, between, u) <=> Says(before \cup between, t)
<1> DEFINE all == before \cup between
           past == UpTo(all, t)
           there == {w \in between : w.at = u}
<1>1. \A w \in all : w.at \in Nat /\ w.nth \in Nat
  BY RowTypes DEF Reading, Orderly
<1>2. \A w \in between : w.at <= t => w.at <= u
  BY DEF Times
<1>3. Orderly(past) /\ Orderly(there) /\ Orderly(before)
  BY DEF Reading, Orderly, UpTo
<1>0. start \in Nat /\ end \in Nat
  BY DEF Reading
<1>t. u \in start .. end - 1
  BY TimesAre
<1>4. start \in Nat /\ u \in Nat /\ start <= u /\ t \in Nat /\ start <= t
  BY <1>0, <1>t
<1>5. \A w \in before : w.at < start /\ w.at <= t
  BY <1>1, <1>4 DEF Reading
<1>6. past # {} /\ LatestOf(past).online = StatusAt(before, between, u)
  <2>1. CASE there # {}
    <3>1. LatestOf(there) \in there /\ \A v \in there \ {LatestOf(there)} : Later(LatestOf(there), v)
      BY <1>3, <2>1, LatestIs
    <3>2. LatestOf(there) \in past /\ LatestOf(there).at = u
      BY <1>1, <3>1 DEF UpTo
    <3>3. ASSUME NEW v \in past, v # LatestOf(there)
          PROVE  Later(LatestOf(there), v)
      <4>1. CASE v \in there
        BY <3>1, <3>3, <4>1
      <4>2. CASE v \notin there
        <5>1. v.at <= t /\ v \in all
          BY DEF UpTo
        <5>2. v.at < u
          BY <1>1, <1>2, <1>4, <1>5, <4>2, <5>1
        <5> QED BY <3>2, <5>2 DEF Later
      <4> QED BY <4>1, <4>2
    <3>4. LatestOf(past) = LatestOf(there)
      BY <1>3, <3>2, <3>3, LatestUnique
    <3> QED BY <2>1, <3>2, <3>4 DEF StatusAt
  <2>2. CASE there = {}
    <3>1. u = start /\ before # {}
      BY <2>2 DEF Times
    <3>2. \A w \in between : ~(w.at <= t)
      BY <1>1, <1>2, <2>2, <3>1 DEF Reading
    <3>3. past = before
      BY <1>5, <3>2 DEF UpTo
    <3> QED BY <2>2, <3>1, <3>3 DEF StatusAt
  <2> QED BY <2>1, <2>2
<1> HIDE DEF past
<1> QED BY <1>6 DEF Says, Sole, past

\* Intervals as their times: apart from each other and within the range.
Apart(intervals) ==
  /\ IsFiniteSet(intervals)
  /\ \A i \in intervals : i[1] \in Nat /\ i[2] \in Nat /\ i[1] < i[2]
  /\ \A i, j \in intervals : i # j => i[2] <= j[1] \/ j[2] <= i[1]

LEMMA IntervalsApart ==
  ASSUME NEW before, NEW between, NEW start, NEW end, Reading(before, between, start, end)
  PROVE  /\ Apart(Intervals(before, between, start, end))
         /\ \A i \in Intervals(before, between, start, end) : start <= i[1] /\ i[2] <= end
<1> DEFINE times == Times(before, between, start)
           I == Intervals(before, between, start, end)
           nx(t) == NextTime(times, t, end)
<1>1. times \in SUBSET (start .. end - 1) /\ start \in Nat /\ end \in Nat
  BY TimesAre DEF Reading
<1>2. I = {<<t, nx(t)>> : t \in {u \in times : StatusAt(before, between, u)}}
  BY IntervalsAre
<1> HIDE DEF times, I
<1>3. \A t \in times : t \in Nat /\ start <= t /\ t < end
  BY <1>1
<1>4. \A t \in times : /\ nx(t) \in Nat /\ t < nx(t) /\ nx(t) <= end
                       /\ \A u \in times : t < u => nx(t) <= u
  BY <1>1, NextTimeIs
<1> HIDE DEF nx
<1>5. ASSUME NEW i \in I
      PROVE  \E t \in times : i = <<t, nx(t)>>
  BY <1>2
<1>6. \A i \in I : i \in (0 .. end) \X (0 .. end) /\ i[1] < i[2] /\ start <= i[1] /\ i[2] <= end
                   /\ i[1] \in times /\ i = <<i[1], nx(i[1])>>
  BY <1>1, <1>3, <1>4, <1>5
<1>7. IsFiniteSet(I)
  <2>1. IsFiniteSet((0 .. end) \X (0 .. end))
    <3>1. IsFiniteSet(0 .. end)
      BY <1>1, FS_Interval
    <3> QED BY <3>1, FS_Product
  <2>2. I \in SUBSET ((0 .. end) \X (0 .. end))
    BY <1>6
  <2> QED BY <2>1, <2>2, FS_Subset
<1>8. ASSUME NEW i \in I, NEW j \in I, i # j
      PROVE  i[2] <= j[1] \/ j[2] <= i[1]
  <2>1. i[1] \in times /\ j[1] \in times /\ i[2] = nx(i[1]) /\ j[2] = nx(j[1]) /\ i[1] # j[1]
    BY <1>6, <1>8
  <2>2. i[1] < j[1] \/ j[1] < i[1]
    BY <1>3, <2>1
  <2> QED BY <1>4, <2>1, <2>2
<1>9. Apart(I)
  BY <1>6, <1>7, <1>8 DEF Apart
<1> QED BY <1>6, <1>9 DEF I

\* A tick lies in an interval exactly when the rows say "online" of it.
LEMMA IntervalsAreTrue ==
  ASSUME NEW before, NEW between, NEW start, NEW end, Reading(before, between, start, end),
         NEW t \in start .. end - 1
  PROVE  (\E i \in Intervals(before, between, start, end) : i[1] <= t /\ t < i[2])
           <=> Says(before \cup between, t)
<1> DEFINE times == Times(before, between, start)
           I == Intervals(before, between, start, end)
           nx(u) == NextTime(times, u, end)
           on(u) == StatusAt(before, between, u)
<1>1. times \in SUBSET (start .. end - 1) /\ start \in Nat /\ end \in Nat
  BY TimesAre DEF Reading
<1>2. I = {<<u, nx(u)>> : u \in {v \in times : on(v)}}
  BY IntervalsAre
<1>s. ASSUME NEW u \in times, u <= t, \A v \in times : v <= t => v <= u
      PROVE  on(u) <=> Says(before \cup between, t)
  BY <1>s, StatusIsSaid
<1>n. times = {} => UpTo(before \cup between, t) = {}
  BY DEF Times, UpTo
<1>0. Says(before \cup between, t) => \E u \in times : u <= t
  <2> SUFFICES ASSUME NEW w \in UpTo(before \cup between, t) PROVE \E u \in times : u <= t
    BY DEF Says, Sole
  <2>1. CASE w \in between
    BY <2>1 DEF Times, UpTo
  <2>2. CASE w \in before
    <3>1. start \in times
      BY <2>2 DEF Times
    <3> QED BY <1>1, <3>1
  <2> QED BY <2>1, <2>2 DEF UpTo
<1> HIDE DEF times, I, on
<1>3. \A u \in times : u \in Nat /\ start <= u /\ u < end
  BY <1>1
<1>t. t \in Nat /\ t < end
  BY <1>1
<1>4. \A u \in times : /\ nx(u) \in Nat /\ u < nx(u) /\ nx(u) <= end
                       /\ (\A v \in times : u < v => nx(u) <= v) /\ nx(u) \in times \cup {end}
  BY <1>1, NextTimeIs
<1> HIDE DEF nx
<1>5. ASSUME NEW i \in I, i[1] <= t, t < i[2]
      PROVE  Says(before \cup between, t)
  <2>1. PICK u \in times : on(u) /\ i = <<u, nx(u)>>
    BY <1>2
  <2>2. u <= t /\ t < nx(u)
    BY <1>5, <2>1
  <2>3. \A v \in times : v <= t => v <= u
    BY <1>3, <1>4, <1>t, <2>2
  <2> QED BY <1>s, <2>1, <2>2, <2>3
<1>6. ASSUME Says(before \cup between, t)
      PROVE  \E i \in I : i[1] <= t /\ t < i[2]
  <2>1. times \in SUBSET Nat
    BY <1>3
  <2>2. PICK u \in times : u <= t /\ \A v \in times : v <= t => v <= u
    BY <1>0, <1>6, <1>t, <2>1, GreatestUpTo
  <2>3. on(u)
    BY <1>6, <1>s, <2>2
  <2>4. <<u, nx(u)>> \in I
    BY <1>2, <2>3
  <2>5. t < nx(u)
    BY <1>3, <1>4, <1>t, <2>2
  <2> QED BY <2>2, <2>4, <2>5
<1> QED BY <1>5, <1>6 DEF I

LEMMA DayStarts ==
  \A d \in Day : /\ DayStart[d] \in Nat /\ DayStart[d + 1] \in Nat /\ DayStart[d] < DayStart[d + 1]
                 /\ d \in Nat /\ d + 1 \in 0 .. LastDay + 1
  BY UptimeAssumption DEF Day

\* The total of a day is the number of its ticks in the intervals.
LEMMA TotalIs ==
  ASSUME NEW intervals, Apart(intervals), NEW d \in Day
  PROVE  Total(intervals, d) =
           Cardinality({t \in DayStart[d] .. DayStart[d + 1] - 1 : \E i \in intervals : i[1] <= t /\ t < i[2]})
<1> DEFINE from(i) == Max({i[1], DayStart[d]})
           to(i) == Min({i[2], DayStart[d + 1]})
           D == {j \in intervals : from(j) < to(j)}
           part == [i \in D |-> from(i) .. to(i) - 1]
           a == DayStart[d]
           b == DayStart[d + 1]
<1>1. a \in Nat /\ b \in Nat /\ a < b
  BY DayStarts
<1> HIDE DEF a, b
<1>2. \A i \in intervals : i[1] \in Nat /\ i[2] \in Nat /\ i[1] < i[2]
  BY DEF Apart
<1>3. ASSUME NEW i \in intervals
      PROVE  /\ from(i) = IF i[1] >= a THEN i[1] ELSE a
             /\ to(i) = IF i[2] <= b THEN i[2] ELSE b
  <2>1. Max({i[1], a}) = IF i[1] >= a THEN i[1] ELSE a
    BY <1>1, <1>2 DEF Max
  <2>2. Min({i[2], b}) = IF i[2] <= b THEN i[2] ELSE b
    BY <1>1, <1>2 DEF Min
  <2> QED BY <2>1, <2>2 DEF a, b
<1>4. Total(intervals, d) = SumFunction([i \in D |-> to(i) - from(i)])
  BY DEF Total
<1> HIDE DEF from, to
<1>5. \A i \in intervals : from(i) \in Nat /\ to(i) \in Nat
  BY <1>1, <1>2, <1>3
<1>6. IsFiniteSet(D)
  BY FS_Subset DEF Apart
<1>7. \A i \in D : IsFiniteSet(part[i]) /\ Cardinality(part[i]) = to(i) - from(i)
  <2> SUFFICES ASSUME NEW i \in D
               PROVE  IsFiniteSet(part[i]) /\ Cardinality(part[i]) = to(i) - from(i)
    OBVIOUS
  <2>1. from(i) \in Int /\ to(i) - 1 \in Int /\ ~(from(i) > to(i) - 1) /\ to(i) - 1 - from(i) + 1 = to(i) - from(i)
    BY <1>5
  <2>2. part[i] = from(i) .. to(i) - 1
    OBVIOUS
  <2> HIDE DEF part, D
  <2> QED BY <2>1, <2>2, FS_Interval
<1>8. \A i, j \in D : i # j => part[i] \cap part[j] = {}
  <2> SUFFICES ASSUME NEW i \in D, NEW j \in D, i # j, NEW t \in part[i] \cap part[j] PROVE FALSE
    OBVIOUS
  <2>1. i[2] <= j[1] \/ j[2] <= i[1]
    BY DEF Apart
  <2>2. from(i) <= t /\ t < to(i) /\ from(j) <= t /\ t < to(j) /\ t \in Int
    BY <1>5
  <2>3. i[1] <= from(i) /\ to(i) <= i[2] /\ j[1] <= from(j) /\ to(j) <= j[2]
    BY <1>1, <1>2, <1>3
  <2> HIDE DEF D, part
  <2>4. i \in intervals /\ j \in intervals
    BY DEF D
  <2> QED BY <1>2, <1>5, <2>1, <2>2, <2>3, <2>4
<1>9. Joined(part, D) = {t \in a .. b - 1 : \E i \in intervals : i[1] <= t /\ t < i[2]}
  <2>1. ASSUME NEW i \in D, NEW t \in part[i]
        PROVE  t \in a .. b - 1 /\ i[1] <= t /\ t < i[2]
    <3>1. i \in intervals /\ t \in Int /\ from(i) <= t /\ t < to(i)
      BY <1>5
    <3> HIDE DEF D, part
    <3> QED BY <1>1, <1>2, <1>3, <3>1
  <2>2. ASSUME NEW t \in a .. b - 1, NEW i \in intervals, i[1] <= t, t < i[2]
        PROVE  i \in D /\ t \in part[i]
    <3>1. from(i) <= t /\ t < to(i) /\ t \in Int
      BY <1>1, <1>2, <1>3, <2>2
    <3>2. from(i) < to(i)
      BY <1>5, <3>1
    <3>3. t \in from(i) .. to(i) - 1
      BY <1>5, <3>1
    <3> QED BY <3>2, <3>3
  <2> QED BY <2>1, <2>2 DEF Joined
<1>10. SumFunction([i \in D |-> Cardinality(part[i])]) = Cardinality(Joined(part, D))
  <2> HIDE DEF D, part
  <2> QED BY <1>6, <1>7, <1>8, SumOfParts
<1>11. [i \in D |-> Cardinality(part[i])] = [i \in D |-> to(i) - from(i)]
  BY <1>7
<1> HIDE DEF D, part
<1> QED BY <1>4, <1>9, <1>10, <1>11 DEF a, b

-----------------------------------------------------------------------------
(* The inductive invariant of the uptime. *)

Answers == UNION {[ab[1] .. ab[2] -> Nat] : ab \in Day \X Day}

\* A request as asked.
Asked ==
  [phase : {"before", "between", "store", "answered", "failed"}, kind : {"summary", "timeline"},
   from : Day, first : Nat, to : Day, end : Nat, before : SUBSET Rows, missed : SUBSET Rows,
   next : Nat, doubted : SUBSET Day, answer : Answers]
ReqTyped == req \in [Request -> {NoRequest} \cup Asked]

Cutoff == now - Retention * Standard

\* The changes of the PC: numbered in the order of their times, the present the
\* latest, either waiting or in the history, and what was pruned past the
\* retention and older than what is left.
HistoryHolds ==
  /\ Orderly(Changes)
  /\ \A w \in Changes : w.nth <= Cardinality(Changes) /\ w.at <= now
  /\ changing \cap rows = {}
  /\ \A v \in pruned : v.at < Cutoff /\ \A w \in rows : v.at < w.at

\* The history still tells the status of every tick of a day up to some time.
CoveredUntil(d, end) == \A t \in Ticks(d, end) : Telling(t) \subseteq rows

\* What was read of the time before the days asked for is the row that told
\* the status there, or that row is pruned or came too late.
Before(rs, t) == {w \in rs : w.at < t}
BeforeHolds(q) ==
  LET start == DayStart[q.first]
  IN  start < q.end =>
        /\ q.before \subseteq Before(Changes, start)
        /\ Before(changing, start) \subseteq q.missed
        /\ \A w \in Sole(Before(Changes, start)) : w \in rows /\ w \notin q.missed => q.before = {w}
        /\ ~torn => q.before = Sole(Before(rows \ q.missed, start))

\* What was asked for lies in the past, and the days answered are true where
\* the history covered them and never more than true, unless a change that
\* tells part of them came too late.
RequestHolds(q) ==
  /\ q.from <= q.to /\ q.from <= q.first /\ q.end <= now
  /\ q.phase \in {"before", "between", "store", "failed"} => q.next \in q.first .. q.to
  /\ q.phase = "between" => BeforeHolds(q)
  /\ q.phase \in {"store", "answered", "failed"} =>
       \A d \in (q.first .. q.to) \ q.doubted :
         /\ ~TellsPart(changing, d, q.end)
         /\ CoveredUntil(d, q.end) => q.answer[d] = Truth(d, q.end)
  /\ ~torn => \A d \in (q.from .. q.to) \ q.doubted : q.answer[d] <= Truth(d, now)
  /\ ~torn /\ q.phase = "failed" /\ q.next \notin q.doubted => Truth(q.next, now) > Standard

StoredHolds == ~torn => \A d \in Day \ doubted : stored[d] # None => stored[d] <= Truth(d, now)

UptimeInv ==
  /\ UptimeTypeOK /\ ReqTyped /\ HistoryHolds /\ StoredHolds
  /\ \A r \in Request : req[r] # NoRequest => RequestHolds(req[r])

LEMMA UptimeInvInit == UptimeInit => UptimeInv
<1> SUFFICES ASSUME UptimeInit PROVE UptimeInv
  OBVIOUS
<1>1. 0 \in Day /\ 0 \in Tick
  <2>1. LastDay \in Nat /\ DayStart[LastDay + 1] \in Nat
    BY UptimeAssumption
  <2>2. LastDay \in Day
    BY <2>1 DEF Day
  <2>3. DayStart[LastDay] < DayStart[LastDay + 1] /\ DayStart[LastDay] \in Nat
    BY <2>2, UptimeAssumption DEF Day
  <2> QED BY <2>1, <2>3 DEF Day, Tick
<1>2. UptimeTypeOK
  BY <1>1 DEF UptimeInit, UptimeTypeOK
<1>3. ReqTyped /\ StoredHolds
  BY DEF UptimeInit, ReqTyped, StoredHolds
<1>4. HistoryHolds
  BY DEF UptimeInit, HistoryHolds, Changes, Orderly
<1> QED BY <1>2, <1>3, <1>4 DEF UptimeInit, UptimeInv

\* What is known of a request under way.
LEMMA RequestIs ==
  ASSUME UptimeInv, NEW r \in Request, NEW q \in Asked, req[r] = q
  PROVE  /\ q # NoRequest /\ RequestHolds(q) /\ q.answer \in [q.from .. q.to -> Nat]
         /\ q.kind = "timeline" => q.phase \notin {"store", "failed"}
         /\ q.from \in Nat /\ q.first \in Nat /\ q.to \in Nat /\ q.end \in Nat /\ q.next \in Nat
         /\ q.from \in Day /\ q.to \in Day /\ \A d \in q.from .. q.to : d \in Day
         /\ \A d \in q.first .. q.to : d \in q.from .. q.to /\ d \in Day
<1>1. q # NoRequest
  BY DEF Asked, NoRequest
<1>2. /\ q.answer \in [q.from .. q.to -> Nat]
      /\ q.kind = "timeline" => q.phase \notin {"store", "failed"}
  BY <1>1 DEF UptimeInv, UptimeTypeOK
<1>3. RequestHolds(q)
  BY <1>1 DEF UptimeInv
<1>4. /\ q.from \in Nat /\ q.first \in Nat /\ q.to \in Nat /\ q.end \in Nat /\ q.next \in Nat
      /\ q.from \in Day /\ q.to \in Day
  BY DEF Asked, Day
<1>5. \A d \in q.from .. q.to : d \in Day
  BY <1>4, UptimeAssumption DEF Day
<1>6. \A d \in q.first .. q.to : d \in q.from .. q.to
  BY <1>3, <1>4 DEF RequestHolds
<1> QED BY <1>1, <1>2, <1>3, <1>4, <1>5, <1>6

LEMMA AnswersAre ==
  ASSUME NEW a \in Day, NEW b \in Day, NEW f \in [a .. b -> Nat]
  PROVE  f \in Answers
<1>1. <<a, b>> \in Day \X Day /\ <<a, b>>[1] = a /\ <<a, b>>[2] = b
  OBVIOUS
<1> QED BY <1>1 DEF Answers

LEMMA HistoryFinite ==
  ASSUME UptimeInv
  PROVE  IsFiniteSet(Changes) /\ Cardinality(Changes) \in Nat
<1> DEFINE f == [w \in Changes |-> w.nth]
<1>1. Orderly(Changes)
  BY DEF UptimeInv, HistoryHolds
<1>2. f \in Injection(Changes, 1 .. MaxChanges)
  <2>1. \A w \in Changes : w.nth \in 1 .. MaxChanges
    BY <1>1 DEF Orderly, Rows
  <2>2. f \in [Changes -> 1 .. MaxChanges]
    BY <2>1
  <2>3. \A v, w \in Changes : f[v] = f[w] => v = w
    BY <1>1 DEF Orderly
  <2> HIDE DEF f
  <2> QED BY <2>2, <2>3 DEF Injection, IsInjective
<1>3. IsFiniteSet(1 .. MaxChanges)
  BY UptimeAssumption, FS_Interval
<1> QED BY <1>2, <1>3, FS_Injection, FS_CardinalityType

LEMMA TellingIs ==
  ASSUME NEW t
  PROVE  Telling(t) = Sole(UpTo(Changes, t))
  BY DEF Telling, Sole, UpTo

\* The ticks of a day the PC was online, up to some time.
OnlineTicks(d, end) == {t \in Ticks(d, end) : \E w \in Telling(t) : w.online}

LEMMA TicksFinite ==
  ASSUME NEW d \in Day, NEW end
  PROVE  \A S \in SUBSET Ticks(d, end) :
           /\ IsFiniteSet(S) /\ Cardinality(S) \in Nat
           /\ \A T \in SUBSET S : Cardinality(T) <= Cardinality(S)
<1>1. IsFiniteSet(DayStart[d] .. DayStart[d + 1] - 1)
  <2>1. DayStart[d] \in Int /\ DayStart[d + 1] - 1 \in Int
    BY DayStarts
  <2> QED BY <2>1, FS_Interval
<1>2. \A S \in SUBSET Ticks(d, end) : IsFiniteSet(S)
  BY <1>1, FS_Subset DEF Ticks
<1> QED BY <1>2, FS_Subset, FS_CardinalityType

\* The truth of a day only grows with time.
LEMMA TruthGrows ==
  ASSUME NEW d \in Day, NEW e \in Nat, NEW end \in Nat, e <= end
  PROVE  Truth(d, e) \in Nat /\ Truth(d, end) \in Nat /\ Truth(d, e) <= Truth(d, end)
<1>1. OnlineTicks(d, e) \in SUBSET OnlineTicks(d, end)
  BY DayStarts DEF OnlineTicks, Ticks
<1>2. Truth(d, e) = Cardinality(OnlineTicks(d, e)) /\ Truth(d, end) = Cardinality(OnlineTicks(d, end))
  BY DEF Truth, OnlineTicks
<1>3. OnlineTicks(d, e) \in SUBSET Ticks(d, e) /\ OnlineTicks(d, end) \in SUBSET Ticks(d, end)
  BY DEF OnlineTicks
<1> QED BY <1>1, <1>2, <1>3, TicksFinite

\* Later days begin later.
LEMMA DaysInOrder ==
  ASSUME NEW c \in Nat, NEW d \in Day, c <= d
  PROVE  c \in Day /\ DayStart[c] <= DayStart[d]
<1> DEFINE Early == {n \in Nat : c <= n /\ n <= d /\ DayStart[n] < DayStart[c]}
<1>0. LastDay \in Nat /\ d \in Nat /\ d <= LastDay
  BY UptimeAssumption DEF Day
<1>1. Early = {}
  <2> SUFFICES ASSUME Early # {} PROVE FALSE
    OBVIOUS
  <2>1. PICK n \in Early : \A m \in Early : n <= m
    <3>1. Early \in SUBSET Nat
      OBVIOUS
    <3> HIDE DEF Early
    <3> QED BY <3>1, LeastNatural
  <2>2. n \in Nat /\ c <= n /\ n <= d /\ DayStart[n] < DayStart[c] /\ n # c
    <3>1. DayStart[c] \in Nat
      BY <1>0, DayStarts DEF Day
    <3> QED BY <3>1
  <2>3. n - 1 \in Nat /\ c <= n - 1 /\ n - 1 <= d /\ n - 1 + 1 = n
    BY <1>0, <2>2
  <2>4. n - 1 \in Day
    BY <1>0, <2>3 DEF Day
  <2>5. DayStart[n - 1] < DayStart[n] /\ DayStart[n - 1] \in Nat /\ DayStart[n] \in Nat /\ DayStart[c] \in Nat
    BY <1>0, <2>3, <2>4, DayStarts DEF Day
  <2>6. n - 1 \in Early
    BY <2>2, <2>3, <2>5
  <2>7. n <= n - 1
    BY <2>1, <2>6
  <2> QED BY <2>2, <2>7
<1>2. c \in Day
  BY <1>0 DEF Day
<1>3. DayStart[c] \in Nat /\ DayStart[d] \in Nat
  BY <1>2, DayStarts
<1>4. d \notin Early
  BY <1>1
<1> HIDE DEF Early
<1>5. ~(DayStart[d] < DayStart[c])
  BY <1>0, <1>4 DEF Early
<1> QED BY <1>2, <1>3, <1>5

LEMMA NowIs ==
  ASSUME UptimeInv
  PROVE  now \in Nat /\ now \in Tick
BY DayStarts, UptimeAssumption DEF UptimeInv, UptimeTypeOK, Tick, Day

LEMMA TellingIsAChange ==
  ASSUME UptimeInv, NEW t
  PROVE  Telling(t) \subseteq UpTo(Changes, t) /\ Telling(t) \subseteq Changes
<1>1. Orderly(UpTo(Changes, t))
  BY DEF UptimeInv, HistoryHolds, Orderly, UpTo
<1> QED BY <1>1, LatestIs, TellingIs DEF Sole, UpTo

\* What a recorded row changes: nothing of what is told, and of the days it
\* tells a part of, only whether the history covers them.
LEMMA RecordChanges ==
  ASSUME UptimeInv, NEW new \in SUBSET changing, Insert(new), changing' = changing \ new, now' = now
  PROVE  /\ Changes' = Changes /\ rows' \subseteq rows \cup new /\ (~torn' => ~torn)
         /\ \A d \in Day, e \in Nat : e <= now =>
              /\ Truth(d, e)' = Truth(d, e)
              /\ ~TellsPart(changing, d, e) =>
                   ~TellsPart(changing, d, e)' /\ (CoveredUntil(d, e)' => CoveredUntil(d, e))
<1>1. Changes' = Changes /\ rows' \subseteq rows \cup new /\ (~torn' => ~torn)
  BY DEF Insert, Changes, Outdated
<1>2. \A t : Telling(t)' = Telling(t)
  BY <1>1 DEF Telling
<1>3. ASSUME NEW d \in Day, NEW e \in Nat
      PROVE  /\ Truth(d, e)' = Truth(d, e)
             /\ TellsPart(changing, d, e)' => TellsPart(changing, d, e)
             /\ ~TellsPart(changing, d, e) /\ CoveredUntil(d, e)' => CoveredUntil(d, e)
  <2>1. Ticks(d, e)' = Ticks(d, e)
    BY DEF Ticks
  <2>2. Truth(d, e)' = Truth(d, e)
    BY <1>2, <2>1 DEF Truth
  <2>3. TellsPart(changing, d, e)' => TellsPart(changing, d, e)
    BY <1>2, <2>1 DEF TellsPart
  <2>4. ASSUME ~TellsPart(changing, d, e), CoveredUntil(d, e)', NEW t \in Ticks(d, e)
        PROVE  Telling(t) \subseteq rows
    <3>1. Telling(t) \subseteq rows' /\ Telling(t) \cap changing = {}
      BY <1>2, <2>1, <2>4 DEF CoveredUntil, TellsPart
    <3> QED BY <1>1, <3>1
  <2> QED BY <2>2, <2>3, <2>4 DEF CoveredUntil
<1> QED BY <1>1, <1>3

\* What a change of now changes: nothing of what was told before.
LEMMA BeginChanges ==
  ASSUME UptimeInv, NEW row, row.at = now, row \notin Changes, changing' = changing \cup {row},
         UNCHANGED <<now, rows, pruned>>
  PROVE  /\ Changes' = Changes \cup {row}
         /\ \A d \in Day, e \in Nat : e <= now =>
              /\ Truth(d, e)' = Truth(d, e)
              /\ ~TellsPart(changing, d, e) =>
                   ~TellsPart(changing, d, e)' /\ (CoveredUntil(d, e)' => CoveredUntil(d, e))
<1>1. Changes' = Changes \cup {row}
  BY DEF Changes
<1>2. now \in Nat
  BY NowIs
<1>3. ASSUME NEW t \in Nat, t < now
      PROVE  Telling(t)' = Telling(t)
  <2>1. UpTo(Changes, t)' = UpTo(Changes, t)
    BY <1>1, <1>2, <1>3 DEF UpTo
  <2>2. Telling(t)' = Sole(UpTo(Changes, t)')
    BY DEF Telling, Sole, UpTo
  <2> QED BY <2>1, <2>2, TellingIs
<1>4. ASSUME NEW d \in Day, NEW e \in Nat, e <= now
      PROVE  /\ Truth(d, e)' = Truth(d, e)
             /\ TellsPart(changing, d, e)' => TellsPart(changing, d, e)
             /\ CoveredUntil(d, e)' => CoveredUntil(d, e)
  <2>1. \A t \in Ticks(d, e) : t \in Nat /\ t < now
    BY <1>2, <1>4, DayStarts DEF Ticks
  <2>2. Ticks(d, e)' = Ticks(d, e) /\ \A t \in Ticks(d, e) : Telling(t)' = Telling(t) /\ Telling(t) \subseteq Changes
    BY <1>3, <2>1, TellingIsAChange DEF Ticks
  <2>3. OnlineTicks(d, e)' = OnlineTicks(d, e)
    BY <2>2 DEF OnlineTicks
  <2>4. Truth(d, e) = Cardinality(OnlineTicks(d, e)) /\ Truth(d, e)' = Cardinality(OnlineTicks(d, e)')
    BY DEF Truth, OnlineTicks
  <2>5. TellsPart(changing, d, e)' => TellsPart(changing, d, e)
    <3> SUFFICES ASSUME NEW t \in Ticks(d, e), Telling(t) \cap (changing \cup {row}) # {}
                 PROVE  Telling(t) \cap changing # {}
      BY <2>2 DEF TellsPart
    <3> QED BY <2>2
  <2>6. CoveredUntil(d, e)' => CoveredUntil(d, e)
    BY <2>2 DEF CoveredUntil
  <2> QED BY <2>3, <2>4, <2>5, <2>6
<1> QED BY <1>1, <1>4

\* A request whose facts still hold although changes were made or recorded.
LEMMA RequestSurvives ==
  ASSUME UptimeInv, NEW r \in Request, NEW q \in Asked, req[r] = q, now' = now, ~torn' => ~torn,
         \A d \in Day, e \in Nat : e <= now =>
              /\ Truth(d, e)' = Truth(d, e)
              /\ ~TellsPart(changing, d, e) =>
                   ~TellsPart(changing, d, e)' /\ (CoveredUntil(d, e)' => CoveredUntil(d, e)),
         q.phase = "between" => BeforeHolds(q)'
  PROVE  RequestHolds(q)'
<1>1. RequestHolds(q) /\ q.end \in Nat /\ q.end <= now /\ now \in Nat
  BY RequestIs, NowIs DEF RequestHolds
<1>2. (\A d \in q.from .. q.to : d \in Day) /\ \A d \in q.first .. q.to : d \in Day
  BY RequestIs
<1>3. ASSUME q.phase \in {"store", "answered", "failed"}, NEW d \in (q.first .. q.to) \ q.doubted
      PROVE  ~TellsPart(changing, d, q.end)' /\ (CoveredUntil(d, q.end)' => q.answer[d] = Truth(d, q.end)')
  <2>1. ~TellsPart(changing, d, q.end) /\ (CoveredUntil(d, q.end) => q.answer[d] = Truth(d, q.end)) /\ d \in Day
    BY <1>1, <1>2, <1>3 DEF RequestHolds
  <2> QED BY <1>1, <2>1
<1>4. ~torn' => \A d \in (q.from .. q.to) \ q.doubted : q.answer[d] <= Truth(d, now)'
  BY <1>1, <1>2 DEF RequestHolds
<1>5. ~torn' /\ q.phase = "failed" /\ q.next \notin q.doubted => Truth(q.next, now)' > Standard
  <2> SUFFICES ASSUME ~torn', q.phase = "failed", q.next \notin q.doubted PROVE Truth(q.next, now)' > Standard
    OBVIOUS
  <2>1. q.next \in Day /\ Truth(q.next, now) > Standard
    BY <1>1, <1>2 DEF RequestHolds
  <2> QED BY <1>1, <2>1
<1>t. \A d \in Day : Truth(d, now') = Truth(d, now)
  OBVIOUS
<1> QED BY <1>1, <1>3, <1>4, <1>5, <1>t DEF RequestHolds

LEMMA BeforeSurvives ==
  ASSUME UptimeInv, NEW r \in Request, NEW q \in Asked, req[r] = q, q.phase = "between",
         DayStart[q.first] < q.end
  PROVE  /\ DayStart[q.first] \in Nat /\ DayStart[q.first] < now
         /\ BeforeHolds(q) /\ Sole(Before(Changes, DayStart[q.first])) \subseteq Before(Changes, DayStart[q.first])
<1>1. RequestHolds(q) /\ q.end \in Nat /\ q.end <= now /\ now \in Nat /\ BeforeHolds(q)
  BY RequestIs, NowIs DEF RequestHolds
<1>2. q.first \in Day
  <2>1. q.next \in q.first .. q.to
    BY <1>1 DEF RequestHolds
  <2>2. q.first \in q.first .. q.to
    BY <2>1, RequestIs
  <2> QED BY <2>2, RequestIs
<1>3. DayStart[q.first] \in Nat
  BY <1>2, DayStarts
<1>4. Orderly(Before(Changes, DayStart[q.first]))
  BY DEF UptimeInv, HistoryHolds, Orderly, Before
<1> QED BY <1>1, <1>3, <1>4, LatestIs DEF Sole

LEMMA BeforeSurvivesRecord ==
  ASSUME UptimeInv, NEW new \in SUBSET changing, Insert(new), changing' = changing \ new, now' = now,
         NEW r \in Request, NEW q \in Asked, req[r] = q, q.phase = "between"
  PROVE  BeforeHolds(q)'
<1> DEFINE start == DayStart[q.first]
<1> SUFFICES ASSUME start < q.end PROVE BeforeHolds(q)'
  BY DEF BeforeHolds
<1>1. start \in Nat /\ start < now /\ BeforeHolds(q)
      /\ Sole(Before(Changes, start)) \subseteq Before(Changes, start)
  BY BeforeSurvives
<1> HIDE DEF start
<1>2. /\ q.before \subseteq Before(Changes, start)
      /\ Before(changing, start) \subseteq q.missed
      /\ \A w \in Sole(Before(Changes, start)) : w \in rows /\ w \notin q.missed => q.before = {w}
      /\ ~torn => q.before = Sole(Before(rows \ q.missed, start))
  BY <1>1 DEF BeforeHolds, start
<1>3. Changes' = Changes /\ rows' \subseteq rows \cup new /\ (~torn' => ~torn)
  BY RecordChanges
<1>4. Before(Changes, start)' = Before(Changes, start) /\ Before(changing', start) \subseteq q.missed
      /\ Before(new, start) \subseteq q.missed
  BY <1>2, <1>3 DEF Before, start
<1>5. \A w \in Sole(Before(Changes, start)) : w \in rows' /\ w \notin q.missed => q.before = {w}
  <2> SUFFICES ASSUME NEW w \in Sole(Before(Changes, start)), w \in rows', w \notin q.missed
               PROVE  w \in rows
    BY <1>2
  <2>1. w \in new => w \in Before(new, start)
    BY <1>1 DEF Before
  <2> QED BY <1>3, <1>4, <2>1
<1>6. ASSUME ~torn' PROVE q.before = Sole(Before(rows' \ q.missed, start))
  <2>1. ~torn /\ Outdated(rows \cup new) = {}
    BY <1>6 DEF Insert
  <2>2. rows' = rows \cup new
    BY <2>1 DEF Insert
  <2>3. Before(rows' \ q.missed, start) = Before(rows \ q.missed, start)
    BY <1>4, <2>2 DEF Before
  <2> QED BY <1>2, <2>1, <2>3
<1>7. Sole(Before(Changes, start))' = Sole(Before(Changes, start))
  BY <1>4 DEF Sole
<1>8. Before(rows \ q.missed, start)' = Before(rows' \ q.missed, start)
      /\ Before(changing, start)' = Before(changing', start)
  BY DEF Before, start
<1> QED BY <1>2, <1>4, <1>5, <1>6, <1>7, <1>8 DEF BeforeHolds, start, Sole

LEMMA BeforeSurvivesBegin ==
  ASSUME UptimeInv, NEW row, row.at = now, changing' = changing \cup {row},
         UNCHANGED <<now, rows, pruned, torn>>,
         NEW r \in Request, NEW q \in Asked, req[r] = q, q.phase = "between"
  PROVE  BeforeHolds(q)'
<1> DEFINE start == DayStart[q.first]
<1> SUFFICES ASSUME start < q.end PROVE BeforeHolds(q)'
  BY DEF BeforeHolds
<1>1. start \in Nat /\ start < now /\ BeforeHolds(q) /\ now \in Nat
  BY BeforeSurvives, NowIs
<1> HIDE DEF start
<1>2. Before(changing, start)' = Before(changing, start) /\ Before(Changes, start)' = Before(Changes, start)
      /\ Before(rows \ q.missed, start)' = Before(rows \ q.missed, start)
  <2>1. ~(row.at < start)
    BY <1>1
  <2> QED BY <2>1 DEF Before, Changes, start
<1> QED BY <1>1, <1>2 DEF BeforeHolds, start, Sole

\* The requests after a change or a record.
LEMMA RequestsSurvive ==
  ASSUME UptimeInv, req' = req,
         \A r \in Request, q \in Asked : req[r] = q => RequestHolds(q)'
  PROVE  ReqTyped' /\ (\A r \in Request : req[r] # NoRequest => RequestHolds(req[r]))'
<1>1. ReqTyped'
  BY DEF UptimeInv, ReqTyped
<1>2. ASSUME NEW r \in Request, req[r] # NoRequest
      PROVE  RequestHolds(req[r])'
  <2>1. PICK q \in Asked : req[r] = q
    BY <1>2 DEF UptimeInv, ReqTyped
  <2>2. RequestHolds(q)'
    BY <2>1
  <2> QED BY <2>1, <2>2 DEF RequestHolds, BeforeHolds
<1> QED BY <1>1, <1>2 DEF NoRequest

LEMMA CutoffIs ==
  ASSUME UptimeInv
  PROVE  Cutoff \in Int /\ Cutoff < now
<1> DEFINE x == Retention * Standard
<1>1. x \in Nat /\ x > 0
  BY UptimeAssumption, SMTT(30)
<1>2. now \in Nat
  BY NowIs
<1>3. Cutoff = now - x
  BY DEF Cutoff
<1> HIDE DEF x
<1> QED BY <1>1, <1>2, <1>3

LEMMA InsertKeeps ==
  ASSUME UptimeInv, NEW new \in SUBSET changing, Insert(new), changing' = changing \ new,
         UNCHANGED <<now, stored, req, doubted>>
  PROVE  UptimeInv'
<1>1. /\ Changes' = Changes /\ rows' \subseteq rows \cup new /\ (~torn' => ~torn)
      /\ \A d \in Day, e \in Nat : e <= now =>
              /\ Truth(d, e)' = Truth(d, e)
              /\ ~TellsPart(changing, d, e) =>
                   ~TellsPart(changing, d, e)' /\ (CoveredUntil(d, e)' => CoveredUntil(d, e))
  BY RecordChanges
<1>2. now \in Nat /\ now \in Tick /\ Cutoff \in Int /\ Cutoff' = Cutoff
  BY NowIs, CutoffIs DEF Cutoff
<1>3. HistoryHolds /\ \A w \in Changes : w.at \in Nat
  BY RowTypes DEF UptimeInv, HistoryHolds, Orderly
<1>4. changing' \subseteq Rows /\ rows' \subseteq Rows /\ pruned' \subseteq Rows
  BY <1>1, <1>3 DEF HistoryHolds, Orderly, Changes
<1>5. UptimeTypeOK'
  <2>1. torn' \in BOOLEAN
    BY DEF Insert, UptimeInv, UptimeTypeOK
  <2> QED BY <1>2, <1>4, <2>1 DEF UptimeInv, UptimeTypeOK
<1>6. HistoryHolds'
  <2>1. Orderly(Changes)' /\ (\A w \in Changes : w.nth <= Cardinality(Changes) /\ w.at <= now)'
    BY <1>1, <1>3 DEF HistoryHolds, Orderly
  <2>2. (changing \cap rows = {})'
    BY <1>1, <1>3 DEF HistoryHolds
  <2>3. Outdated(rows \cup new) = {w \in rows \cup new : w.at < Cutoff}
    BY DEF Outdated, Cutoff
  <2>4. ASSUME NEW v \in pruned'
        PROVE  v.at < Cutoff /\ v.at \in Nat /\ (v \in pruned \/ v \in rows \cup new)
    BY <1>3, <2>3 DEF Insert, HistoryHolds, Changes
  <2>5. ASSUME NEW w \in rows'
        PROVE  w.at \in Nat /\ ~(w.at < Cutoff)
    BY <1>3, <2>3 DEF Insert, Changes
  <2>6. \A v \in pruned', w \in rows' : v.at < w.at
    BY <1>2, <2>4, <2>5
  <2> QED BY <1>2, <2>1, <2>2, <2>4, <2>6 DEF HistoryHolds
<1>7. StoredHolds'
  BY <1>1, <1>2 DEF UptimeInv, StoredHolds
<1>8. ASSUME NEW r \in Request, NEW q \in Asked, req[r] = q
      PROVE  RequestHolds(q)'
  BY <1>1, <1>8, BeforeSurvivesRecord, RequestSurvives
<1> QED BY <1>5, <1>6, <1>7, <1>8, RequestsSurvive DEF UptimeInv

LEMMA BeginKeepsUptime == UptimeInv /\ BeginChange => UptimeInv'
<1> SUFFICES ASSUME UptimeInv, BeginChange PROVE UptimeInv'
  OBVIOUS
<1>0. PICK on \in BOOLEAN : changing' = changing \cup {[nth |-> Cardinality(Changes) + 1, at |-> now, online |-> on]}
  BY DEF BeginChange
<1> DEFINE n == Cardinality(Changes)
           row == [nth |-> n + 1, at |-> now, online |-> on]
<1>1. n < MaxChanges /\ changing' = changing \cup {row} /\ UNCHANGED <<now, rows, pruned, stored, req, torn, doubted>>
  BY <1>0 DEF BeginChange
<1>2. IsFiniteSet(Changes) /\ n \in Nat /\ MaxChanges \in Nat
  BY HistoryFinite, UptimeAssumption
<1>3. now \in Tick /\ now \in Nat /\ Orderly(Changes) /\ \A w \in Changes : w.nth <= n /\ w.at <= now
  BY NowIs DEF UptimeInv, HistoryHolds
<1>4. \A w \in Changes : w.nth \in Nat /\ w.at \in Nat
  BY <1>3, RowTypes DEF Orderly
<1>5. row \notin Changes
  BY <1>2, <1>3
<1>6. Cardinality(Changes \cup {row}) = n + 1
  <2> HIDE DEF row
  <2> QED BY <1>2, <1>5, FS_AddElement
<1>7. row \in Rows
  BY <1>1, <1>2, <1>3 DEF Rows
<1>8. row.nth = n + 1 /\ row.at = now
  OBVIOUS
<1> HIDE DEF row, n
<1>9. Orderly(Changes \cup {row})
  <2>1. Changes \cup {row} \subseteq Rows
    BY <1>3, <1>7 DEF Orderly
  <2>2. \A w \in Changes : w.nth < row.nth /\ w.at <= row.at
    BY <1>2, <1>3, <1>4, <1>8
  <2>4. \A v, w \in Changes \cup {row} : v.nth = w.nth => v = w
    BY <1>2, <1>3, <1>4, <1>8, <2>2 DEF Orderly
  <2>5. \A v, w \in Changes \cup {row} : v.nth < w.nth => v.at <= w.at
    BY <1>2, <1>3, <1>4, <1>8, <2>2 DEF Orderly
  <2> QED BY <2>1, <2>4, <2>5 DEF Orderly
<1>10. \A w \in Changes \cup {row} : w.nth <= n + 1 /\ w.at <= now
  BY <1>2, <1>3, <1>4, <1>8
<1>11. /\ Changes' = Changes \cup {row}
       /\ \A d \in Day, e \in Nat : e <= now =>
              /\ Truth(d, e)' = Truth(d, e)
              /\ ~TellsPart(changing, d, e) =>
                   ~TellsPart(changing, d, e)' /\ (CoveredUntil(d, e)' => CoveredUntil(d, e))
  BY <1>1, <1>5, <1>8, BeginChanges
<1>12. UptimeTypeOK'
  <2>1. changing' \subseteq Rows
    BY <1>1, <1>7 DEF UptimeInv, UptimeTypeOK
  <2> QED BY <1>1, <2>1 DEF UptimeInv, UptimeTypeOK
<1>13. HistoryHolds'
  <2>1. Orderly(Changes)' /\ (\A w \in Changes : w.nth <= Cardinality(Changes) /\ w.at <= now)'
    BY <1>1, <1>6, <1>9, <1>10, <1>11 DEF Orderly
  <2>2. (changing \cap rows = {})'
    BY <1>1, <1>5 DEF UptimeInv, HistoryHolds, Changes
  <2>3. (\A v \in pruned : v.at < Cutoff /\ \A w \in rows : v.at < w.at)'
    BY <1>1 DEF UptimeInv, HistoryHolds, Cutoff
  <2> QED BY <2>1, <2>2, <2>3 DEF HistoryHolds
<1>14. StoredHolds'
  BY <1>1, <1>3, <1>11 DEF UptimeInv, StoredHolds
<1>15. ASSUME NEW r \in Request, NEW q \in Asked, req[r] = q
       PROVE  RequestHolds(q)'
  <2>1. q.phase = "between" => BeforeHolds(q)'
    BY <1>1, <1>8, <1>15, BeforeSurvivesBegin
  <2> QED BY <1>1, <1>11, <1>15, <2>1, RequestSurvives
<1>16. ReqTyped' /\ (\A r \in Request : req[r] # NoRequest => RequestHolds(req[r]))'
  BY <1>1, <1>15, RequestsSurvive
<1> QED BY <1>12, <1>13, <1>14, <1>16 DEF UptimeInv

LEMMA RecordKeepsUptime == UptimeInv /\ (RecordElsewhere \/ \E w \in changing : Record(w)) => UptimeInv'
<1>1. UptimeInv /\ RecordElsewhere => UptimeInv'
  <2> SUFFICES ASSUME UptimeInv, RecordElsewhere PROVE UptimeInv'
    OBVIOUS
  <2>1. Insert({}) /\ UNCHANGED <<now, stored, req, doubted>> /\ changing' = changing \ {} /\ {} \in SUBSET changing
    BY DEF RecordElsewhere
  <2> QED BY <2>1, InsertKeeps
<1>2. ASSUME UptimeInv, NEW w \in changing, Record(w)
      PROVE  UptimeInv'
  <2>1. Insert({w}) /\ UNCHANGED <<now, stored, req, doubted>> /\ changing' = changing \ {w} /\ {w} \in SUBSET changing
    BY <1>2 DEF Record
  <2> QED BY <1>2, <2>1, InsertKeeps
<1> QED BY <1>1, <1>2

LEMMA PassesKeepsUptime == UptimeInv /\ Passes => UptimeInv'
<1> SUFFICES ASSUME UptimeInv, Passes PROVE UptimeInv'
  OBVIOUS
<1>1. now \in Nat /\ now' = now + 1 /\ now' \in Tick /\ UNCHANGED <<changing, rows, pruned, stored, req, torn, doubted>>
  BY NowIs DEF Passes
<1>2. \A d, e : /\ Truth(d, e)' = Truth(d, e) /\ (CoveredUntil(d, e)' <=> CoveredUntil(d, e))
                /\ TellsPart(changing, d, e)' <=> TellsPart(changing, d, e)
  BY <1>1 DEF Truth, CoveredUntil, TellsPart, Ticks, Telling, Changes
<1>3. \A d \in Day : Truth(d, now) \in Nat /\ Truth(d, now') \in Nat /\ Truth(d, now) <= Truth(d, now')
  BY <1>1, TruthGrows
<1>4. UptimeTypeOK'
  BY <1>1 DEF UptimeInv, UptimeTypeOK
<1>5. ReqTyped'
  BY <1>1 DEF UptimeInv, ReqTyped
<1>6. HistoryHolds'
  <2>1. Orderly(Changes)' /\ Cardinality(Changes)' = Cardinality(Changes) /\ Changes' = Changes
    BY <1>1 DEF UptimeInv, HistoryHolds, Orderly, Changes
  <2>2. \A w \in Changes : w.at \in Nat
    BY RowTypes DEF UptimeInv, HistoryHolds, Orderly
  <2>3. \A w \in Changes : w.at <= now'
    BY <1>1, <2>2 DEF UptimeInv, HistoryHolds
  <2>4. \A v \in pruned : v.at < Cutoff'
    <3> DEFINE x == Retention * Standard
    <3>1. x \in Nat
      BY UptimeAssumption, SMTT(30)
    <3>2. Cutoff = now - x /\ Cutoff' = now' - x
      BY DEF Cutoff
    <3>3. \A v \in pruned : v.at \in Nat /\ v.at < Cutoff
      BY <2>2 DEF UptimeInv, HistoryHolds, Changes
    <3> HIDE DEF x
    <3> QED BY <1>1, <3>1, <3>2, <3>3
  <2> QED BY <1>1, <2>1, <2>3, <2>4 DEF UptimeInv, HistoryHolds
<1>7. StoredHolds'
  <2>1. \A d \in Day : stored[d] # None => stored[d] \in Nat
    BY UptimeAssumption DEF UptimeInv, UptimeTypeOK
  <2>2. ~torn => \A d \in Day \ doubted : stored[d] # None => stored[d] <= Truth(d, now')
    BY <1>3, <2>1 DEF UptimeInv, StoredHolds
  <2> QED BY <1>1, <1>2, <2>2 DEF StoredHolds
<1>8. ASSUME NEW q \in Asked, NEW r \in Request, req[r] = q
      PROVE  RequestHolds(q)'
  <2>1. RequestHolds(q)
    <3>1. q # NoRequest
      BY DEF Asked, NoRequest
    <3> QED BY <1>8, <3>1 DEF UptimeInv
  <2>2. q.from \in Nat /\ q.to \in Day /\ q.first \in Nat /\ q.end \in Nat /\ q.from \in Day
    BY DEF Asked, Day
  <2>3. \A d \in q.from .. q.to : d \in Day
    BY <2>2, UptimeAssumption DEF Day
  <2>4. q.end <= now'
    BY <1>1, <2>1, <2>2 DEF RequestHolds
  <2>5. BeforeHolds(q) => BeforeHolds(q)'
    BY <1>1 DEF BeforeHolds, Changes, Before
  <2>6. ~torn => \A d \in (q.from .. q.to) \ q.doubted : q.answer[d] <= Truth(d, now')
    <3> SUFFICES ASSUME ~torn, NEW d \in (q.from .. q.to) \ q.doubted PROVE q.answer[d] <= Truth(d, now')
      OBVIOUS
    <3>1. q.answer[d] \in Nat
      BY <1>8, RequestIs
    <3>2. q.answer[d] <= Truth(d, now)
      BY <2>1 DEF RequestHolds
    <3> QED BY <1>3, <2>3, <3>1, <3>2
  <2>7. ~torn /\ q.phase = "failed" /\ q.next \notin q.doubted => Truth(q.next, now') > Standard
    <3> SUFFICES ASSUME ~torn, q.phase = "failed", q.next \notin q.doubted PROVE Truth(q.next, now') > Standard
      OBVIOUS
    <3>1. q.next \in q.first .. q.to /\ q.from <= q.first /\ Truth(q.next, now) > Standard
      BY <2>1 DEF RequestHolds
    <3>2. q.next \in Day
      BY <2>2, <2>3, <3>1
    <3>3. Standard \in Nat
      BY UptimeAssumption
    <3> QED BY <1>3, <3>1, <3>2, <3>3
  <2>8. q.phase \in {"store", "answered", "failed"} =>
          \A d \in (q.first .. q.to) \ q.doubted :
            ~TellsPart(changing, d, q.end)' /\ (CoveredUntil(d, q.end)' => q.answer[d] = Truth(d, q.end)')
    BY <1>2, <2>1 DEF RequestHolds
  <2> QED BY <1>1, <1>2, <2>1, <2>4, <2>5, <2>6, <2>7, <2>8 DEF RequestHolds
<1>9. (\A r \in Request : req[r] # NoRequest => RequestHolds(req[r]))'
  <2> SUFFICES ASSUME NEW r \in Request, req[r] # NoRequest PROVE RequestHolds(req[r])'
    BY <1>1 DEF NoRequest
  <2>1. PICK q \in Asked : req[r] = q
    BY DEF UptimeInv, ReqTyped
  <2>2. RequestHolds(q)'
    BY <1>8, <2>1
  <2> QED BY <1>1, <2>1, <2>2 DEF RequestHolds, BeforeHolds
<1> QED BY <1>4, <1>5, <1>6, <1>7, <1>9 DEF UptimeInv

\* A step of one request, with what it stores.
LEMMA RequestStep ==
  ASSUME UptimeInv, NEW r \in Request, NEW q \in Asked \cup {NoRequest}, req' = [req EXCEPT ![r] = q],
         UNCHANGED <<now, changing, rows, pruned, torn>>,
         stored' \in [Day -> {None} \cup 0 .. Standard], doubted' \subseteq Day,
         ~torn => \A d \in Day \ doubted' : stored'[d] # None => stored'[d] <= Truth(d, now),
         q \in Asked => /\ RequestHolds(q) /\ q.answer \in [q.from .. q.to -> Nat]
                        /\ q.kind = "timeline" => q.phase \notin {"store", "failed"}
  PROVE  UptimeInv'
<1>1. req' \in [Request -> {NoRequest} \cup Asked]
  BY DEF UptimeInv, ReqTyped
<1>2. req'[r] = q /\ \A k \in Request \ {r} : req'[k] = req[k]
  BY DEF UptimeInv, ReqTyped
<1>3. /\ \A d, e : /\ Truth(d, e)' = Truth(d, e) /\ (CoveredUntil(d, e)' <=> CoveredUntil(d, e))
                   /\ TellsPart(changing, d, e)' <=> TellsPart(changing, d, e)
      /\ \A k \in Asked : BeforeHolds(k)' <=> BeforeHolds(k)
  BY DEF Truth, CoveredUntil, TellsPart, Ticks, Telling, Changes, BeforeHolds, Before
<1>4. \A k \in Asked : RequestHolds(k) => RequestHolds(k)'
  BY <1>3 DEF RequestHolds
<1>5. ASSUME NEW k \in Request
      PROVE  req'[k] = NoRequest \/ /\ req'[k] \in Asked /\ RequestHolds(req'[k])
                                    /\ req'[k].answer \in [req'[k].from .. req'[k].to -> Nat]
                                    /\ req'[k].kind = "timeline" => req'[k].phase \notin {"store", "failed"}
  <2>1. CASE k = r
    BY <1>2, <2>1
  <2>2. CASE k # r /\ req[k] # NoRequest
    <3>1. PICK p \in Asked : req[k] = p
      BY <2>2 DEF UptimeInv, ReqTyped
    <3>2. /\ RequestHolds(p) /\ p.answer \in [p.from .. p.to -> Nat]
          /\ p.kind = "timeline" => p.phase \notin {"store", "failed"}
      BY <3>1, RequestIs
    <3> QED BY <1>2, <2>2, <3>1, <3>2
  <2> QED BY <1>2, <2>1, <2>2
<1>6. UptimeTypeOK'
  <2>1. now' \in Tick /\ torn' \in BOOLEAN /\ doubted' \subseteq Day /\ {changing', rows', pruned'} \subseteq SUBSET Rows
    BY DEF UptimeInv, UptimeTypeOK
  <2>2. ASSUME NEW k \in Request, req'[k] # NoRequest
        PROVE  /\ req'[k].phase \in {"before", "between", "store", "answered", "failed"}
               /\ req'[k].kind = "timeline" => req'[k].phase \notin {"store", "failed"}
               /\ {req'[k].from, req'[k].to} \subseteq Day /\ {req'[k].before, req'[k].missed} \subseteq SUBSET Rows
               /\ req'[k].answer \in [req'[k].from .. req'[k].to -> Nat]
    <3>1. PICK p \in Asked : req'[k] = p
      BY <1>1, <2>2
    <3>2. /\ p.answer \in [p.from .. p.to -> Nat]
          /\ p.kind = "timeline" => p.phase \notin {"store", "failed"}
      BY <1>5, <2>2, <3>1
    <3>3. /\ p.phase \in {"before", "between", "store", "answered", "failed"}
          /\ {p.from, p.to} \subseteq Day /\ {p.before, p.missed} \subseteq SUBSET Rows
      BY DEF Asked
    <3> QED BY <3>1, <3>2, <3>3
  <2> QED BY <2>1, <2>2 DEF UptimeTypeOK, NoRequest
<1>7. ReqTyped'
  BY <1>1 DEF ReqTyped
<1>8. HistoryHolds'
  BY DEF UptimeInv, HistoryHolds, Orderly, Changes, Cutoff
<1>9. StoredHolds'
  BY <1>3 DEF StoredHolds
<1>10. (\A k \in Request : req[k] # NoRequest => RequestHolds(req[k]))'
  <2> SUFFICES ASSUME NEW k \in Request, req'[k] # NoRequest PROVE RequestHolds(req[k])'
    BY DEF NoRequest
  <2>1. PICK p \in Asked : req'[k] = p
    BY <1>1
  <2>2. RequestHolds(p)'
    BY <1>4, <1>5, <2>1
  <2> QED BY <2>1, <2>2 DEF RequestHolds, BeforeHolds
<1> QED BY <1>6, <1>7, <1>8, <1>9, <1>10 DEF UptimeInv

LEMMA StoredKept ==
  ASSUME UptimeInv, stored' = stored, doubted' = doubted
  PROVE  /\ stored' \in [Day -> {None} \cup 0 .. Standard] /\ doubted' \subseteq Day
         /\ ~torn => \A d \in Day \ doubted' : stored'[d] # None => stored'[d] <= Truth(d, now)
  BY DEF UptimeInv, UptimeTypeOK, StoredHolds

LEMMA LeaveKeepsUptime ==
  ASSUME UptimeInv, NEW r \in Request, Leave(r)
  PROVE  UptimeInv'
<1>1. NoRequest \notin Asked
  BY DEF NoRequest, Asked
<1>2. req' = [req EXCEPT ![r] = NoRequest] /\ UNCHANGED <<now, changing, rows, pruned, stored, torn, doubted>>
  BY DEF Leave
<1> QED BY <1>1, <1>2, RequestStep, StoredKept

LEMMA ReadBeforeKeepsUptime ==
  ASSUME UptimeInv, NEW r \in Request, ReadBefore(r)
  PROVE  UptimeInv'
<1>0. req[r].phase = "before"
  BY DEF ReadBefore
<1>1. PICK p \in Asked : req[r] = p /\ p.phase = "before"
  BY <1>0 DEF UptimeInv, ReqTyped, NoRequest
<1> DEFINE start == DayStart[p.first]
           earlier == {w \in rows : w.at < start}
           q == [p EXCEPT !.phase = "between", !.before = Sole(earlier), !.missed = Before(changing, start)]
<1>2. req' = [req EXCEPT ![r] = q] /\ UNCHANGED <<now, changing, rows, pruned, stored, torn, doubted>>
  <2>1. PICK b : b = Sole(earlier)
    OBVIOUS
  <2>2. PICK m : m = Before(changing, start)
    OBVIOUS
  <2>3. /\ req' = [req EXCEPT ![r].phase = "between", ![r].before = b, ![r].missed = m]
        /\ UNCHANGED <<now, changing, rows, pruned, stored, torn, doubted>>
    BY <1>1, <2>1, <2>2 DEF ReadBefore, Sole, Before
  <2>4. req' = [req EXCEPT ![r] = [p EXCEPT !.phase = "between", !.before = b, !.missed = m]]
    BY <1>1, <2>3 DEF UptimeInv, ReqTyped
  <2> HIDE DEF earlier, start
  <2> QED BY <2>1, <2>2, <2>3, <2>4
<1>3. RequestHolds(p) /\ p.answer \in [p.from .. p.to -> Nat] /\ p.first \in Day
  <2>1. p.next \in p.first .. p.to
    BY <1>1, RequestIs DEF RequestHolds
  <2>2. p.first \in p.first .. p.to
    BY <1>1, <2>1, RequestIs
  <2> QED BY <1>1, <2>2, RequestIs
<1>4. Orderly(Changes) /\ rows \subseteq Changes /\ changing \subseteq Changes /\ changing \cap rows = {}
  BY DEF UptimeInv, HistoryHolds, Changes
<1>5. Sole(earlier) \subseteq earlier /\ earlier = Before(rows, start)
  <2>1. Orderly(earlier)
    BY <1>4 DEF Orderly
  <2> QED BY <2>1, LatestIs DEF Sole, Before
<1>6. ASSUME NEW w \in Sole(Before(Changes, start)), w \in rows
      PROVE  Sole(earlier) = {w}
  <2>1. Orderly(Before(Changes, start)) /\ Before(Changes, start) # {} /\ w = LatestOf(Before(Changes, start))
    BY <1>4, <1>6 DEF Orderly, Before, Sole
  <2>2. w \in earlier /\ earlier \in SUBSET Before(Changes, start)
    <3>1. w \in Before(Changes, start)
      BY <2>1, LatestIs
    <3> QED BY <1>4, <1>6, <3>1 DEF Before
  <2>3. LatestOf(earlier) = w
    <3> HIDE DEF earlier
    <3> QED BY <2>1, <2>2, SameLatest
  <2> QED BY <2>2, <2>3 DEF Sole
<1>7. q.phase = "between" /\ q.before = Sole(earlier) /\ q.missed = Before(changing, start) /\ q.kind = p.kind
      /\ q.from = p.from /\ q.first = p.first /\ q.to = p.to /\ q.end = p.end /\ q.next = p.next
      /\ q.doubted = p.doubted /\ q.answer = p.answer
  BY DEF Asked
<1>8. q \in Asked
  <2>1. Sole(earlier) \in SUBSET Rows /\ Before(changing, start) \in SUBSET Rows
    BY <1>4, <1>5 DEF Orderly, Before
  <2> HIDE DEF earlier
  <2> QED BY <2>1 DEF Asked
<1> HIDE DEF q
<1>9. BeforeHolds(q)
  <2>1. q.before \subseteq Before(Changes, start)
    BY <1>4, <1>5, <1>7 DEF Before
  <2>2. Before(rows \ Before(changing, start), start) = earlier
    BY <1>4 DEF Before
  <2> QED BY <1>5, <1>6, <1>7, <2>1, <2>2 DEF BeforeHolds
<1>10. RequestHolds(q)
  BY <1>1, <1>3, <1>7, <1>9 DEF RequestHolds
<1> QED BY <1>2, <1>3, <1>7, <1>8, <1>10, RequestStep, StoredKept

\* The rows a request finds in the days it asks for.
Found(p) == {w \in rows : DayStart[p.first] <= w.at /\ w.at < p.end}
Read(p) == p.before \cup Found(p)

LEMMA ReadingIs ==
  ASSUME UptimeInv, NEW r \in Request, NEW p \in Asked, req[r] = p, p.phase = "between", DayStart[p.first] < p.end
  PROVE  /\ Reading(p.before, Found(p), DayStart[p.first], p.end)
         /\ Read(p) \subseteq Changes /\ p.first \in Day /\ BeforeHolds(p)
<1>1. p.next \in p.first .. p.to /\ BeforeHolds(p)
  BY RequestIs DEF RequestHolds
<1>2. p.first \in Day /\ p.end \in Nat
  <2>1. p.first \in p.first .. p.to
    BY <1>1, RequestIs
  <2> QED BY <2>1, RequestIs
<1>3. DayStart[p.first] \in Nat
  BY <1>2, DayStarts
<1>4. p.before \subseteq Before(Changes, DayStart[p.first])
  BY <1>1 DEF BeforeHolds
<1>5. Read(p) \subseteq Changes
  BY <1>4 DEF Read, Found, Before, Changes
<1>6. Orderly(p.before \cup Found(p))
  BY <1>5 DEF UptimeInv, HistoryHolds, Orderly, Read
<1>7. \A w \in p.before : w.at < DayStart[p.first]
  BY <1>4 DEF Before
<1> QED BY <1>1, <1>2, <1>3, <1>5, <1>6, <1>7 DEF Reading, Found

\* Where the row that tells the status is still there and came in time, a
\* request has read it.
LEMMA ReadWhatIsTold ==
  ASSUME UptimeInv, NEW r \in Request, NEW p \in Asked, req[r] = p, p.phase = "between",
         NEW t \in DayStart[p.first] .. p.end - 1, Telling(t) \subseteq rows, Telling(t) \cap p.missed = {}
  PROVE  Says(Read(p), t) <=> \E w \in Telling(t) : w.online
<1> DEFINE start == DayStart[p.first]
           all == UpTo(Changes, t)
           read == UpTo(Read(p), t)
<1>1. p.end \in Nat /\ t \in Int /\ start <= t /\ t < p.end
  BY RequestIs
<1>s. start \in Nat
  <2>1. p.next \in p.first .. p.to
    BY RequestIs DEF RequestHolds
  <2>2. p.first \in p.first .. p.to
    BY <2>1, RequestIs
  <2> QED BY <2>2, RequestIs, DayStarts
<1>2. Read(p) \subseteq Changes /\ BeforeHolds(p) /\ start < p.end
  BY <1>1, <1>s, ReadingIs
<1>3. Orderly(all) /\ read \in SUBSET all
  BY <1>2 DEF UptimeInv, HistoryHolds, Orderly, UpTo
<1>4. \A w \in Changes : w.at \in Nat
  BY RowTypes DEF UptimeInv, HistoryHolds, Orderly
<1>5. Telling(t) = Sole(all)
  BY TellingIs
<1>6. CASE all = {}
  BY <1>3, <1>5, <1>6 DEF Says, Sole
<1>7. CASE all # {}
  <2> DEFINE w == LatestOf(all)
  <2>1. w \in all /\ \A v \in all \ {w} : Later(w, v)
    BY <1>3, <1>7, LatestIs
  <2>2. w \in rows /\ w \notin p.missed
    BY <1>5, <1>7 DEF Sole
  <2>3. w \in read
    <3>1. CASE start <= w.at
      <4>1. w.at \in Nat /\ w.at <= t
        BY <1>4, <2>1 DEF UpTo
      <4> HIDE DEF w
      <4>2. w \in Found(p)
        BY <1>1, <1>s, <2>2, <3>1, <4>1 DEF Found
      <4> QED BY <4>1, <4>2 DEF Read, UpTo, Found, Changes
    <3>2. CASE w.at < start
      <4>1. \A v \in all : v.at <= w.at
        BY <1>4, <2>1 DEF Later, UpTo
      <4>2. all = Before(Changes, start)
        BY <1>1, <1>4, <1>s, <2>1, <3>2, <4>1 DEF Before, UpTo
      <4>3. w \in Sole(Before(Changes, start))
        BY <1>7, <4>2 DEF Sole
      <4>4. p.before = {w}
        BY <1>2, <2>2, <4>3 DEF BeforeHolds
      <4> QED BY <2>1, <4>4 DEF Read, UpTo
    <3>3. w.at \in Nat
      BY <1>4, <2>1 DEF UpTo
    <3> QED BY <1>s, <3>1, <3>2, <3>3
  <2>4. LatestOf(read) = w
    <3> HIDE DEF all, read
    <3> QED BY <1>3, <1>7, <2>3, SameLatest
  <2>5. Says(Read(p), t) <=> w.online
    <3>1. Sole(read) = {w}
      BY <2>3, <2>4 DEF Sole
    <3> HIDE DEF w
    <3> QED BY <3>1 DEF Says
  <2>6. Telling(t) = {w}
    BY <1>5, <1>7 DEF Sole
  <2> HIDE DEF w
  <2> QED BY <2>5, <2>6
<1> QED BY <1>6, <1>7

\* Nothing was pruned between the two reads: online is read where it was told.
LEMMA ReadOnlyWhatIsTold ==
  ASSUME UptimeInv, NEW r \in Request, NEW p \in Asked, req[r] = p, p.phase = "between", ~torn,
         NEW t \in DayStart[p.first] .. p.end - 1, Says(Read(p), t),
         Telling(t) \cap (p.missed \cup changing) = {}
  PROVE  \E w \in Telling(t) : w.online
<1> DEFINE start == DayStart[p.first]
           all == UpTo(Changes, t)
           read == UpTo(Read(p), t)
           known == Before(rows \ p.missed, start)
           w == LatestOf(read)
           u == LatestOf(all)
<1>1. p.end \in Nat /\ t \in Int /\ start <= t /\ t < p.end
  BY RequestIs
<1>s. start \in Nat
  <2>1. p.next \in p.first .. p.to
    BY RequestIs DEF RequestHolds
  <2>2. p.first \in p.first .. p.to
    BY <2>1, RequestIs
  <2> QED BY <2>2, RequestIs, DayStarts
<1>2. Read(p) \subseteq Changes /\ BeforeHolds(p) /\ start < p.end
  BY <1>1, <1>s, ReadingIs
<1>3. Orderly(all) /\ Orderly(read) /\ Orderly(known) /\ read \subseteq all
  BY <1>2 DEF UptimeInv, HistoryHolds, Orderly, UpTo, Before, Changes
<1>4. \A v \in Changes : v.at \in Nat /\ v.nth \in Nat
  BY RowTypes DEF UptimeInv, HistoryHolds, Orderly
<1>5. read # {} /\ w.online
  BY DEF Says, Sole
<1>6. w \in read /\ \A v \in read \ {w} : Later(w, v)
  BY <1>3, <1>5, LatestIs
<1>7. p.before = Sole(known)
  BY <1>2 DEF BeforeHolds
<1>8. p.before \subseteq known /\ \A b \in p.before : \A v \in known \ {b} : Later(b, v)
  BY <1>3, <1>7, LatestIs DEF Sole
<1>9. w \in rows
  BY <1>6, <1>8 DEF Read, Found, UpTo, Before
<1>10. u \in all /\ \A v \in all \ {u} : Later(u, v)
  BY <1>3, <1>6, LatestIs
<1>11. Telling(t) = {u}
  BY <1>3, <1>6, TellingIs DEF Sole
<1>12. u = w
  <2> SUFFICES ASSUME u # w PROVE FALSE
    OBVIOUS
  <2>0. Later(u, w)
    BY <1>3, <1>6, <1>10
  <2>1. /\ u \in Changes /\ u.at \in Nat /\ u.nth \in Nat /\ u.at <= t
        /\ w.at \in Nat /\ w.nth \in Nat
    BY <1>4, <1>9, <1>10 DEF UpTo, Changes
  <2>2. u \notin pruned
    BY <1>9, <2>0, <2>1 DEF UptimeInv, HistoryHolds, Later
  <2>3. u \in rows /\ u \notin p.missed
    BY <1>11, <2>1, <2>2 DEF Changes
  <2>4. u \notin read
    BY <1>6, <2>0, <2>1 DEF Later
  <2>5. u.at < start
    <3>1. CASE start <= u.at
      <4>1. u \in read
        BY <1>1, <2>1, <2>3, <3>1 DEF Read, Found, UpTo
      <4> QED BY <2>4, <4>1
    <3> QED BY <1>s, <2>1, <3>1
  <2>6. u \in known
    BY <2>3, <2>5 DEF Before
  <2>7. PICK b \in p.before : TRUE
    BY <1>7, <2>6 DEF Sole
  <2>8. b \in known /\ b.at \in Nat /\ b.nth \in Nat /\ b.at < start
    BY <1>4, <1>8 DEF Before, Changes
  <2>9. b \in read
    BY <1>1, <1>s, <2>8 DEF Read, UpTo
  <2>10. Later(b, u)
    BY <1>8, <2>4, <2>6, <2>9
  <2>11. b = w \/ Later(w, b)
    BY <1>6, <2>9
  <2> HIDE DEF w, u, read
  <2> QED BY <2>0, <2>1, <2>8, <2>10, <2>11 DEF Later
<1> HIDE DEF w, u
<1> QED BY <1>5, <1>11, <1>12

\* What a request computes from the rows it read.
Figures(p) == IF p.end <= DayStart[p.first] THEN {}
              ELSE Intervals(p.before, Found(p), DayStart[p.first], p.end)
Said(p, d) == {t \in Ticks(d, p.end) : Says(Read(p), t)}

LEMMA FiguresAreSaid ==
  ASSUME UptimeInv, NEW r \in Request, NEW p \in Asked, req[r] = p, p.phase = "between",
         NEW d \in p.first .. p.to
  PROVE  Total(Figures(p), d) = Cardinality(Said(p, d))
<1> DEFINE start == DayStart[p.first]
<1>1. d \in Day /\ p.end \in Nat /\ p.first \in Nat /\ d \in Nat /\ p.first <= d
  BY RequestIs DEF Day
<1>2. p.first \in Day /\ start <= DayStart[d] /\ start \in Nat /\ DayStart[d] \in Nat /\ DayStart[d + 1] \in Nat
  BY <1>1, DaysInOrder, DayStarts
<1>3. CASE p.end <= start
  <2>1. Figures(p) = {}
    BY <1>3 DEF Figures
  <2>2. Apart({})
    BY FS_EmptySet DEF Apart
  <2>3. Ticks(d, p.end) = {}
    BY <1>1, <1>2, <1>3 DEF Ticks
  <2>4. Said(p, d) = {}
    BY <2>3 DEF Said
  <2>5. {t \in DayStart[d] .. DayStart[d + 1] - 1 : \E i \in {} : i[1] <= t /\ t < i[2]} = {}
    OBVIOUS
  <2> QED BY <1>1, <2>1, <2>2, <2>4, <2>5, TotalIs
<1>4. CASE ~(p.end <= start)
  <2> DEFINE I == Intervals(p.before, Found(p), start, p.end)
  <2>1. Figures(p) = I
    BY <1>4 DEF Figures
  <2>2. start < p.end
    BY <1>1, <1>2, <1>4
  <2>3. Reading(p.before, Found(p), start, p.end)
    BY <2>2, ReadingIs
  <2>4. Apart(I) /\ \A i \in I : start <= i[1] /\ i[2] <= p.end
    BY <2>3, IntervalsApart
  <2>5. \A t \in start .. p.end - 1 : (\E i \in I : i[1] <= t /\ t < i[2]) <=> Says(Read(p), t)
    BY <2>3, IntervalsAreTrue DEF Read
  <2> HIDE DEF I
  <2>6. Total(I, d) =
          Cardinality({t \in DayStart[d] .. DayStart[d + 1] - 1 : \E i \in I : i[1] <= t /\ t < i[2]})
    BY <1>1, <2>4, TotalIs
  <2>7. ASSUME NEW t \in DayStart[d] .. DayStart[d + 1] - 1
        PROVE  (\E i \in I : i[1] <= t /\ t < i[2]) <=> (t < p.end /\ Says(Read(p), t))
    <3>1. t \in Int /\ start <= t
      BY <1>2
    <3>2. (\E i \in I : i[1] <= t /\ t < i[2]) => t < p.end
      BY <1>1, <2>4, <3>1 DEF Apart
    <3>3. t < p.end => t \in start .. p.end - 1
      BY <1>1, <1>2, <3>1
    <3> QED BY <2>5, <3>2, <3>3
  <2>8. {t \in DayStart[d] .. DayStart[d + 1] - 1 : \E i \in I : i[1] <= t /\ t < i[2]} = Said(p, d)
    BY <2>7 DEF Said, Ticks
  <2> QED BY <2>1, <2>6, <2>8
<1> QED BY <1>3, <1>4

\* They are true where the history covers a day and never more than true, if
\* the changes that tell the day came in time.
Doubtful(p, d) == TellsPart(p.missed \cup changing, d, p.end)

LEMMA FiguresAreTrue ==
  ASSUME UptimeInv, NEW r \in Request, NEW p \in Asked, req[r] = p, p.phase = "between",
         NEW d \in p.first .. p.to
  PROVE  /\ Total(Figures(p), d) \in Nat
         /\ ~Doubtful(p, d) =>
              /\ ~TellsPart(changing, d, p.end)
              /\ CoveredUntil(d, p.end) => Total(Figures(p), d) = Truth(d, p.end)
              /\ ~torn => Total(Figures(p), d) <= Truth(d, p.end)
<1>1. d \in Day /\ p.end \in Nat /\ p.first \in Nat /\ d \in Nat /\ p.first <= d
  BY RequestIs DEF Day
<1>2. p.first \in Day /\ DayStart[p.first] <= DayStart[d] /\ DayStart[p.first] \in Nat /\ DayStart[d] \in Nat
      /\ DayStart[d + 1] \in Nat
  BY <1>1, DaysInOrder, DayStarts
<1>3. \A t \in Ticks(d, p.end) : t \in DayStart[p.first] .. p.end - 1
  BY <1>1, <1>2 DEF Ticks
<1>d. ~Doubtful(p, d) => \A t \in Ticks(d, p.end) : Telling(t) \cap (p.missed \cup changing) = {}
  BY DEF Doubtful, TellsPart
<1>c. ~Doubtful(p, d) => ~TellsPart(changing, d, p.end)
  BY <1>d DEF TellsPart
<1>4. ~Doubtful(p, d) /\ CoveredUntil(d, p.end) => Said(p, d) = OnlineTicks(d, p.end)
  <2> SUFFICES ASSUME ~Doubtful(p, d), CoveredUntil(d, p.end), NEW t \in Ticks(d, p.end)
               PROVE  Says(Read(p), t) <=> \E w \in Telling(t) : w.online
    BY DEF Said, OnlineTicks
  <2>1. Telling(t) \subseteq rows /\ Telling(t) \cap p.missed = {}
    BY <1>d DEF CoveredUntil
  <2> QED BY <1>3, <2>1, ReadWhatIsTold
<1>5. ~Doubtful(p, d) /\ ~torn => Said(p, d) \subseteq OnlineTicks(d, p.end)
  <2> SUFFICES ASSUME ~Doubtful(p, d), ~torn, NEW t \in Ticks(d, p.end), Says(Read(p), t)
               PROVE  \E w \in Telling(t) : w.online
    BY DEF Said, OnlineTicks
  <2> QED BY <1>3, <1>d, ReadOnlyWhatIsTold
<1>6. Said(p, d) \in SUBSET Ticks(d, p.end) /\ OnlineTicks(d, p.end) \in SUBSET Ticks(d, p.end)
  BY DEF Said, OnlineTicks
<1>7. Truth(d, p.end) = Cardinality(OnlineTicks(d, p.end))
  BY DEF Truth, OnlineTicks
<1>8. Total(Figures(p), d) = Cardinality(Said(p, d))
  BY FiguresAreSaid
<1> QED BY <1>1, <1>c, <1>4, <1>5, <1>6, <1>7, <1>8, TicksFinite

LEMMA ReadBetweenKeepsUptime ==
  ASSUME UptimeInv, NEW r \in Request, ReadBetween(r)
  PROVE  UptimeInv'
<1>0. req[r].phase = "between"
  BY DEF ReadBetween
<1>1. PICK p \in Asked : req[r] = p /\ p.phase = "between"
  BY <1>0 DEF UptimeInv, ReqTyped, NoRequest
<1> DEFINE answer == [d \in p.from .. p.to |-> IF d < p.first THEN p.answer[d] ELSE Total(Figures(p), d)]
           phase == IF p.kind = "summary" THEN "store" ELSE "answered"
           doubt == {d \in p.from .. p.to : IF d < p.first THEN d \in p.doubted ELSE Doubtful(p, d)}
           q == [p EXCEPT !.phase = phase, !.before = {}, !.missed = {}, !.doubted = doubt, !.answer = answer]
<1>2. req' = [req EXCEPT ![r] = q] /\ UNCHANGED <<now, changing, rows, pruned, stored, torn, doubted>>
  <2>1. PICK a : a = answer
    OBVIOUS
  <2>2. PICK b : b = doubt
    OBVIOUS
  <2>3. PICK c : c = phase
    OBVIOUS
  <2>4. /\ req' = [req EXCEPT ![r].phase = c, ![r].before = {}, ![r].missed = {}, ![r].doubted = b, ![r].answer = a]
        /\ UNCHANGED <<now, changing, rows, pruned, stored, torn, doubted>>
    BY <1>1, <2>1, <2>2, <2>3 DEF ReadBetween, Figures, Found, Doubtful
  <2>5. req' = [req EXCEPT ![r] = [p EXCEPT !.phase = c, !.before = {}, !.missed = {}, !.doubted = b, !.answer = a]]
    BY <1>1, <2>4 DEF UptimeInv, ReqTyped
  <2> HIDE DEF answer, doubt, phase
  <2> QED BY <2>1, <2>2, <2>3, <2>4, <2>5
<1>3. RequestHolds(p) /\ p.answer \in [p.from .. p.to -> Nat] /\ p.end \in Nat
      /\ p.from \in Nat /\ p.first \in Nat /\ p.to \in Nat /\ p.from \in Day /\ p.to \in Day
      /\ p.kind \in {"summary", "timeline"}
  BY <1>1, RequestIs DEF Asked
<1>4. now \in Nat
  BY DayStarts, UptimeAssumption DEF UptimeInv, UptimeTypeOK, Tick, Day
<1>5. \A d \in p.first .. p.to :
        /\ Total(Figures(p), d) \in Nat
        /\ ~Doubtful(p, d) =>
             /\ ~TellsPart(changing, d, p.end)
             /\ CoveredUntil(d, p.end) => Total(Figures(p), d) = Truth(d, p.end)
             /\ ~torn => Total(Figures(p), d) <= Truth(d, p.end)
  BY <1>1, FiguresAreTrue
<1>6. \A d \in p.from .. p.to : d \in Day /\ (~(d < p.first) => d \in p.first .. p.to)
  BY <1>1, <1>3, RequestIs
<1>7. \A d \in Day : Truth(d, p.end) \in Nat /\ Truth(d, now) \in Nat /\ Truth(d, p.end) <= Truth(d, now)
  BY <1>3, <1>4, TruthGrows DEF RequestHolds
<1>8. answer \in [p.from .. p.to -> Nat]
  <2> SUFFICES ASSUME NEW d \in p.from .. p.to
               PROVE  (IF d < p.first THEN p.answer[d] ELSE Total(Figures(p), d)) \in Nat
    OBVIOUS
  <2> QED BY <1>3, <1>5, <1>6
<1>9. \A d \in p.first .. p.to : answer[d] = Total(Figures(p), d)
  <2> SUFFICES ASSUME NEW d \in p.first .. p.to PROVE answer[d] = Total(Figures(p), d)
    OBVIOUS
  <2>1. ~(d < p.first) /\ d \in p.from .. p.to
    BY <1>1, <1>3, RequestIs
  <2> QED BY <2>1
<1>a. doubt \in SUBSET Day /\ \A d \in (p.first .. p.to) \ doubt : ~Doubtful(p, d)
  <2> SUFFICES ASSUME NEW d \in (p.first .. p.to) \ doubt PROVE ~Doubtful(p, d)
    BY <1>6
  <2>1. ~(d < p.first) /\ d \in p.from .. p.to
    BY <1>1, <1>3, RequestIs
  <2> QED BY <2>1
<1>10. ~torn => \A d \in (p.from .. p.to) \ doubt : answer[d] <= Truth(d, now)
  <2> SUFFICES ASSUME ~torn, NEW d \in (p.from .. p.to) \ doubt PROVE answer[d] <= Truth(d, now)
    OBVIOUS
  <2>1. CASE d < p.first
    BY <1>3, <2>1 DEF RequestHolds
  <2>2. CASE ~(d < p.first)
    <3>1. d \in p.first .. p.to /\ d \in Day
      BY <1>6, <2>2
    <3>2. answer[d] = Total(Figures(p), d) /\ ~Doubtful(p, d)
      BY <1>9, <1>a, <3>1
    <3> HIDE DEF answer, doubt
    <3> QED BY <1>5, <1>7, <3>1, <3>2
  <2> QED BY <2>1, <2>2
<1> HIDE DEF answer, doubt
<1>11. q.phase = phase /\ q.before = {} /\ q.missed = {} /\ q.doubted = doubt /\ q.answer = answer /\ q.kind = p.kind /\ q.from = p.from
       /\ q.first = p.first /\ q.to = p.to /\ q.end = p.end /\ q.next = p.next
  BY DEF Asked
<1>12. answer \in Answers
  BY <1>3, <1>8, AnswersAre
<1>13. q \in Asked
  <2>1. phase \in {"store", "answered"} /\ {} \in SUBSET Rows
    OBVIOUS
  <2> HIDE DEF phase
  <2> QED BY <1>12, <1>a, <2>1 DEF Asked
<1> HIDE DEF q
<1>14. q.phase \in {"store", "answered"} /\ (q.kind = "timeline" => q.phase # "store")
  BY <1>3, <1>11
<1>15. RequestHolds(q)
  <2>1. \A d \in (q.first .. q.to) \ q.doubted :
          ~TellsPart(changing, d, q.end) /\ (CoveredUntil(d, q.end) => q.answer[d] = Truth(d, q.end))
    BY <1>5, <1>9, <1>11, <1>a
  <2>2. q.next \in q.first .. q.to /\ q.from <= q.to /\ q.from <= q.first /\ q.end <= now
    BY <1>1, <1>3, <1>11 DEF RequestHolds
  <2> QED BY <1>10, <1>11, <1>14, <2>1, <2>2 DEF RequestHolds
<1> QED BY <1>2, <1>8, <1>11, <1>13, <1>14, <1>15, RequestStep, StoredKept

LEMMA TodayIsADay ==
  ASSUME now \in Tick
  PROVE  Today \in Day
<1> DEFINE S == {n \in Nat : n <= LastDay /\ now < DayStart[n + 1]}
<1>1. LastDay \in Nat /\ now \in Nat /\ DayStart[LastDay + 1] \in Nat /\ now < DayStart[LastDay + 1]
  <2>1. LastDay \in Nat /\ DayStart[LastDay + 1] \in Nat
    BY UptimeAssumption
  <2> QED BY <2>1 DEF Tick
<1>2. PICK d \in S : \A n \in S : d <= n
  <2>1. S \in SUBSET Nat /\ LastDay \in S
    BY <1>1
  <2> HIDE DEF S
  <2> QED BY <2>1, LeastNatural
<1>3. d \in Day /\ d \in Nat /\ now < DayStart[d + 1]
  BY <1>1 DEF Day
<1>4. DayStart[d] <= now
  <2>1. CASE d = 0
    BY <1>1, <2>1, UptimeAssumption
  <2>2. CASE d # 0
    <3>1. d - 1 \in Nat /\ d - 1 <= LastDay /\ d - 1 + 1 = d /\ ~(d <= d - 1)
      BY <1>3, <2>2, <1>1
    <3>2. d - 1 \notin S
      BY <1>2, <3>1
    <3>3. ~(now < DayStart[d])
      BY <3>1, <3>2
    <3> HIDE DEF S
    <3> QED BY <1>1, <1>3, <3>3, DayStarts
  <2> QED BY <2>1, <2>2
<1> HIDE DEF S
<1> QED BY <1>3, <1>4 DEF Today, DayOf

LEMMA AskKeepsUptime ==
  ASSUME UptimeInv, NEW r \in Request, Ask(r)
  PROVE  UptimeInv'
<1>1. now \in Nat /\ now \in Tick /\ Today \in Int /\ Retention \in Nat
  BY DayStarts, UptimeAssumption, TodayIsADay DEF UptimeInv, UptimeTypeOK, Tick, Day
<1>2. PICK kind \in {"summary", "timeline"}, from \in Day, to \in Day :
        LET first == Max({from, Today - Retention})
        IN /\ from <= to
           /\ kind = "timeline" => to = from + WeekDays - 1 /\ first = from
           /\ req' = [req EXCEPT ![r] =
                [phase |-> IF first <= to THEN "before" ELSE "answered",
                 kind |-> kind, from |-> from, first |-> first, to |-> to,
                 end |-> Min({DayStart[to + 1], now}), before |-> {}, next |-> first,
                 missed |-> {}, doubted |-> doubted \cap (from .. to),
                 answer |-> [d \in from .. to |-> IF stored[d] = None THEN 0 ELSE stored[d]]]]
  BY DEF Ask
<1> DEFINE first == Max({from, Today - Retention})
           end == Min({DayStart[to + 1], now})
           phase == IF first <= to THEN "before" ELSE "answered"
           doubt == doubted \cap (from .. to)
           answer == [d \in from .. to |-> IF stored[d] = None THEN 0 ELSE stored[d]]
           q == [phase |-> phase, kind |-> kind, from |-> from, first |-> first, to |-> to,
                 end |-> end, before |-> {}, next |-> first, missed |-> {}, doubted |-> doubt, answer |-> answer]
<1>3. UNCHANGED <<now, changing, rows, pruned, stored, torn, doubted>> /\ req' = [req EXCEPT ![r] = q] /\ from <= to
  BY <1>2 DEF Ask
<1>4. from \in Nat /\ to \in Nat
  BY DEF Day
<1>5. first \in Nat /\ from <= first
  BY <1>1, <1>4 DEF Max
<1>6. end \in Nat /\ end <= now
  <2>1. DayStart[to + 1] \in Nat
    BY DayStarts
  <2> QED BY <1>1, <2>1 DEF Min
<1>7. \A d \in from .. to : d \in Day
  BY <1>4, UptimeAssumption DEF Day
<1>8. answer \in [from .. to -> Nat]
  <2>1. \A d \in from .. to : stored[d] \in {None} \cup Nat
    BY <1>7, UptimeAssumption DEF UptimeInv, UptimeTypeOK
  <2> QED BY <2>1
<1>d. doubt \in SUBSET Day /\ \A d \in (from .. to) \ doubt : d \in Day \ doubted
  BY <1>7
<1>9. ~torn => \A d \in (from .. to) \ doubt : answer[d] <= Truth(d, now)
  <2>1. \A d \in Day : Truth(d, now) \in Nat
    BY <1>1, TruthGrows
  <2>2. ~torn => \A d \in Day \ doubted : stored[d] # None => stored[d] <= Truth(d, now)
    BY DEF UptimeInv, StoredHolds
  <2> QED BY <1>7, <1>d, <2>1, <2>2
<1>10. answer \in Answers
  BY <1>8, AnswersAre
<1> HIDE DEF answer, end, first, doubt
<1>11. q \in Asked
  BY <1>5, <1>6, <1>10, <1>d DEF Asked
<1>12. q.phase = phase /\ q.kind = kind /\ q.from = from /\ q.first = first /\ q.to = to /\ q.end = end
       /\ q.next = first /\ q.doubted = doubt /\ q.answer = answer
  OBVIOUS
<1> HIDE DEF q
<1>13. RequestHolds(q)
  <2>1. phase \in {"before", "answered"} /\ (phase = "before" => first \in first .. to)
    BY <1>4, <1>5
  <2>2. phase = "answered" => first .. to = {}
    BY <1>4, <1>5
  <2> HIDE DEF phase
  <2> QED BY <1>3, <1>5, <1>6, <1>9, <1>12, <2>1, <2>2 DEF RequestHolds
<1>14. q.phase \notin {"store", "failed"}
  BY <1>12
<1> QED BY <1>3, <1>8, <1>11, <1>12, <1>13, <1>14, RequestStep, StoredKept

LEMMA StoreKeepsUptime ==
  ASSUME UptimeInv, NEW r \in Request, Store(r)
  PROVE  UptimeInv'
<1>1. PICK p \in Asked : req[r] = p /\ p.phase = "store"
  BY DEF UptimeInv, ReqTyped, Store, NoRequest
<1>2. /\ RequestHolds(p) /\ p.answer \in [p.from .. p.to -> Nat] /\ p.kind # "timeline"
      /\ p.next \in Nat /\ p.first \in Nat /\ p.to \in Nat
      /\ \A d \in p.first .. p.to : d \in p.from .. p.to /\ d \in Day
  BY <1>1, RequestIs
<1>3. p.next \in p.first .. p.to /\ p.next \in Day /\ p.answer[p.next] \in Nat
      /\ (~torn /\ p.next \notin p.doubted => p.answer[p.next] <= Truth(p.next, now))
  BY <1>1, <1>2 DEF RequestHolds
<1>4. Standard \in Nat /\ now \in Nat
  BY DayStarts, UptimeAssumption DEF UptimeInv, UptimeTypeOK, Tick, Day
<1>5. UNCHANGED <<now, changing, rows, pruned, torn>>
  BY DEF Store
<1>6. CASE /\ p.answer[p.next] <= Standard
           /\ stored' = [stored EXCEPT ![p.next] = p.answer[p.next]]
           /\ doubted' = (doubted \ {p.next}) \cup (p.doubted \cap {p.next})
           /\ req' = IF p.next = p.to THEN [req EXCEPT ![r].phase = "answered"]
                     ELSE [req EXCEPT ![r].next = @ + 1]
  <2>1. /\ stored' \in [Day -> {None} \cup 0 .. Standard] /\ doubted' \subseteq Day
        /\ ~torn => \A d \in Day \ doubted' : stored'[d] # None => stored'[d] <= Truth(d, now)
    BY <1>3, <1>4, <1>6 DEF UptimeInv, UptimeTypeOK, StoredHolds
  <2>2. CASE p.next = p.to
    <3> DEFINE q == [p EXCEPT !.phase = "answered"]
    <3>1. req' = [req EXCEPT ![r] = q]
      BY <1>1, <1>6, <2>2
    <3>2. q \in Asked /\ q.phase = "answered" /\ q.kind = p.kind /\ q.from = p.from /\ q.first = p.first
          /\ q.to = p.to /\ q.end = p.end /\ q.next = p.next /\ q.doubted = p.doubted /\ q.answer = p.answer
      BY DEF Asked
    <3> HIDE DEF q
    <3>3. RequestHolds(q)
      BY <1>1, <1>2, <3>2 DEF RequestHolds
    <3> QED BY <1>2, <1>5, <2>1, <3>1, <3>2, <3>3, RequestStep
  <2>3. CASE p.next # p.to
    <3> DEFINE q == [p EXCEPT !.next = p.next + 1]
    <3>1. req' = [req EXCEPT ![r] = q]
      BY <1>1, <1>6, <2>3
    <3>2. q \in Asked /\ q.phase = p.phase /\ q.kind = p.kind /\ q.from = p.from /\ q.first = p.first
          /\ q.to = p.to /\ q.end = p.end /\ q.next = p.next + 1
          /\ q.doubted = p.doubted /\ q.answer = p.answer
      BY <1>2 DEF Asked
    <3> HIDE DEF q
    <3>3. q.next \in q.first .. q.to
      BY <1>2, <1>3, <2>3, <3>2
    <3>4. RequestHolds(q)
      BY <1>1, <1>2, <3>2, <3>3 DEF RequestHolds
    <3> QED BY <1>2, <1>5, <2>1, <3>1, <3>2, <3>4, RequestStep
  <2> QED BY <2>2, <2>3
<1>7. CASE /\ p.answer[p.next] > Standard
           /\ req' = [req EXCEPT ![r].phase = "failed"]
           /\ stored' = stored /\ doubted' = doubted
  <2> DEFINE q == [p EXCEPT !.phase = "failed"]
  <2>1. req' = [req EXCEPT ![r] = q]
    BY <1>1, <1>7
  <2>2. q \in Asked /\ q.phase = "failed" /\ q.kind = p.kind /\ q.from = p.from /\ q.first = p.first
        /\ q.to = p.to /\ q.end = p.end /\ q.next = p.next /\ q.doubted = p.doubted /\ q.answer = p.answer
    BY DEF Asked
  <2> HIDE DEF q
  <2>3. ~torn /\ q.next \notin q.doubted => Truth(q.next, now) > Standard
    <3>1. Truth(p.next, now) \in Nat
      BY <1>3, <1>4, TruthGrows
    <3> QED BY <1>3, <1>4, <1>7, <2>2, <3>1
  <2>4. RequestHolds(q)
    BY <1>1, <1>2, <2>2, <2>3 DEF RequestHolds
  <2> QED BY <1>2, <1>5, <1>7, <2>1, <2>2, <2>4, RequestStep, StoredKept
<1> QED BY <1>1, <1>6, <1>7 DEF Store

LEMMA UptimeInvNext == UptimeInv /\ [UptimeNext]_uptimeVars => UptimeInv'
<1> SUFFICES ASSUME UptimeInv, [UptimeNext]_uptimeVars PROVE UptimeInv'
  OBVIOUS
<1>1. ASSUME NEW r \in Request, Ask(r) \/ ReadBefore(r) \/ ReadBetween(r) \/ Store(r) \/ Leave(r)
      PROVE  UptimeInv'
  BY <1>1, AskKeepsUptime, ReadBeforeKeepsUptime, ReadBetweenKeepsUptime, StoreKeepsUptime, LeaveKeepsUptime
<1>2. CASE BeginChange \/ RecordElsewhere \/ Passes \/ \E w \in changing : Record(w)
  BY <1>2, BeginKeepsUptime, RecordKeepsUptime, PassesKeepsUptime
<1>3. CASE UNCHANGED uptimeVars
  <2>1. UNCHANGED <<now, changing, rows, pruned, stored, req, torn, doubted>>
    BY <1>3 DEF uptimeVars
  <2>2. \A d, e : /\ Truth(d, e)' = Truth(d, e) /\ (CoveredUntil(d, e)' <=> CoveredUntil(d, e))
                  /\ TellsPart(changing, d, e)' <=> TellsPart(changing, d, e)
    BY <2>1 DEF Truth, CoveredUntil, TellsPart, Ticks, Telling, Changes
  <2>3. \A p \in Asked : RequestHolds(p) => RequestHolds(p)'
    BY <2>1, <2>2 DEF RequestHolds, BeforeHolds, Before, Changes
  <2>4. UptimeTypeOK'
    BY <2>1 DEF UptimeInv, UptimeTypeOK
  <2>5. ReqTyped'
    BY <2>1 DEF UptimeInv, ReqTyped
  <2>6. HistoryHolds' /\ StoredHolds'
    BY <2>1, <2>2 DEF UptimeInv, HistoryHolds, StoredHolds, Orderly, Changes, Cutoff
  <2>7. (\A r \in Request : req[r] # NoRequest => RequestHolds(req[r]))'
    <3> SUFFICES ASSUME NEW r \in Request, req[r] # NoRequest PROVE RequestHolds(req[r])'
      BY <2>1 DEF NoRequest
    <3>1. PICK p \in Asked : req[r] = p
      BY DEF UptimeInv, ReqTyped
    <3>2. RequestHolds(p)'
      BY <2>3, <3>1, RequestIs
    <3> QED BY <2>1, <3>1, <3>2 DEF RequestHolds, BeforeHolds
  <2> QED BY <2>4, <2>5, <2>6, <2>7 DEF UptimeInv
<1> QED BY <1>1, <1>2, <1>3 DEF UptimeNext

\* What the figures say (uptime_service.py): an answer is the truth where the
\* history covers a day, online time is never invented unless rows are pruned
\* between the two reads, and a summary fails only for days longer than the
\* table admits - each for days read after the rows of the changes that tell
\* them came.
THEOREM AnswersAlwaysHold == UptimeSpec => []AnswersHold
<1>1. UptimeInv => AnswersHold
  <2> SUFFICES ASSUME UptimeInv PROVE AnswersHold
    OBVIOUS
  <2>1. now \in Nat
    BY DayStarts, UptimeAssumption DEF UptimeInv, UptimeTypeOK, Tick, Day
  <2>2. ASSUME NEW r \in Request, NEW p \in Asked, req[r] = p
        PROVE  /\ p.phase = "answered" =>
                    \A d \in (p.first .. p.to) \ p.doubted : Covered(d) => p.answer[d] = Truth(d, p.end)
               /\ ~torn => \A d \in (p.from .. p.to) \ p.doubted : p.answer[d] <= Truth(d, now)
               /\ ~torn /\ p.phase = "failed" /\ p.next \notin p.doubted => Truth(p.next, now) > Standard
    <3>1. RequestHolds(p) /\ p.end \in Nat
      BY <2>2, RequestIs
    <3>2. \A d \in p.first .. p.to : Covered(d) => CoveredUntil(d, p.end)
      <4>1. \A d \in p.first .. p.to : d \in Day
        BY <2>2, RequestIs
      <4> QED BY <2>1, <3>1, <4>1, DayStarts DEF Covered, CoveredUntil, Ticks, RequestHolds
    <3> QED BY <3>1, <3>2 DEF RequestHolds
  <2>3. ASSUME NEW r \in Request, req[r].phase # "idle"
        PROVE  \E p \in Asked : req[r] = p
    BY <2>3 DEF UptimeInv, ReqTyped, NoRequest
  <2>4. AnswerIsTrue
    BY <2>2, <2>3 DEF AnswerIsTrue, Answered
  <2>5. NeverOverstated
    BY <2>2, <2>3 DEF NeverOverstated, Answered, UptimeInv, StoredHolds
  <2>6. FailsOnLongDaysOnly
    BY <2>2, <2>3 DEF FailsOnLongDaysOnly
  <2> QED BY <2>4, <2>5, <2>6 DEF AnswersHold, UptimeInv
<1> QED BY <1>1, UptimeInvInit, UptimeInvNext, PTL DEF UptimeSpec

\* The right total of a day is replaced by a wrong one only when the history no
\* longer covers the day, or by a request older than the time it misses or than
\* the row of a change that tells part of the day (upsert_daily_summary).
THEOREM RightTotalsAlwaysStay == UptimeSpec => RightTotalsStay
<1> DEFINE Kept ==
      \A d \in Day :
        stored[d] = Truth(d, now) /\ stored'[d] # stored[d] =>
          \/ ~Covered(d)
          \/ \E r \in Request : /\ req[r].phase = "store"
                                /\ Truth(d, req[r].end) < Truth(d, now) \/ d \in req[r].doubted
<1>1. UptimeInv /\ [UptimeNext]_uptimeVars => Kept
  <2> SUFFICES ASSUME UptimeInv, [UptimeNext]_uptimeVars, NEW d \in Day, stored[d] = Truth(d, now),
                      stored'[d] # stored[d], Covered(d)
               PROVE  \E r \in Request : /\ req[r].phase = "store"
                                         /\ Truth(d, req[r].end) < Truth(d, now) \/ d \in req[r].doubted
    OBVIOUS
  <2>1. stored' # stored
    OBVIOUS
  <2>2. PICK r \in Request : Store(r)
    BY <2>1 DEF UptimeNext, BeginChange, Record, RecordElsewhere, Passes, Ask, ReadBefore, ReadBetween, Leave, uptimeVars
  <2>3. PICK p \in Asked : req[r] = p /\ p.phase = "store"
    BY <2>2 DEF UptimeInv, ReqTyped, Store, NoRequest
  <2>4. stored' = [stored EXCEPT ![p.next] = p.answer[p.next]]
    BY <2>1, <2>2, <2>3 DEF Store
  <2>5. d = p.next /\ stored'[d] = p.answer[d]
    BY <2>4 DEF UptimeInv, UptimeTypeOK
  <2>6. RequestHolds(p) /\ p.end \in Nat
    BY <2>3, RequestIs
  <2>7. now \in Nat
    BY DayStarts, UptimeAssumption DEF UptimeInv, UptimeTypeOK, Tick, Day
  <2>8. CoveredUntil(d, p.end)
    BY <2>6, <2>7, DayStarts DEF Covered, CoveredUntil, Ticks, RequestHolds
  <2>9. d \notin p.doubted => p.answer[d] = Truth(d, p.end)
    BY <2>3, <2>5, <2>6, <2>8 DEF RequestHolds
  <2>10. Truth(d, p.end) \in Nat /\ Truth(d, now) \in Nat /\ Truth(d, p.end) <= Truth(d, now)
    BY <2>6, <2>7, TruthGrows DEF RequestHolds
  <2> QED BY <2>3, <2>5, <2>9, <2>10
<1>2. UptimeSpec => []UptimeInv
  BY UptimeInvInit, UptimeInvNext, PTL DEF UptimeSpec
<1>3. UptimeInv /\ [UptimeNext]_uptimeVars => [Kept]_uptimeVars
  BY <1>1
<1> QED BY <1>2, <1>3, PTL DEF UptimeSpec, RightTotalsStay

-----------------------------------------------------------------------------
(* The days drawn in the timeline. *)

\* The inductive invariant: the times online on a day are a second apart.
PiecesApart ==
  /\ pieces \in [1 .. Days -> SUBSET Piece]
  /\ \A d \in 1 .. Days : \A p, q \in pieces[d] : p = q \/ p.to < q.from \/ q.to < p.from

\* What the division of seconds into minutes gives.
LEMMA MinuteFacts ==
  ASSUME TimelineAssumption, NEW t \in Nat
  PROVE  /\ t \div SecondsPerMinute \in Nat
         /\ (t \div SecondsPerMinute) * SecondsPerMinute \in Nat
         /\ (t \div SecondsPerMinute) * SecondsPerMinute <= t
         /\ t < (t \div SecondsPerMinute + 1) * SecondsPerMinute
         /\ (t \div SecondsPerMinute + 1) * SecondsPerMinute
              = (t \div SecondsPerMinute) * SecondsPerMinute + SecondsPerMinute
<1> DEFINE n == SecondsPerMinute
           q == t \div n
           r == t % n
<1>1. n \in Nat \ {0}
  BY DEF TimelineAssumption
<1>2. t = n * q + r /\ r \in 0 .. n - 1 /\ q \in Int
  BY <1>1
<1> HIDE DEF n, q, r
<1>3. q >= 0
  <2>1. CASE q <= -1
    <3>1. n * q <= -n
      BY <1>1, <1>2, <2>1, SMTT(30)
    <3> QED BY <1>1, <1>2, <3>1
  <2> QED BY <1>2, <2>1
<1>4. q * n \in Nat /\ q * n = n * q /\ (q + 1) * n = q * n + n
  BY <1>1, <1>2, <1>3, SMTT(30)
<1>5. q \in Nat /\ q * n <= t /\ t < q * n + n
  BY <1>1, <1>2, <1>3, <1>4
<1> QED BY <1>4, <1>5 DEF n, q

\* Minutes are in the order of their seconds.
LEMMA MinuteOrder ==
  ASSUME TimelineAssumption, NEW a \in Nat, NEW b \in Nat
  PROVE  /\ a * SecondsPerMinute \in Nat /\ b * SecondsPerMinute \in Nat
         /\ (a + 1) * SecondsPerMinute = a * SecondsPerMinute + SecondsPerMinute
         /\ a < b => (a + 1) * SecondsPerMinute <= b * SecondsPerMinute
<1> DEFINE n == SecondsPerMinute
<1>1. n \in Nat \ {0}
  BY DEF TimelineAssumption
<1> HIDE DEF n
<1>2. a * n \in Nat /\ b * n \in Nat /\ (a + 1) * n = a * n + n
  BY <1>1, SMTT(30)
<1>3. ASSUME a < b PROVE (a + 1) * n <= b * n
  <2>1. a + 1 <= b
    BY <1>3
  <2> DEFINE c == a + 1
  <2>2. c \in Nat /\ c <= b
    BY <2>1
  <2> HIDE DEF c
  <2>3. c * n <= b * n
    BY <1>1, <2>2, SMTT(30)
  <2> QED BY <2>3 DEF c
<1> QED BY <1>2, <1>3 DEF n

LEMMA MinuteIs ==
  ASSUME TimelineAssumption, NEW t \in Nat, NEW m \in Nat,
         m * SecondsPerMinute <= t, t < (m + 1) * SecondsPerMinute
  PROVE  t \div SecondsPerMinute = m
<1> DEFINE n == SecondsPerMinute
           q == t \div SecondsPerMinute
<1>1. q \in Nat /\ q * n \in Nat /\ q * n <= t /\ t < (q + 1) * n
  BY MinuteFacts
<1> HIDE DEF q
<1>2. CASE q < m
  <2>1. (q + 1) * n <= m * n /\ m * n \in Nat /\ (q + 1) * n \in Nat
    BY <1>1, <1>2, MinuteOrder
  <2> HIDE DEF n
  <2>2. t < (q + 1) * n /\ m * n <= t
    BY <1>1 DEF n
  <2> QED BY <2>1, <2>2
<1>3. CASE m < q
  <2>1. (m + 1) * n <= q * n /\ (m + 1) * n \in Nat
    BY <1>1, <1>3, MinuteOrder
  <2> HIDE DEF n
  <2>2. t < (m + 1) * n /\ q * n <= t
    BY <1>1 DEF n
  <2> QED BY <1>1, <2>1, <2>2
<1> QED BY <1>1, <1>2, <1>3 DEF q

LEMMA MidnightFacts ==
  ASSUME TimelineAssumption, NEW t \in 0 .. Midnight
  PROVE  /\ Midnight \in Nat /\ t \in Nat
         /\ t < Midnight => t \div SecondsPerMinute \in 0 .. MinutesPerDay - 1
         /\ t < Midnight => (t \div SecondsPerMinute) % MinutesPerDay = t \div SecondsPerMinute
         /\ t = Midnight => (t \div SecondsPerMinute) % MinutesPerDay = 0
<1> DEFINE n == SecondsPerMinute
           q == t \div SecondsPerMinute
<1>1. MinutesPerDay \in Nat \ {0} /\ n \in Nat \ {0}
  BY DEF TimelineAssumption
<1>2. MinutesPerDay * n \in Nat /\ Midnight = MinutesPerDay * n
  BY <1>1, MinuteOrder DEF Midnight
<1>3. t \in Nat
  BY <1>2
<1>4. q \in Nat /\ q * n \in Nat /\ q * n <= t
  BY <1>3, MinuteFacts
<1>5. ASSUME t < Midnight PROVE q \in 0 .. MinutesPerDay - 1
  <2>1. CASE MinutesPerDay <= q
    <3>1. MinutesPerDay * n <= q * n
      <4>1. MinutesPerDay < q => (MinutesPerDay + 1) * n <= q * n /\ (MinutesPerDay + 1) * n = MinutesPerDay * n + n
        BY <1>1, <1>4, MinuteOrder
      <4> HIDE DEF q
      <4>2. CASE MinutesPerDay = q
        BY <1>2, <4>2
      <4>3. CASE MinutesPerDay < q
        <5> DEFINE x == MinutesPerDay * n
                   y == q * n
        <5>1. x + n <= y /\ x \in Nat /\ y \in Nat
          BY <1>2, <1>4, <4>1, <4>3
        <5> HIDE DEF x, y
        <5>2. x <= y
          BY <1>1, <5>1
        <5> QED BY <5>2 DEF x, y
      <4> QED BY <1>1, <1>4, <2>1, <4>2, <4>3
    <3> HIDE DEF q, n
    <3> DEFINE x == MinutesPerDay * n
               y == q * n
    <3>2. x <= y /\ y <= t /\ t < x /\ x \in Nat /\ y \in Nat
      BY <1>2, <1>4, <1>5, <3>1
    <3> HIDE DEF x, y
    <3> QED BY <1>3, <3>2
  <2> HIDE DEF q
  <2> QED BY <1>1, <1>4, <2>1
<1>6. ASSUME t < Midnight PROVE q % MinutesPerDay = q
  <2>1. q \in 0 .. MinutesPerDay - 1
    BY <1>5, <1>6
  <2> HIDE DEF q
  <2> QED BY <1>1, <2>1
<1>7. ASSUME t = Midnight PROVE q % MinutesPerDay = 0
  <2>1. MinutesPerDay * n <= t /\ t < (MinutesPerDay + 1) * n
    <3>1. (MinutesPerDay + 1) * n = MinutesPerDay * n + n
      BY <1>1, MinuteOrder
    <3> DEFINE x == MinutesPerDay * n
    <3>2. t = x /\ x \in Nat /\ (MinutesPerDay + 1) * n = x + n
      BY <1>2, <1>7, <3>1
    <3> HIDE DEF x, n
    <3>3. x <= t /\ t < x + n
      BY <1>1, <3>2
    <3> QED BY <3>2, <3>3 DEF x
  <2>2. q = MinutesPerDay
    BY <1>1, <1>3, <2>1, MinuteIs
  <2> HIDE DEF q
  <2> QED BY <1>1, <2>2
<1> QED BY <1>2, <1>3, <1>5, <1>6, <1>7

\* The minute in which a piece ends.
LastMinute(p) == IF p.to = Midnight THEN MinutesPerDay ELSE p.to \div SecondsPerMinute

LEMMA PieceFacts ==
  ASSUME TimelineAssumption, NEW p \in Piece
  PROVE  /\ p.from \in Nat /\ p.to \in Nat /\ p.from < p.to
         /\ Start(p) \in 0 .. MinutesPerDay - 1 /\ Start(p) * SecondsPerMinute \in Nat
         /\ Start(p) * SecondsPerMinute <= p.from /\ p.from < (Start(p) + 1) * SecondsPerMinute
         /\ LastMinute(p) \in 0 .. MinutesPerDay /\ LastMinute(p) * SecondsPerMinute \in Nat
         /\ LastMinute(p) * SecondsPerMinute <= p.to
         /\ \A m \in Nat : m * SecondsPerMinute <= p.to => m <= LastMinute(p)
         /\ End(p) = IF p.to = Midnight THEN 0 ELSE LastMinute(p)
<1>1. MinutesPerDay \in Nat \ {0} /\ SecondsPerMinute \in Nat \ {0} /\ Midnight \in Nat
  BY MinuteOrder DEF TimelineAssumption, Midnight
<1>2. p.from \in 0 .. Midnight - 1 /\ p.to \in 1 .. Midnight /\ p.from < p.to
  BY DEF Piece
<1>3. p.from \in 0 .. Midnight /\ p.to \in 0 .. Midnight /\ p.from < Midnight /\ p.from \in Nat /\ p.to \in Nat
  BY <1>1, <1>2
<1>4. /\ Start(p) \in 0 .. MinutesPerDay - 1 /\ Start(p) * SecondsPerMinute \in Nat
      /\ Start(p) * SecondsPerMinute <= p.from /\ p.from < (Start(p) + 1) * SecondsPerMinute
  BY <1>3, MidnightFacts, MinuteFacts DEF Start
<1>5. CASE p.to = Midnight
  <2>1. LastMinute(p) = MinutesPerDay /\ End(p) = 0
    BY <1>3, <1>5, MidnightFacts DEF LastMinute, End
  <2>2. MinutesPerDay * SecondsPerMinute = p.to
    BY <1>5 DEF Midnight
  <2>3. ASSUME NEW m \in Nat, m * SecondsPerMinute <= p.to PROVE m <= MinutesPerDay
    <3>1. CASE MinutesPerDay < m
      <4> DEFINE x == MinutesPerDay * SecondsPerMinute
                 y == m * SecondsPerMinute
      <4>1. x + SecondsPerMinute <= y /\ x \in Nat /\ y \in Nat /\ y <= x
        BY <1>1, <2>2, <2>3, <3>1, MinuteOrder
      <4> HIDE DEF x, y
      <4> QED BY <1>1, <4>1
    <3> QED BY <1>1, <3>1
  <2>4. MinutesPerDay * SecondsPerMinute <= p.to /\ MinutesPerDay * SecondsPerMinute \in Nat
    <3> DEFINE x == MinutesPerDay * SecondsPerMinute
    <3>1. x = p.to
      BY <2>2
    <3> HIDE DEF x
    <3>2. x <= p.to /\ x \in Nat
      BY <1>3, <3>1
    <3> QED BY <3>2 DEF x
  <2>5. LastMinute(p) \in 0 .. MinutesPerDay
    BY <1>1, <2>1
  <2> QED BY <1>2, <1>3, <1>4, <1>5, <2>1, <2>3, <2>4, <2>5
<1>6. CASE p.to # Midnight
  <2> DEFINE e == p.to \div SecondsPerMinute
  <2>1. p.to < Midnight
    BY <1>1, <1>2, <1>6
  <2>2. /\ e \in 0 .. MinutesPerDay - 1 /\ e % MinutesPerDay = e
        /\ e * SecondsPerMinute \in Nat /\ e * SecondsPerMinute <= p.to /\ p.to < (e + 1) * SecondsPerMinute
    BY <1>3, <2>1, MidnightFacts, MinuteFacts
  <2>3. LastMinute(p) = e /\ End(p) = e
    BY <1>6, <2>2 DEF LastMinute, End
  <2> HIDE DEF e
  <2>4. ASSUME NEW m \in Nat, m * SecondsPerMinute <= p.to PROVE m <= e
    <3>1. CASE e < m
      <4> DEFINE x == (e + 1) * SecondsPerMinute
                 y == m * SecondsPerMinute
      <4>1. x <= y /\ x \in Int /\ y \in Nat /\ y <= p.to /\ p.to < x
        BY <1>1, <2>2, <2>4, <3>1, MinuteOrder
      <4> HIDE DEF x, y
      <4> QED BY <1>3, <4>1
    <3> QED BY <1>1, <2>2, <3>1
  <2>5. LastMinute(p) \in 0 .. MinutesPerDay
    BY <1>1, <2>2, <2>3
  <2> QED BY <1>2, <1>3, <1>4, <1>6, <2>2, <2>3, <2>4, <2>5
<1> QED BY <1>5, <1>6

\* A piece that is not within a minute has one bar, from its first minute to its last.
LEMMA BarFacts ==
  ASSUME TimelineAssumption, NEW p \in Piece, ~WithinAMinute(p)
  PROVE  /\ OwnBar(p).from = Start(p) /\ OwnBar(p).to = LastMinute(p)
         /\ Start(p) < LastMinute(p) /\ Rest(p) = {}
<1>1. MinutesPerDay \in Nat \ {0} /\ SecondsPerMinute \in Nat \ {0} /\ Midnight \in Nat
  BY MinuteOrder DEF TimelineAssumption, Midnight
<1>2. CASE p.to = Midnight
  <2>1. End(p) = 0 /\ LastMinute(p) = MinutesPerDay /\ Start(p) \in 0 .. MinutesPerDay - 1
    BY <1>2, PieceFacts DEF LastMinute
  <2>2. ~(End(p) > Start(p)) /\ Start(p) < LastMinute(p)
    BY <1>1, <2>1
  <2> QED BY <2>1, <2>2 DEF OwnBar, Bar, Rest
<1>3. CASE p.to # Midnight
  <2>1. End(p) = LastMinute(p) /\ LastMinute(p) = p.to \div SecondsPerMinute
    BY <1>3, PieceFacts DEF LastMinute
  <2>2. p.to < Midnight /\ Start(p) # p.to \div SecondsPerMinute
    BY <1>1, <1>3 DEF WithinAMinute, Piece
  <2>3. Start(p) <= LastMinute(p)
    <3>1. Start(p) \in Nat /\ Start(p) * SecondsPerMinute <= p.from /\ p.from < p.to
      BY <1>1, PieceFacts
    <3> DEFINE x == Start(p) * SecondsPerMinute
    <3>2. x \in Nat /\ x <= p.from /\ p.from \in Nat /\ p.to \in Nat
      BY <3>1, PieceFacts
    <3> HIDE DEF x
    <3>3. x <= p.to
      BY <3>1, <3>2
    <3> QED BY <3>1, <3>3, PieceFacts DEF x
  <2>4. Start(p) \in Int /\ LastMinute(p) \in Int
    BY PieceFacts
  <2>5. End(p) > Start(p)
    BY <2>1, <2>2, <2>3, <2>4
  <2> QED BY <2>1, <2>4, <2>5 DEF OwnBar, Bar, Rest
<1> QED BY <1>2, <1>3

\* A minute that was online throughout lies in one piece: where a piece ends,
\* no other one begins.
LEMMA WholeMinuteFacts ==
  ASSUME TimelineAssumption, PiecesApart, NEW d \in 1 .. Days, NEW m \in 0 .. MinutesPerDay - 1,
         MinuteOf(m) \subseteq OnlineAt(d)
  PROVE  \E p \in pieces[d] : p.from <= m * SecondsPerMinute /\ (m + 1) * SecondsPerMinute <= p.to
<1> DEFINE a == m * SecondsPerMinute
           z == (m + 1) * SecondsPerMinute
<1>1. SecondsPerMinute \in Nat \ {0} /\ m \in Nat
  BY DEF TimelineAssumption
<1>2. a \in Nat /\ z = a + SecondsPerMinute
  BY <1>1, MinuteOrder
<1>3. MinuteOf(m) = a .. z - 1
  BY DEF MinuteOf
<1> HIDE DEF a, z
<1>4. \A p \in pieces[d] : p \in Piece /\ p.from \in Nat /\ p.to \in Nat /\ p.from < p.to
  BY PieceFacts DEF PiecesApart
<1>5. ASSUME NEW t \in a .. z - 1 PROVE \E p \in pieces[d] : p.from <= t /\ t < p.to
  <2>1. t \in OnlineAt(d) /\ t \in Int
    BY <1>2, <1>3, <1>5
  <2>2. PICK p \in pieces[d] : t \in p.from .. p.to - 1
    BY <2>1 DEF OnlineAt
  <2> QED BY <1>4, <2>1, <2>2
<1>6. PICK p \in pieces[d] : p.from <= a /\ a < p.to
  BY <1>1, <1>2, <1>5
<1>7. CASE p.to < z
  <2>1. p.to \in a .. z - 1
    BY <1>1, <1>2, <1>4, <1>6, <1>7
  <2>2. PICK q \in pieces[d] : q.from <= p.to /\ p.to < q.to
    BY <1>5, <2>1
  <2>3. p = q \/ p.to < q.from \/ q.to < p.from
    BY <2>2 DEF PiecesApart
  <2> QED BY <1>4, <2>2, <2>3
<1> QED BY <1>1, <1>2, <1>4, <1>6, <1>7 DEF a, z

LEMMA WholeMinutes == TimelineAssumption /\ PiecesApart => WholeMinutesShown
<1> SUFFICES ASSUME TimelineAssumption, PiecesApart, NEW d \in 1 .. Days,
                    NEW m \in 0 .. MinutesPerDay - 1, MinuteOf(m) \subseteq OnlineAt(d)
             PROVE  m \in ShownMinutes(d)
  BY DEF WholeMinutesShown
<1>1. PICK p \in pieces[d] : p.from <= m * SecondsPerMinute /\ (m + 1) * SecondsPerMinute <= p.to
  BY WholeMinuteFacts
<1>2. p \in Piece /\ m \in Nat /\ m + 1 \in Nat
  BY <1>1 DEF PiecesApart, TimelineAssumption
<1>3. m + 1 <= LastMinute(p) /\ LastMinute(p) \in Nat /\ Start(p) \in Nat
  BY <1>1, <1>2, PieceFacts
<1>4. Start(p) <= m
  <2>1. CASE m < Start(p)
    <3> DEFINE x == m * SecondsPerMinute
               y == Start(p) * SecondsPerMinute
    <3>1. (m + 1) * SecondsPerMinute = x + SecondsPerMinute /\ (m + 1) * SecondsPerMinute <= y /\ x \in Nat
      BY <1>2, <1>3, <2>1, MinuteOrder
    <3>2. y <= p.from /\ p.from <= x /\ y \in Nat /\ p.from \in Nat /\ SecondsPerMinute \in Nat \ {0}
      BY <1>1, <1>2, PieceFacts DEF TimelineAssumption
    <3> HIDE DEF x, y
    <3>3. x + SecondsPerMinute <= y
      BY <3>1
    <3> QED BY <3>1, <3>2, <3>3
  <2> QED BY <1>2, <1>3, <2>1
<1>5. ~WithinAMinute(p)
  <2>1. CASE p.to = Midnight
    BY <2>1, PieceFacts, <1>2 DEF WithinAMinute
  <2>2. CASE p.to # Midnight
    <3>1. LastMinute(p) = p.to \div SecondsPerMinute
      BY <2>2 DEF LastMinute
    <3> QED BY <1>2, <1>3, <1>4, <3>1 DEF WithinAMinute
  <2> QED BY <2>1, <2>2
<1>6. OwnBar(p).from = Start(p) /\ OwnBar(p).to = LastMinute(p)
  BY <1>2, <1>5, BarFacts
<1>7. m \in OwnBar(p).from .. OwnBar(p).to - 1
  BY <1>2, <1>3, <1>4, <1>6
<1> QED BY <1>1, <1>7 DEF ShownMinutes, Bars

LEMMA BarsOfTheDay == TimelineAssumption /\ PiecesApart => BarsAreOfTheDay
<1> SUFFICES ASSUME TimelineAssumption, PiecesApart, NEW d \in 1 .. Days, Plain(d)
             PROVE  /\ \A m \in ShownMinutes(d) : MinuteOf(m) \cap OnlineAt(d) # {}
                    /\ \A b, c \in Bars(d) : b # c => b.to <= c.from \/ c.to <= b.from
  BY DEF BarsAreOfTheDay
<1>1. SecondsPerMinute \in Nat \ {0} /\ d \in Int
  BY DEF TimelineAssumption
<1>2. ASSUME NEW p \in pieces[d]
      PROVE  /\ p \in Piece /\ OwnBar(p).from = Start(p) /\ OwnBar(p).to = LastMinute(p)
  BY BarFacts DEF PiecesApart, Plain
<1>3. ASSUME d # 1, NEW p \in pieces[d - 1] PROVE Rest(p) = {}
  <2>1. d - 1 \in 1 .. Days /\ d - 1 \in {d, d - 1} \cap (1 .. Days)
    BY <1>1, <1>3, TimelineAssumption DEF TimelineAssumption
  <2>2. ~WithinAMinute(p)
    BY <2>1 DEF Plain
  <2>3. p \in Piece
    BY <2>1 DEF PiecesApart
  <2> QED BY <2>2, <2>3, BarFacts
<1>4. ASSUME NEW b \in Bars(d) PROVE \E p \in pieces[d] : b = OwnBar(p)
  BY <1>3, <1>4 DEF Bars
<1>5. ASSUME NEW m \in ShownMinutes(d) PROVE MinuteOf(m) \cap OnlineAt(d) # {}
  <2>1. PICK b \in Bars(d) : m \in b.from .. b.to - 1
    BY DEF ShownMinutes
  <2>2. PICK p \in pieces[d] : b = OwnBar(p)
    BY <1>4
  <2> DEFINE s == Start(p)
             l == LastMinute(p)
  <2>3. p \in Piece /\ s \in Nat /\ l \in Nat /\ m \in s .. l - 1
    BY <1>2, <2>1, <2>2, PieceFacts
  <2>4. /\ p.from \in Nat /\ p.to \in Nat /\ p.from < p.to
        /\ s * SecondsPerMinute <= p.from /\ p.from < (s + 1) * SecondsPerMinute
        /\ l * SecondsPerMinute <= p.to /\ l * SecondsPerMinute \in Nat
    BY <2>3, PieceFacts
  <2>5. m \in Nat /\ s <= m /\ m < l
    BY <2>3
  <2> HIDE DEF s, l
  <2> DEFINE x == m * SecondsPerMinute
             z == (m + 1) * SecondsPerMinute
  <2>6. x \in Nat /\ z = x + SecondsPerMinute /\ z <= l * SecondsPerMinute
    BY <2>3, <2>5, MinuteOrder
  <2>7. z <= p.to
    <3> DEFINE y == l * SecondsPerMinute
    <3>1. z <= y /\ y <= p.to /\ y \in Nat
      BY <2>4, <2>6
    <3> HIDE DEF y, z, x
    <3>2. z \in Int
      BY <1>1, <2>6
    <3> QED BY <2>4, <3>1, <3>2
  <2>8. MinuteOf(m) = x .. z - 1
    BY DEF MinuteOf
  <2>9. CASE m = s
    <3>1. x <= p.from /\ p.from < z
      BY <2>4, <2>9
    <3> HIDE DEF x, z
    <3>2. p.from \in x .. z - 1 /\ p.from \in p.from .. p.to - 1
      BY <1>1, <2>4, <2>6, <3>1
    <3> QED BY <2>8, <3>2 DEF OnlineAt
  <2>10. CASE s < m
    <3> DEFINE y == (s + 1) * SecondsPerMinute
    <3>1. y <= x /\ y \in Int /\ p.from < y
      BY <1>1, <2>3, <2>4, <2>5, <2>10, MinuteOrder
    <3> HIDE DEF x, y, z
    <3>2. x \in x .. z - 1 /\ x \in p.from .. p.to - 1
      BY <1>1, <2>4, <2>6, <2>7, <3>1
    <3> QED BY <2>8, <3>2 DEF OnlineAt
  <2> QED BY <2>3, <2>5, <2>9, <2>10
<1>6. ASSUME NEW p \in Piece, NEW q \in Piece, p.to < q.from PROVE LastMinute(p) <= Start(q)
  <2> DEFINE l == LastMinute(p)
             s == Start(q)
  <2>1. /\ l \in Nat /\ s \in Nat /\ l * SecondsPerMinute <= p.to /\ l * SecondsPerMinute \in Nat
        /\ q.from < (s + 1) * SecondsPerMinute /\ p.to \in Nat /\ q.from \in Nat
    BY PieceFacts
  <2> HIDE DEF l, s
  <2>2. ASSUME s < l PROVE FALSE
    <3> DEFINE x == (s + 1) * SecondsPerMinute
               y == l * SecondsPerMinute
    <3>1. x <= y /\ x \in Int /\ y \in Nat /\ y <= p.to /\ q.from < x
      BY <1>1, <2>1, <2>2, MinuteOrder
    <3> HIDE DEF x, y
    <3> QED BY <1>6, <2>1, <3>1
  <2>3. l <= s
    BY <2>1, <2>2
  <2> QED BY <2>3 DEF l, s
<1>7. ASSUME NEW b \in Bars(d), NEW c \in Bars(d), b # c PROVE b.to <= c.from \/ c.to <= b.from
  <2>1. PICK p \in pieces[d] : b = OwnBar(p)
    BY <1>4
  <2>2. PICK q \in pieces[d] : c = OwnBar(q)
    BY <1>4
  <2>3. p.to < q.from \/ q.to < p.from
    BY <1>7, <2>1, <2>2 DEF PiecesApart
  <2> QED BY <1>2, <1>6, <2>1, <2>2, <2>3
<1> QED BY <1>5, <1>7

\* The seconds from which a piece counts, up to the one before ShownUntil(p): the
\* bar of a piece that ends at midnight counts its first minute as a whole.
ShownUntil(p) == p.from + OwnBar(p).seconds

LEMMA SecondsShown ==
  ASSUME TimelineAssumption, NEW p \in Piece, ~WithinAMinute(p)
  PROVE  /\ OwnBar(p).of = p /\ OwnBar(p).seconds \in Nat
         /\ p.to # Midnight => ShownUntil(p) = p.to
         /\ p.to = Midnight => ShownUntil(p) - p.to \in 0 .. SecondsPerMinute - 1
<1>1. MinutesPerDay \in Nat \ {0} /\ SecondsPerMinute \in Nat \ {0} /\ Midnight \in Nat
  BY MinuteOrder DEF TimelineAssumption, Midnight
<1>2. /\ p.from \in Nat /\ p.to \in Nat /\ p.from < p.to
      /\ Start(p) \in 0 .. MinutesPerDay - 1 /\ Start(p) * SecondsPerMinute \in Nat
      /\ Start(p) * SecondsPerMinute <= p.from
      /\ p.from < (Start(p) + 1) * SecondsPerMinute
      /\ (Start(p) + 1) * SecondsPerMinute = Start(p) * SecondsPerMinute + SecondsPerMinute
  BY <1>1, PieceFacts, MinuteOrder
<1>3. OwnBar(p).of = p
  BY DEF OwnBar, Bar
<1>4. CASE p.to # Midnight
  <2>1. OwnBar(p).to = LastMinute(p) /\ Start(p) < LastMinute(p) /\ End(p) = LastMinute(p)
    BY <1>4, BarFacts, PieceFacts
  <2>2. End(p) > Start(p)
    BY <1>2, <2>1, PieceFacts
  <2>3. OwnBar(p).seconds = p.to - p.from
    BY <2>2 DEF OwnBar, Bar, Seconds
  <2> QED BY <1>2, <1>3, <1>4, <2>3 DEF ShownUntil
<1>5. CASE p.to = Midnight
  <2>1. End(p) = 0
    BY <1>5, PieceFacts
  <2>2. ~(End(p) > Start(p))
    BY <1>1, <1>2, <2>1
  <2>3. OwnBar(p).seconds = (MinutesPerDay - Start(p)) * SecondsPerMinute
    BY <2>2 DEF OwnBar, Bar
  <2> DEFINE s == Start(p)
  <2>4. s \in Int
    BY <1>1, <1>2
  <2> HIDE DEF s
  <2>5. (MinutesPerDay - s) * SecondsPerMinute = MinutesPerDay * SecondsPerMinute - s * SecondsPerMinute
    BY <1>1, <2>4, SMTT(30)
  <2> DEFINE x == s * SecondsPerMinute
  <2>6. OwnBar(p).seconds = p.to - x /\ x \in Nat /\ x <= p.from /\ p.from < x + SecondsPerMinute
    BY <1>2, <1>5, <2>3, <2>5 DEF s, Midnight
  <2> HIDE DEF x
  <2>7. OwnBar(p).seconds \in Nat /\ p.from + OwnBar(p).seconds - p.to \in 0 .. SecondsPerMinute - 1
    BY <1>1, <1>2, <2>6
  <2>8. ShownUntil(p) - p.to \in 0 .. SecondsPerMinute - 1
    BY <1>1, <1>2, <2>7 DEF ShownUntil
  <2> QED BY <1>3, <1>5, <2>7, <2>8
<1> QED BY <1>4, <1>5

\* The total of a day counts the seconds online, and those of a minute that ends the day.
LEMMA TotalOfTheDay ==
  ASSUME TimelineAssumption, PiecesApart, NEW d \in 1 .. Days, Plain(d)
  PROVE  ShownSeconds(d) - Cardinality(OnlineAt(d)) \in 0 .. SecondsPerMinute - 1
<1> DEFINE B == Bars(d)
           part == [b \in B |-> b.of.from .. ShownUntil(b.of) - 1]
<1>1. SecondsPerMinute \in Nat \ {0} /\ MinutesPerDay \in Nat \ {0} /\ Midnight \in Nat /\ d \in Int
  BY MinuteOrder DEF TimelineAssumption, Midnight
<1>2. ASSUME NEW p \in pieces[d]
      PROVE  /\ p \in Piece /\ p.from \in Nat /\ p.to \in Nat /\ p.from < p.to /\ p.to <= Midnight
             /\ OwnBar(p).of = p /\ OwnBar(p).seconds \in Nat
             /\ ShownUntil(p) \in Nat /\ ShownUntil(p) = p.from + OwnBar(p).seconds
             /\ p.to <= ShownUntil(p) /\ ShownUntil(p) - p.to \in 0 .. SecondsPerMinute - 1
             /\ p.to # Midnight => ShownUntil(p) = p.to
  <2>1. p \in Piece /\ ~WithinAMinute(p)
    BY DEF PiecesApart, Plain
  <2>2. p.from \in Nat /\ p.to \in Nat /\ p.from < p.to /\ p.to <= Midnight
    BY <1>1, <2>1, PieceFacts DEF Piece
  <2>3. /\ OwnBar(p).of = p /\ OwnBar(p).seconds \in Nat
        /\ p.to # Midnight => ShownUntil(p) = p.to
        /\ p.to = Midnight => ShownUntil(p) - p.to \in 0 .. SecondsPerMinute - 1
    BY <2>1, SecondsShown
  <2>4. ShownUntil(p) = p.from + OwnBar(p).seconds
    BY DEF ShownUntil
  <2>5. ShownUntil(p) \in Nat
    BY <2>2, <2>3, <2>4
  <2>6. ShownUntil(p) - p.to \in 0 .. SecondsPerMinute - 1
    BY <1>1, <2>2, <2>3, <2>5
  <2>7. p.to <= ShownUntil(p)
    BY <1>1, <2>2, <2>5, <2>6
  <2> QED BY <2>1, <2>2, <2>3, <2>4, <2>5, <2>6, <2>7
<1>3. ASSUME d # 1, NEW p \in pieces[d - 1] PROVE Rest(p) = {}
  <2>1. d - 1 \in 1 .. Days /\ d - 1 \in {d, d - 1} \cap (1 .. Days)
    BY <1>1, <1>3, TimelineAssumption DEF TimelineAssumption
  <2>2. ~WithinAMinute(p) /\ p \in Piece
    BY <2>1 DEF Plain, PiecesApart
  <2> QED BY <2>2, BarFacts
<1>4. B = {OwnBar(p) : p \in pieces[d]}
  BY <1>3 DEF Bars
<1>5. \A b \in B : b.of \in pieces[d] /\ b = OwnBar(b.of)
  BY <1>2, <1>4
<1>6. \A p, q \in pieces[d] : p = q \/ p.to < q.from \/ q.to < p.from
  BY DEF PiecesApart
<1> HIDE DEF B
<1>7. IsFiniteSet(B)
  <2> DEFINE f == [b \in B |-> b.of.from]
  <2>1. f \in [B -> 0 .. Midnight]
    BY <1>1, <1>2, <1>5
  <2>2. \A b, c \in B : f[b] = f[c] => b = c
    <3> SUFFICES ASSUME NEW b \in B, NEW c \in B, b.of.from = c.of.from PROVE b = c
      OBVIOUS
    <3>1. b.of = c.of
      BY <1>2, <1>5, <1>6
    <3> QED BY <1>5, <3>1
  <2> HIDE DEF f
  <2>3. f \in Injection(B, 0 .. Midnight)
    BY <2>1, <2>2 DEF Injection, IsInjective
  <2>4. IsFiniteSet(0 .. Midnight)
    BY <1>1, FS_Interval
  <2> QED BY <2>3, <2>4, FS_Injection
<1>8. ASSUME NEW b \in B
      PROVE  IsFiniteSet(part[b]) /\ Cardinality(part[b]) = b.seconds
  <2> DEFINE p == b.of
             z == ShownUntil(p) - 1
  <2>1. p \in pieces[d] /\ b = OwnBar(p)
    BY <1>5
  <2>2. p.from \in Int /\ z \in Int /\ z - p.from + 1 = b.seconds /\ ~(p.from > z)
    BY <1>1, <1>2, <2>1
  <2>3. part[b] = p.from .. z
    OBVIOUS
  <2> HIDE DEF p, z, part
  <2> QED BY <2>2, <2>3, FS_Interval
<1>9. ASSUME NEW b \in B, NEW c \in B, b # c
      PROVE  part[b] \cap part[c] = {}
  <2> DEFINE p == b.of
             q == c.of
  <2>1. p \in pieces[d] /\ q \in pieces[d] /\ p # q
    BY <1>5, <1>9
  <2>2. part[b] = p.from .. ShownUntil(p) - 1 /\ part[c] = q.from .. ShownUntil(q) - 1
    OBVIOUS
  <2> HIDE DEF p, q, part
  <2>3. CASE p.to < q.from
    <3>1. ShownUntil(p) = p.to
      BY <1>1, <1>2, <2>1, <2>3
    <3> QED BY <1>2, <2>1, <2>2, <2>3, <3>1
  <2>4. CASE q.to < p.from
    <3>1. ShownUntil(q) = q.to
      BY <1>1, <1>2, <2>1, <2>4
    <3> QED BY <1>2, <2>1, <2>2, <2>4, <3>1
  <2> QED BY <1>6, <2>1, <2>3, <2>4
<1>10. ShownSeconds(d) = Cardinality(Joined(part, B))
  <2>1. [b \in B |-> Cardinality(part[b])] = [b \in B |-> b.seconds]
    BY <1>8
  <2>2. SumFunction([b \in B |-> Cardinality(part[b])]) = Cardinality(Joined(part, B))
    <3> HIDE DEF part
    <3> QED BY <1>7, <1>8, <1>9, SumOfParts
  <2> HIDE DEF part
  <2> QED BY <2>1, <2>2 DEF ShownSeconds, B
<1> DEFINE O == OnlineAt(d)
           J == Joined(part, B)
<1>11. O \in SUBSET (0 .. Midnight - 1)
  BY <1>1, <1>2 DEF OnlineAt
<1>12. IsFiniteSet(O) /\ Cardinality(O) \in Nat
  <2>1. IsFiniteSet(0 .. Midnight - 1)
    <3>1. Midnight - 1 \in Int
      BY <1>1
    <3> QED BY <3>1, FS_Interval
  <2> QED BY <1>11, <2>1, FS_Subset, FS_CardinalityType
<1>13. J = UNION {p.from .. ShownUntil(p) - 1 : p \in pieces[d]}
  <2>1. \A p \in pieces[d] : OwnBar(p) \in B /\ OwnBar(p).of = p
    BY <1>2, <1>4
  <2>2. \A b \in B : part[b] = b.of.from .. ShownUntil(b.of) - 1
    OBVIOUS
  <2> HIDE DEF part
  <2>3. J = UNION {part[b] : b \in B}
    BY DEF Joined
  <2> HIDE DEF J
  <2>4. \A t \in J : \E p \in pieces[d] : t \in p.from .. ShownUntil(p) - 1
    BY <1>5, <2>2, <2>3
  <2>5. \A p \in pieces[d] : \A t \in p.from .. ShownUntil(p) - 1 : t \in J
    BY <2>1, <2>2, <2>3
  <2> QED BY <2>4, <2>5
<1>14. O = UNION {p.from .. p.to - 1 : p \in pieces[d]}
  BY DEF OnlineAt
<1> HIDE DEF J, O
<1>15. CASE \E p \in pieces[d] : p.to = Midnight
  <2>1. PICK p \in pieces[d] : p.to = Midnight
    BY <1>15
  <2> DEFINE z == ShownUntil(p) - 1
             E == Midnight .. z
  <2>2. \A q \in pieces[d] : q # p => q.to # Midnight
    BY <1>2, <1>6, <2>1
  <2>3. z \in Int /\ Midnight <= z + 1 /\ z + 1 - Midnight \in 0 .. SecondsPerMinute - 1
    BY <1>1, <1>2, <2>1
  <2>4. p.from .. ShownUntil(p) - 1 = (p.from .. p.to - 1) \cup E
    BY <1>1, <1>2, <2>1, <2>3
  <2>5. J = O \cup E
    <3>1. \A q \in pieces[d] : q # p => q.from .. ShownUntil(q) - 1 = q.from .. q.to - 1
      BY <1>2, <2>2
    <3> HIDE DEF E, z
    <3> QED BY <1>13, <1>14, <2>4, <3>1
  <2> HIDE DEF z
  <2>6. O \cap E = {}
    BY <1>1, <1>11, <2>3
  <2>7. IsFiniteSet(E) /\ Cardinality(E) = z + 1 - Midnight
    <3>1. IsFiniteSet(Midnight .. z) /\ Cardinality(Midnight .. z) = IF Midnight > z THEN 0 ELSE z - Midnight + 1
      BY <1>1, <2>3, FS_Interval
    <3> QED BY <1>1, <2>3, <3>1
  <2> HIDE DEF E
  <2>8. Cardinality(O \cup E) = Cardinality(O) + Cardinality(E) - Cardinality(O \cap E)
    BY <1>12, <2>7, FS_Union
  <2>9. Cardinality(O \cap E) = 0
    BY <2>6, FS_EmptySet
  <2>10. Cardinality(J) = Cardinality(O) + (z + 1 - Midnight)
    BY <1>1, <1>12, <2>3, <2>5, <2>7, <2>8, <2>9
  <2> QED BY <1>1, <1>10, <1>12, <2>3, <2>10 DEF J, O
<1>16. CASE \A p \in pieces[d] : p.to # Midnight
  <2>1. J = O
    BY <1>2, <1>13, <1>14, <1>16
  <2> QED BY <1>1, <1>10, <1>12, <2>1 DEF J, O
<1> QED BY <1>15, <1>16

\* The bars of a day show what was online - every minute online throughout, and
\* nothing of another day or minute unless a piece lies within a minute - and the
\* total is right but for the minute a day ends in: for any number of days and any
\* length of days and minutes (buildTimelineDays).
THEOREM DaysAlwaysRight == TimelineSpec => []DaysAreRight
<1>1. TimelineInit => PiecesApart
  BY DEF TimelineInit, PiecesApart
<1>2. PiecesApart /\ [TimelineNext]_pieces => PiecesApart'
  <2> SUFFICES ASSUME PiecesApart, [TimelineNext]_pieces PROVE PiecesApart'
    OBVIOUS
  <2>1. ASSUME NEW d \in 1 .. Days, NEW p \in Piece, Online(d, p) PROVE PiecesApart'
    <3>1. pieces \in [1 .. Days -> SUBSET Piece] /\ pieces' = [pieces EXCEPT ![d] = pieces[d] \cup {p}]
      BY <2>1 DEF PiecesApart, Online
    <3>2. /\ pieces' \in [1 .. Days -> SUBSET Piece] /\ pieces'[d] = pieces[d] \cup {p}
          /\ \A e \in (1 .. Days) \ {d} : pieces'[e] = pieces[e]
      BY <3>1
    <3>3. \A q \in pieces[d] : q.to < p.from
      BY <2>1 DEF Online
    <3>4. \A e \in 1 .. Days : \A q, r \in pieces'[e] : q = r \/ q.to < r.from \/ r.to < q.from
      BY <3>2, <3>3 DEF PiecesApart
    <3> QED BY <3>2, <3>4 DEF PiecesApart
  <2>2. CASE UNCHANGED pieces
    BY <2>2 DEF PiecesApart
  <2> QED BY <2>1, <2>2 DEF TimelineNext
<1>3. PiecesApart => DaysAreRight
  BY TimelineAssumption, WholeMinutes, BarsOfTheDay, TotalOfTheDay DEF DaysAreRight
<1> QED BY <1>1, <1>2, <1>3, PTL DEF TimelineSpec
=============================================================================
