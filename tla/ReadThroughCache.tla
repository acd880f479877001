-------------------------- MODULE ReadThroughCache -------------------------
(***************************************************************************)
(* The in-process cache of list responses: list_pcs reads through it, every *)
(* operation that changes a PC invalidates it afterwards.  Readers and     *)
(* writers run on several threads; a cache access is one step under the    *)
(* lock of MemoryCache, a database transaction is another.                 *)
(***************************************************************************)
EXTENDS Integers, SequencesExt

CONSTANTS
  ListKey,     \* keys with the prefix "pcs:list:"
  Server,      \* threads
  Ttl,         \* PCS_LIST_CACHE_TTL_SECONDS
  MaxItems,    \* capacity of the cache
  SweepEvery,  \* seconds between sweeps of expired items
  MaxRead,     \* longest time between a miss and the caching of its result
  MaxVersion,  \* bound on changes, for TLC
  MaxClock,    \* bound on time, for TLC
  NoKey

ASSUME CacheAssumption ==
  /\ {Ttl, MaxItems, SweepEvery} \subseteq Nat \ {0}
  /\ {MaxRead, MaxVersion, MaxClock} \subseteq Nat
  /\ NoKey \notin ListKey

VARIABLES
  clock,
  version,   \* the content of the pcs table, by the number of changes so far
  endedAt,   \* endedAt[v]: when version v was replaced (history)
  items,     \* the cache in order of insertion: key, value, expiry; late (history):
             \* an invalidation came between reading the value and storing it
  sweepAt,   \* _next_sweep_at
  server     \* server[t]: the request thread t is serving

cacheVars == <<clock, version, endedAt, items, sweepAt, server>>

Free == [at |-> "free", key |-> NoKey, value |-> 0, since |-> 0, late |-> FALSE]

CacheInit ==
  /\ clock = 0
  /\ version = 0
  /\ endedAt = [v \in 0 .. MaxVersion |-> MaxClock]
  /\ items = << >>
  /\ sweepAt = 0
  /\ server = [t \in Server |-> Free]

Serves(t, stage) == server[t].at = stage

\* What is left in a dictionary at some places, in the order of before.
Kept(seq, places) ==
  LET nth(n) == CHOOSE i \in places : Cardinality({j \in places : j <= i}) = n
  IN [n \in 1 .. Cardinality(places) |-> seq[nth(n)]]

\* _maybe_sweep_expired, which every get and set begins with.
Swept == IF clock < sweepAt THEN items ELSE Kept(items, {i \in DOMAIN items : items[i].expires > clock})
Sweeps == sweepAt' = IF clock < sweepAt THEN sweepAt ELSE clock + SweepEvery

Without(seq, k) == Kept(seq, {i \in DOMAIN seq : seq[i].key # k})

\* _trim_over_capacity: the oldest items go.
Trimmed(seq) == IF Len(seq) > MaxItems THEN SubSeq(seq, Len(seq) - MaxItems + 1, Len(seq)) ELSE seq
-----------------------------------------------------------------------------
\* list_pcs asks the cache; an expired item is dropped.
Get(t, k) ==
  LET live == {i \in ToSet(Swept) : i.key = k /\ i.expires > clock}
  IN /\ Serves(t, "free")
     /\ Sweeps
     /\ items' = IF live = {} THEN Without(Swept, k) ELSE Swept
     /\ server' = [server EXCEPT ![t] =
          IF live # {} THEN [Free EXCEPT !.at = "hit", !.since = clock,
                                                  !.value = (CHOOSE i \in live : TRUE).value]
          ELSE [Free EXCEPT !.at = "miss", !.key = k, !.since = clock]]
     /\ UNCHANGED <<clock, version, endedAt>>

\* A hit is returned.
Answer(t) ==
  /\ Serves(t, "hit")
  /\ server' = [server EXCEPT ![t] = Free]
  /\ UNCHANGED <<clock, version, endedAt, items, sweepAt>>

\* After a miss the list is read from the database ...
LoadList(t) ==
  /\ Serves(t, "miss")
  /\ server' = [server EXCEPT ![t] = [@ EXCEPT !.at = "loaded", !.value = version]]
  /\ UNCHANGED <<clock, version, endedAt, items, sweepAt>>

\* ... and cached.
Set(t) ==
  /\ Serves(t, "loaded")
  /\ Sweeps
  /\ items' = Trimmed(Append(Without(Swept, server[t].key),
                [key |-> server[t].key, value |-> server[t].value,
                 expires |-> clock + Ttl, late |-> server[t].late]))
  /\ server' = [server EXCEPT ![t] = Free]
  /\ UNCHANGED <<clock, version, endedAt>>

\* A change of a PC is committed ...
Change(t) ==
  /\ Serves(t, "free") /\ version < MaxVersion
  /\ version' = version + 1
  /\ endedAt' = [endedAt EXCEPT ![version] = clock]
  /\ server' = [server EXCEPT ![t] = [Free EXCEPT !.at = "changed", !.since = clock]]
  /\ UNCHANGED <<clock, items, sweepAt>>

\* Plausible bug: the cache is not told of the change.
InvalidateNothing(t) ==
  /\ Serves(t, "changed")
  /\ server' = [server EXCEPT ![t] = Free]
  /\ UNCHANGED <<clock, version, endedAt, items, sweepAt>>

\* ... before _invalidate_pc_related_cache empties the lists.
Invalidate(t) ==
  /\ Serves(t, "changed")
  /\ items' = << >>
  /\ server' = [u \in Server |-> IF u = t THEN Free
                                 ELSE [server[u] EXCEPT !.late = Serves(u, "loaded")]]
  /\ UNCHANGED <<clock, version, endedAt, sweepAt>>

CacheTick ==
  /\ clock < MaxClock
  /\ \A t \in Server : Serves(t, "free") \/ clock < server[t].since + MaxRead
  /\ clock' = clock + 1
  /\ UNCHANGED <<version, endedAt, items, sweepAt, server>>

CacheNext ==
  \/ \E t \in Server :
       (\E k \in ListKey : Get(t, k)) \/ Answer(t) \/ LoadList(t) \/ Set(t) \/ Change(t) \/ Invalidate(t)
  \/ CacheTick

CacheSpec == CacheInit /\ [][CacheNext]_cacheVars
-----------------------------------------------------------------------------
\* Types; a key has at most one item, the cache at most MaxItems.
CacheTypeOK ==
  /\ clock \in 0 .. MaxClock /\ version \in 0 .. MaxVersion
  /\ endedAt \in [0 .. MaxVersion -> 0 .. MaxClock]
  /\ items \in Seq([key: ListKey, value: 0 .. MaxVersion, expires: Nat, late: BOOLEAN])
  /\ Len(items) <= MaxItems
  /\ \A i, j \in DOMAIN items : items[i].key = items[j].key => i = j
  /\ sweepAt \in Nat
  /\ server \in [Server -> [at: {"free", "hit", "miss", "loaded", "changed"}, key: ListKey \cup {NoKey},
                            value: 0 .. MaxVersion, since: 0 .. MaxClock, late: BOOLEAN]]

\* A cached list is out of date only while a change is about to invalidate it,
\* or if it was being loaded when one did (docs/backend/features/cache.md,
\* invalidation rules; the calls of _invalidate_pc_related_cache).
StaleOnlyByOverlap ==
  \A i \in DOMAIN items :
    items[i].value = version \/ items[i].late \/ \E t \in Server : Serves(t, "changed")

\* Even so no list is served that went out of date longer ago than the time to
\* live and the time a read takes (MemoryCache.get, _maybe_sweep_expired).
BoundedStaleness ==
  \A t \in Server :
    Serves(t, "hit") /\ server[t].value < version
      => server[t].since - endedAt[server[t].value] < Ttl + MaxRead

\* Types, and how stale a list may be and for how long (MemoryCache, list_pcs).
CacheHolds ==
  /\ CacheTypeOK
  /\ StaleOnlyByOverlap
  /\ BoundedStaleness
=============================================================================
