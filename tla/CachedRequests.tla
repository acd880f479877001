---------------------------- MODULE CachedRequests ----------------------------
(***************************************************************************)
(* GET requests through the browser's cache (api/http.ts, api/cache.ts),   *)
(* for one prefix of keys: a cached value is given out at once and fetched *)
(* again in the background; requests in flight are joined.                 *)
(***************************************************************************)
CONSTANTS Nothing, Idle, Asked

VARIABLES
  cache,     \* cache[key]: the value kept for the key, or Nothing
  inFlight   \* inFlight[key]: Idle, Asked or the answer on its way

Empty == [k \in DOMAIN cache |-> Nothing]
Travelling(k) == inFlight[k] \notin {Idle, Asked}

\* startCachedFetch: join the request in flight or send one.
Send(k) == inFlight' = IF inFlight[k] = Idle THEN [inFlight EXCEPT ![k] = Asked] ELSE inFlight

\* The server reads v and answers.
Serve(k, v) == inFlight[k] = Asked /\ inFlight' = [inFlight EXCEPT ![k] = v] /\ UNCHANGED cache

\* The answer arrives: it is cached, even when the cache was invalidated
\* while it was on its way.
Arrive(k) ==
  /\ Travelling(k)
  /\ cache' = [cache EXCEPT ![k] = inFlight[k]]
  /\ inFlight' = [inFlight EXCEPT ![k] = Idle]

\* The request fails or is refused; every call that joined it fails.
Break(k) == inFlight[k] # Idle /\ inFlight' = [inFlight EXCEPT ![k] = Idle] /\ UNCHANGED cache

\* An entry expires, is swept or makes room.
Forget(k) == cache[k] # Nothing /\ cache' = [cache EXCEPT ![k] = Nothing] /\ UNCHANGED inFlight
=============================================================================
