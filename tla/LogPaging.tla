----------------------------- MODULE LogPaging -----------------------------
(***************************************************************************)
(* The log list: rows in the backend's table, the browser's cache with its *)
(* requests in flight, and the hook that shows pages of rows.  Requests    *)
(* are answered in any order; a load may start at any time (events and     *)
(* finished operations reload the list).  An id starts again at 1 after    *)
(* the table was emptied, so a row is an id and a generation.              *)
(***************************************************************************)
EXTENDS Integers, FiniteSets, SequencesExt

CONSTANTS
  PageLimit, \* rows of a page (200)
  MaxRows,   \* rows kept in the table (200000)
  MaxId, MaxGen, MaxLogLoads,  \* bounds for TLC
  NoPage, NotAsked, Requested

Key == 0 .. MaxId
LogRow == [id : 1 .. MaxId, gen : 0 .. MaxGen]
APage == [items : Seq(LogRow), next : Key]

ASSUME LogAssumption ==
  /\ PageLimit \in Nat \ {0} /\ MaxRows \in Nat \ {0}
  /\ MaxId \in Nat /\ MaxGen \in Nat /\ MaxLogLoads \in Nat
  /\ NoPage \notin APage /\ NotAsked \notin APage /\ Requested \notin APage /\ NotAsked # Requested

VARIABLES
  logRows, gen,       \* the table, and how often it was emptied
  pageCache,              \* cache[key]: page of the request with that cursor, or NoPage
  pagesInFlight,           \* inFlight[key]: NotAsked, Asked or the page on its way
  pagesAwaited,            \* calls of the hook that await a page
  logs, nextCursor, loading, loadingMore, logSeq,  \* the hook's state; cursor 0 is null
  clear,              \* the hook's DELETE request: "idle", "asked" or "done"
  cutShort,           \* history: a clear ended while a page was awaited
  overlap             \* history: a clear met a page in the browser it could not withdraw

table == <<logRows, gen>>
browser == <<pageCache, pagesInFlight, pagesAwaited>>
view == <<logs, nextCursor, loading, loadingMore, logSeq>>
logVars == <<table, browser, view, clear, cutShort, overlap>>

Ids(rs) == {r.id : r \in rs}
Newer(r, rs) == Cardinality({s \in rs : s.id > r.id})
NewestFirst(rs) == [n \in 1 .. Cardinality(rs) |-> CHOOSE r \in rs : Newer(r, rs) = n - 1]
Newest(n, rs) == {r \in rs : Newer(r, rs) < n}

LogInit ==
  /\ logRows = {} /\ gen = 0
  /\ pageCache = [k \in Key |-> NoPage] /\ pagesInFlight = [k \in Key |-> NotAsked] /\ pagesAwaited = {}
  /\ logs = << >> /\ nextCursor = 0 /\ loading = FALSE /\ loadingMore = FALSE /\ logSeq = 0
  /\ clear = "idle" /\ cutShort = FALSE /\ overlap = FALSE
-----------------------------------------------------------------------------
\* insert_log_row: the row is added, rows past the retention (the oldest ones)
\* and rows over the limit are deleted, in one transaction.
InsertRow ==
  LET id == 1 + Max(Ids(logRows) \cup {0})
      grown == logRows \cup {[id |-> id, gen |-> gen]}
  IN /\ id <= MaxId
     /\ \E kept \in 1 .. Cardinality(grown) : logRows' = Newest(MaxRows, Newest(kept, grown))
     /\ UNCHANGED <<gen, browser, view, clear, cutShort, overlap>>

\* Plausible bug: the cursor is the first row of the next page, which the
\* next request then excludes.
PageSkipsOne(before) ==
  LET found == {r \in logRows : before = 0 \/ r.id < before}
      more == Cardinality(found) > PageLimit
  IN [items |-> NewestFirst(Newest(PageLimit, found)),
      next |-> IF more THEN Last(NewestFirst(Newest(PageLimit + 1, found))).id ELSE 0]

\* fetch_logs: a page of the rows before the cursor; its last row is the next
\* cursor if there are more.
Page(before) ==
  LET found == {r \in logRows : before = 0 \/ r.id < before}
      items == NewestFirst(Newest(PageLimit, found))
  IN [items |-> items, next |-> IF Cardinality(found) > PageLimit THEN Last(items).id ELSE 0]

\* The server answers a request; the answer travels.
ServePage(k) ==
  /\ pagesInFlight[k] = Requested
  /\ pagesInFlight' = [pagesInFlight EXCEPT ![k] = Page(k)]
  /\ UNCHANGED <<table, pageCache, pagesAwaited, view, clear, cutShort, overlap>>

\* Another client empties the table.
ClearElsewhere ==
  /\ gen < MaxGen
  /\ logRows' = {} /\ gen' = gen + 1
  /\ overlap' = (overlap \/ logs # << >> \/ \E k \in Key : pageCache[k] # NoPage \/ pagesInFlight[k] # NotAsked)
  /\ UNCHANGED <<browser, view, clear, cutShort>>
-----------------------------------------------------------------------------
\* startCachedFetch: join the request in flight or send one.
FetchPage(k) ==
  pagesInFlight' = [pagesInFlight EXCEPT ![k] = IF @ = NotAsked THEN Requested ELSE @]

\* The seen set of loadMoreLogs; a page is newest first, and so is what is left of it.
Unseen(p) == NewestFirst({r \in ToSet(p.items) : r.id \notin Ids(ToSet(logs))})

ShowFirst(p) == logs' = p.items /\ nextCursor' = p.next
ShowMore(p) == logs' = logs \o Unseen(p) /\ nextCursor' = p.next

\* loadLogs. An event or a finished operation has invalidated the cache
\* before it. A cached page is shown at once and fetched again for the cache only.
LoadLogs ==
  \E invalidates \in BOOLEAN :
    LET kept == IF invalidates THEN [k \in Key |-> NoPage] ELSE pageCache
    IN /\ logSeq < MaxLogLoads
       /\ logSeq' = logSeq + 1 /\ loadingMore' = FALSE /\ cutShort' = FALSE
       /\ pageCache' = kept
       /\ FetchPage(0)
       /\ \/ /\ kept[0] # NoPage
             /\ ShowFirst(kept[0]) /\ loading' = FALSE
             /\ UNCHANGED pagesAwaited
          \/ /\ kept[0] = NoPage
             /\ loading' = TRUE
             /\ pagesAwaited' = pagesAwaited \cup {[seq |-> logSeq', key |-> 0]}
             /\ UNCHANGED <<logs, nextCursor>>
       /\ UNCHANGED <<table, clear, overlap>>

\* loadMoreLogs.
LoadMore ==
  /\ logSeq > 0 /\ nextCursor # 0 /\ ~loading /\ ~loadingMore
  /\ FetchPage(nextCursor)
  /\ \/ /\ pageCache[nextCursor] # NoPage
        /\ ShowMore(pageCache[nextCursor])
        /\ UNCHANGED <<loadingMore, pagesAwaited>>
     \/ /\ pageCache[nextCursor] = NoPage
        /\ loadingMore' = TRUE
        /\ pagesAwaited' = pagesAwaited \cup {[seq |-> logSeq, key |-> nextCursor]}
        /\ UNCHANGED <<logs, nextCursor>>
  /\ UNCHANGED <<table, pageCache, loading, logSeq, clear, cutShort, overlap>>

\* The calls that await key k and are not outdated by a newer load or a clear.
CurrentPage(k) == [seq |-> logSeq, key |-> k] \in pagesAwaited

SettlePage(k) ==
  /\ pagesInFlight' = [pagesInFlight EXCEPT ![k] = NotAsked]
  /\ pagesAwaited' = {w \in pagesAwaited : w.key # k}

\* finally: the newest load, or a further page for it, is no longer awaited.
Finish(k) ==
  /\ loading' = (loading /\ ~(CurrentPage(k) /\ k = 0))
  /\ loadingMore' = (loadingMore /\ ~(CurrentPage(k) /\ k # 0))

\* The page arrives: it is cached, and shown unless a newer load or a clear
\* outdated the call.
Deliver(k) ==
  /\ pagesInFlight[k] \notin {NotAsked, Requested}
  /\ pageCache' = [pageCache EXCEPT ![k] = pagesInFlight[k]]
  /\ SettlePage(k)
  /\ IF ~CurrentPage(k) THEN UNCHANGED <<logs, nextCursor>>
     ELSE IF k = 0 THEN ShowFirst(pagesInFlight[k]) ELSE ShowMore(pagesInFlight[k])
  /\ Finish(k)
  /\ UNCHANGED <<table, logSeq, clear, cutShort, overlap>>

\* The request fails.
FailPage(k) ==
  /\ pagesInFlight[k] # NotAsked
  /\ SettlePage(k) /\ Finish(k)
  /\ UNCHANGED <<table, pageCache, logs, nextCursor, logSeq, clear, cutShort, overlap>>

\* A cached page expires or makes room.
ForgetPage(k) ==
  /\ pageCache[k] # NoPage
  /\ pageCache' = [pageCache EXCEPT ![k] = NoPage]
  /\ UNCHANGED <<table, pagesInFlight, pagesAwaited, view, clear, cutShort, overlap>>

\* clearLogsEntry, confirmed in a dialog that a load may have started behind.
ClearAsk ==
  /\ clear = "idle"
  /\ clear' = "asked" /\ loadingMore' = FALSE
  /\ UNCHANGED <<table, browser, logs, nextCursor, loading, logSeq, cutShort, overlap>>

ClearServe ==
  /\ clear = "asked" /\ gen < MaxGen
  /\ logRows' = {} /\ gen' = gen + 1 /\ clear' = "done"
  /\ UNCHANGED <<browser, view, cutShort, overlap>>

\* Plausible bug: the cached pages stay.
ClearDoneKeepsCache ==
  /\ clear = "done" /\ clear' = "idle"
  /\ logSeq' = logSeq + 1 /\ logs' = << >> /\ nextCursor' = 0
  /\ cutShort' = (loading \/ loadingMore)
  /\ overlap' = (overlap \/ \E k \in Key : pagesInFlight[k] # NotAsked)
  /\ UNCHANGED <<table, browser, loading, loadingMore>>

\* The answer to DELETE withdraws the cached pages, but not the requests in
\* flight, and outdates every call that awaits one.
ClearDone ==
  /\ clear = "done" /\ clear' = "idle"
  /\ pageCache' = [k \in Key |-> NoPage]
  /\ logSeq' = logSeq + 1 /\ logs' = << >> /\ nextCursor' = 0
  /\ cutShort' = (loading \/ loadingMore)
  /\ overlap' = (overlap \/ \E k \in Key : pagesInFlight[k] # NotAsked)
  /\ UNCHANGED <<table, pagesInFlight, pagesAwaited, loading, loadingMore>>

\* The DELETE request fails, or its answer is lost.
ClearFail ==
  /\ clear # "idle" /\ clear' = "idle"
  /\ overlap' = (overlap \/ clear = "done")
  /\ UNCHANGED <<table, browser, view, cutShort>>

LogNext ==
  \/ InsertRow \/ ClearElsewhere
  \/ LoadLogs \/ LoadMore
  \/ \E k \in Key : ServePage(k) \/ Deliver(k) \/ FailPage(k) \/ ForgetPage(k)
  \/ ClearAsk \/ ClearServe \/ ClearDone \/ ClearFail

LogSpec == LogInit /\ [][LogNext]_logVars
-----------------------------------------------------------------------------
\* Types; the table keeps its limit.
LogTypeOK ==
  /\ logRows \subseteq LogRow /\ Cardinality(logRows) <= MaxRows /\ gen \in 0 .. MaxGen
  /\ pageCache \in [Key -> APage \cup {NoPage}]
  /\ pagesInFlight \in [Key -> APage \cup {NotAsked, Requested}]
  /\ pagesAwaited \subseteq [seq : 1 .. MaxLogLoads + MaxGen, key : Key]
  /\ logs \in Seq(LogRow) /\ nextCursor \in Key /\ {loading, loadingMore, cutShort, overlap} \subseteq BOOLEAN
  /\ logSeq \in 0 .. MaxLogLoads + MaxGen /\ clear \in {"idle", "asked", "done"}

\* Whatever order pages arrive in and whatever is cached, the list shows the
\* newest rows first and none twice, and continues after its last row
\* (useLogsData: request numbers and the seen set).
ShownInOrder ==
  /\ \A i, j \in DOMAIN logs : i < j => logs[i].id > logs[j].id
  /\ nextCursor # 0 => logs # << >> /\ nextCursor = Last(logs).id

\* Paging skips no row: every row from the newest shown down to the cursor, or
\* to the end when there is no cursor, is in the list, although rows are
\* inserted and pages are cached meanwhile (fetch_logs, loadMoreLogs) - unless a
\* clear met pages the browser could not withdraw, since ids start again then.
NothingSkipped ==
  logs # << >> /\ ~overlap /\ clear # "done" =>
    \A r \in logRows : r.id <= logs[1].id /\ r.id >= nextCursor => r \in ToSet(logs)

\* Once the clear is done, no cleared row is in the list or comes back out of
\* the cache (clearLogs, docs/frontend/features/cache.md), unless a request
\* was in flight when it ended or another client cleared the table.
ClearIsFinal ==
  ~overlap /\ clear # "done" =>
    /\ \A r \in ToSet(logs) : r.gen = gen
    /\ \A k \in Key : pageCache[k] # NoPage => \A r \in ToSet(pageCache[k].items) : r.gen = gen

\* The list shows that it is loading only while the newest load is awaited, or
\* until the next load if a clear cut it short (finally of loadLogs).
LoadingHasReason ==
  /\ loading => cutShort \/ CurrentPage(0)
  /\ loadingMore => cutShort \/ \E k \in Key \ {0} : CurrentPage(k)

\* Types, and what the list shows: in order, without a gap, and as loading only
\* while something is awaited (useLogsData).
PagesHold ==
  /\ LogTypeOK
  /\ ShownInOrder
  /\ NothingSkipped
  /\ LoadingHasReason
=============================================================================
