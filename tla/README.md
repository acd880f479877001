# A verification project for raspi-vpn-wol

raspi-vpn-wol is a Wake-on-LAN dashboard that runs on a Raspberry Pi: a Python
backend (FastAPI, SQLite, one event loop and a thread pool per server process)
and a React frontend. This directory holds TLA+ models of its logic, the TLC
runs that check them on small instances and TLAPS proofs of the most important
properties for every value of the constants.

## 1. Inventory

### How the program runs

- Endpoints and use cases written `async def` run on the event loop of a server
  process. Their database calls block, so nothing else moves on that loop
  between two `await`s; other processes and the pool threads do move.
- Endpoints written `def` (PC registry, SSH settings, tokens, uptime, logs) run
  in a thread pool and interleave with everything between any two transactions.
- Background jobs are coroutines whose work runs in `asyncio.to_thread`.
- Each repository function is one SQLite transaction. `PRAGMA foreign_keys` is
  never switched on, so cascades declared in the schema do not happen.
- A restart loses tasks, threads, caches, offline streaks and event
  subscribers. Rows and key files stay.

### Components, their state and what makes them correct

| component | state | operations | hard behaviour | correct when |
|---|---|---|---|---|
| background jobs (`job_service`, `job_repository`, use cases, monitor) | `jobs` rows, coroutines, pool threads | create, create-or-get, recover, mark running / succeeded / failed, prune, monitor tick | several processes, stale recovery against late results, restarts, failed writes, row limit | exclusive work is single, recovery takes orphans only, every refresh ends |
| SSH settings (`ssh_settings_service`, `ssh_settings_repository`, `upsert_pc`, `delete_pc_by_id`) | `pc_ssh_settings` row and revision, key directory, known_hosts files, scans and tests under way | save, generate key, scan, confirm, test, edit and delete PC | tests and scans that outlive the settings they read, crash between two files | a verification is always one of the stored settings at the present address |
| shutdown (`shutdown_service`, `shutdown_use_case`) | the request's expected connection, the job's thread | accept, check, SSH check, check again, send, watch | settings edited at any point, two reads per check | the command goes only where the request was accepted |
| PC status (`pc_service`, `pc_registry_service`, `status_service`, `wol_service`) | `pcs.status`, `last_seen_at`, in-memory offline streak, `status_history` | refresh one, refresh all, WOL with boot polling, edit | refreshes, WOL and edits race on one row in three transactions each | offline needs two failures in a row, history alternates, unreachable sticks |
| API tokens (`api_token_service`, `bearer_guard`) | `api_tokens` rows | create, revoke, delete, authenticate, bootstrap | concurrent revocations, expiry, the bypass while no token exists | an administrator always remains, a revoked token never authenticates |
| rate limiter (`rate_limit.py`) | sliding windows per key | consume, compact | several windows of different length in one table, concurrent requests | never more than the limit in any window |
| caches (`memory_cache.py`, `cache/keys.py`; frontend `cache.ts`, `http.ts`) | entries with expiry, requests in flight | get, set, invalidate, evict | a read that started before a change is stored after it | no stale list after the invalidation |
| events (`event_service`, `api/events.py`; browser `useDashboardSse`) | a bounded queue per subscriber, a stream | subscribe, publish, stream, discard, handle | full queues, reconnects without replay, events older than an answer | order kept, a slow subscriber never blocks a publisher, what is missed is known |
| uptime (`uptime_service`, `uptime_repository`) | `status_history`, `uptime_daily_summary` | record transition, recalculate days, prune | intervals across days, DST days of 23 and 25 hours | seconds per day add up to the online intervals |
| logs (`log_service`, `log_repository`) | `logs` rows | insert, list by cursor, clear, prune | row limit, paging while rows arrive | paging neither skips nor repeats |
| PC list in the browser (`usePcCollection`, `usePcCrud`, `usePcFilters`, `http.ts`, `cache.ts`) | the rows shown, filters, request number, cached lists | load, filter, create, update, delete, refresh, wake, apply an event | answers, events and local changes in any order; callbacks of an earlier render | the list is the one for its filters, and outdated only for known reasons |
| dialogs of the PC list (`PcList.tsx`, `usePcListDialogState`) | PC selected, form, deletion and shutdown to confirm | open, edit, save, delete, confirm | the list changes under an open dialog, requests end late | a form keeps what was typed, an end meets its own PC |
| scroll locks (`useBodyScrollLock`, `PcList`, `LogsPanel`) | style of the body, one shared snapshot, three private ones | open, close, switch tab, scroll | dialogs that close in another order than they opened | the page is held while a dialog is open and comes back where it was |
| log panel (`useLogsData`, `LogsPanel`, `logGrouping`, `useLogsPanelState`) | pages, loading flags, groups and which are folded, the touch | load, load more, clear, pull, fold | answers out of order, rows on top, loads that end under the finger | order kept, a touch asks for one page, folding follows its block |
| job tracking in the browser (`useJobTracker`, `useDashboardData`, `useDashboardSse`) | jobs shown, guards of targets, polls | start, poll, give up, reload | polls against events, jobs that never end, repeated clicks | every operation ends, every end is followed by a load |
| token of a tab (`useTokenValidation`, `auth.ts`, `App`) | stored token, the tab's copy, the last verdict | save, clear, check, refuse | several tabs, checks that outlive the token they are about | open only with a token found accepted, never checking for ever |
| token panel (`useAdminTokens`, `TokensSection`) | field, list, operations in flight | save, clear, create, revoke, delete, reload | five requests at a time, each loads the list at its end | the first token alone configures the browser, own changes are shown |
| uptime panel (`useUptimePanelState`, `useUptimeNavigation`, `uptime/utils.ts`, data hooks) | selection of the chart and the timeline, day of a mobile page | pick, move, change unit, switch PC, draw | late answers, a day chosen before its week has arrived, times without a date | what is shown is what was chosen, bars are the time online |
| backup script (`scripts/backup_db.py`) | backup files | copy, delete old ones | overlapping runs, failures anywhere, clock set back | the newest N copies stay |
| schema and migrations | tables | upgrade, downgrade | | outside the models except where a constraint matters |
| SSH settings panel in the browser | one form | save, scan, confirm, test | its requests race in the backend, see SSH settings | not modelled |
| other UI components, styles, deployment, seed data | none of the program's logic | | | not modelled |

`PROJECT.json` lists the hazards of each, at the line where they bite.

## 2. Plan

Modules are ordered by what the system stands or falls with: commands that
reach a machine first (jobs, shutdown), then what users rely on (status,
tokens, limits), then what they look at (lists, logs, uptime).

| step | modules | state of the work |
|---|---|---|
| 1 | `SingleFlight` (abstract), `JobLifecycle` | modelled, checked, safety proved (`JobLifecycleProofs`) |
| 2 | `SshSettings`; `ShutdownFlow`, which extends it | modelled, checked, proved (`SshSettingsProofs`) |
| 3 | `PcStatus` | modelled, checked, safety proved for one thread (`StoredDataProofs`) |
| 4 | `ApiTokens` | modelled, checked, proved (`ApiTokensProofs`) |
| 5 | `RateLimiter`, `ReadThroughCache`, composed in `MCServer` with 3, 4, 6 and `Backups` | modelled, checked, proved (`MemoryProofs`) |
| 6 | `LogPaging` (backend table, browser cache and hook together) | modelled, checked, proved (`StoredDataProofs`) |
| 7 | `UptimeHistory` | modelled, checked, proved (`UptimeProofs`) |
| 8 | `CachedRequests`; `PcListView` (event broker, stream and the list in the browser), `PcDialogs`, `ScrollLocks` | modelled, checked, proved (`BrowserPageProofs`) |
| 9 | `JobTracking`, `TokenSession`, composed in `MCSession`; `TokenPanel` | modelled, checked, with liveness; safety proved (`SessionProofs`, `BrowserPageProofs`) |
| 10 | `UptimePanel`, `TimelineDays` | modelled, checked, proved (`BrowserPageProofs`, `UptimeProofs`) |
| 11 | `LogGroups`, `LogPull` | modelled, checked, proved (`BrowserPageProofs`) |
| 12 | `Backups` | modelled, checked, proved (`StoredDataProofs`) |
| 13 | refresh of all PCs as a loop; an abstract status service that `PcStatus` implements | planned |

## 3. Modules and code

Every repository function is one SQLite transaction and one step. History
variables (marked so in the modules) record what the code does not store; no
guard of a code action reads them, except where a bound needs a count.
Operators with a comment that begins "Plausible bug" are mutated forms of the
definition after them: each property is checked to fail when the real definition
is replaced by one of them.

**JobLifecycle** (`job_service.py`, `job_repository.py`, the use cases).
`row` is the jobs table, `task` the `run_job` coroutines, `loop` the request a
worker's event loop is in the middle of. `CreateJob` is `create_job`,
`CreateOrGetActiveJob` one round of the loop in `create_or_get_active_job` with
its `BEGIN IMMEDIATE` transaction, `MarkFailedIfActive` the recovery of a stale
row. `MarkRunning`, `StartRunner`, `RunnerEnds`, `RecordResult` are `run_job`
around its `await`. `Insert` includes both prunings. `Restart` and `WriteFails`
are the faults. An age in ticks replaces `updated_at`. The assumption `Timely`
says that the row of a live task is written before it counts as stale; it is a
constant, so that runs exist with it and without.

**SingleFlight** is the promise of the table: a job opens once, closes once,
never reopens, is forgotten only when closed, and of exclusive work one job is
open at a time. `JobLifecycle` implements it (`SF`, `Slot`).

**SshSettings** (`ssh_settings_service.py`, `ssh_settings_repository.py`, the
transactions of `pc_repository.py` that touch settings). `pc` and `cfg` are the
rows, `keyFile`, `generating` and `known` the files, `scan` the host key
candidate in the administrator's browser, `tester` the connection tests. The two
halves of a key are files of their own, each numbered by the pair it belongs to,
and `PlacePrivate` and `PlacePublic` are the two `os.replace` calls, which put
them over whatever is there; only the check in `GenerateKey` keeps a key from
being replaced.
`Incarnations` bounds how often settings are created for one id.

**ShutdownFlow** (`shutdown_service.py`, `shutdown_use_case.py`) extends it with
the one job a PC can have: the two reads of each check, the connection check,
the comparison, the command and the watch.

**PcStatus** (`pc_service.py`, `pc_registry_service.py`, `status_service.py`).
Threads run refreshes, WOL jobs, connection tests, edits and deletions on one
PC. Transactions and accesses to the streak are steps of their own.
`OperationNext` leaves out the deletion, the restart and the expiry of the streak:
it is what the liveness properties assume to go on.

**ApiTokens** (`api_token_service.py`, `api_token_repository.py`,
`bearer_guard.py`). Requests run on threads; lookup, count, insertion,
revocation and deletion are transactions.

**RateLimiter** (`rate_limit.py`). `log` keeps all times let through, `popped`
how many of them have left the bucket; the bucket is the rest. `Accept`
includes the compaction that follows it.

**ReadThroughCache** (`memory_cache.py`, `list_pcs`). `items` is the ordered
dictionary. `Get`, `Set` and `Invalidate` each hold the lock; sweep and trimming
are part of them.

**LogPaging** (`log_repository.py`, `useLogsData.ts`, `http.ts`, `cache.ts`). A
request of the browser is asked (`FetchPage`), served by the backend, then settled
in the cache and delivered to the calls that wait for it, in any order. Ids
start again at 1 after a clear (`INTEGER PRIMARY KEY` without `AUTOINCREMENT`),
so a row has a generation that the code does not see. Sorted and filtered pages
are defined by the rank of their rows (`NewestFirst`, `Unseen`), which proofs can use.

**UptimeHistory** (`uptime_service.py`, `uptime_repository.py`,
`update_runtime_status`). Days are
intervals of ticks of any length (`DayStart`), `Standard` is 86400 seconds. A
change takes its time (`BeginChange`) and inserts its row, with the pruning, in a
later transaction that may wait for the lock (`Record`); in between it is in
`changing`, and a call that fails leaves it there. So rows come late, and in
another order than their times. `nth` numbers the changes in the order of
their times, which have microseconds where the model has ticks; the id of a
row would decide between equal times only. `Changes` is what really happened:
the rows, the pruned ones and those still to come.

**Backups** (`backup_db.py`). A run takes the name of the second (`BeginCopy`),
creates the file (`Connect`), fills it (`Copy`), lists the names and deletes
the oldest beyond `Keep` one by one. Two runs overlap, each may end anywhere
(`Stop`), and the clock goes either way.

**CachedRequests** (`http.ts`, `cache.ts`) is one cached key space: a request
joined or sent, served, settled; an answer is cached even after an
invalidation. `PcListView` uses it through INSTANCE.

**PcListView** (`event_service.py`, `api/events.py`, `useDashboardSse`,
`usePcCollection`, `usePcCrud`, `usePcFilters`, `list_pcs`). `truth` is the table, `kept`
the earlier tables whose lists the backend's cache has or is about to get, so that
`ServeList` may answer with an old one (the threads and entries of that cache are in
`ReadThroughCache`). A request that writes a row invalidates the cache before it answers or
publishes; the two are one step, since an answer in between is as if given before.
`RefreshedElsewhere` and `ChangedElsewhere` are what other clients do, with an event and
without: creating, editing and deleting a PC or testing its connection publishes none. `stream` is the
subscriber's queue of `QueueSize`. `LoadPcs` and `ListArrives` are `loadPcs`
with its request number; an operation in `ops` goes from the request to the
local change and the load that follows, with the filters of the render that
made its callback. A row has the number of the change that wrote it, so two rows
with the same status are told apart.

**JobTracking** (`sendPcWolEntry`, `shutdownPcEntry`, `refreshAllStatusesEntry`,
`useJobTracker`, `useDashboardSse`). `Click` takes the guard of the target, `Poll`
to `Refreshed` are the loop of `trackJob`, `Rendered` is the effect that tells the
event handler which jobs the tracker has. The backend's jobs run, end or never end.

**TokenSession** (`useTokenValidation`, `auth.ts`, `http.ts`, `App`,
`handleSaveBearerToken`). `stored` is localStorage, `storedState` the copy of a
tab; `first` is the check made when it changes, `again` the ones of the
interval. `OtherTab` and `StorageEvent` are another tab's change and its notice.

**TokenPanel** (`useAdminTokens`, `TokensSection`). Each operation is asked, served
and landed (`Serve`, `Land`), then the list is asked for with the token of that
moment. `Create` keeps the field's text of the click, as the closure does. `Fail` is
a refusal, a failed request or an answer lost after the backend has done what was
asked; no list is loaded after it.

**PcDialogs** (`PcList.tsx`, `usePcListDialogState`). Every change of the list runs
the two effects (`Render`). **ScrollLocks** is `useBodyScrollLock` with its module
variables and the three locks that components keep for themselves.

**UptimePanel** (`useUptimePanelState`, `useUptimeNavigation`, the two data
hooks). A change of the selection asks again and cancels the request before
(`Fetch`); `Cursor` is the effect that follows new data to the day pending.
**TimelineDays** is the way of a piece of time from `get_weekly_timeline` through
`HH:MM` to the bars of `buildTimelineDays`.

**LogGroups** (`logGrouping.ts`, `useLogsPanelState`). `SyncGroups` is the reducer that
carries folding over to changed keys; `Transfer` folds over the keys that went away, newest
first. **LogPull** (`LogsPanel.tsx`) is the touch at the end of the list and the button,
over the flags that `useLogsData` gives: loads that begin while another one runs, pages
overtaken by a load or a clear, and the mark of loading that a clear leaves behind.

## 4. Runs

Deadlock is checked except where bounds on time or the number of tokens,
changes and loads stop the model (`CHECK_DEADLOCK FALSE` in the cfg). Symmetry is
used in safety runs only.

| run | instance | shows |
|---|---|---|
| `job_safety` | 2 workers, 3 ids, 1 PC, 1 thread, stale after 1 tick, 1 row kept, 1 fault, `Timely` | types and pool size, exclusive work is single (`JobInv` contains `AtMostOneActive`), no two runners of it, only a job's own task fails it, refinement of `SingleFlight` |
| `job_recover` | 1 worker, 2 ids, 2 faults, not `Timely` | every job ends, stale refreshes are recovered, requests return |
| `job_double_shutdown` | 1 worker, 2 ids, 2 threads, not `Timely` | **violated**: two shutdowns of a PC run at once |
| `ssh` | settings: 2 addresses, 2 logins, 1 host key, 1 tester, 2 incarnations, 5 changes; with a shutdown: 4 changes, watch of 3 | verification and host key belong to the settings they are stored with, keys are not replaced, only unchanged, enabled, tested connections pass the check before the command |
| `ssh_recreated` | settings with 1 address and login | **violated**: a test of deleted settings verifies new ones |
| `server` | status: 1 thread, all operations and probe results, 4 polls; tokens: 2 tokens, 2 handlers, expiry; limits 1 and 2 in windows of 1 and 2 s, half-second ticks, table of 1; cache of 2 for 3 keys, 2 threads; 2 backup runs, 2 kept, 4 seconds; log pages of 2, 3 rows kept, 4 ids, 1 clear, 3 loads | two failures make offline and the first keeps the status; an administrator remains, a revocation stands and is recorded once; limits hold, Retry-After is right, the table is bounded; cached lists are stale only by overlap and not for long; copies give way only to later names; log order, completeness, finality of a clear, loading flag |
| `status_shown` | 2 threads, refresh, WOL, connection test and edit, 1 poll | what is shown follows what is |
| `uptime` | 2 requests, overlapping early, 3 days of 1, 3 and 1 ticks, 1 day kept, 3 changes, 2 of them waiting for their rows; bars: 2 days of 3 minutes of 3 seconds | answers are true where history covers them and do not overstate, right totals stay, but for rows that come late; bars are the time online |
| `timeline` | the bars alone | **violated**: a piece within a minute is drawn until midnight |
| `browser` | list: 1 PC, queue of 1, 2 changes (1 while the backend's cache is behind), 2 loads, 1 operation; dialogs: 2 PCs, 2 texts; locks: page depth 2, 4 dialogs; groups: 1 job, pages of 2, 6 rows; pull of 2 moves; uptime page: 2 PCs, weeks of 2 days, chart periods of 2 and 3, days 3 and 4, 3 moves; token panel: 2 tokens, 1 revoked, 2 operations at once | lists, dialogs, locks, folding, touches, uptime page and token panel show what was chosen and done |
| `session` | 2 jobs of one target, 1 entry, 2 polls; 2 tokens, 2 revalidations, 2 changes, 1 save | operations end and free their target, ends are followed by a load, the gate opens and locks for a reason and never checks for ever |
| `token_gate` | the session alone | **violated**: a token just accepted is shown as invalid |

Components that share nothing share a run: `part` picks one of them in the
initial state, the others stay in theirs, so their states are added and not
multiplied (`MCServer`, `MCUptime`, `MCBrowser`, `MCSession`, and `MCSsh` for the
two bounds of one system). An action still reaches every state of its own
component, and a property of one component is checked in the behaviours of its
part. The names of such a run's properties that end in "Hold" are conjunctions
of named parts, each with its comment in its module.

Why the bounds are enough: two of each actor are what the races need, and the
third identifier lets a recovered job, its replacement and a competitor exist
together. Five changes of the settings cover delete, register, save, key, host
key, which is what a stale result needs to meet the same revision. Two tokens are the smallest
number with which "last administrator" is a decision; two windows of
different length and a table of one are what compaction with a foreign cutoff
needs. Pages of two in a table of three let a page end in
the middle of the table while it is trimmed. Three days give one before, on and
after a day of irregular length. Two summaries of the same days overlap until
the second tick of day 1, which is where a total of day 0 that was read earlier can be
stored later (`MaxOverlap` in `MCUptime`); a behaviour has two requests, of which
the first may be a timeline, which uses no totals. Changes alternate, beginning
with "online"; two of them wait for their rows, so that the later one may come first,
one while time passes, so that a row comes late. The proofs have none of these bounds. Two copies kept and four names let a
run prune while another one's file is half written. A queue of one
loses an event as soon as two are sent; two changes, a load under each of two
filters and one operation give every answer a change before and after it. While the
backend's cache is behind the table changes once (`MaxKeptChanges`), which is enough for
an old list to be served and shown; the panel of the tokens has at most one that is revoked
or gone (`MaxRevoked`). Four
dialogs at a time hold two kinds of lock and an order to close them wrongly in.
Six rows make two blocks of periodic rows, one before, one after another row,
over more than one page. Two polls are one that reads an unfinished job and
one that gives up; two jobs of one target meet at its guard. Three moves on the
uptime page are a choice, another one while it is pending, and one that
crosses a week. Pieces of three seconds to a minute start and end within,
at and across minutes.

### Properties that hold only under a condition

Conditions are in the properties, each for a behaviour of the code that
TLC shows when the condition is removed:

- `Timely` (jobs): a live job older than 15 minutes is replaced. The run
  `job_double_shutdown` is without it.
- `created = 1` (SSH): revisions start again when settings are deleted and made
  anew. The run `ssh_recreated` is without it. A host key scan has the same gap.
- `alone` and no expiry (tokens): two concurrent revocations can each count the
  other's administrator and leave none; so can expiry.
- `lost` (status): a restart between the history row and the status leaves a row
  for a change that did not take place. Overlapping refreshes can also write it
  twice, which is why the status part of `server` has one thread.
- `forgot` (limiter): compaction of a full table uses the cutoff of the rule at
  hand and may forget requests that a longer rule still counts. For the shortest
  window the limit holds regardless.
- `late` (cache): a list read before an invalidation may be stored after it. It
  is served until it expires (`BoundedStaleness`).
- `overlap` (logs): a request in flight when a clear ends fills the cache with
  deleted rows afterwards, for as long as entries live;
  `docs/frontend/features/cache.md` describes the invalidation without
  this case. Another client's clear is not noticed until the entries expire.
- `cutShort` (logs): a clear that ends while a load is awaited leaves the loading
  flag set until the next load ends.
- `excuse` (PC list): what another client creates, edits or deletes, and the "online" of
  a connection test, is not published. An answer read before a change may be applied
  after it or after the event that told of it, and the backend's cache may still have
  the list from before. An event may be lost with a full queue or a
  closed stream; a row may change in place so that it no longer fits the
  filter; a request may fail after it did what it was asked. The list is outdated until
  it is loaded again. What the property leaves is that each end of an operation and
  each event repairs the list: cached lists are withdrawn, and a load or the row follows. `byOld`: `createPcEntry`,
  `deletePcEntry` and the tracker load with the filters of the render that began
  them, and the newest request wins.
- `gaveUp`, `missed` (job tracking): polling ends after 90 attempts or at a failed
  request, and the entry shows a failure; the event may be lost, or the job not
  readable when it comes.
- `crossed`, `failed` as `reason`, and `lagged` (token of a tab): a refusal of a
  request names no token and is taken for the one stored by then, a check that
  fails for lack of a network locks the tab, and a refusal handled before the
  storage event leaves a verdict about a token the tab does not show yet.
- `unlisted`, `overtyped` (token panel): a token is taken for the first one when the
  list failed or was not loaded; text entered or saved during a creation is
  replaced by the text of the click. `own` has what the panel was told it did: after a
  lost answer the list is not loaded, and shows what was done at the next load only.
- `shutdownTarget` (dialogs): the target of the shutdown dialog stays when its PC
  leaves the list; the dialog goes, the lock of the page does not.
- `crossed`, `resynced` (scroll locks): a private lock that is released under
  another one puts back "hidden", or frees the page; a lock that comes or goes
  while the page is fixed reads its position as 0.
- `overlapped` (uptime page): the day chosen while another choice waits for its
  week is replaced by that choice when the week arrives.
- `WithinAMinute` (timeline): see the run `timeline`.
- `inherited` (log groups): a block that appears in the update in which another one
  vanishes may get that one's folding.
- Incomplete files (backups): the file of a copy that failed counts as a generation.
- `missed`, `doubted` (uptime): a change whose row comes after a read that its time
  precedes is missing from the answer and from the total stored with it. A day is
  doubted only if such a change tells a part of it, and until it is summed up again.
- `torn` (uptime): rows pruned between the two reads of a request make it count
  a PC as online that was not.
- `Covered` (uptime): pruning removes the row that gives the status at the
  start of the kept range, also when another PC's insertion prunes; that
  time is then missing, and the total of the boundary day may be replaced by a
  smaller one.

Further behaviours seen in counterexamples while the properties were found: a
refresh that started before a WOL job overwrites "booting"; an edit writes the
status back that it read; a WOL job changes the status "unreachable"; the
"online" of a connection test does not end the offline streak; the watch of a
shutdown probes the address of the row as it is then, which may have been
edited; a PC online for more than 24 hours of a day of 25 fails the summary
request because of the table's check. In the browser: a failed deletion closes its dialog as a successful
one does; an update sends all fields and so overwrites what changed elsewhere,
and what is typed while it is saved is lost; `expandedDetailIds` of the log panel
are never dropped, which shows when a row's id is used again after a clear. A
backup made after the clock was set back sorts before the others and is the
first to be deleted.

### Fairness

- `job_recover`. The event loop runs ready coroutines in order and the pool its
  queue, so a step that is enabled again and again is taken (strong fairness of
  `MarkRunning`, `StartRunner`, `RecordResult` and of the monitor's request, which
  other requests disable for a while). Runners have loops of bounded length and
  timeouts, so `RunnerEnds` is weakly fair; a request between two transactions
  holds its loop, so weak fairness of its next step is enough. The clock advances.
  Restarts and failed writes are never required.
- `status_shown`. A thread that is in an operation goes on (weak fairness of
  `Proceed(t)` for each thread) and the monitor requests refreshes for ever
  (weak fairness of "some thread begins a refresh"). Nothing else has to start.
- `session`. Timers fire and requests are answered or fail, so the next step of an
  operation (`Proceed(j)`), the handling of an event (`Handle(j)`) and the render
  that follows a state change (`Rendered`) are weakly fair. The backend's jobs need
  not end: an operation ends all the same, by its limit of attempts. Storage
  events are delivered, checks are answered or fail, and the interval runs
  (`SessionFairness`). Nothing the user or another tab does is required.

### Disagreements with the documentation

Four runs end in a violation of what a comment, a text of the interface or a
document says; `PROJECT.json` quotes it.
`job_double_shutdown`: the comment in `request_pc_shutdown` says that repeated
requests avoid sending the command twice. Whether a job is stale is
decided by the wall clock alone, so a clock set forward (no RTC) or a long queue
for the pool is enough. `ssh_recreated`: the docstring of
`record_ssh_verification` says that a result is stored only if the settings it
used are in force; the revision it compares starts again for a PC registered anew.
`token_gate`: the gate asks to save a valid token; when that is the stored one
and the last check had failed for another reason, nothing changes in the tab, a
locked tab makes no further checks, and it stays locked until another token is
stored or the page is loaded again. `timeline`: the
interface document calls intervals times of one day; a piece whose two times are
the same minute is taken for one that ends on the next day, and drawn until midnight.

Two further texts differ without a run of their own, because the conditions above
hold them: `docs/frontend/features/ui.md` has only the first token set up
automatically (`unlisted`) and periodic groups start folded (`inherited`).

## 5. Proofs

Every theorem holds for every value of the constants that satisfies the named
assumptions of the modules: any number of PCs, threads, tokens, jobs, requests
in flight, any capacity, window, time to live, page or unit, and behaviours of
any length up to the counters' bounds, which are arbitrary. Each rests on an inductive
invariant, which was model-checked on the instances of section 4 or larger ones
before it was proved, and there is a lemma per action. None of the invariants
of section 4 is inductive as it stands; what had to be added is the reason why
the code works, so it is said here.

**JobLifecycleProofs.**
`JobTypes` needs no more than `JobAssumption`. The rest rests on the
inductive invariant `JobInv`, under the assumption `Timely`: a live task owns an
unfinished row that is not stale (`TaskOwnsRow`), a row a request is about to
recover has lost its task (`RecoveryIsOrphaned`), exclusive work is single
(`AtMostOneActive`). That recovery fails no live job
needs that stale rows have no task; that a later row of the same work never
meets a live runner of the earlier one needs that a live task's row is
active. From the invariant follow `SingleActiveJob`, `SingleRunner`, `OwnTaskFails` and
`ImplementsSingleFlight`, whose step lemmas map insertions to opening (with
forgetting), marks to closing or a stutter.

**SshSettingsProofs** (`SettingsAlwaysHold`, `HostKeyAlwaysScannedHere`,
`ShutdownStepsHold`). A connection test and a host key scan carry the revision they
read; what makes them safe is that a revision names one version of the settings
for as long as the settings are the first of their PC. `SshInv` says so: whoever holds
a key and revision that are still stored holds the login and host key that are still
stored, and older revisions are below the stored one. A settings row made anew starts
at revision 1, which is where the invariant ends (`ssh_recreated`).
`FlowImplementsSettings` shows that each step of `ShutdownFlow` is a step of `SshSettings`
or leaves it alone, so the invariant carries over; the command's check then
compares what was read before with a row that the job's own invariant
(`JobHolds`) ties to the request.

**ApiTokensProofs** (`TokensAlwaysHold`, `RevocationRulesHold`). While requests do not
overlap and nothing expires, a request that is about to revoke an administrator
still has another one, and one about to insert the first token inserts an
administrator (`Sure`). That only a revoked token is deleted, and that a revocation
keeps its time, holds whatever overlaps.

**MemoryProofs.** *Rate limiter* (`LimitsHold`, `LimiterAlwaysHolds`). `WithinLimit` is about
any window, while the bucket shows only the present one. The invariant adds that the times
are in order and not in the future (`Chronological`) and that every popped time lies
outside the window of now (`PoppedIsPast`) - for a key that is not of the shortest
window as long as nothing was compacted away. Then a full bucket refuses exactly
when one more request would make `limit + 1` in a window. `ToldIsEnough` ties the time
a client is told to the request that has to leave the window first.
*List cache* (`CacheAlwaysHolds`). A request is shorter than `MaxRead` and what it has read was
true at some time since it began (`RequestHolds`); an item that is out of date expires
within `Ttl + MaxRead` of the change (`ItemHolds`). `KeptFacts` says what dropping items of
an ordered dictionary leaves.

**StoredDataProofs.** *Status* (`HistoryAlwaysAlternates`, `RefreshRulesHold`), with one thread:
the rules are not true of operations that overlap (section 4), so the hypothesis
is what they mean, and any number of restarts, expiries of the streak and
operations remains. The streak never exceeds the failed probes since the last answer
(`RefreshHolds`), and before its write an operation has seen the status it replaces, which is
the last row's (`HistoryHolds`).
*Backups* (`BackupsAlwaysKept`): whatever a run is about to delete has `Keep` later files, however
many runs overlap; deleting it leaves older ones superseded, because the later files of the
deleted one are later than they are, too.
*Logs* (`PagesAlwaysHold`, `ClearIsAlwaysFinal`): every page that is cached or on its way is in
order, lies before its cursor and leaves no row out, as long as no clear met pages
(`PagesAtHold`); a call waits for a request that is under way, and the newest load's call is for
the first page or for the list's cursor (`AwaitedHold`); ids may be used again after a clear, so
the order shown is about rows of one generation (`TableHolds`).

**SessionProofs.** *Jobs* (`OneOperationAlways`, `OutcomeAlwaysShown`). A guard is held by
the one operation that follows its target; a poll that read an end read the job's final
state (`ReadIsFinal`), and each job has one entry, for every length of the list shown.
*Token* (`AdmittedAlwaysAccepted`, `LockedAlwaysWithReason`). A verdict that
is still on its way is true of the token the tab shows (`PendingTrue`): a change of
the token cancels the check, and what the server once accepted stays on record. The
verdict shown is true of the token it names, which may be another one.

**BrowserPageProofs.**
- `ListAlwaysRepaired`: when the list is not the backend's and no excuse is on
  record, a repair is under way: an event queued, a fetch or an operation that
  ends with a load, or an answer that is read from a fresh cache (`StaleIsRepaired`). The
  property itself speaks of quiet states only, in which none of these is left.
- `FiltersAlwaysHonoured`: the newest call asked for the applied filters (`FilterInv`).
- `DialogsAlwaysHold`: the parts of the property keep each other.
- `PanelAlwaysHolds`: what the panel did is in the backend and is in the list shown, in one
  that was read, or will be loaded once more (`ListIsTrue`); after a clear nothing is under way
  that could show tokens again (`ClearedIsQuiet`).
- `PageAlwaysHeld`: dialogs are kept in the order they were opened, the first one found a
  free page and all others a held one (`SnapshotIsFirst`, `FoundIsFirst`). As long as none is
  closed under one of another kind, what remains at the bottom is of the kind of the
  first, and so the last to go puts back a free page. The place is in
  `fixedScrollY` while the page is fixed and in the page otherwise (`PlaceIsKept`).
- `PageAlwaysHolds`: a day chosen waits for its week (`FrameWaits`) or is in the week
  selected, as the cursor or next to it (`ChosenIsNear`); for any length of weeks.
- `PullsHold`: a touch that has asked for a page is used up until it ends (`TouchUsedUp`).
- `FoldsAlwaysFollowBlocks`: what the user has open and what may have been inherited are whole
  blocks (`Whole`), so that a block cut by the end of the list is either all open or all
  folded. Of the blocks whose key goes away in an update at most one keeps rows on the list;
  it is the newest of them, so it is served first, and its new key is the nearest of those that
  come (`OneIsCut`). The rest of the fold leaves what was given first alone (`NewestGives`), and if
  no block left with all its rows there is no rest (`CutUnlessLost`). `GivenTo` shows that the
  fold over the keys is a function, by the least number of keys for which it is not.

**UptimeProofs.** A total is a sum over a set of intervals, so it needs what a fold over a set
returns: `SumOfParts` shows that it is the size of the union when each number is the size of
one of several disjoint sets. The induction is over the least counterexample, since the
library's induction theorems cannot be used here.
*Figures* (`AnswersAlwaysHold`, `RightTotalsAlwaysStay`). `IntervalsAreTrue`: the intervals
computed from the rows read contain a tick exactly when the last row up to it says "online";
they do not overlap, so the total of a day is the number of its ticks for which this is so
(`TotalIs`, `FiguresAreSaid`). The invariant (`UptimeInv`) says why the rows read are enough although
the history changes in between: changes are numbered in the order of their times, what was pruned is
older than a cutoff that everything left is not (`HistoryHolds`), and the row read of the time before the
days asked for is the one that told the status there, or that row is pruned or was not there yet and is
in `missed` (`BeforeHolds`). A change in `missed` or `changing` that tells no part of a day leaves its
figure alone (`TellsPart`), and one that comes later than the read cannot tell a part that was past then. Then a covered day is true
(`ReadWhatIsTold`), and without pruning between the reads nothing is invented (`ReadOnlyWhatIsTold`). A
total of the past does not change with later rows, and only grows with time (`TruthGrows`).
*Timeline* (`DaysAlwaysRight`): the pieces of a day do not overlap (`PiecesApart`), so a minute that
is online throughout lies in one piece, which is drawn as a bar of that day, and the seconds of
the bars are those of the pieces but for a piece that ends at midnight.

### What is only model-checked

- All liveness (`RequestsGoOn`, `JobSettles`, `UpIsShown`, `DownIsShown`, `OperationEnds`,
  `EveryEndReloads`, `ChecksEnd`): it rests on fairness, and the prover does not treat
  ENABLED.

## 6. Not modelled

See the components with status `not_modelled` or `partly` in `PROJECT.json`.

- Still planned: `refresh_all_statuses` as a loop over several PCs, where one that
  is deleted meanwhile ends the job for the rest.
- A WOL job whose process stops stays unfinished for ever: nothing recovers
  it and pruning keeps it. `JobLifecycle` shows the orphan; no document promises
  that it ends, so no property does.
- The watch after a shutdown reads the address twice; between the two
  reads it may become another PC's. `ShutdownFlow` has the reads as two steps; no
  decision of the code depends on them agreeing.
- The panel of the SSH settings in the browser sends one request at a time; the
  races are in the backend, where `SshSettings` has them.
- Tokens that expire are in `ApiTokens`; `TokenPanel` leaves them out, since a list
  shows the time and not a state.
- `TimelineDays` has days without a change of the clock: on a day of 25 hours two
  times are the same, and a piece may end at an earlier time than it begins.
- Uptime by week, month and year sums days; ratios, counts and labels are formatting.
- Left out on purpose: probes, magic packets and `ssh` itself (their
  outcomes are choices), routing and validation in the web layer, migrations (run
  while the service is stopped; constraints that matter are in the modules), seed
  data, formatting, audit logging, themes and layout, which keep no state the
  rest relies on.
