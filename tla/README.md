# Formal models of kun

kun is an asynchronous crawler written in Rust: an engine claims tasks from a
scheduler, runs each through middlewares and a downloader, hands the answer to
a spider, and resolves the task together with its follow-ups. The scheduler may
be shared by several worker processes. This directory holds TLA+ models of the
parts whose interleavings, crashes and partial failures a test hardly reaches,
the TLC runs that check them, and the theorems TLAPS proves about them.

## The system

| component | state it keeps | operations | what is hard | what makes it correct |
|---|---|---|---|---|
| scheduler contract (`scheduler/traits.rs`, `control.rs`) | none | enqueue, take_ready, complete, complete_and_enqueue, requeue, heartbeat, release_inflight, pause, resume, release and purge of a scope | every backend implements it its own way | a task waits or runs under one lease; only its holder finishes it |
| Redis scheduler (`scheduler/redis.rs`) | eleven keys per namespace, changed by Lua scripts | all of the above, reclaim | several processes, clock lag, lost replies, crashes, scripts that fail half way | a task is in one bucket, a lease has one owner, a dead worker's task comes back |
| memory scheduler (`scheduler/memory.rs`) | a ready queue, delayed and inflight vectors behind one mutex | the same, and batches | batches that stop half way, restored checkpoints | order of claims, no task lost |
| checkpoint stores (`scheduler/checkpoint/*`) | last saved checkpoint | save after every change, restore | crash between change and save, saves out of order | a restart loses no task that was accepted |
| SQLite scheduler (`scheduler/sqlite.rs`) | one row per task | the same, one SQL statement at a time | statements of two processes interleave, reads in several statements | as for Redis; the metrics add up |
| observed scheduler (`scheduler/runtime.rs`) | runtime events | forwards every call | events after the fact | one event per transition |
| engine (`engine.rs`, `engine/task.rs`) | permits, running futures, stop flag | claim loop, task run with heartbeat, resolution, close | cancelled futures, errors that end the run, stop | permits and leases are given back |
| middleware chain (`middleware/*`) | per-bucket limits, seen sets, retry counters | hooks before and after enqueue and download | short circuits skip later hooks, shared request metadata | what a hook takes another gives back |
| rate limit, interval, auto throttle | windows, delays and the next moment a request may pass | delay a request, learn from its answer | each arms its wait although a later one refuses; answers out of order | rates and backoffs hold, no task starves |
| HTTP cache (`middleware/http_cache*`) | entries by page, with validators and age | add validators, take a 304, keep an answer | the entry may change while the request is under way | a body is the one the site has |
| robots (`robots.rs`, `robots/*`) | policies per origin in memory and in a cache, time of the next retry | check before a download | concurrent fetches, failures, stale entries | the policy in force decides |
| browser downloader (`download/browser.rs`) | locks and device profiles by session, open browsers by key | plan, take or launch, run, keep or close | requests dropped at every await, browsers that die | a browser shares the user data dir with none of its own key, one profile for a session |
| file store (`store/file.rs`) | the file in use and its counters behind a mutex | write batches, rotate, close | failures in the middle of a batch, late writes | what was answered Ok is in the files |
| other stores, pipelines | connections | store an item | stored before the task is completed | at least once |
| rules, parsers, validator | none | compile, run, extract, check | breadth | each rule does what it says |
| requests, responses, HTTP downloader, signals, stats, telemetry, plugins, settings | configuration and counters | I/O and bookkeeping | – | – |

The engine calls the scheduler through the two traits and the middlewares
through the chain; workers meet only in the scheduler's storage. Tasks carry
the request, and the request carries the metadata by which middlewares talk to
their own later hooks. A task is resolved last: items are stored and follow-ups
filtered before the scheduler learns of the outcome.

`PROJECT.json` lists the hazards at their lines, with the properties that cover
each one or the reason why none does yet.

## Modules

| module | models |
|---|---|
| `TaskPool` | what the scheduler traits promise, whatever the backend |
| `RedisScheduler` | one namespace of the Redis backend, its Lua scripts and its workers |
| `RedisSchedulerProofs` | theorems about `RedisScheduler` |
| `MemoryState` | the state of the memory scheduler, one operator per call |
| `CheckpointScheduler` | the memory scheduler that saves itself to a file, crashes and restarts |
| `CheckpointSchedulerProofs` | what each operator of `MemoryState` does to the buckets, and theorems about `CheckpointScheduler` |
| `DownloadHooks` | a request, the middleware chain around a download, and the concurrency limit on it |
| `Engine` | one run of the engine: its loop, the runs of its tasks, and the scheduler as they see it |
| `EngineProofs` | theorems about `Engine` |
| `SqliteScheduler` | one scope of the SQLite backend, statement by statement, and the metrics its handles report |
| `SqliteSchedulerProofs` | theorems about `SqliteScheduler` |
| `PaceHooks` | auto throttle, interval, rate limit and crawl delay: what makes a request wait |
| `HttpCache` | the hooks of the HTTP cache |
| `DownloadStage` | the tasks of one site through the hooks of `HttpCache` and `PaceHooks`, the download, and the hooks after it |
| `DownloadStageProofs` | theorems about `DownloadStage` |
| `RobotsPolicy` | how the policy of an origin is found when several tasks ask for it |
| `RobotsPolicyProofs` | theorems about `RobotsPolicy` |
| `BrowserSessions` | the browsers, locks and profile of one session of the browser downloader |
| `BrowserSessionsProofs` | theorems about `BrowserSessions` |
| `FileStore` | batches, rotation and failures of the file store |
| `FileStoreProofs` | theorems about `FileStore` |
| `Maps` | functions with a changing domain, for the hashes of Redis, the rows of SQLite and the maps of the engine |
| `MC...` | small instances for TLC |

Every backend is shown to implement `TaskPool`, and the engine is shown to keep
to it: that is how the parts compose. A definition called a mutant in its
comment is no part of the model: it is a bug the code could have had, with which
the property it was written for must fail.

### RedisScheduler

`db` is the namespace: one field per Redis key, under the name the scripts give
it. A set is a set of task ids; a hash or a sorted set is a function from the
ids that have a field. `now` is the server's clock, `held[w]` the leases worker
process `w` works under, `issued` the number of lease ids generated. The payload
of a task is the part of its JSON the scripts read: priority, depth, ready_at.

A script runs alone on the server, so each EVAL is one action, written with one
operator per procedure of the scripts (`RouteTasks` for `route_task`,
`PushReady` for `push_ready`, `SyncWorker` for `sync_worker_runtime`, and so
on). Around the scripts the model has what the processes and the network do:

- the caller reads the clock first, so a script may see a time up to `MaxLag`
  behind the server;
- the reply of a claim may be lost, a process may drop a lease (`Abandon`: an
  error of another call ends its run) or die (`Crash`);
- a resolving call under a lease that is not in force is `Refused`;
- `release_inflight` and `clear_worker_runtime_if_idle` are two round trips of
  which the second may not happen.

Two constants say how the scripts behave where the source does not do what it
assumes. `SyncDefined` are the workers whose claim script gets past its call of
`sync_worker_runtime`; as shipped there are none, since only other scripts define
that function, and the claim fails after it has moved the task. `NullIsAbsent` is
FALSE on a Redis server: `ready_at` of an immediate task is serialized as null,
which cjson decodes to a value that `route_task` cannot compare with the time. A
script that fails keeps its effects, so a loop over several tasks ends in the
middle and leaves the task it stopped at in no bucket (`StopsAtNull`). The fake
server of the repository's tests defines the function and reads null as absent,
which explains why those pass. Every run has the null of the server. The run that
must pass has a worker whose claims fail as shipped, next to two for which the
call is repaired, since leases are only ever handed out to such: without any,
what follows a claim would hardly be checked. `IdsCollide` says whether two
processes may give two tasks one id, as the per-process counter of `TaskId`
(task.rs:15) does; with it a new task replaces the stored one, and every run and
theorem is about ids that do not collide.

`Pool == INSTANCE TaskPool` maps ready and delayed tasks to waiting ones and the
lease hash to running ones. Every script is one step of the contract, or none; the
exception is a loop stopped by a null, which loses that task (`LosesToNull`), and
`ImplementsTaskPoolUnlessNull` says exactly what such a step may do.

### MemoryState and CheckpointScheduler

`MemoryState` has the three buckets of `State` as sequences, since their order
decides what is claimed next, and one operator from state to state for each call
under the mutex. `CheckpointScheduler` is `checkpoint::Memory` around it. A call
is `Call` (the change, under the lock), then `TakeCheckpoint` (the state is read
again, without the lock), `OpenTemporary`, `Write` and `Rename`, one action for
each call of the file system. `SaveFails` ends a call in an error with its change
in place. `Crash` may come between any two of these; `Load` restarts from the
file. A file is a sequence of the checkpoints it has pieces of, so an empty one
and one mixed of two are told apart from one that can be read.

The engine is one future and calls the scheduler one call at a time, so one
client is the case the code is written for; an operator who calls `Control` on
the same scheduler is a second one. With two, the older of two checkpoints may
land last and the two share the temporary path (checkpoint/memory.rs:43 reads
the state without the lock): `SavedWhenIdle` fails with a second client. Task ids
are unique: after a restart ids count from 1 again while restored tasks keep
theirs.

### DownloadHooks and Engine

`DownloadHooks` has the part of a request that hooks use to talk to themselves
(`slot` is the `_concurrency_slot` mark, `retries` is `_retry_times`) and the two
passes over the chain, before and after the download. A hook that does not
continue ends its pass. Concurrency is modelled as it is; the hooks before and
after it in the chain are sets of the answers they may give (`FirstBefore`,
`LastBefore`, `FirstAfter`, `LastAfter`).

In `Engine`, `pc` is where the one future of the engine is: seeding, at the top
of its loop, claiming, waiting for a run (`polling`), applying the run that ended
and resolving its task. `runs` are the futures it polls, by lease, each with the
place it has reached: waiting for a permit of its domain, robots, the download,
the callback, the stores. They move only while `pc = "polling"`. `queue` and
`leases` are the scheduler, with a page as the name of its task, because
requests are deduplicated by page; `Expire` takes a lease back. `Commit` is the
call that resolves the task, with the follow-ups that `Prepare` has let through
dedup, and `Refuse` the answer when the lease is no longer in force. `Faults`
lets the calls to the scheduler fail, which ends the run of the engine as `?`
does.

The domain filter comes twice: a success keeps the links that are allowed
(`Follows`: engine/task.rs:657-662, which asks no request whether it skips the
filter), and a delayed or retried task passes the admission again, whose last
check (101-103) gives up a page that is outside `Allowed` and does not skip it.
Only a start request gets there, since those enter without any check
(engine.rs:554): such a page is `Stray`, and leaves by a completion with no
follow-up. `TaskLeavesWhenDone` excepts exactly these, and the site of the run
has one.

### SqliteScheduler

`rows` are the rows of one scope, `next_sequence` and `is_paused` its row in
`scheduler_scopes`. A call is a series of statements and each is one action;
`call[w]` is the call process `w` is in, with what it has read so far. Only
`complete_and_enqueue` is a transaction, and one action. Reclaim, the two
releases and requeue read rows and then give them back one by one (`Loop`,
`NextRow`, `WriteRow`): `MayReturn` is what the WHERE of each UPDATE asks, which
need not be true of the row any more, or true of a later lease. `take_ready`
then promotes, reads the paused flag, claims by one UPDATE and reads the task by
a statement of its own. A process may die before any statement, and any statement
may fail in a process that lives (`Fails`): the call answers with the error, and
what it did before stays. A loop then stops half way, a row that was claimed and
not read has nobody who works on it, a completion may have been done all the same
(`CompleteUnanswered`); the run of the engine may end with the error or not.

The contract does not say when a lease may be taken back, and the UPDATE of a
reclaim (sqlite.rs:1304-1318) asks only whether the row is inflight. So
`ImplementsTaskPool` tolerates that a lease renewed, or claimed anew, after the
SELECT is ended by it. `EarlyEndsAreStale` says that this is the only way: before
its time a lease ends by its holder, by an operator, or by a reclaim whose `since`,
the time of its SELECT, is older than the lease or its last heartbeat. A lease that
was in force with time left all the while is safe.

A checkpoint or snapshot reads several SELECTs, and `seen` keeps the places at
its first moment, so that `ReadsAreExactForTheUntouched` can say what an answer
from several moments is worth. A claim takes its task out of `seen` of the
others (`Touched`, no step of the code): with three processes, two may reserve
the same sequence, and a reclaim that read the row long ago can put a claimed
row back where a reader saw it, so that it looks as if nobody had touched it.

The counters that `Observed` derives from the calls of each handle are
`reported`, with `events` for reclaims a later call reports. `exact` turns FALSE
when something happens that no handle reports (a purge of running tasks, a
process that dies in a call, a statement that fails after others of its call have
changed rows, a claim whose task was taken back before it was read):
`MetricsAddUp` is about the executions without these. The module assumes unique
ids, a handle for each process, and lease timeouts on every worker, and leaves the
order open in which rows are given back. Two processes may reserve the same
sequence (sqlite.rs:1201); the order among such rows is left open too, and no
property speaks of it.

### HttpCache, PaceHooks and DownloadStage

The two first modules are hooks as operators from the state they find to the
state they leave. `HttpCache` has entries with their Last-Modified date and age;
a body is named by the date the page had, so that an outdated body is one whose
date is not that of the page. `PaceHooks` has the waits of one bucket as times
left, the window of rate limit as the ages of its hits, and the chain in the
order of the code's defaults: each hook that passes arms its wait, and a later
one may still delay the request.

`DownloadStage` puts tasks through them: `Attempt` is one claim of a task with
all the hooks up to the fetch, `Receive`, `ReceiveBusy` and `Fail` the answer
with the hooks after it (200 or 304; 429; an error or a status that is retried).
A delayed task comes back with the request as the hooks have left it. `Change`
is the site, `CrawlAgain` a later crawl with the cache of this one; the cache may
hold pages of an earlier crawl at the start. `recent`, `quiet` and `given` only
observe: the downloads of the last minute, the longest delay a failure has set,
and what the spider was given.

There is one bucket, no request overrides the hooks, target_concurrency is 1,
each page is one task at a time, and the site validates by date. All pages are
start requests: a page followed from another inherits its If-Modified-Since
(request.rs:516, response/follow.rs:23, and http_cache.rs:189 keeps a header
that is there), so the site may answer 304 to the wrong date, and the spider
gets no body, or an outdated one. docs/capabilities.md:44 promises
"validator 复用" (reuse of validators) and no more. With `MinInterval` 0, an
average that reaches 0 makes auto throttle begin again at `StartInterval`
(`CurrentDelay`).

### RobotsPolicy

`hot` is the policy in memory, `cache` the entry of the cache, `retry` the time
left before an origin that failed is asked again, and `task` what each task has
found in its search: memory, cache, site. A task is suspended in the calls of the
cache and in the fetch, and others run in between. The site changes its rules,
and a fetch may fail at any time. Rules and their matching are not modelled: a
policy is a value. Of the parser, a reader should know that a group of
User-agent lines is merged into the one before when that had only a
Request-rate.

### BrowserSessions

Several requests of one session: `at[r]` is the place of request `r` in
`download`, from the lock of the session over `device-profile.json` (read, and
written if it is not there), the browser that is taken from the cache or
launched, the page, to the browser that is stored or closed. `Drop` ends a
request at any await, by its timeout or with its lease; the guard of the lock
goes with it, and a write that was handed to the runtime lands later
(`LateWrite`; `landed` are the profiles such writes have put in the file). The drop
closes no browser (browser.rs:85-96), and a close or a launch that fails does not
prove that the browser is gone (1313-1326): it may stay on among those that are
`left`, after the lock is free, until it ends by itself (`MayStay`, `LeftEnds`). A
browser may die, fail any request, and rest past its max_idle.

`Habits` are the ways to use the session: what profile, key, proxy and error
policy each request has, and whether it may be dropped. The five of the run are:
one profile and one key for all, with drops; two profiles and two proxies under
one key; a browser for each request, some of which name no profile; the same, where
a request that names another profile may be dropped as it writes it; and two keys
next to a browser for one request alone.

`OneBrowserPerKey` and `ProfileIsPinned` say exactly when a second browser is in the
user data dir, and when the session changes its profile; what the documents say of
both is quoted below. Two more things a reader should know:

- the profile is written before the signature of the open browser is compared
  (browser.rs:1244), so a session that began without a profile refuses every
  request as soon as one names a profile, until its browser expires;
- with `keep_alive_on_error = keep` and neither max_uses nor max_idle, a browser
  that died is kept for ever, so `DeadBrowserIsReplaced` needs max_uses.

Left out: a process that dies in the write, which leaves a file that no request of
the session can decode, and temporary directories of dropped requests, which stay
behind.

### FileStore

`state` is `FileState`: the file in use, the index of the last rotation, items
and bytes. A batch is the loop of `append_items`: fill a buffer, flush it when the
next record would not fit, rotate, go on. `FlushFails` leaves any prefix of the
buffer, the last record whole or in part; `FlushDropped` is a run dropped as it
waits for its append, which lands later (`Land`); `RotateFails` moves the index
and not the file. `RotateDropped` is a run dropped as it waits for the new file to
be made (file.rs:174), which is made, or emptied, later (`Reset`), perhaps after the
store was closed and opened for another crawl. A record says whether it is whole,
and whether its append was answered (`counted`), since the counters know of no
other. The store puts the newline after a record (file.rs:297-302), so what follows
a record left in part is on the same line.

`WrittenIsStored` has two exceptions, and they are exact. A batch may be gone if a
rotation dropped in an earlier crawl has emptied its file (`emptied`); a rotation of
the same crawl never does that, because the index is past its file. And a record
that was answered Ok may share its line with the part that an append with another
answer has left before it; no decoder can then read it.

Left out: an error as the store closes, and serialization. The comment of
file.rs:17-20 has write() append to the file; `ensure_opened` truncates it when the
spider has another name or the store was closed, so a restart from a checkpoint
loses the earlier output. Files with a number above 9999 are not removed when a
crawl begins.

## Runs

Bounds: `Horizon` bounds the clock and every deadline, `MaxLease` the claims,
`MaxSequence` the tasks that are added, `MaxFailing` the sequences given out
while statements may still fail, `MaxDate` the changes of a page,
`MaxCrawls` its crawls, `MaxChanges` the changes of robots.txt, `MaxFailures` the
calls that fail, `MaxBatches` and `MaxLen` the batches and their records.

| run | question | bounds |
|---|---|---|
| `redis_scheduler` | is nothing lost but to the null, do claims keep their order and leases their holders, does a task whose claim failed half way stay put, is every script else a step of `TaskPool` | 3 workers, one of which claims as shipped; 2 tasks, 3 payloads, clock to 3, 3 claims, the null of the server |
| `redis_null` | violated: an immediate task that is given back ends in no bucket | 2 workers as shipped, 2 immediate tasks, clock to 2, 2 claims |
| `redis_claim_script` | violated: a failed claim leaves a task that is never reclaimed | 2 workers as shipped, 1 task, 1 claim, fairness |
| `checkpoint` | do accepted tasks survive failing saves and crashes, can the file always be read, is the order of claims kept, is each call one step of `TaskPool` | 1 client, 2 tasks, 2 payloads (one waits and has a better rank), clock to 1, 2 claims |
| `engine` | does the engine keep every lease, the concurrency limit and the contract on every path of a task, and does it stop | 3 pages, one of them a start page outside the allowed domains, 2 at once, 1 per domain and 1 per bucket, 1 retry, every answer of hooks and robots, lost leases, scheduler errors, 3 claims, fairness |
| `engine_retry_keeps_slot` | violated: a retry keeps its slot for ever | 3 pages, 2 claims |
| `sqlite` | is each statement one step of `TaskPool`, whichever fails, and do the metrics add up | 2 processes, one dies or meets errors, the other releases and purges; 2 tasks (one waits and has a better rank), clock to 2, 2 claims, 2 sequences |
| `sqlite_orphans` | does the task of a dead process come back, whoever dies as it gives it back; are torn reads exact for what nobody touched; who ends a lease early | 2 processes that may die and that read, 1 task, pause, timeout 2, clock to 5, fairness |
| `downloads` | do rates and backoffs hold, are bodies current, is every page done | 2 pages, 2 dates, 2 crawls, 1 retry, rate 2 in a minute of 2, delays of 1 to 3, fairness |
| `robots` | does a failure never replace a good policy, does the policy of the site prevail | 3 tasks, 2 policies, 2 changes, 2 failures, a cache of an earlier run, fairness |
| `browser` | who shares the user data dir, who changes the profile, is a dead browser replaced | 3 requests in 5 habits, 2 keys, 2 profiles, 2 uses, fairness |
| `file_store` | is what was answered Ok stored once and in order, are files within their limits | 3 runs, batches of 1 or 2 records of 1 or 3 bytes, files of 2 records or 3 bytes, 2 failures or drops, a second crawl |

Two tasks are enough to order claims, to have one task disturb another and to
stop a loop between two; two workers to have an old and a new owner, and in
Redis a third whose claims fail; three claims to have a lease reclaimed, claimed
again and resolved late under both leases. A lease timeout of one unit with a
lag of one puts every order of clock reading, expiry and late answer within the
horizon. In `checkpoint` and `sqlite` two claims are enough for a stale lease,
and a delayed task of the better rank for a promotion that must pass a task in
the queue. In `sqlite_orphans` a timeout of two leaves room for a lease that is
renewed, or claimed anew, between the SELECT and the UPDATE of a reclaim, and
that has time left when it is taken. In `engine`, of the three pages two share a
bucket and two share a domain, so that a run can wait for a slot and another for
a permit; three claims let a page be fetched, retried or repeated next to
another. In `downloads` a rate of two with two pages makes a third request wait,
which a retry or a second crawl sends. In `robots` three tasks are one that
fails late, one that fetches, and one that checks after both. In `file_store`
two failures are one that leaves a part and one that lands late, or a rotation
and an append. In `browser` two uses make a browser be kept once and then
replaced, and the habits are the smallest that have each way to share the
directory or to change the profile.

Fairness is assumed where liveness is checked:

- Redis: time passes and some worker keeps polling the namespace (`take_ready`,
  `counts` or a snapshot, each of which reclaims first), as the engine does as
  long as it runs; nothing is assumed of a worker that holds a lease.
- SQLite: a call goes on while its process lives, and the loop of the engine calls
  `take_ready` again and again between its other calls.
- engine: its loop goes on (`EngineStep`, it is one future on a runtime that
  polls it), and so does each run, except for a download, which is only sure to
  end if its request has a timeout (`Timed`): a request has none by default, and
  then a stop may wait for ever.
- downloads: a task that is due is claimed, a download ends by its timeout, time
  passes.
- robots: tasks of the origin keep coming and go on, and a fetch ends. The client
  for robots.txt has the timeout of the request, which is none by default.
- browser: requests keep coming, the mutex of the session is fair, and calls to
  the browser come back, which have timeouts of their own.

Symmetry is used in runs without liveness; ids, workers and runs are only
compared for equality. `CHECK_DEADLOCK FALSE` is set where a bound ends all
activity, or the crawl is over.

## Where the code does something else than it says

Shown by a violated run:

- An immediate task that is requeued, released or reclaimed by Redis ends in no
  bucket, because its `ready_at` is null (redis.rs:97), where
  docs/distributed_scheduler.md:321 and 336-338 have it go back into
  `ready / delayed` (`redis_null`).
- A claim of the Redis backend fails after it has moved the task, and the task
  is then inflight without a deadline (`redis_claim_script`).
- A retry by the default order of hooks skips the hook that gives the slot back
  (`engine_retry_keeps_slot`).

`PROJECT.json` has the lines of the code and of the documents that say otherwise.
Met while modelling, described here only:

- The reclaim of SQLite reads expired rows and takes them back by an UPDATE that
  asks only whether they are inflight (sqlite.rs:1304-1318). A heartbeat, or a new
  claim, in between does not save the lease, where docs/distributed_scheduler.md:40-42
  says that with a heartbeat a task is not taken back because of its timeout
  ("这样不会因为 lease timeout 到期，被别的 worker 提前回收"). `EarlyEndsAreStale` is
  what holds.
- openspec/specs/runtime-engine/spec.md:315-319 has the admission boundary check
  the allowed domains of start requests too
  ("这条边界至少明确包含 allowed-domain 检查与 request dedup"), which they enter
  without (engine.rs:554); and 327-332 has a delayed request go back to the delayed
  bucket ("它会回到 scheduler delayed bucket"), where one outside the allowed
  domains is given up without a word (engine/task.rs:101-103). Links are filtered
  also if their request says to skip the filter (657-662).
- The lock of a browser session is to keep two browsers from racing in one user
  data dir (openspec/specs/spider-api/spec.md:224-228,
  "避免共享 user data dir 时出现竞态"). It does among the requests of one key; with
  `keep_alive_scope = origin`, a `keep_alive_key` per request, or isolated requests
  next to kept ones, the browsers that are kept open share it, and a dropped
  request (browser.rs:85-96) or a failed close (1313-1326) may leave one there.
- The first profile of a session is to stay, and nothing may replace it silently
  (openspec/changes/browser-session-profile-pinning/specs/spider-api/spec.md:10-24,
  "不会静默覆盖已固定的 session profile"). A request that is dropped as it writes its
  profile (browser.rs:1298) may do so after a later one has pinned another.
- A rotation of the file store that was dropped in one crawl (store/file.rs:174) may
  empty a file of the next one, with records that were answered Ok.
- The scripts that resolve a task compare its lease and never its deadline, so an
  expired lease that nobody has reclaimed yet still completes, where
  docs/distributed_scheduler.md:339 says it may not.
- Links are recorded as seen before the completion that enqueues them is accepted
  (engine/task.rs:177): when the lease was lost, they are never fetched.
- The `_concurrency_slot` of a page travels to the pages found on it
  (response/follow.rs:23): a page that no limit applies to may give back a slot it
  never took, so `DownloadsWithinLimit` needs every page under the limit
  (`Limited = Urls`). The retry count travels too: a followed page has fewer
  retries.
- What is said above of checkpoints with two clients, of task ids, of followed
  pages in the HTTP cache, of profiles that come late to a session, and of files.

## Proofs

### Redis

`RedisSchedulerProofs` proves, for any finite set of ids and any workers,
payloads, timeouts, lags and bounds, whichever workers are in `SyncDefined` and
either value of `NullIsAbsent`, so for the scripts as shipped on a real server too:

- type correctness, agreement of the keys, disjoint buckets, ownership of
  leases, the total order of the ready queue, and that no task runs early;
- that nothing is lost but to the null (`OnlyNullIsEverLost`);
- that a running task is taken from its worker only under its lease, after its
  deadline, or by a release or purge (`OnlyHoldersOrExpiryEndLeases`), and that a
  claim takes the best of what is ready (`ClaimsAlwaysTakeTheBest`);
- that a claim has a deadline exactly if the script of its worker got past
  `sync_worker_runtime` (`ClaimsExpireExactlyIfSynced`: as shipped, none has one),
  that a worker for which it does not is never handed a lease
  (`AlwaysNothingHeldUnsynced`), and that what it claimed is out of reach of the
  clock (`StrandedTasksStayUntilReleased`);
- that every script is a step of `TaskPool`, or of none of its tasks, or loses one
  task to the null (`Implements`, of `ImplementsTaskPoolUnlessNull`).

All assume `~IdsCollide`, without which an enqueue replaces the payload of a
task that runs. The other assumption is `RedisAssumption` on the constants.

None of the invariants is inductive alone: a requeue keeps the buckets apart
only if an inflight task is in no queue, a claim keeps lease ids apart only if
all of them are at most `issued`, and a promotion is never early only if the
score of a delayed task is its ready_at. The inductive invariant `IInv` is the
conjunction of `DbInv`, grouped by keys (`QueueInv`, `LeaseInv`, `BucketInv`),
and `HeldInv`, which relates the leases of the processes to those of the server.
The proof has a lemma per procedure of the scripts (what it does to each key,
then what it preserves), one per action, and relates the leases before and after
a script (`NoNewLease`, `OneNewLease`).

The action properties and the refinement come from one fact per action,
`StepOK`: what is waiting, which leases are in force, and where in the queue an
id stands, before and after the scripts it runs (`GivenBack`, `Taken`). A loop
that fails gives back what came before the null (`FailedStep`). A claim runs
three scripts in a row. That the best task of the last comes first in the eyes
of the caller rests on `QueueGrows`: what was ready keeps its number, and what a
reclaim or a promotion adds has a number behind it.

Only model-checked for Redis: liveness.

### Engine

`EngineProofs` proves, for any set of pages and links, any chain of hooks, any
limits and any faults:

- type correctness, with the bound on retries (`TypeCorrect`);
- every lease is worked on while the engine runs (`LeasesAreWorkedOn`), and a
  stop without an error leaves nothing inflight (`StopsAreClean`);
- a task leaves for good only dropped, succeeded and stored, or as a stray that is
  delayed or retried (`TasksLeaveWhenDone`);
- the downloads of a bucket stay within the limit, if every page is under it
  (`LimitHolds`: `Limited = Urls`, see above for why);
- the engine implements the scheduler contract (`Implements`).

The assumptions are those on the constants (`HooksAssumption`,
`EngineAssumption`). The inductive invariant `IInv` adds to the properties what
they lean on: `Phases` (there is a run to resolve in two places of the loop
only, and it is no longer among `runs`), `Holders` (every lease was granted, and
for the page it is worked on for), `OutcomeHolds` and `StoredHolds` (what an
outcome says of the task and of its items), `Keyed` (a task fetches the page it
is named after) and `Known` (every task is known to dedup, and the tasks to come
are none the scheduler has: without it a follow-up could replace a task).
`LimitHolds` needs `SlotsTaken` on top: a download has its mark, and a bucket
counts at least its downloads.

Only model-checked: `StopEnds`, which is liveness, and what the violated run
is about.

### SQLite

`SqliteSchedulerProofs` proves, for any set of task ids, any processes with any
operations, and any lease timeout (`SqliteAssumption` is all it assumes):

- type correctness: a row has a worker and a lease exactly while it is inflight,
  and nobody works under a lease that was never granted (`TypeCorrect`);
- the refinement (`Implements`): every statement of every process, with the
  others anywhere in their calls, is at most one step of `TaskPool`, also when
  statements fail and processes die;
- `OnlyStaleReclaimsAreEarly`: before its time a lease ends only by its holder, by
  an operator, or by a reclaim that had read the row before the lease was granted
  or last renewed;
- `ReadsAreExact`: what a checkpoint or a snapshot says of a task nobody touched
  while it read is true of every moment of the read;
- `MetricsAreExact`: for a finite set of processes, the metrics and what the
  calls under way have yet to report add up to the leases in force.

The argument is about what stays true between two statements of one call. `IInv`
says what a call knows at each of its places (`FrameOK`: the sequence it read
was reserved, the lease it is about to read was granted to it), that a task
being added is not there yet and is added by one call only (`Arrivals`), and that
no two processes know of one lease (`OneHolder`). With `Arrivals` the INSERT of
an enqueue is a `Submit`; with `OneHolder` a completion takes the lease from
everyone who was handed it. The rest follows from the WHERE of each UPDATE: it
is checked in the statement that writes, so it does not matter that the row was
chosen by an earlier one. Statements that write no row are treated together
(`QuietStep`, `MoveStep`, `AnswerStep`), those that write one each have a lemma
that gives both the invariant and the step of the pool.

The reads lean on `ReadsOK` and `SeenOK`: a row that is at the place where a
reader saw it has not been anywhere else since, because every way back leads
through a claim, and a claim takes the task out of `seen`. So each SELECT puts an
untouched task into the answer exactly when it is in that bucket.

Early ends lean on `AgeInv`: a row that a reclaim has read and not yet written was
due at the time of its SELECT, or has a deadline a whole timeout after it, as
every claim and every heartbeat gives a lease the full timeout (`RowsAge`).

The metrics are a sum over processes, each of which reports its own share late.
`Pending` says what a process owes at each place of its calls: nothing outside
the loops, and at most its one task in a requeue. `Balance` says that a
statement changes the leases in force, what has been reported and what is
pending by amounts that cancel out, one lemma per statement. That sums exist,
and change by what one of their terms changes by (`SumExists`, `SumChanges`), is
an induction on the number of processes, with `UpTo` as for the memory
scheduler.

Only model-checked for SQLite: that orphans return, which is liveness.

### Download stage

`DownloadStageProofs` proves for any pages, any settings of the hooks that
`PaceAssumption` and `StageAssumption` allow, any ages and any changes of the site:

- `TypeCorrect`, which says that auto throttle stays within its limits;
- `RateIsKept`: no window has more downloads than the rate;
- `NoOldBodies`: a body from the cache is the current one;
- `BackoffIsKept`: no download begins before a delay set by a failure is over.

The operators come first, each with what it does to the waits: the hooks
(`AutoThrottleIs`, `IntervalHookIs`, `RateLimitIs`, `CrawlIs`) and the chain of them
(`BeforeFetchIs`: a request that passes is a hit, and the throttle had no time
left), the answers (`FinishRequestIs`: only later, never sooner), the cache
(`BeforeDownloadIs`, `AfterDownloadIs`). `IInv` has one part for each property.
For the rate, `Covers`: downloads are hits, so the k-th last hit is at least as
late as the k-th last download, and as the hits stay in order the window of the
hook has at least as many entries as there are downloads in it. For the
bodies, `Dated`: no date of an entry or of a request is newer than the page, an
entry has the body of its date, and no request has a later date than the entry
for its page. So when the site says that nothing has changed since the date of
the request, the entry must be of that very date, even if it was replaced
meanwhile. For the backoff, `Held`: the time left of the throttle is never less
than that of the longest delay. That every page is done is liveness, and
only model-checked.

### Robots

`RobotsPolicyProofs` proves, for any tasks, policies, lifetimes and delays
(`RobotsAssumption`), type correctness (which no run checks) and that a fresh
policy decides (`GoodPoliciesDecide`). It is not inductive alone: a check that
finds nothing in memory goes to the cache and then to the site, and others may
store a policy in between. `IInv` adds that what is in memory is what is stored,
or is stale (`MemoryFollowsCache`), and what a task knows at each place of its
search (`Found`: a task that fetches found no fresh policy when its check
began). That the policy of the site prevails is liveness, and only
model-checked.

### Browser sessions

`BrowserSessionsProofs` proves for one session, any number of requests, keys,
proxies and profiles, and any drop, refusal, expiry or failure:

- `BrowserIsAlone`: two browsers use the directory of the session at once only if
  their keys differ, or one of them was left by a drop, a failed close or a failed
  launch;
- `ProfileStays`: after a browser with a profile, one with another profile comes
  only if a late write has put that profile in the file, and one without any never.

Both hold of any habits; `BrowserAssumption` on the constants is all they assume.
The inductive invariant says that only the request with the lock is past its
wait (`Locked`), that no browser waits in the cache for a key while a request of
that key has one or launches it (`Apart`), where the profiles come from and that
one is saved before it is used (`Sources`), and that a saved profile no late write
has put there is the one in use (`Settled`). That a dead browser is replaced is
liveness, and only model-checked.

### Memory scheduler and checkpoints

The first part of `CheckpointSchedulerProofs` says what every operator of
`MemoryState` does to the three buckets: it keeps them `WellFormed` (no task
twice, ready sorted, what is delayed waits for a time), and it says which tasks
wait and which entries are inflight afterwards. The loops of the code (push the
tasks one by one, keep some entries) are recursive functions on `0 ..
Len(tasks)`. The induction theorems of the library take an operator and cannot
be used; `LeastNumber`, the least element of a set of numbers from the
well-foundedness of `<`, and `UpTo` take sets and do the same work: they give
that the recursive function exists, and what each of its values satisfies.

The second part then proves, for any finite set of clients that call
the scheduler at once, any tasks and payloads, and any bounds
(`CheckpointAssumption`):

- `TypeCorrect`, and `InOrder`: ready stays in the order of claims, and nothing
  passes a task of its own rank that was ready before it;
- `Contract`: each call is one step of `TaskPool`. This needs `Leases` of the
  inductive invariant: a lease is known to one client or to one call that has yet
  to return, or a completion would leave it handed to another.

That there is always a file to create (`FreeFile`) bounds the model, not the code:
each client writes one file at most.

With one client (`OneClient`, which the model-checked instance meets, and without
which the properties do not hold, see above) `SInv` adds what has been saved so
far: the temporary file is not the checkpoint, what the call holds is the state as
it is (`SaveUnderWay`), and the checkpoint has every accepted task (`SavedTasks`).
It gives `FileIsCurrent`, `FileIsReadable`, `NothingAcceptedIsLost` and
`NoTaskTwice`.

### File store

For any finite or infinite set of runs, any sizes of records and either limit on or
off (`FileAssumption`), with any failures and dropped runs:

- `FilesStayWithinLimits`: no file passes the limits of `should_rotate`;
- `WhatIsWrittenIsStored`: what was answered Ok is in the files, once and in the
  order of the answers, unless a rotation of an earlier crawl has emptied its file,
  and with a line to itself unless a failed or dropped append left a part before it.

The first needs that the counters are those of the file in use (`Counters`), and
that they stay within the limits together with the buffer of the run that has the
mutex (`Limits`); a late append of a dropped run is not counted, and a file
that is emptied late has less than the counters say. A rotation that
failed has moved the index alone, so the next one goes to a file after it: the
file in use is never after the index.

The second is about what the files have of a set of batches (`Stored`), for
every set of those that were answered and not emptied since (`Saved`): a file
that is emptied leaves of each such set what its other batches have. `Begun`
says that of the one that has the mutex they have what the loop has taken from
the batch, less the buffer, after everything else that matters. An append keeps
that because no file after the one in use has a record of those batches, and no
late append is of one of them (`Apart`): a run is dropped with its batch, and a
batch that waits for the mutex is in no file yet (`AllPast`). A rotation empties
the file after the index, which is why `Apart` speaks of all later files; one
that was dropped in this crawl is of a file the index has passed and no record
went to (`Aside`). `Parted` says that what is there in part is of no answered
batch.

The lemmas before it are the sums and joins of sequences: `Total` is a recursive
function, and `FlattenSeq` of the community modules is one inside; that either
exists and what each of its values is follows from `LeastNumber`, as for the memory
scheduler.

### Not proved

Liveness (`EveryPageIsDone` and the other temporal properties of the runs) is
only model-checked: neither fairness nor ENABLED is within reach of the prover.
What the three runs that expect a violation check is false, and has no theorem.

## Not modelled, and the plan

Left out of `RedisScheduler`: worker timestamps, the registry of namespaces, the
`reclaimed_total` counter, workers without a lease timeout, undecodable
payloads, and reads made of several commands. Left out of `SqliteScheduler`: the
rows of the workers, `reclaimed_total`, batch calls, workers without a lease
timeout, clones of a handle that share a pool (a statement of one may run inside
the transaction of another). Left out of `MemoryState`: the batch calls,
heartbeats and worker timestamps (no lease expires in memory), snapshots and
events; of `CheckpointScheduler`: the Redis store. Left out of `Engine`: pause and
purge, other workers on the same namespace except for the leases they take, a
restart of the engine, sitemap seeds and `Engine::enqueue`, hooks before an
enqueue other than dedup, the order in which a semaphore
serves its waiters, chains per step (a second Concurrency on one would share the
mark of the first), signals and statistics. What the other modules leave out is
said with each of them. The components without a module are listed in
`PROJECT.json` with the reason: most are data, parsing, or I/O, which a state
machine does not make clearer, and they are the greater part of the lines.

Next, in this order:

1. the crash of a process that writes the profile of a browser session;
2. the batch calls of the memory scheduler, which stop half way, against the
   defaults of the trait; the torn reads of Redis snapshots;
3. the Kafka store with its batches, cookies and proxies; a second Concurrency on
   a step chain;
4. the step graph of the rules, and validators, as operators against a reference
   definition.
