------------------------------- MODULE Engine -------------------------------
(***************************************************************************)
(* One run of the engine: Engine::run (src/engine.rs) and the life of a    *)
(* claimed task (src/engine/task.rs). The engine is one future. It claims  *)
(* tasks, then waits for one of its runs to end, then resolves the task of *)
(* that run at the scheduler. The runs are futures it polls while it waits *)
(* and only then: while it claims or resolves, no run makes a step and no  *)
(* heartbeat is sent. The scheduler may take a lease back at any time.     *)
(*                                                                         *)
(* Requests are deduplicated by page, as by default, so a page names the   *)
(* task that fetches it; a retry keeps the id of its task.                 *)
(***************************************************************************)
EXTENDS DownloadHooks, Maps, FiniteSets

CONSTANTS
    Seeds,          \* pages the spider starts from
    Links,          \* Links[u]: pages the callback follows from page u
    DomainOf,       \* domain of a page
    Allowed,        \* pages in the spider's allowed_domains: all, if it names none
    Unfiltered,     \* pages whose requests skip the domain filter
    MaxConcurrent,  \* config.engine.requests
    PerDomain,      \* config.engine.requests_per_domain
    Robots,         \* answers of the robots check
    Timed,          \* pages whose request has a timeout
    LeasesExpire,   \* the scheduler takes leases back
    Faults,         \* errors of the scheduler that end the run
    MaxLease        \* bound on the number of claims

ASSUME EngineAssumption ==
    /\ Seeds \subseteq Urls
    /\ Links \in [Urls -> SUBSET Urls]
    /\ DomainOf \in [Urls -> {DomainOf[u] : u \in Urls}]
    /\ Allowed \subseteq Urls
    /\ Unfiltered \subseteq Urls
    /\ MaxConcurrent \in Nat \ {0}
    /\ PerDomain \in Nat \ {0}
    /\ Robots \subseteq {"allow", "disallow", "delay", "error"}
    /\ Timed \subseteq Urls
    /\ LeasesExpire \in BOOLEAN
    /\ Faults \in BOOLEAN
    /\ MaxLease \in Nat

VARIABLES
    queue,      \* scheduler: waiting tasks, [req, delayed]
    leases,     \* scheduler: inflight tasks, [lease, req]
    granted,    \* scheduler: number of leases granted
    stored,     \* pages whose items a store has
    seen,       \* dedup: pages that passed before_enqueue
    slots,      \* Concurrency: slots taken per bucket
    pc,         \* where the engine is
    draining,   \* the loop has seen the stop flag
    stop,       \* the stop flag
    runs,       \* the running futures by lease, [req, at, fetched]
    ended       \* the TaskRun being applied

schedulerVars == <<queue, leases, granted>>
effectVars == <<stored, seen>>
loopVars == <<pc, draining, stop>>
vars == <<schedulerVars, effectVars, slots, loopVars, runs, ended>>

Run == [req : Request, at : {"waiting", "robots", "fetching", "parsing", "output", "stored"},
        fetched : Request]

Outcomes == {"success", "delay", "retry", "drop", "error", "lost"}

NoRun == [lease |-> 0]

Leases == 1 .. MaxLease

Init ==
    /\ queue = Empty
    /\ leases = Empty
    /\ granted = 0
    /\ stored = {}
    /\ seen = {}
    /\ slots = [b \in Buckets |-> 0]
    /\ pc = "seeding"
    /\ draining = FALSE
    /\ stop = FALSE
    /\ runs = Empty
    /\ ended = NoRun

-----------------------------------------------------------------------------
Pool == DOMAIN queue \cup DOMAIN leases

Immediate(req) == [req |-> req, delayed |-> FALSE]

\* Mutant of InForce: any lease will do.
AnyLease(u, l) == u \in DOMAIN leases

\* The lease is the one in force for its task.
InForce(u, l) == u \in DOMAIN leases /\ leases[u].lease = l

Active(d) == {l \in DOMAIN runs : DomainOf[runs[l].req.url] = d /\ runs[l].at # "waiting"}

-----------------------------------------------------------------------------
\* enqueue_start_requests, one seed at a time: dedup, then the scheduler. The
\* domain of a seed is not looked at.
Seed(u) ==
    /\ pc = "seeding"
    /\ u \in Seeds \ seen
    /\ seen' = seen \cup {u}
    /\ queue' = Put(queue, Field(u, Immediate(NewRequest(u))))
    /\ UNCHANGED <<leases, granted, stored, slots, loopVars, runs, ended>>

Seeded ==
    /\ pc = "seeding"
    /\ Seeds \subseteq seen
    /\ pc' = "top"
    /\ UNCHANGED <<schedulerVars, effectVars, slots, draining, stop, runs, ended>>

\* The top of the loop looks at the stop flag: go on claiming, or only wait for
\* the runs there are.
Loop ==
    /\ pc = "top"
    /\ ~stop
    /\ pc' = "claiming"
    /\ UNCHANGED <<schedulerVars, effectVars, slots, draining, stop, runs, ended>>

Rest(more) == IF more THEN "polling" ELSE "closed"

\* Mutant of BeginDrain: the loop breaks without waiting for its runs.
BreakAtOnce ==
    /\ pc = "top"
    /\ stop
    /\ draining' = TRUE
    /\ pc' = "closed"
    /\ UNCHANGED <<schedulerVars, effectVars, slots, stop, runs, ended>>

BeginDrain ==
    /\ pc = "top"
    /\ stop
    /\ draining' = TRUE
    /\ pc' = Rest(DOMAIN runs # {})
    /\ UNCHANGED <<schedulerVars, effectVars, slots, stop, runs, ended>>

\* take_batch_ready: as many tasks as there are permits, one after the other.
\* A delayed task may have become ready. Each claim starts a future.
Claim(u) ==
    /\ pc = "claiming"
    /\ u \in DOMAIN queue
    /\ Cardinality(DOMAIN runs) < MaxConcurrent
    /\ granted < MaxLease
    /\ granted' = granted + 1
    /\ leases' = Put(leases, Field(u, [lease |-> granted', req |-> queue[u].req]))
    /\ queue' = Del(queue, {u})
    /\ runs' = Put(runs, Field(granted', [req |-> queue[u].req, at |-> "waiting",
                                         fetched |-> NewRequest(u)]))
    /\ UNCHANGED <<stored, seen, slots, loopVars, ended>>

\* No permit is left, or the scheduler has no ready task. With nothing to wait
\* for, the engine sleeps for its idle timeout and looks again.
EndClaim ==
    /\ pc = "claiming"
    /\ \/ Cardinality(DOMAIN runs) = MaxConcurrent
       \/ \A u \in DOMAIN queue : queue[u].delayed
       \/ granted = MaxLease
    /\ pc' = IF DOMAIN runs = {} THEN "top" ELSE "polling"
    /\ UNCHANGED <<schedulerVars, effectVars, slots, draining, stop, runs, ended>>

\* An error of take_batch_ready ends Engine::run: the futures are dropped with
\* the leases they work under, those of the failed batch among them.
ClaimFails ==
    /\ Faults
    /\ pc = "claiming"
    /\ pc' = "failed"
    /\ runs' = Empty
    /\ UNCHANGED <<schedulerVars, effectVars, slots, draining, stop, ended>>

-----------------------------------------------------------------------------
\* The steps of a run, while the engine polls. A run that ends wakes the engine.

Advance(l, run) ==
    /\ runs' = [runs EXCEPT ![l] = run]
    /\ UNCHANGED <<pc, ended>>

End(l, outcome, req) ==
    /\ runs' = Del(runs, {l})
    /\ ended' = [lease |-> l, outcome |-> outcome, req |-> req, fetched |-> runs[l].fetched,
                 kept |-> runs[l].at = "stored", tasks |-> Empty]
    /\ pc' = "applying"

\* A hook stopped the chain: map_download_to_task_outcome.
Stopped(l, answer) == End(l, answer.flow, answer.req)

\* The permit of the domain is free: the hooks before the download run at once.
Start(l) ==
    /\ pc = "polling"
    /\ l \in DOMAIN runs
    /\ runs[l].at = "waiting"
    /\ Cardinality(Active(DomainOf[runs[l].req.url])) < PerDomain
    /\ \E answer \in BeforeDownload(runs[l].req, slots) :
          /\ slots' = answer.slots
          /\ IF answer.flow = "continue"
             THEN Advance(l, [runs[l] EXCEPT !.req = answer.req, !.at = "robots"])
             ELSE Stopped(l, answer)
    /\ UNCHANGED <<schedulerVars, effectVars, draining, stop>>

CheckRobots(l) ==
    /\ pc = "polling"
    /\ l \in DOMAIN runs
    /\ runs[l].at = "robots"
    /\ \/ "allow" \in Robots /\ Advance(l, [runs[l] EXCEPT !.at = "fetching"])
       \/ "disallow" \in Robots /\ End(l, "drop", runs[l].req)
       \/ "delay" \in Robots /\ End(l, "delay", runs[l].req)
       \/ "error" \in Robots /\ End(l, "error", runs[l].req)
    /\ UNCHANGED <<schedulerVars, effectVars, slots, draining, stop>>

\* The response keeps the metadata of the request as it was sent; the hooks
\* after the download change the request only.
Respond(l) ==
    /\ pc = "polling"
    /\ l \in DOMAIN runs
    /\ runs[l].at = "fetching"
    /\ \E answer \in AfterDownload(runs[l].req, slots) :
          /\ slots' = answer.slots
          /\ IF answer.flow = "continue"
             THEN Advance(l, [req |-> answer.req, at |-> "parsing", fetched |-> runs[l].req])
             ELSE Stopped(l, answer)
    /\ UNCHANGED <<schedulerVars, effectVars, draining, stop>>

\* The errback answers with items and requests of its own, or fails.
FetchFails(l) ==
    /\ pc = "polling"
    /\ l \in DOMAIN runs
    /\ runs[l].at = "fetching"
    /\ \E answer \in AfterDownload(runs[l].req, slots) :
          /\ slots' = answer.slots
          /\ IF answer.flow = "continue"
             THEN \/ Advance(l, [runs[l] EXCEPT !.req = answer.req, !.at = "output"])
                  \/ End(l, "error", answer.req)
             ELSE Stopped(l, answer)
    /\ UNCHANGED <<schedulerVars, effectVars, draining, stop>>

\* Hooks around the spider callback, the callback, and its errback.
Parse(l) ==
    /\ pc = "polling"
    /\ l \in DOMAIN runs
    /\ runs[l].at = "parsing"
    /\ \/ Advance(l, [runs[l] EXCEPT !.at = "output"])
       \/ \E outcome \in {"drop", "error"} : End(l, outcome, runs[l].req)
    /\ UNCHANGED <<schedulerVars, effectVars, slots, draining, stop>>

\* process_spider_output: the items that pass the pipeline go to every store.
Store(l) ==
    /\ pc = "polling"
    /\ l \in DOMAIN runs
    /\ runs[l].at = "output"
    /\ stored' = stored \cup {runs[l].req.url}
    /\ Advance(l, [runs[l] EXCEPT !.at = "stored"])
    /\ UNCHANGED <<schedulerVars, seen, slots, draining, stop>>

\* All stores answered, or no item was kept.
Succeed(l) ==
    /\ pc = "polling"
    /\ l \in DOMAIN runs
    /\ runs[l].at \in {"output", "stored"}
    /\ End(l, "success", runs[l].req)
    /\ UNCHANGED <<schedulerVars, effectVars, slots, draining, stop>>

\* A pipeline or a store fails; another store may have the items already.
OutputFails(l) ==
    /\ pc = "polling"
    /\ l \in DOMAIN runs
    /\ runs[l].at \in {"output", "stored"}
    /\ End(l, "error", runs[l].req)
    /\ UNCHANGED <<schedulerVars, effectVars, slots, draining, stop>>

\* Mutant of HeartbeatFails: every error counts as a lost lease.
HeartbeatGivesUp(l) ==
    /\ pc = "polling"
    /\ l \in DOMAIN runs
    /\ ~InForce(runs[l].req.url, l) \/ Faults
    /\ End(l, "lost", runs[l].req)
    /\ UNCHANGED <<schedulerVars, effectVars, slots, draining, stop>>

\* A heartbeat that fails drops the future of the task wherever it is.
HeartbeatFails(l) ==
    /\ pc = "polling"
    /\ l \in DOMAIN runs
    /\ \/ ~InForce(runs[l].req.url, l) /\ End(l, "lost", runs[l].req)
       \/ Faults /\ End(l, "error", runs[l].req)
    /\ UNCHANGED <<schedulerVars, effectVars, slots, draining, stop>>

-----------------------------------------------------------------------------
\* apply_task_run

\* The links of a page that are followed: those in the allowed domains.
Follows(u) == Links[u] \cap Allowed

\* A start page the domain filter never let in: it refuses the page when it
\* comes back.
Stray(u) == u \notin Allowed \cup Unfiltered

Again(u, task) == IF Stray(u) THEN Empty ELSE Field(u, task)

\* Mutant of Successors: a delayed task is looked up in dedup, which has seen it.
SuccessorsDedupDelayed(run) ==
    LET u == run.req.url IN
    CASE run.outcome = "success" ->
           {[v \in Follows(u) \ seen |-> Immediate(FollowRequest(v, run.fetched))]}
      [] run.outcome = "retry" ->
           {Again(u, [req |-> [run.req EXCEPT !.retries = @ + 1], delayed |-> d]) : d \in BOOLEAN}
      [] OTHER -> {Empty}

\* The tasks that take the place of the one that ended. A delayed or retried
\* task skips dedup, but not the domain filter; of the links followed, dedup
\* admits the pages not seen yet.
Successors(run) ==
    LET u == run.req.url IN
    CASE run.outcome = "success" ->
           {[v \in Follows(u) \ seen |-> Immediate(FollowRequest(v, run.fetched))]}
      [] run.outcome = "delay" ->
           {Again(u, [req |-> run.req, delayed |-> TRUE])}
      [] run.outcome = "retry" ->
           {Again(u, [req |-> [run.req EXCEPT !.retries = @ + 1], delayed |-> d]) : d \in BOOLEAN}
      [] OTHER -> {Empty}

\* Their way through before_enqueue and the domain filter, before the scheduler
\* is asked.
Prepare ==
    /\ pc = "applying"
    /\ ended.outcome # "lost"
    /\ seen' = IF ended.outcome = "success" THEN seen \cup Follows(ended.req.url) ELSE seen
    /\ \E tasks \in Successors(ended) : ended' = [ended EXCEPT !.tasks = tasks]
    /\ pc' = "resolving"
    /\ UNCHANGED <<schedulerVars, stored, slots, draining, stop, runs>>

\* Mutant of Onward: a drain waits for one run more than there is.
OnwardPolls == IF draining THEN "polling" ELSE "top"

Onward == IF draining THEN Rest(DOMAIN runs # {}) ELSE "top"

\* Mutant of Commit: a task that failed is completed.
CommitCompletesFailed ==
    LET u == ended.req.url IN
    /\ InForce(u, ended.lease)
    /\ leases' = Del(leases, {u})
    /\ queue' = Put(queue, ended.tasks)
    /\ UNCHANGED granted

\* requeue puts the task back as it was claimed; complete and
\* complete_and_enqueue put its successors in its place.
Commit ==
    LET u == ended.req.url IN
    /\ InForce(u, ended.lease)
    /\ leases' = Del(leases, {u})
    /\ queue' = Put(queue, IF ended.outcome = "error" THEN Field(u, Immediate(leases[u].req))
                           ELSE ended.tasks)
    /\ UNCHANGED granted

\* The scheduler refuses a lease that is not in force: the run is given up, and
\* its successors with it.
Refuse ==
    /\ ~InForce(ended.req.url, ended.lease)
    /\ UNCHANGED schedulerVars

Resolve ==
    /\ pc = "resolving"
    /\ Commit \/ Refuse
    /\ pc' = Onward
    /\ ended' = NoRun
    /\ UNCHANGED <<effectVars, slots, draining, stop, runs>>

\* The heartbeat has lost the lease: there is nothing to resolve.
GiveUp ==
    /\ pc = "applying"
    /\ ended.outcome = "lost"
    /\ pc' = Onward
    /\ ended' = NoRun
    /\ UNCHANGED <<schedulerVars, effectVars, slots, draining, stop, runs>>

\* Any other error of the scheduler, or of a hook around it, ends Engine::run;
\* the scheduler may have committed.
ResolveFails ==
    /\ Faults
    /\ pc = "resolving"
    /\ Commit \/ UNCHANGED schedulerVars
    /\ pc' = "failed"
    /\ runs' = Empty
    /\ ended' = NoRun
    /\ UNCHANGED <<effectVars, slots, draining, stop>>

-----------------------------------------------------------------------------
\* Engine::stop, from any thread.
Stop ==
    /\ ~stop
    /\ stop' = TRUE
    /\ UNCHANGED <<schedulerVars, effectVars, slots, pc, draining, runs, ended>>

\* The scheduler takes a lease back: reclaim, release_scope.
Expire(u) ==
    /\ LeasesExpire
    /\ u \in DOMAIN leases
    /\ leases' = Del(leases, {u})
    /\ queue' = Put(queue, Field(u, Immediate(leases[u].req)))
    /\ UNCHANGED <<granted, effectVars, slots, loopVars, runs, ended>>

Over == pc \in {"closed", "failed"} /\ UNCHANGED vars

RunStep(l) ==
    \/ Start(l) \/ CheckRobots(l) \/ Respond(l) \/ FetchFails(l) \/ Parse(l)
    \/ Store(l) \/ Succeed(l) \/ OutputFails(l) \/ HeartbeatFails(l)

EngineStep ==
    \/ \E u \in Urls : Seed(u) \/ Claim(u)
    \/ Seeded \/ Loop \/ BeginDrain \/ EndClaim \/ ClaimFails
    \/ Prepare \/ Resolve \/ GiveUp \/ ResolveFails

Next ==
    \/ EngineStep
    \/ \E l \in Leases : RunStep(l)
    \/ Stop
    \/ \E u \in Urls : Expire(u)
    \/ Over

Spec == Init /\ [][Next]_vars

(***************************************************************************)
(* The engine's loop always goes on, and so does every run: robots and     *)
(* stores answer, callbacks return, and a download ends if its request has *)
(* a timeout (a request has none by default).                              *)
(***************************************************************************)
Progress(l) ==
    \/ Start(l) \/ CheckRobots(l) \/ Parse(l) \/ Store(l) \/ Succeed(l)
    \/ l \in DOMAIN runs /\ runs[l].req.url \in Timed /\ (Respond(l) \/ FetchFails(l))

Fairness == WF_vars(EngineStep) /\ \A l \in Leases : WF_vars(Progress(l))

FairSpec == Spec /\ Fairness

-----------------------------------------------------------------------------
Tasks == [req : Request, delayed : BOOLEAN]

IsMap(f, K, V) == DOMAIN f \subseteq K /\ f \in [DOMAIN f -> V]

IsTaskRun(e) ==
    /\ e = [lease |-> e.lease, outcome |-> e.outcome, req |-> e.req,
            fetched |-> e.fetched, kept |-> e.kept, tasks |-> e.tasks]
    /\ e.lease \in Leases /\ e.outcome \in Outcomes
    /\ e.req \in Request /\ e.fetched \in Request
    /\ e.kept \in BOOLEAN
    /\ IsMap(e.tasks, Urls, Tasks)

\* The variables have the types of the fields and locals they stand for.
TypeOK ==
    /\ IsMap(queue, Urls, Tasks)
    /\ IsMap(leases, Urls, [lease : Leases, req : Request])
    /\ granted \in 0 .. MaxLease
    /\ stored \subseteq Urls /\ seen \subseteq Urls
    /\ slots \in [Buckets -> 0 .. Limit]
    /\ pc \in {"seeding", "top", "claiming", "polling", "applying", "resolving",
               "closed", "failed"}
    /\ draining \in BOOLEAN /\ stop \in BOOLEAN
    /\ IsMap(runs, Leases, Run)
    /\ ended = NoRun \/ IsTaskRun(ended)

Downloading(b) ==
    {l \in DOMAIN runs : /\ runs[l].at \in {"robots", "fetching"}
                         /\ runs[l].req.url \in Limited
                         /\ BucketOf[runs[l].req.url] = b}

\* The concurrency middleware keeps the downloads of a bucket within its limit,
\* whatever becomes of the slots taken.
DownloadsWithinLimit == \A b \in Buckets : Cardinality(Downloading(b)) <= Limit

\* A bucket turns requests away only while it has as many downloads as its limit
\* allows: every slot that is taken belongs to a download.
FullMeansBusy ==
    \A b \in Buckets : slots[b] >= Limit => Cardinality(Downloading(b)) >= Limit

\* While the engine runs, every lease the scheduler has granted it belongs to a
\* run, or to the one being resolved: no path of a task loses its lease.
EveryLeaseIsWorkedOn ==
    pc # "failed" =>
        \A u \in DOMAIN leases : leases[u].lease \in DOMAIN runs \cup {ended.lease}

\* A stop that ends without an error leaves no task inflight behind it, so
\* that no other worker has to wait for a lease timeout.
CleanStop == pc = "closed" => DOMAIN leases = {}

\* A task leaves the scheduler for good only if a hook or robots dropped it, if
\* it succeeded and the items it kept are in a store, or if it was to be delayed
\* or retried and is a stray: a start page outside the allowed domains, which the
\* filter skipped when it was enqueued and refuses the second time, is given up
\* without a word, as if it had been done.
TaskLeavesWhenDone ==
    [][\A u \in Pool \ Pool' :
          /\ ended.lease # 0 /\ ended.req.url = u
          /\ \/ ended.outcome = "drop"
             \/ ended.outcome = "success" /\ (ended.kept => u \in stored)
             \/ ended.outcome \in {"delay", "retry"} /\ Stray(u)]_vars

\* What the contract calls running and handed.
Running == [u \in DOMAIN leases |-> leases[u].lease]

Handed ==
    {<<runs[l].req.url, l>> : l \in DOMAIN runs} \cup
    (IF ended = NoRun THEN {} ELSE {<<ended.req.url, ended.lease>>})

\* The engine keeps to the contract of the scheduler: it resolves a task only
\* under the lease in force, and puts no task twice.
TaskPool ==
    INSTANCE TaskPool
        WITH Ids <- Urls, waiting <- DOMAIN queue, running <- Running, handed <- Handed

ImplementsTaskPool == TaskPool!Spec

\* Once stop is called, the engine ends: it claims no more and waits for its runs.
StopEnds == stop ~> pc \in {"closed", "failed"}

=============================================================================
