--------------------------- MODULE DownloadStage ---------------------------
(***************************************************************************)
(* The download stage of the tasks of one site (src/engine/task.rs): the   *)
(* hooks of http_cache, auto throttle, interval and rate limit, the crawl  *)
(* delay of robots, the fetch, and the hooks after it. A hook may delay    *)
(* the task: it keeps the request as the hooks before have left it, and    *)
(* comes back when its time has come. Each page is one task at a time, as  *)
(* dedup sees to it.                                                       *)
(***************************************************************************)
EXTENDS HttpCache, PaceHooks, FiniteSetsExt

CONSTANTS
    Pages,          \* the pages of the site, all of them start requests
    RetryCount,     \* retries of retry_by_status and retry_by_error
    Timeout,        \* of a request
    MaxDate,        \* bound on the changes of the site
    MaxCrawls       \* bound on how often a page is crawled

ASSUME StageAssumption ==
    /\ RetryCount \in Nat /\ Timeout \in Nat
    /\ MaxDate \in Nat \ {0} /\ MaxCrawls \in Nat \ {0}

VARIABLES
    task,           \* task[p]: where the task of a page is
    pace,           \* the waits of the hooks
    cache,          \* the entries of http_cache
    date,           \* date[p]: when the site last changed a page
    given,          \* given[p]: what the spider got last
    quiet,          \* the time left of the longest delay after a failure
    recent          \* ages of the downloads of the last minute, oldest first

observed == <<given, quiet, recent>>
vars == <<task, pace, cache, date, observed>>

(***************************************************************************)
(* A task is due after some time, or it is fetched since some time, or the *)
(* page is done. since is the If-Modified-Since of its request, retries    *)
(* its _retry_times.                                                       *)
(***************************************************************************)
NewTask(crawls) ==
    [at |-> "due", time |-> 0, since |-> 0, retries |-> 0, crawls |-> crawls]

MaxWait == Max({Minute, MaxInterval, Interval, CrawlDelay, 1})

Init ==
    /\ task = [p \in Pages |-> NewTask(1)]
    /\ pace = NewPace
    /\ cache \in {[p \in known |-> NewEntry(1)] : known \in SUBSET Pages}
    /\ date = [p \in Pages |-> 1]
    /\ given = [p \in Pages |-> "nothing"]
    /\ quiet = 0
    /\ recent = <<>>

At(p, at) == task[p].at = at

\* The hooks before the download, up to the fetch.
Attempt(p) ==
    LET cached == BeforeDownload(cache, p, task[p].since)
        answer == BeforeFetch(pace)
    IN  /\ At(p, "due")
        /\ task[p].time = 0
        /\ cache' = cached.cache
        /\ pace' = answer.pace
        /\ task' = [task EXCEPT ![p].since = cached.value,
                                ![p].at = IF answer.wait = 0 THEN "fetched" ELSE "due",
                                ![p].time = answer.wait]
        /\ recent' = IF answer.wait = 0 THEN Append(recent, 0) ELSE recent
        /\ UNCHANGED <<date, given, quiet>>

\* A task made from the request: the same page again, counted.
Retried(t) == [t EXCEPT !.at = "due", !.time = 0, !.retries = @ + 1]

Finished(p) == [task EXCEPT ![p].at = "done", ![p].time = 0]

\* What the spider got: a body of the date the page has, an older one, or none.
Verdict(p, body) ==
    IF body = date[p] THEN "page" ELSE IF body = 0 THEN "bare" ELSE "outdated"

\* The answer is the page, or that it has not changed.
Receive(p) ==
    LET left == AfterDownload(cache, p, date[p], task[p].since) IN
    /\ At(p, "fetched")
    /\ cache' = left.cache
    /\ pace' = FinishRequest(pace, FALSE, task[p].time)
    /\ task' = Finished(p)
    /\ given' = [given EXCEPT ![p] = Verdict(p, left.value)]
    /\ UNCHANGED <<date, quiet, recent>>

\* 429, which the spider is given as it is by default.
ReceiveBusy(p) ==
    /\ At(p, "fetched")
    /\ pace' = FinishRequest(pace, TRUE, task[p].time)
    /\ quiet' = Max({quiet, pace'.throttle.delay})
    /\ task' = Finished(p)
    /\ UNCHANGED <<cache, date, given, recent>>

\* 500 and the like, or a failed download: retried, then left to the spider.
Fail(p) ==
    /\ At(p, "fetched")
    /\ pace' = FinishRequest(pace, TRUE, task[p].time)
    /\ quiet' = Max({quiet, pace'.throttle.delay})
    /\ task' = IF task[p].retries < RetryCount THEN [task EXCEPT ![p] = Retried(@)]
               ELSE Finished(p)
    /\ UNCHANGED <<cache, date, given, recent>>

-----------------------------------------------------------------------------
\* The site changes a page.
Change(p) ==
    LET next == Max({date[q] : q \in Pages}) + 1 IN
    /\ next <= MaxDate
    /\ date' = [date EXCEPT ![p] = next]
    /\ UNCHANGED <<task, pace, cache, observed>>

\* A later crawl finds the cache of this one.
CrawlAgain(p) ==
    /\ At(p, "done")
    /\ task[p].crawls < MaxCrawls
    /\ task' = [task EXCEPT ![p] = NewTask(@.crawls + 1)]
    /\ UNCHANGED <<pace, cache, date, observed>>

\* A task that waits gets closer to its time, and a fetch to its timeout.
Waited(t) ==
    [t EXCEPT !.time = CASE t.at = "due" -> Less(@)
                         [] t.at = "fetched" -> @ + 1
                         [] OTHER -> @]

Tick ==
    /\ \A p \in Pages : At(p, "fetched") => task[p].time < Timeout
    /\ task' = [p \in Pages |-> Waited(task[p])]
    /\ pace' = Later(pace)
    /\ cache' = Aged(cache)
    /\ quiet' = Less(quiet)
    /\ recent' = InWindow([k \in DOMAIN recent |-> recent[k] + 1])
    /\ UNCHANGED <<date, given>>

Handle(p) == Receive(p) \/ ReceiveBusy(p) \/ Fail(p)

Next ==
    \/ \E p \in Pages : Attempt(p) \/ Handle(p) \/ Change(p) \/ CrawlAgain(p)
    \/ Tick

Spec == Init /\ [][Next]_vars

\* The engine claims a task that is due, in the order of the queue; a download ends, by
\* its timeout at the latest; time passes.
Fairness ==
    /\ \A p \in Pages : WF_vars(Attempt(p)) /\ WF_vars(Handle(p))
    /\ WF_vars(Tick)

FairSpec == Spec /\ Fairness

-----------------------------------------------------------------------------
IsTask(t) ==
    /\ t.at \in {"due", "fetched", "done"}
    /\ t.time \in 0 .. Max({MaxWait, Timeout})
    /\ t.since \in 0 .. MaxDate
    /\ t.retries \in 0 .. RetryCount
    /\ t.crawls \in 1 .. MaxCrawls

\* The variables have the types of what they stand for; auto throttle stays within its
\* limits, and no wait is longer than the longest of the hooks.
TypeOK ==
    /\ \A p \in Pages : IsTask(task[p])
    /\ pace.throttle.delay \in MinInterval .. MaxInterval
    /\ pace.throttle.left \in 0 .. MaxWait
    /\ pace.interval \in 0 .. Interval
    /\ Len(pace.hits) <= Rate
    /\ pace.crawl \in 0 .. CrawlDelay
    /\ DOMAIN cache \subseteq Pages
    /\ date \in [Pages -> 1 .. MaxDate]
    /\ quiet \in 0 .. MaxInterval

\* In any minute, its two ends included, there are at most Rate downloads, though requests
\* come back again and again, in any order, and are refused by a hook after rate limit.
RateHolds == Len(recent) <= Rate

\* After a failure no download begins before the delay it has set is over, whatever the
\* answers to requests sent before it set.
BackoffHolds == [][\A p \in Pages : task'[p].at = "fetched" /\ ~At(p, "fetched") => quiet = 0]_vars

\* A body from the cache is the one the site has: an entry is never good for longer, or
\* for another date, than the body it holds.
BodiesAreCurrent == \A p \in Pages : given[p] # "outdated"

\* A page that is asked for is done in the end: the waits of the hooks, each armed while
\* another refuses, do not starve a task between them.
EveryPageIsDone == \A p \in Pages : At(p, "due") ~> At(p, "done")

=============================================================================
