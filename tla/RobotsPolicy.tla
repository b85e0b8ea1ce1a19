---------------------------- MODULE RobotsPolicy ----------------------------
(***************************************************************************)
(* How robots::Memory (src/robots.rs) finds the policy of one origin when  *)
(* several tasks ask at once. A policy is looked for in memory, then in    *)
(* the cache, then on the site. A task is suspended only in the calls of   *)
(* the cache and in the fetch; those of the cache take no time, but other  *)
(* tasks may run in between.                                               *)
(***************************************************************************)
EXTENDS Integers

CONSTANTS
    Tasks,          \* the tasks that check one origin, again and again
    Policies,       \* what a robots.txt of the site may say
    CacheTtl,       \* cache_ttl
    RetryDelay,     \* unavailable_retry_delay; 0 turns it off
    Fallback,       \* the policy of unavailable_policy
    MaxChanges,     \* bound on the changes of the site
    MaxFailures     \* bound on the fetches that fail

ASSUME RobotsAssumption ==
    /\ CacheTtl \in Nat \ {0}
    /\ RetryDelay \in Nat
    /\ MaxChanges \in Nat /\ MaxFailures \in Nat

None == "none"

VARIABLES
    hot,            \* policies: the policy in memory
    cache,          \* the entry of the cache
    retry,          \* time left to unavailable_retry_at, 0 if there is none
    task,           \* where each task is in policy_for, and what it has found
    site,           \* what robots.txt says
    changes, failures

vars == <<hot, cache, retry, task, site, changes, failures>>

\* A policy and the time since fetched_at, at most CacheTtl.
Entry(policy, age) == [policy |-> policy, age |-> age]

NoEntry == Entry(None, CacheTtl)

Fresh(entry) == entry.age < CacheTtl

\* What a task has found: the stale entry it has loaded, or the policy it has fetched.
\* cached says if the cache had a fresh entry when its check began.
Task(at, found, cached) == [at |-> at, found |-> found, cached |-> cached]

Init ==
    /\ site \in Policies
    /\ \E policy \in Policies, age \in 0 .. CacheTtl : cache \in {NoEntry, Entry(policy, age)}
    /\ hot = NoEntry
    /\ retry = 0
    /\ task = [t \in Tasks |-> Task("due", None, FALSE)]
    /\ changes = 0
    /\ failures = 0

At(t, at) == task[t].at = at

Decide(t, policy) == task' = [task EXCEPT ![t] = Task("decided", policy, @.cached)]

\* fresh_hot_policy
Check(t) ==
    /\ At(t, "due")
    /\ task' = [task EXCEPT ![t] = IF Fresh(hot) THEN Task("decided", hot.policy, Fresh(cache))
                                  ELSE Task("load", None, Fresh(cache))]
    /\ UNCHANGED <<hot, cache, retry, site, changes, failures>>

\* Mutant of PendingFor: nothing ends the delay.
PendingSince(time) == failures > 0

\* is_unavailable_retry_pending
PendingFor(time) == time > 0

\* The cache answers: a fresh entry, one to use while a failure is recent, or none.
Load(t) ==
    /\ At(t, "load")
    /\ \/ /\ Fresh(cache)
          /\ hot' = cache
          /\ Decide(t, cache.policy)
       \/ /\ ~Fresh(cache)
          /\ PendingFor(retry)
          /\ hot' = IF cache = NoEntry THEN hot ELSE cache
          /\ Decide(t, IF cache = NoEntry THEN Fallback ELSE cache.policy)
       \/ /\ ~Fresh(cache)
          /\ ~PendingFor(retry)
          /\ task' = [task EXCEPT ![t] = Task("fetch", cache.policy, FALSE)]
          /\ UNCHANGED hot
    /\ UNCHANGED <<cache, retry, site, changes, failures>>

\* robots.txt is there, or the status says as much as one.
Fetch(t) ==
    /\ At(t, "fetch")
    /\ retry' = 0
    /\ task' = [task EXCEPT ![t] = Task("save", site, FALSE)]
    /\ UNCHANGED <<hot, cache, site, changes, failures>>

Save(t) ==
    /\ At(t, "save")
    /\ cache' = Entry(task[t].found, 0)
    /\ hot' = cache'
    /\ Decide(t, task[t].found)
    /\ UNCHANGED <<retry, site, changes, failures>>

\* Mutant of Unavailable: the policy that was loaded is taken for a new one.
UnavailableRenews(t) ==
    LET old == task[t].found IN
    /\ At(t, "fetch")
    /\ failures < MaxFailures
    /\ failures' = failures + 1
    /\ retry' = RetryDelay
    /\ hot' = IF old = None THEN hot ELSE Entry(old, 0)
    /\ Decide(t, IF old = None THEN Fallback ELSE old)
    /\ UNCHANGED <<cache, site, changes>>

\* The stale entry that was loaded is remembered as it is, though another task may have
\* fetched a newer one meanwhile.
Unavailable(t) ==
    LET old == task[t].found IN
    /\ At(t, "fetch")
    /\ failures < MaxFailures
    /\ failures' = failures + 1
    /\ retry' = RetryDelay
    /\ hot' = IF old = None THEN hot ELSE Entry(old, CacheTtl)
    /\ Decide(t, IF old = None THEN Fallback ELSE old)
    /\ UNCHANGED <<cache, site, changes>>

-----------------------------------------------------------------------------
Change ==
    /\ changes < MaxChanges
    /\ changes' = changes + 1
    /\ site' \in Policies \ {site}
    /\ UNCHANGED <<hot, cache, retry, task, failures>>

Older(entry) == [entry EXCEPT !.age = IF Fresh(entry) THEN @ + 1 ELSE @]

\* Time passes; a task that was decided is followed by another of the origin.
Tick ==
    /\ \A t \in Tasks : task[t].at \in {"due", "decided", "fetch"}
    /\ hot' = Older(hot)
    /\ cache' = Older(cache)
    /\ retry' = IF retry > 0 THEN retry - 1 ELSE 0
    /\ task' = [t \in Tasks |-> IF At(t, "decided") THEN [task[t] EXCEPT !.at = "due"]
                                ELSE task[t]]
    /\ UNCHANGED <<site, changes, failures>>

Answer(t) == Fetch(t) \/ Unavailable(t)

Next ==
    \/ \E t \in Tasks : Check(t) \/ Load(t) \/ Save(t) \/ Answer(t)
    \/ Change \/ Tick

Spec == Init /\ [][Next]_vars

\* Tasks of the origin keep coming; a check goes on, its fetch ends, and time passes.
Fairness ==
    /\ \A t \in Tasks : WF_vars(Check(t) \/ Load(t) \/ Save(t) \/ Answer(t))
    /\ WF_vars(Tick)

FairSpec == Spec /\ Fairness

-----------------------------------------------------------------------------
IsEntry(entry) == entry = NoEntry \/ entry \in [policy : Policies, age : 0 .. CacheTtl]

\* The variables have the types of what they stand for; a task that fetches has loaded a
\* stale entry or none, and what is in memory is never fresher than what is stored.
TypeOK ==
    /\ IsEntry(hot) /\ IsEntry(cache)
    /\ hot.age >= cache.age
    /\ retry \in 0 .. RetryDelay
    /\ \A t \in Tasks :
          /\ task[t].at \in {"due", "load", "fetch", "save", "decided"}
          /\ task[t].found \in Policies \cup {None, Fallback}

\* A check that begins while the cache has a fresh policy is decided by the policy of the
\* cache, though a fetch of another task that began earlier fails now and puts the policy
\* it had loaded in memory.
GoodPolicyDecides ==
    [][\A t \in Tasks : task'[t] # task[t] /\ task'[t].at = "decided" /\ task'[t].cached
                        => task'[t].found = cache'.policy]_vars

\* When the site no longer changes and answers again, its policy is in force in the end,
\* for every task.
SitePolicyPrevails ==
    <>[](\A t \in Tasks : At(t, "decided") => task[t].found = site)

=============================================================================
