--------------------------- MODULE RedisScheduler ---------------------------
(***************************************************************************)
(* scheduler::Redis (src/scheduler/redis.rs): one namespace of a Redis     *)
(* server shared by several worker processes.                              *)
(*                                                                         *)
(* The keys of the namespace are the fields of the record db, under their  *)
(* names in the Lua scripts: a Redis set is a set of task ids, a hash or a *)
(* sorted set a function whose domain is the ids it has a field for.  A    *)
(* script runs alone on the server, so each script is one operator from    *)
(* key space to key space and each EVAL one action.  What a worker process *)
(* knows is held, the leases it got back and has not resolved yet.         *)
(*                                                                         *)
(* A script is handed the milliseconds the caller read from its own clock  *)
(* before it sent the EVAL: here a time at most MaxLag behind the server.  *)
(***************************************************************************)
EXTENDS Integers, FiniteSets, Maps

CONSTANTS
    Ids,               \* task ids
    Workers,           \* worker ids, one process each
    Payloads,          \* what the task JSON says of priority, depth, ready_at
    LeaseTimeout,      \* milliseconds until a claim expires
    MaxLag,            \* delay between reading the clock and running the script
    SyncDefined,       \* workers whose claim script defines sync_worker_runtime:
                       \* none in the scripts as shipped
    NullIsAbsent,      \* does a script take the null of ready_at for an absent field
    IdsCollide,        \* may two processes give two tasks the same id
    Horizon,           \* bound: no clock value or deadline beyond it
    MaxLease           \* bound: number of claims

\* ready_at of a task that is due at once: None in the code, null in its JSON.
Immediate == 0

ASSUME RedisAssumption ==
    /\ IsFiniteSet(Ids)
    /\ Payloads \subseteq [priority : Int, depth : Nat, ready_at : Nat]
    /\ LeaseTimeout \in Nat
    /\ MaxLag \in Nat
    /\ Horizon \in Nat
    /\ MaxLease \in Nat
    /\ SyncDefined \subseteq Workers
    /\ NullIsAbsent \in BOOLEAN
    /\ IdsCollide \in BOOLEAN

VARIABLES
    db,      \* the keys of the namespace
    now,     \* the server's clock
    held,    \* held[w]: leases <<task id, lease id>> process w works under
    issued   \* number of lease ids generated so far

vars == <<db, now, held, issued>>

-----------------------------------------------------------------------------
NoFields == [x \in {} |-> Immediate]

IsHash(h, V) == DOMAIN h \subseteq Ids /\ h \in [DOMAIN h -> V]
Lease == Ids \X Nat

HasKeys(d) ==
    d = [tasks |-> d.tasks, ready |-> d.ready, ready_order |-> d.ready_order,
         delayed |-> d.delayed, inflight |-> d.inflight,
         inflight_deadlines |-> d.inflight_deadlines,
         inflight_workers |-> d.inflight_workers,
         inflight_leases |-> d.inflight_leases,
         sequence |-> d.sequence, workers |-> d.workers, paused |-> d.paused]

IsKeySpace(d) ==
    /\ HasKeys(d)
    /\ IsHash(d.tasks, Payloads)
    /\ d.ready \subseteq Ids
    /\ IsHash(d.ready_order, Nat)
    /\ IsHash(d.delayed, Nat)
    /\ d.inflight \subseteq Ids
    /\ IsHash(d.inflight_deadlines, Nat)
    /\ IsHash(d.inflight_workers, Workers)
    /\ IsHash(d.inflight_leases, Nat)
    /\ d.sequence \in Nat
    /\ d.workers \subseteq Workers
    /\ d.paused \in BOOLEAN

EmptyKeySpace ==
    [tasks |-> NoFields, ready |-> {}, ready_order |-> NoFields,
     delayed |-> NoFields, inflight |-> {}, inflight_deadlines |-> NoFields,
     inflight_workers |-> NoFields, inflight_leases |-> NoFields,
     sequence |-> 0, workers |-> {}, paused |-> FALSE]

-----------------------------------------------------------------------------
(* The procedures the Lua scripts are made of. *)

\* The numbers a loop of push_ready gives to the ids of S when it visits them
\* by increasing score (in any order among equal scores).
Numberings(S, sequence, score) ==
    {f \in [S -> (sequence + 1)..(sequence + Cardinality(S))] :
        \A i, j \in S : /\ i # j => f[i] # f[j]
                        /\ score[i] < score[j] => f[i] < f[j]}

\* SMEMBERS, HGETALL and argument lists: no order the properties depend on.
NoScore == [i \in Ids |-> 0]

PushReady(d, S, order) ==
    [d EXCEPT !.sequence = @ + Cardinality(S),
              !.ready = @ \cup S,
              !.ready_order = Put(@, order)]

Due(d, S, t) == {i \in S : d.tasks[i].ready_at <= t}
NotDue(d, S, t) == S \ Due(d, S, t)

ReadyAt(tasks, S) == [i \in S |-> tasks[i].ready_at]

\* route_task for every id of S: due tasks to ready, the others to delayed.
RouteTasks(d, S, t, order) ==
    [PushReady(d, Due(d, S, t), order)
        EXCEPT !.delayed = Put(@, ReadyAt(d.tasks, NotDue(d, S, t)))]

Unlease(d, S) ==
    [d EXCEPT !.inflight = @ \ S,
              !.inflight_deadlines = Del(@, S),
              !.inflight_workers = Del(@, S),
              !.inflight_leases = Del(@, S)]

\* Mutant of Unqueue: the ids stay in ready.
UnqueueKeepsReady(d, S) ==
    [d EXCEPT !.ready_order = Del(@, S),
              !.delayed = Del(@, S)]

Unqueue(d, S) ==
    [d EXCEPT !.ready = @ \ S,
              !.ready_order = Del(@, S),
              !.delayed = Del(@, S)]

WithPayload(d, S) == S \cap DOMAIN d.tasks

\* Leases of S given up, and those of back routed by their own ready_at.
GiveBack(d, S, back, t, order) == RouteTasks(Unlease(d, S), back, t, order)

\* cjson decodes null to a value that is neither absent nor a number: route_task
\* fails on it when it compares it with the time, and the script ends there.
Unroutable(d, S) ==
    {i \in WithPayload(d, S) : ~NullIsAbsent /\ d.tasks[i].ready_at = Immediate}

\* e is what remains of a loop over S that gives the leases up and routes the ids
\* of back: the first unroutable id has lost its lease and is routed nowhere, the
\* ids after it are not reached.  Redis keeps the effects of a script that fails.
StopsAtNull(d, S, back, score, t, e) ==
    \E i \in Unroutable(d, back), before \in SUBSET (S \ Unroutable(d, back)) :
        /\ \A j \in S : /\ score[j] < score[i] => j \in before
                        /\ j \in before => score[j] <= score[i]
        /\ LET done == back \cap before IN
           \E order \in Numberings(Due(d, done, t), d.sequence, score) :
              e = Unlease(GiveBack(d, before, done, t, order), {i})

Expired(d, t) == {i \in DOMAIN d.inflight_deadlines : d.inflight_deadlines[i] <= t}

Reclaim(d, t, order) ==
    GiveBack(d, Expired(d, t), WithPayload(d, Expired(d, t)), t, order)

ReclaimOrders(d, t) ==
    Numberings(Due(d, WithPayload(d, Expired(d, t)), t), d.sequence, d.inflight_deadlines)

\* Mutant of Promotable: one unit of time too early.
PromotableSoon(d, t) == {i \in DOMAIN d.delayed : d.delayed[i] <= t + 1}

Promotable(d, t) == {i \in DOMAIN d.delayed : d.delayed[i] <= t}

Promote(d, t, order) ==
    PushReady([d EXCEPT !.delayed = Del(@, Promotable(d, t))],
              WithPayload(d, Promotable(d, t)), order)

PromoteOrders(d, t) ==
    Numberings(WithPayload(d, Promotable(d, t)), d.sequence, d.delayed)

\* Ids in ready without a payload are dropped while the script looks for the best.
Prune(d) == Unqueue(d, d.ready \ DOMAIN d.tasks)

\* Mutant of Better: the depth is not looked at.
BetterIgnoresDepth(d, i, j) ==
    LET p == d.tasks[i]
        q == d.tasks[j]
    IN  \/ p.priority > q.priority
        \/ /\ p.priority = q.priority
           /\ d.ready_order[i] < d.ready_order[j]

Better(d, i, j) ==
    LET p == d.tasks[i]
        q == d.tasks[j]
    IN  \/ p.priority > q.priority
        \/ p.priority = q.priority /\ p.depth < q.depth
        \/ /\ p.priority = q.priority
           /\ p.depth = q.depth
           /\ d.ready_order[i] < d.ready_order[j]

Best(d) == {i \in d.ready : \A j \in d.ready : ~Better(d, j, i)}

\* sync_worker_runtime: the worker is registered (its timestamps are left out).
SyncWorker(d, w) == [d EXCEPT !.workers = @ \cup {w}]

\* Mutant of MoveToInflight: the lease id of the claim before.
MoveUnderOldLease(d, i, w, n) ==
    [Unqueue(d, {i})
        EXCEPT !.inflight = @ \cup {i},
               !.inflight_deadlines = Del(@, {i}),
               !.inflight_workers = Put(@, Field(i, w)),
               !.inflight_leases = Put(@, Field(i, n - 1))]

\* Everything the claim script does to the best task before sync_worker_runtime.
MoveToInflight(d, i, w, n) ==
    [Unqueue(d, {i})
        EXCEPT !.inflight = @ \cup {i},
               !.inflight_deadlines = Del(@, {i}),
               !.inflight_workers = Put(@, Field(i, w)),
               !.inflight_leases = Put(@, Field(i, n))]

\* Mutant of SetDeadline: the timeout is subtracted.
SetDeadlineBack(d, i, t) ==
    [d EXCEPT !.inflight_deadlines = Put(@, Field(i, t - LeaseTimeout))]

SetDeadline(d, i, t) ==
    [d EXCEPT !.inflight_deadlines = Put(@, Field(i, t + LeaseTimeout))]

\* Mutant of Forget: the payload stays behind.
ForgetKeepsPayload(d, i) == Unqueue(Unlease(d, {i}), {i})

Forget(d, i) ==
    [Unqueue(Unlease(d, {i}), {i}) EXCEPT !.tasks = Del(@, {i})]

\* The enqueue loop: payload.ready_at decides the bucket, whatever the time.
AtOnce(payload) == {i \in DOMAIN payload : payload[i].ready_at = Immediate}
Postponed(payload) == DOMAIN payload \ AtOnce(payload)

EnqueueTasks(d, payload, order) ==
    [PushReady([d EXCEPT !.tasks = Put(@, payload)], AtOnce(payload), order)
        EXCEPT !.delayed = Put(@, ReadyAt(payload, Postponed(payload)))]

\* Mutant of Live: the owner is checked, the lease is not.
LiveChecksOwnerOnly(d, w, lease) ==
    /\ lease[1] \in DOMAIN d.inflight_workers
    /\ d.inflight_workers[lease[1]] = w

\* The checks of the owner and of the lease that open every resolving script.
Live(d, w, lease) ==
    /\ lease[1] \in DOMAIN d.inflight_workers \cap DOMAIN d.inflight_leases
    /\ d.inflight_workers[lease[1]] = w
    /\ d.inflight_leases[lease[1]] = lease[2]

-----------------------------------------------------------------------------

Init ==
    /\ db = EmptyKeySpace
    /\ now = 0
    /\ held = [w \in Workers |-> {}]
    /\ issued = 0

\* A clock reading that may reach the server now.
Reading == {t \in 0..now : now - t <= MaxLag}

Drop(w, lease) == [held EXCEPT ![w] = @ \ {lease}]

\* Task ids are unique, unless processes number their tasks independently; the
\* ids in own are being replaced by the script itself.
Submittable(own) == IF IdsCollide THEN Ids ELSE (Ids \ DOMAIN db.tasks) \cup own

Enqueue(i, p) ==
    /\ i \in Submittable({})
    /\ \E order \in Numberings(AtOnce(Field(i, p)), db.sequence, NoScore) :
          db' = EnqueueTasks(db, Field(i, p), order)
    /\ UNCHANGED <<now, held, issued>>

\* take_ready: reclaim, promote, then pick, in one script.  The reply that
\* carries the lease may be lost with the connection.
TakeReady(w, t) ==
    /\ issued < MaxLease
    /\ t + LeaseTimeout <= Horizon
    /\ Unroutable(db, Expired(db, t)) = {}
    /\ \E o1 \in ReclaimOrders(db, t) :
       LET d1 == Reclaim(db, t, o1) IN
       \E o2 \in PromoteOrders(d1, t) :
       LET d2 == Promote(d1, t, o2)
           d3 == Prune(d2)
           n  == issued + 1
       IN \/ /\ d2.paused
             /\ db' = d2
             /\ UNCHANGED <<held, issued>>
          \/ /\ ~d2.paused
             /\ Best(d3) = {}
             /\ db' = d3
             /\ UNCHANGED <<held, issued>>
          \/ /\ ~d2.paused
             /\ w \in SyncDefined
             /\ \E i \in Best(d3) :
                   /\ db' = SetDeadline(SyncWorker(MoveToInflight(d3, i, w, n), w), i, t)
                   /\ held' \in {held, [held EXCEPT ![w] = @ \cup {<<i, n>>}]}
             /\ issued' = n
          \/ /\ ~d2.paused
             /\ w \notin SyncDefined
             /\ \E i \in Best(d3) : db' = MoveToInflight(d3, i, w, n)
             /\ issued' = n
             /\ UNCHANGED held
    /\ UNCHANGED now

\* A reclaim that fails, in take_ready or in a call that reads the namespace.
ReclaimFails(t) ==
    /\ LET S == Expired(db, t) IN
       StopsAtNull(db, S, WithPayload(db, S), db.inflight_deadlines, t, db')
    /\ UNCHANGED <<now, held, issued>>

\* Any resolving call made under a lease the server no longer honours.
Refused(w, lease) ==
    /\ lease \in held[w]
    /\ ~Live(db, w, lease)
    /\ held' = Drop(w, lease)
    /\ UNCHANGED <<db, now, issued>>

Complete(w, lease) ==
    /\ lease \in held[w]
    /\ Live(db, w, lease)
    /\ db' = Forget(SyncWorker(db, w), lease[1])
    /\ held' = Drop(w, lease)
    /\ UNCHANGED <<now, issued>>

CompleteAndEnqueue(w, lease) ==
    /\ lease \in held[w]
    /\ Live(db, w, lease)
    /\ \E S \in SUBSET Submittable({lease[1]}) \ {{}} :
       \E payload \in [S -> Payloads] :
       LET d == Forget(SyncWorker(db, w), lease[1]) IN
       \E order \in Numberings(AtOnce(payload), d.sequence, NoScore) :
          db' = EnqueueTasks(d, payload, order)
    /\ held' = Drop(w, lease)
    /\ UNCHANGED <<now, issued>>

\* A task whose payload is gone is only unleased, and the call fails.
Requeue(w, lease, t) ==
    /\ lease \in held[w]
    /\ Live(db, w, lease)
    /\ Unroutable(db, {lease[1]}) = {}
    /\ LET S == {lease[1]}
           d == Unqueue(Unlease(SyncWorker(db, w), S), S)
           back == WithPayload(db, S)
       IN \E order \in Numberings(Due(db, back, t), db.sequence, NoScore) :
             db' = RouteTasks(d, back, t, order)
    /\ held' = Drop(w, lease)
    /\ UNCHANGED <<now, issued>>

RequeueFails(w, lease) ==
    /\ lease \in held[w]
    /\ Live(db, w, lease)
    /\ Unroutable(db, {lease[1]}) # {}
    /\ db' = Unqueue(Unlease(SyncWorker(db, w), {lease[1]}), {lease[1]})
    /\ held' = Drop(w, lease)
    /\ UNCHANGED <<now, issued>>

Heartbeat(w, lease, t) ==
    /\ lease \in held[w]
    /\ Live(db, w, lease)
    /\ t + LeaseTimeout <= Horizon
    /\ IF lease[1] \in db.inflight
       THEN /\ db' = SyncWorker(SetDeadline(db, lease[1], t), w)
            /\ UNCHANGED held
       ELSE /\ held' = Drop(w, lease)
            /\ UNCHANGED db
    /\ UNCHANGED <<now, issued>>

\* The process gives up on a lease without resolving it: an error of another
\* call aborts the run, or the reply of a call is lost.
Abandon(w, lease) ==
    /\ lease \in held[w]
    /\ held' = Drop(w, lease)
    /\ UNCHANGED <<db, now, issued>>

\* The process dies and another one with its worker id takes its place.
Crash(w) ==
    /\ held[w] # {}
    /\ held' = [held EXCEPT ![w] = {}]
    /\ UNCHANGED <<db, now, issued>>

OwnedBy(d, w) == {i \in DOMAIN d.inflight_workers : d.inflight_workers[i] = w}

\* Mutant of ClearWorkerIfIdle: busy workers are cleared too, with their leases.
ClearWorkerAndLeases(d, w) == [Unlease(d, OwnedBy(d, w)) EXCEPT !.workers = @ \ {w}]

ClearWorkerIfIdle(d, w) ==
    IF OwnedBy(d, w) = {} THEN [d EXCEPT !.workers = @ \ {w}] ELSE d

\* The script and clear_worker_runtime_if_idle are two round trips: the second
\* may never happen.  Nothing that can run in between involves w.
ReleaseInflight(w, t) ==
    /\ Unroutable(db, OwnedBy(db, w) \cap db.inflight) = {}
    /\ LET S == OwnedBy(db, w)
           back == WithPayload(db, S \cap db.inflight)
       IN \E order \in Numberings(Due(db, back, t), db.sequence, NoScore) :
          LET d == GiveBack(db, S, back, t, order) IN
          db' \in {d, ClearWorkerIfIdle(d, w)}
    /\ UNCHANGED <<now, held, issued>>

ReleaseInflightFails(w, t) ==
    /\ LET S == OwnedBy(db, w) IN
       StopsAtNull(db, S, WithPayload(db, S \cap db.inflight), NoScore, t, db')
    /\ UNCHANGED <<now, held, issued>>

Close(w) ==
    /\ db' = ClearWorkerIfIdle(db, w)
    /\ UNCHANGED <<now, held, issued>>

\* counts(), checkpoint() and snapshot() reclaim before they read.
Refresh(t) ==
    /\ Unroutable(db, Expired(db, t)) = {}
    /\ \E order \in ReclaimOrders(db, t) : db' = Reclaim(db, t, order)
    /\ UNCHANGED <<now, held, issued>>

PauseScope ==
    /\ db' = [db EXCEPT !.paused = TRUE]
    /\ UNCHANGED <<now, held, issued>>

ResumeScope ==
    /\ db' = [db EXCEPT !.paused = FALSE]
    /\ UNCHANGED <<now, held, issued>>

ReleaseScope(t) ==
    /\ Unroutable(db, db.inflight) = {}
    /\ LET S == db.inflight
           back == WithPayload(db, S)
       IN \E order \in Numberings(Due(db, back, t), db.sequence, NoScore) :
             db' = [GiveBack(db, S, back, t, order) EXCEPT !.workers = {}]
    /\ UNCHANGED <<now, held, issued>>

ReleaseScopeFails(t) ==
    /\ StopsAtNull(db, db.inflight, WithPayload(db, db.inflight), NoScore, t, db')
    /\ UNCHANGED <<now, held, issued>>

\* Every key but meta, where the paused flag lives, is deleted.
PurgeScope ==
    /\ db' = [EmptyKeySpace EXCEPT !.paused = db.paused]
    /\ UNCHANGED <<now, held, issued>>

Tick ==
    /\ now < Horizon
    /\ now' = now + 1
    /\ UNCHANGED <<db, held, issued>>

Next ==
    \/ \E i \in Ids, p \in Payloads : Enqueue(i, p)
    \/ \E w \in Workers, t \in Reading : TakeReady(w, t)
    \/ \E w \in Workers : \E lease \in held[w] :
          \/ Refused(w, lease)
          \/ Complete(w, lease)
          \/ CompleteAndEnqueue(w, lease)
          \/ Abandon(w, lease)
          \/ RequeueFails(w, lease)
          \/ \E t \in Reading : Requeue(w, lease, t) \/ Heartbeat(w, lease, t)
    \/ \E w \in Workers : Crash(w) \/ Close(w)
    \/ \E w \in Workers, t \in Reading : ReleaseInflight(w, t) \/ ReleaseInflightFails(w, t)
    \/ \E t \in Reading : ReclaimFails(t) \/ ReleaseScopeFails(t)
    \/ \E t \in Reading : Refresh(t) \/ ReleaseScope(t)
    \/ PauseScope \/ ResumeScope \/ PurgeScope
    \/ Tick

Spec == Init /\ [][Next]_vars

\* Time passes, and some worker keeps polling the namespace.
Fairness == WF_vars(Tick) /\ WF_vars(Refresh(now) \/ ReclaimFails(now))

FairSpec == Spec /\ Fairness

-----------------------------------------------------------------------------
(* Properties. *)

TypeOK ==
    /\ IsKeySpace(db)
    /\ now \in Nat
    /\ held \in [Workers -> SUBSET Lease]
    /\ issued \in Nat

Queued(d) == d.ready \cup DOMAIN d.delayed

\* A task is in exactly one of ready, delayed and inflight, and it is in one of
\* them exactly while its payload is stored.
BucketsPartitionTasks ==
    /\ DOMAIN db.tasks = Queued(db) \cup db.inflight
    /\ db.ready \cap DOMAIN db.delayed = {}
    /\ Queued(db) \cap db.inflight = {}

\* A task is never in two of the buckets at once, and never in one without its
\* payload, whatever fails.
BucketsAreDisjoint ==
    /\ Queued(db) \cup db.inflight \subseteq DOMAIN db.tasks
    /\ db.ready \cap DOMAIN db.delayed = {}
    /\ Queued(db) \cap db.inflight = {}

\* The keys that describe one inflight task, or one ready task, agree: none of
\* the scripts leaves a field of the one behind in the other.
KeysAgree ==
    /\ DOMAIN db.ready_order = db.ready
    /\ DOMAIN db.inflight_workers = db.inflight
    /\ DOMAIN db.inflight_leases = db.inflight

\* No stored task is out of every bucket but one whose ready_at is null: a loop that
\* gives leases up stops at it (requeue, release, reclaim), and whatever else fails,
\* races or is repeated loses nothing.
OnlyNullIsLost ==
    \A i \in DOMAIN db.tasks \ (Queued(db) \cup db.inflight) :
        ~NullIsAbsent /\ db.tasks[i].ready_at = Immediate

\* A claim has a deadline exactly if the claim script of its worker gets past
\* sync_worker_runtime: with the scripts as shipped no claim ever has one.
ClaimsExpireIfSynced ==
    \A i \in db.inflight :
        i \in DOMAIN db.inflight_deadlines <=> db.inflight_workers[i] \in SyncDefined

\* The reply of a claim script that fails hands no lease out.
NothingHeldUnsynced == \A w \in Workers \ SyncDefined : held[w] = {}

\* No two claims share a lease, and whoever still holds the lease that the
\* server honours is the worker the server names as the owner.
LeaseIsOwnership ==
    /\ \A i, j \in DOMAIN db.inflight_leases :
          db.inflight_leases[i] = db.inflight_leases[j] => i = j
    /\ \A w \in Workers : \A lease \in held[w] :
          /\ lease[1] \in DOMAIN db.inflight_leases
          /\ db.inflight_leases[lease[1]] = lease[2]
          => db.inflight_workers[lease[1]] = w

\* The number of claims, queue numbers and leases in the key space and in the
\* processes were all generated before.
NothingFromTheFuture ==
    /\ \A i \in DOMAIN db.inflight_leases : db.inflight_leases[i] <= issued
    /\ \A w \in Workers : \A lease \in held[w] : lease[2] <= issued
    /\ \A i \in DOMAIN db.ready_order : db.ready_order[i] <= db.sequence

\* Two ready tasks never tie: the queue number tells them apart.
ReadyOrderIsTotal ==
    \A i, j \in DOMAIN db.ready_order : db.ready_order[i] = db.ready_order[j] => i = j

\* No task is offered or running before its ready_at.
NeverEarly ==
    \A i \in db.ready \cup db.inflight :
        i \in DOMAIN db.tasks => db.tasks[i].ready_at <= now

\* A running task is taken from its worker only by a call made under its lease,
\* once its deadline has passed, or by an explicit release or purge.  A second
\* worker that reclaims, promotes or enqueues never disturbs a lease in force.
OnlyHolderOrExpiryEndsLease ==
    [][\A i \in DOMAIN db.inflight_leases :
          LET w == db.inflight_workers[i]
              lease == <<i, db.inflight_leases[i]>>
          IN  \/ /\ i \in DOMAIN db'.inflight_leases
                 /\ db'.inflight_leases[i] = db.inflight_leases[i]
              \/ i \in Expired(db, now)
              \/ lease \in held[w] \ held'[w]
              \/ \E t \in Reading :
                    \/ ReleaseInflight(w, t) \/ ReleaseScope(t)
                    \/ ReleaseInflightFails(w, t) \/ ReleaseScopeFails(t)
              \/ PurgeScope]_vars

\* What a claim takes comes before everything it leaves in ready: higher
\* priority first, then lower depth, then whichever became ready first.
ClaimsTheBest ==
    [][\A i \in DOMAIN db'.inflight_leases :
          (i \notin DOMAIN db.inflight_leases
              \/ db.inflight_leases[i] # db'.inflight_leases[i])
          => \A j \in db'.ready :
                LET p == db'.tasks[i]
                    q == db'.tasks[j]
                IN  \/ p.priority > q.priority
                    \/ /\ p.priority = q.priority
                       /\ p.depth < q.depth
                    \/ /\ p.priority = q.priority
                       /\ p.depth = q.depth
                       /\ (j \in db.ready =>
                             i \in db.ready /\ db.ready_order[i] < db.ready_order[j])]_vars

\* A lease no process works under is taken back: a worker that died, or that
\* never got the reply with its lease, does not keep the task.
Orphaned(i, n) ==
    /\ i \in DOMAIN db.inflight_leases
    /\ db.inflight_leases[i] = n
    /\ \A w \in Workers : <<i, n>> \notin held[w]

OrphansAreReclaimed ==
    \A i \in Ids : \A n \in 1..MaxLease : Orphaned(i, n) ~> ~Orphaned(i, n)

\* A claim script that fails between the owner and the deadline leaves a task
\* that no clock brings back: it stays with its worker until that worker releases
\* its tasks, or the whole namespace is released or purged.
StrandedUntilReleased ==
    [][\A i \in DOMAIN db.inflight_leases \ DOMAIN db.inflight_deadlines :
          \/ /\ i \in DOMAIN db'.inflight_leases
             /\ db'.inflight_leases[i] = db.inflight_leases[i]
          \/ \E t \in Reading :
                \/ ReleaseInflight(db.inflight_workers[i], t) \/ ReleaseScope(t)
                \/ ReleaseInflightFails(db.inflight_workers[i], t) \/ ReleaseScopeFails(t)
          \/ PurgeScope]_vars

\* The namespace is one pool of tasks that its workers share: a task waits while it
\* is in ready or delayed, where a claim finds it.
Pool == INSTANCE TaskPool WITH
    waiting <- Queued(db),
    running <- db.inflight_leases,
    granted <- issued,
    handed <- UNION {held[w] : w \in Workers}

\* What no step of the contract does: the leases of S are given up, and one of the
\* tasks, whose ready_at is null, waits nowhere from then on.
LosesToNull(S, i) ==
    /\ S \subseteq DOMAIN db.inflight_leases
    /\ i \in S \cap Unroutable(db, S)
    /\ Queued(db') = Queued(db) \cup (S \ {i})
    /\ db'.inflight_leases = Del(db.inflight_leases, S)
    /\ db'.tasks = db.tasks
    /\ UNCHANGED issued
    /\ UNION {held'[w] : w \in Workers} \subseteq UNION {held[w] : w \in Workers}

\* Every script of the Redis backend is one step of the scheduler contract, except
\* a requeue, release or reclaim that fails at a null: it loses that task, one at a
\* time, and does to the others what the contract allows.
ImplementsTaskPoolUnlessNull ==
    /\ Pool!Init
    /\ [][\/ Pool!Next
          \/ \E S \in SUBSET Ids : \E i \in S : LosesToNull(S, i)]_(Pool!vars)

=============================================================================
