------------------------ MODULE RedisSchedulerProofs ------------------------
(* Theorems about RedisScheduler, for every value of its constants. *)
EXTENDS RedisScheduler, FiniteSetTheorems, TLAPS

-----------------------------------------------------------------------------
(* Hashes. *)

\* What the numbering of a loop of push_ready gives each id.
LEMMA NumberingsHash ==
    ASSUME NEW S, S \subseteq Ids, NEW n \in Nat, NEW score,
           NEW f \in Numberings(S, n, score)
    PROVE  /\ Cardinality(S) \in Nat
           /\ IsHash(f, Nat)
           /\ DOMAIN f = S
           /\ \A i \in S : f[i] > n /\ f[i] <= n + Cardinality(S)
           /\ \A i, j \in S : f[i] = f[j] => i = j
<1>1. Cardinality(S) \in Nat
    BY RedisAssumption, FS_Subset, FS_CardinalityType
<1>2. f \in [S -> (n + 1)..(n + Cardinality(S))]
    BY DEF Numberings
<1>3. \A i \in S : f[i] \in (n + 1)..(n + Cardinality(S))
    BY <1>2
<1>4. \A i, j \in S : f[i] = f[j] => i = j
    BY DEF Numberings
<1> QED
    BY <1>1, <1>2, <1>3, <1>4 DEF IsHash

-----------------------------------------------------------------------------
(* Scripts, key by key. *)

LEMMA PushReadyKeys ==
    ASSUME NEW d, NEW S, NEW order, HasKeys(d), NEW e, e = PushReady(d, S, order)
    PROVE  /\ HasKeys(e)
           /\ e.tasks = d.tasks
           /\ e.ready = d.ready \cup S
           /\ e.ready_order = Put(d.ready_order, order)
           /\ e.delayed = d.delayed
           /\ e.inflight = d.inflight
           /\ e.inflight_deadlines = d.inflight_deadlines
           /\ e.inflight_workers = d.inflight_workers
           /\ e.inflight_leases = d.inflight_leases
           /\ e.sequence = d.sequence + Cardinality(S)
           /\ e.workers = d.workers
           /\ e.paused = d.paused
BY DEF PushReady, HasKeys

LEMMA RouteTasksKeys ==
    ASSUME NEW d, NEW S, NEW t, NEW order, HasKeys(d),
           NEW e, e = RouteTasks(d, S, t, order)
    PROVE  /\ HasKeys(e)
           /\ e.tasks = d.tasks
           /\ e.ready = d.ready \cup Due(d, S, t)
           /\ e.ready_order = Put(d.ready_order, order)
           /\ e.delayed = Put(d.delayed, ReadyAt(d.tasks, NotDue(d, S, t)))
           /\ e.inflight = d.inflight
           /\ e.inflight_deadlines = d.inflight_deadlines
           /\ e.inflight_workers = d.inflight_workers
           /\ e.inflight_leases = d.inflight_leases
           /\ e.sequence = d.sequence + Cardinality(Due(d, S, t))
           /\ e.workers = d.workers
           /\ e.paused = d.paused
<1> DEFINE p == PushReady(d, Due(d, S, t), order)
           m == ReadyAt(d.tasks, NotDue(d, S, t))
<1>1. e = [p EXCEPT !.delayed = Put(p.delayed, m)]
    BY DEF RouteTasks
<1> HIDE DEF m
<1>2. /\ HasKeys(p)
      /\ p.delayed = d.delayed
      /\ p.tasks = d.tasks
      /\ p.ready = d.ready \cup Due(d, S, t)
      /\ p.ready_order = Put(d.ready_order, order)
      /\ p.inflight = d.inflight
      /\ p.inflight_deadlines = d.inflight_deadlines
      /\ p.inflight_workers = d.inflight_workers
      /\ p.inflight_leases = d.inflight_leases
      /\ p.sequence = d.sequence + Cardinality(Due(d, S, t))
      /\ p.workers = d.workers
      /\ p.paused = d.paused
    BY PushReadyKeys
<1> HIDE DEF p
<1>3. e.delayed = Put(d.delayed, m)
    BY <1>1, <1>2 DEF HasKeys
<1> QED
    BY <1>1, <1>2, <1>3 DEF HasKeys, m

LEMMA UnleaseKeys ==
    ASSUME NEW d, NEW S, HasKeys(d), NEW e, e = Unlease(d, S)
    PROVE  /\ HasKeys(e)
           /\ e.tasks = d.tasks
           /\ e.ready = d.ready
           /\ e.ready_order = d.ready_order
           /\ e.delayed = d.delayed
           /\ e.inflight = d.inflight \ S
           /\ e.inflight_deadlines = Del(d.inflight_deadlines, S)
           /\ e.inflight_workers = Del(d.inflight_workers, S)
           /\ e.inflight_leases = Del(d.inflight_leases, S)
           /\ e.sequence = d.sequence
           /\ e.workers = d.workers
           /\ e.paused = d.paused
BY DEF Unlease, HasKeys

LEMMA UnqueueKeys ==
    ASSUME NEW d, NEW S, HasKeys(d), NEW e, e = Unqueue(d, S)
    PROVE  /\ HasKeys(e)
           /\ e.tasks = d.tasks
           /\ e.ready = d.ready \ S
           /\ e.ready_order = Del(d.ready_order, S)
           /\ e.delayed = Del(d.delayed, S)
           /\ e.inflight = d.inflight
           /\ e.inflight_deadlines = d.inflight_deadlines
           /\ e.inflight_workers = d.inflight_workers
           /\ e.inflight_leases = d.inflight_leases
           /\ e.sequence = d.sequence
           /\ e.workers = d.workers
           /\ e.paused = d.paused
BY DEF Unqueue, HasKeys

LEMMA GiveBackKeys ==
    ASSUME NEW d, NEW S, NEW back, NEW t, NEW order, HasKeys(d),
           NEW e, e = GiveBack(d, S, back, t, order)
    PROVE  /\ HasKeys(e)
           /\ e.tasks = d.tasks
           /\ e.ready = d.ready \cup Due(d, back, t)
           /\ e.ready_order = Put(d.ready_order, order)
           /\ e.delayed = Put(d.delayed, ReadyAt(d.tasks, NotDue(d, back, t)))
           /\ e.inflight = d.inflight \ S
           /\ e.inflight_deadlines = Del(d.inflight_deadlines, S)
           /\ e.inflight_workers = Del(d.inflight_workers, S)
           /\ e.inflight_leases = Del(d.inflight_leases, S)
           /\ e.sequence = d.sequence + Cardinality(Due(d, back, t))
           /\ e.workers = d.workers
           /\ e.paused = d.paused
<1> DEFINE u == Unlease(d, S)
<1>0. u = Unlease(d, S)
    OBVIOUS
<1>2. e = RouteTasks(u, back, t, order)
    BY DEF GiveBack
<1> HIDE DEF u
<1>1. /\ HasKeys(u)
      /\ u.tasks = d.tasks
      /\ u.ready = d.ready
      /\ u.ready_order = d.ready_order
      /\ u.delayed = d.delayed
      /\ u.inflight = d.inflight \ S
      /\ u.inflight_deadlines = Del(d.inflight_deadlines, S)
      /\ u.inflight_workers = Del(d.inflight_workers, S)
      /\ u.inflight_leases = Del(d.inflight_leases, S)
      /\ u.sequence = d.sequence
      /\ u.workers = d.workers
      /\ u.paused = d.paused
    BY <1>0, UnleaseKeys
<1>3. Due(u, back, t) = Due(d, back, t) /\ NotDue(u, back, t) = NotDue(d, back, t)
    BY <1>1 DEF Due, NotDue
<1>5. /\ HasKeys(e)
      /\ e.tasks = u.tasks
      /\ e.ready = u.ready \cup Due(u, back, t)
      /\ e.ready_order = Put(u.ready_order, order)
      /\ e.delayed = Put(u.delayed, ReadyAt(u.tasks, NotDue(u, back, t)))
      /\ e.inflight = u.inflight
      /\ e.inflight_deadlines = u.inflight_deadlines
      /\ e.inflight_workers = u.inflight_workers
      /\ e.inflight_leases = u.inflight_leases
      /\ e.sequence = u.sequence + Cardinality(Due(u, back, t))
      /\ e.workers = u.workers
      /\ e.paused = u.paused
    BY <1>1, <1>2, RouteTasksKeys
<1> QED
    BY <1>1, <1>3, <1>5

LEMMA PromoteKeys ==
    ASSUME NEW d, NEW t, NEW order, HasKeys(d), NEW e, e = Promote(d, t, order)
    PROVE  /\ HasKeys(e)
           /\ e.tasks = d.tasks
           /\ e.ready = d.ready \cup WithPayload(d, Promotable(d, t))
           /\ e.ready_order = Put(d.ready_order, order)
           /\ e.delayed = Del(d.delayed, Promotable(d, t))
           /\ e.inflight = d.inflight
           /\ e.inflight_deadlines = d.inflight_deadlines
           /\ e.inflight_workers = d.inflight_workers
           /\ e.inflight_leases = d.inflight_leases
           /\ e.sequence = d.sequence + Cardinality(WithPayload(d, Promotable(d, t)))
           /\ e.workers = d.workers
           /\ e.paused = d.paused
<1> DEFINE del == Del(d.delayed, Promotable(d, t))
           u == [d EXCEPT !.delayed = del]
<1>1. e = PushReady(u, WithPayload(d, Promotable(d, t)), order)
    BY DEF Promote
<1>2. HasKeys(u) /\ u = [tasks |-> d.tasks, ready |-> d.ready,
        ready_order |-> d.ready_order, delayed |-> del, inflight |-> d.inflight,
        inflight_deadlines |-> d.inflight_deadlines,
        inflight_workers |-> d.inflight_workers,
        inflight_leases |-> d.inflight_leases,
        sequence |-> d.sequence, workers |-> d.workers, paused |-> d.paused]
    BY DEF HasKeys
<1> HIDE DEF u, del
<1> QED
    BY <1>1, <1>2, PushReadyKeys DEF del

LEMMA EnqueueTasksKeys ==
    ASSUME NEW d, NEW payload, NEW order, HasKeys(d), NEW e, e = EnqueueTasks(d, payload, order)
    PROVE  /\ HasKeys(e)
           /\ e.tasks = Put(d.tasks, payload)
           /\ e.ready = d.ready \cup AtOnce(payload)
           /\ e.ready_order = Put(d.ready_order, order)
           /\ e.delayed = Put(d.delayed, ReadyAt(payload, Postponed(payload)))
           /\ e.inflight = d.inflight
           /\ e.inflight_deadlines = d.inflight_deadlines
           /\ e.inflight_workers = d.inflight_workers
           /\ e.inflight_leases = d.inflight_leases
           /\ e.sequence = d.sequence + Cardinality(AtOnce(payload))
           /\ e.workers = d.workers
           /\ e.paused = d.paused
BY DEF EnqueueTasks, PushReady, HasKeys

LEMMA SyncWorkerKeys ==
    ASSUME NEW d, NEW w, HasKeys(d), NEW e, e = SyncWorker(d, w)
    PROVE  /\ HasKeys(e)
           /\ e.tasks = d.tasks
           /\ e.ready = d.ready
           /\ e.ready_order = d.ready_order
           /\ e.delayed = d.delayed
           /\ e.inflight = d.inflight
           /\ e.inflight_deadlines = d.inflight_deadlines
           /\ e.inflight_workers = d.inflight_workers
           /\ e.inflight_leases = d.inflight_leases
           /\ e.sequence = d.sequence
           /\ e.workers = d.workers \cup {w}
           /\ e.paused = d.paused
BY DEF SyncWorker, HasKeys

LEMMA SetDeadlineKeys ==
    ASSUME NEW d, NEW i, NEW t, HasKeys(d), NEW e, e = SetDeadline(d, i, t)
    PROVE  /\ HasKeys(e)
           /\ e.tasks = d.tasks
           /\ e.ready = d.ready
           /\ e.ready_order = d.ready_order
           /\ e.delayed = d.delayed
           /\ e.inflight = d.inflight
           /\ e.inflight_deadlines = Put(d.inflight_deadlines, Field(i, t + LeaseTimeout))
           /\ e.inflight_workers = d.inflight_workers
           /\ e.inflight_leases = d.inflight_leases
           /\ e.sequence = d.sequence
           /\ e.workers = d.workers
           /\ e.paused = d.paused
BY DEF SetDeadline, HasKeys

-----------------------------------------------------------------------------
(* What every script preserves, key group by key group. *)

\* ready, ready_order and sequence
QueueInv(ready, ready_order, sequence) ==
    /\ ready \subseteq Ids
    /\ sequence \in Nat
    /\ IsHash(ready_order, Nat)
    /\ DOMAIN ready_order = ready
    /\ \A i \in ready : ready_order[i] <= sequence
    /\ \A i, j \in ready : ready_order[i] = ready_order[j] => i = j

\* the keys named inflight and the set of workers, n being the last lease id: a
\* deadline is missing exactly where the claim script stopped before it
LeaseInv(inflight, deadlines, owners, leases, workers, n) ==
    /\ inflight \subseteq Ids
    /\ workers \subseteq Workers
    /\ IsHash(deadlines, Nat)
    /\ IsHash(owners, Workers)
    /\ IsHash(leases, Nat)
    /\ DOMAIN owners = inflight
    /\ DOMAIN leases = inflight
    /\ DOMAIN deadlines \subseteq inflight
    /\ \A i \in inflight : leases[i] <= n
    /\ \A i, j \in inflight : leases[i] = leases[j] => i = j
    /\ \A i \in inflight : i \in DOMAIN deadlines <=> owners[i] \in SyncDefined

\* the payloads and the three buckets, t being the clock of the server
BucketInv(tasks, ready, delayed, inflight, t) ==
    /\ IsHash(tasks, Payloads)
    /\ IsHash(delayed, Nat)
    /\ ready \cup DOMAIN delayed \cup inflight \subseteq DOMAIN tasks
    /\ \A i \in DOMAIN tasks \ (ready \cup DOMAIN delayed \cup inflight) :
          ~NullIsAbsent /\ tasks[i].ready_at = Immediate
    /\ ready \cap DOMAIN delayed = {}
    /\ ready \cap inflight = {}
    /\ inflight \cap DOMAIN delayed = {}
    /\ \A i \in ready \cup inflight : tasks[i].ready_at <= t
    /\ \A i \in DOMAIN delayed : delayed[i] = tasks[i].ready_at

DbInv(d, n, t) ==
    /\ HasKeys(d)
    /\ QueueInv(d.ready, d.ready_order, d.sequence)
    /\ LeaseInv(d.inflight, d.inflight_deadlines, d.inflight_workers,
                d.inflight_leases, d.workers, n)
    /\ BucketInv(d.tasks, d.ready, d.delayed, d.inflight, t)
    /\ d.paused \in BOOLEAN

\* Every lease of e is a lease of d, with the same owner.
NoNewLease(d, e) ==
    \A i \in DOMAIN e.inflight_leases :
        /\ i \in DOMAIN d.inflight_leases
        /\ e.inflight_leases[i] = d.inflight_leases[i]
        /\ e.inflight_workers[i] = d.inflight_workers[i]

\* The leases of e are those of d and the lease m of i, which w owns.
OneNewLease(d, e, i, w, m) ==
    \A j \in DOMAIN e.inflight_leases :
        IF j = i
        THEN e.inflight_leases[j] = m /\ e.inflight_workers[j] = w
        ELSE /\ j \in DOMAIN d.inflight_leases
             /\ e.inflight_leases[j] = d.inflight_leases[j]
             /\ e.inflight_workers[j] = d.inflight_workers[j]

\* A loop of push_ready.
LEMMA QueuePush ==
    ASSUME NEW ready, NEW ready_order, NEW sequence,
           QueueInv(ready, ready_order, sequence),
           NEW S, S \subseteq Ids, NEW score,
           NEW order \in Numberings(S, sequence, score),
           NEW ready2, ready2 = ready \cup S,
           NEW order2, order2 = Put(ready_order, order),
           NEW sequence2, sequence2 = sequence + Cardinality(S)
    PROVE  QueueInv(ready2, order2, sequence2)
<1>1. /\ sequence \in Nat
      /\ IsHash(ready_order, Nat)
      /\ DOMAIN ready_order = ready
      /\ \A i \in ready : ready_order[i] \in Nat /\ ready_order[i] <= sequence
      /\ \A i, j \in ready : ready_order[i] = ready_order[j] => i = j
    BY DEF QueueInv, IsHash
<1>2. /\ Cardinality(S) \in Nat
      /\ IsHash(order, Nat)
      /\ DOMAIN order = S
      /\ \A i \in S : order[i] > sequence /\ order[i] <= sequence + Cardinality(S)
      /\ \A i, j \in S : order[i] = order[j] => i = j
    BY <1>1, NumberingsHash
<1>3. /\ IsHash(order2, Nat)
      /\ DOMAIN order2 = ready \cup S
      /\ \A i \in S : order2[i] = order[i]
      /\ \A i \in ready \ S : order2[i] = ready_order[i]
    BY <1>1, <1>2 DEF IsHash, Put
<1>4. \A i \in S : order[i] \in Nat
    BY <1>2 DEF IsHash
<1> QED
    BY <1>1, <1>2, <1>3, <1>4 DEF QueueInv

LEMMA QueuePop ==
    ASSUME NEW ready, NEW ready_order, NEW sequence,
           QueueInv(ready, ready_order, sequence), NEW S,
           NEW ready2, ready2 = ready \ S,
           NEW order2, order2 = Del(ready_order, S)
    PROVE  QueueInv(ready2, order2, sequence)
<1>1. IsHash(ready_order, Nat) /\ DOMAIN ready_order = ready
    BY DEF QueueInv
<1>2. /\ IsHash(order2, Nat)
      /\ DOMAIN order2 = ready \ S
      /\ \A i \in ready \ S : order2[i] = ready_order[i]
    BY <1>1 DEF IsHash, Del
<1> QED
    BY <1>1, <1>2 DEF QueueInv

\* Leases of the ids in S given up.
LEMMA LeaseDrop ==
    ASSUME NEW inflight, NEW deadlines, NEW owners, NEW leases, NEW workers, NEW n,
           LeaseInv(inflight, deadlines, owners, leases, workers, n), NEW S,
           NEW inflight2, inflight2 = inflight \ S,
           NEW deadlines2, deadlines2 = Del(deadlines, S),
           NEW owners2, owners2 = Del(owners, S),
           NEW leases2, leases2 = Del(leases, S)
    PROVE  LeaseInv(inflight2, deadlines2, owners2, leases2, workers, n)
<1>1. /\ IsHash(deadlines, Nat)
      /\ IsHash(owners, Workers)
      /\ IsHash(leases, Nat)
      /\ DOMAIN owners = inflight
      /\ DOMAIN leases = inflight
    BY DEF LeaseInv
<1>2. /\ IsHash(deadlines2, Nat)
      /\ DOMAIN deadlines2 = DOMAIN deadlines \ S
    BY <1>1 DEF IsHash, Del
<1>3. /\ IsHash(owners2, Workers)
      /\ DOMAIN owners2 = inflight \ S
      /\ \A i \in inflight \ S : owners2[i] = owners[i]
    BY <1>1 DEF IsHash, Del
<1>4. /\ IsHash(leases2, Nat)
      /\ DOMAIN leases2 = inflight \ S
      /\ \A i \in inflight \ S : leases2[i] = leases[i]
    BY <1>1 DEF IsHash, Del
<1> QED
    BY <1>1, <1>2, <1>3, <1>4 DEF LeaseInv

\* How route_task splits the inflight ids of S: those in due are pushed to ready,
\* the others are added to delayed with the scores in later.
Routed(tasks, inflight, S, due, later, t) ==
    /\ S \subseteq inflight
    /\ due \subseteq S
    /\ \A i \in due : tasks[i].ready_at <= t
    /\ IsHash(later, Nat)
    /\ DOMAIN later = S \ due
    /\ \A i \in S \ due : later[i] = tasks[i].ready_at

LEMMA RoutedTasks ==
    ASSUME NEW d, IsHash(d.tasks, Payloads), NEW S, S \subseteq DOMAIN d.tasks,
           S \subseteq d.inflight, NEW t \in Nat, NEW s \in Nat, s <= t
    PROVE  Routed(d.tasks, d.inflight, S, Due(d, S, s),
                  ReadyAt(d.tasks, NotDue(d, S, s)), t)
<1>1. \A i \in S : d.tasks[i].ready_at \in Nat /\ i \in Ids
    BY RedisAssumption DEF IsHash
<1> QED
    BY <1>1 DEF Routed, Due, NotDue, ReadyAt, IsHash

LEMMA BucketRoute ==
    ASSUME NEW tasks, NEW ready, NEW delayed, NEW inflight, NEW t,
           BucketInv(tasks, ready, delayed, inflight, t),
           NEW S, NEW due, NEW later, Routed(tasks, inflight, S, due, later, t),
           NEW ready2, ready2 = ready \cup due,
           NEW delayed2, delayed2 = Put(delayed, later),
           NEW inflight2, inflight2 = inflight \ S
    PROVE  BucketInv(tasks, ready2, delayed2, inflight2, t)
<1>1. IsHash(delayed, Nat)
    BY DEF BucketInv
<1>2. /\ IsHash(delayed2, Nat)
      /\ DOMAIN delayed2 = DOMAIN delayed \cup (S \ due)
      /\ \A i \in S \ due : delayed2[i] = tasks[i].ready_at
      /\ \A i \in DOMAIN delayed \ (S \ due) : delayed2[i] = delayed[i]
    BY <1>1 DEF IsHash, Put, Routed
<1> QED
    BY <1>2 DEF BucketInv, Routed

\* Leases given up: the tasks of S are queued again, the rest is untouched.
LEMMA GiveBackInv ==
    ASSUME NEW d, NEW n \in Nat, NEW t \in Nat, DbInv(d, n, t),
           NEW S, S \subseteq d.inflight, NEW s \in Nat, s <= t, NEW score,
           NEW order \in Numberings(Due(d, S, s), d.sequence, score),
           NEW e, e = GiveBack(d, S, S, s, order)
    PROVE  DbInv(e, n, t) /\ NoNewLease(d, e)
<1>1. /\ HasKeys(e)
      /\ e.tasks = d.tasks
      /\ e.ready = d.ready \cup Due(d, S, s)
      /\ e.ready_order = Put(d.ready_order, order)
      /\ e.delayed = Put(d.delayed, ReadyAt(d.tasks, NotDue(d, S, s)))
      /\ e.inflight = d.inflight \ S
      /\ e.inflight_deadlines = Del(d.inflight_deadlines, S)
      /\ e.inflight_workers = Del(d.inflight_workers, S)
      /\ e.inflight_leases = Del(d.inflight_leases, S)
      /\ e.sequence = d.sequence + Cardinality(Due(d, S, s))
      /\ e.workers = d.workers
      /\ e.paused = d.paused
    BY GiveBackKeys DEF DbInv
<1>2. QueueInv(e.ready, e.ready_order, e.sequence)
    <2>1. Due(d, S, s) \subseteq Ids /\ QueueInv(d.ready, d.ready_order, d.sequence)
        BY DEF DbInv, LeaseInv, Due
    <2> QED
        BY <1>1, <2>1, QueuePush
<1>3. LeaseInv(e.inflight, e.inflight_deadlines, e.inflight_workers,
               e.inflight_leases, e.workers, n)
    BY <1>1, LeaseDrop DEF DbInv
<1>4. BucketInv(e.tasks, e.ready, e.delayed, e.inflight, t)
    <2>1. /\ BucketInv(d.tasks, d.ready, d.delayed, d.inflight, t)
          /\ IsHash(d.tasks, Payloads)
          /\ S \subseteq DOMAIN d.tasks
        BY DEF DbInv, BucketInv
    <2>2. Routed(d.tasks, d.inflight, S, Due(d, S, s), ReadyAt(d.tasks, NotDue(d, S, s)), t)
        BY <2>1, RoutedTasks
    <2> QED
        BY <1>1, <2>1, <2>2, BucketRoute
<1>5. NoNewLease(d, e)
    BY <1>1 DEF DbInv, LeaseInv, NoNewLease, Del
<1> QED
    BY <1>1, <1>2, <1>3, <1>4, <1>5 DEF DbInv

\* Ids that leave delayed for ready.
Promoted(tasks, delayed, P, t) ==
    /\ P \subseteq DOMAIN delayed
    /\ \A i \in P : tasks[i].ready_at <= t

LEMMA BucketPromote ==
    ASSUME NEW tasks, NEW ready, NEW delayed, NEW inflight, NEW t,
           BucketInv(tasks, ready, delayed, inflight, t),
           NEW P, Promoted(tasks, delayed, P, t),
           NEW ready2, ready2 = ready \cup P,
           NEW delayed2, delayed2 = Del(delayed, P)
    PROVE  BucketInv(tasks, ready2, delayed2, inflight, t)
<1>1. IsHash(delayed, Nat)
    BY DEF BucketInv
<1>2. /\ IsHash(delayed2, Nat)
      /\ DOMAIN delayed2 = DOMAIN delayed \ P
      /\ \A i \in DOMAIN delayed \ P : delayed2[i] = delayed[i]
    BY <1>1 DEF IsHash, Del
<1> QED
    BY <1>2 DEF BucketInv, Promoted

\* Promotion of the delayed tasks that are due.
LEMMA PromoteInv ==
    ASSUME NEW d, NEW n \in Nat, NEW t \in Nat, DbInv(d, n, t),
           NEW s \in Nat, s <= t, NEW order \in PromoteOrders(d, s),
           NEW e, e = Promote(d, s, order)
    PROVE  DbInv(e, n, t) /\ NoNewLease(d, e)
<1> DEFINE P == Promotable(d, s)
<1>1. /\ BucketInv(d.tasks, d.ready, d.delayed, d.inflight, t)
      /\ IsHash(d.tasks, Payloads)
      /\ IsHash(d.delayed, Nat)
      /\ P \subseteq DOMAIN d.delayed
      /\ P \subseteq DOMAIN d.tasks
      /\ P \subseteq Ids
    BY DEF DbInv, BucketInv, Promotable, IsHash
<1>2. WithPayload(d, P) = P
    BY <1>1 DEF WithPayload
<1>3. order \in Numberings(P, d.sequence, d.delayed)
    BY <1>2 DEF PromoteOrders
<1>4. Promoted(d.tasks, d.delayed, P, t)
    <2> SUFFICES ASSUME NEW i \in P
                 PROVE  d.tasks[i].ready_at <= t
        BY <1>1 DEF Promoted
    <2>1. d.delayed[i] = d.tasks[i].ready_at /\ d.delayed[i] <= s
        BY <1>1 DEF BucketInv, Promotable
    <2>2. d.tasks[i].ready_at \in Nat
        BY <1>1, RedisAssumption DEF IsHash
    <2> QED
        BY <2>1, <2>2
<1>5. /\ HasKeys(e)
      /\ e.tasks = d.tasks
      /\ e.ready = d.ready \cup WithPayload(d, P)
      /\ e.ready_order = Put(d.ready_order, order)
      /\ e.delayed = Del(d.delayed, P)
      /\ e.inflight = d.inflight
      /\ e.inflight_deadlines = d.inflight_deadlines
      /\ e.inflight_workers = d.inflight_workers
      /\ e.inflight_leases = d.inflight_leases
      /\ e.sequence = d.sequence + Cardinality(WithPayload(d, P))
      /\ e.workers = d.workers
      /\ e.paused = d.paused
    BY PromoteKeys DEF DbInv
<1>6. e.ready = d.ready \cup P /\ e.sequence = d.sequence + Cardinality(P)
    BY <1>2, <1>5
<1> HIDE DEF P
<1>7. QueueInv(e.ready, e.ready_order, e.sequence)
    <2>1. QueueInv(d.ready, d.ready_order, d.sequence)
        BY DEF DbInv
    <2> QED
        BY <1>1, <1>3, <1>5, <1>6, <2>1, QueuePush
<1>8. BucketInv(e.tasks, e.ready, e.delayed, e.inflight, t)
    BY <1>1, <1>4, <1>5, <1>6, BucketPromote
<1> QED
    BY <1>5, <1>7, <1>8 DEF DbInv, NoNewLease

\* The script finds no ready id without a payload.
LEMMA PruneInv ==
    ASSUME NEW d, NEW n, NEW t, DbInv(d, n, t), NEW e, e = Prune(d)
    PROVE  DbInv(e, n, t) /\ NoNewLease(d, e)
<1> DEFINE S == d.ready \ DOMAIN d.tasks
<1>1. e = Unqueue(d, S)
    BY DEF Prune
<1>2. S = {}
    BY DEF DbInv, BucketInv
<1> HIDE DEF S
<1>3. /\ HasKeys(e)
      /\ e.tasks = d.tasks
      /\ e.ready = d.ready \ S
      /\ e.ready_order = Del(d.ready_order, S)
      /\ e.delayed = Del(d.delayed, S)
      /\ e.inflight = d.inflight
      /\ e.inflight_deadlines = d.inflight_deadlines
      /\ e.inflight_workers = d.inflight_workers
      /\ e.inflight_leases = d.inflight_leases
      /\ e.sequence = d.sequence
      /\ e.workers = d.workers
      /\ e.paused = d.paused
    BY <1>1, UnqueueKeys DEF DbInv
<1>4. QueueInv(e.ready, e.ready_order, e.sequence)
    BY <1>3, QueuePop DEF DbInv
<1>5. Promoted(d.tasks, d.delayed, S, t) /\ e.ready = d.ready \cup S
    BY <1>2, <1>3 DEF Promoted
<1>6. BucketInv(e.tasks, e.ready, e.delayed, e.inflight, t)
    BY <1>3, <1>5, BucketPromote DEF DbInv
<1> QED
    BY <1>3, <1>4, <1>6 DEF DbInv, NoNewLease

\* A claim of i for worker w, under a lease m never used before.
Claimed(inflight, deadlines, workers, n, i, w, deadlines2, workers2, m) ==
    /\ i \in Ids /\ i \notin inflight
    /\ w \in Workers
    /\ n \in Nat /\ m = n + 1
    /\ IsHash(deadlines2, Nat)
    /\ DOMAIN deadlines2 = DOMAIN deadlines \cup {j \in {i} : w \in SyncDefined}
    /\ workers2 \subseteq Workers

LEMMA LeaseAdd ==
    ASSUME NEW inflight, NEW deadlines, NEW owners, NEW leases, NEW workers,
           NEW n, LeaseInv(inflight, deadlines, owners, leases, workers, n),
           NEW i, NEW w, NEW deadlines2, NEW workers2, NEW m,
           Claimed(inflight, deadlines, workers, n, i, w, deadlines2, workers2, m),
           NEW inflight2, inflight2 = inflight \cup {i},
           NEW owners2, owners2 = Put(owners, Field(i, w)),
           NEW leases2, leases2 = Put(leases, Field(i, m))
    PROVE  LeaseInv(inflight2, deadlines2, owners2, leases2, workers2, m)
<1> USE DEF Claimed
<1>1. /\ IsHash(owners, Workers)
      /\ IsHash(leases, Nat)
      /\ DOMAIN owners = inflight
      /\ DOMAIN leases = inflight
      /\ \A j \in inflight : leases[j] \in Nat /\ leases[j] <= n
    BY DEF LeaseInv, IsHash
<1>2. /\ IsHash(owners2, Workers)
      /\ DOMAIN owners2 = inflight \cup {i}
      /\ owners2[i] = w
      /\ \A j \in inflight : owners2[j] = owners[j]
    BY <1>1 DEF IsHash, Put, Field
<1>3. /\ IsHash(leases2, Nat)
      /\ DOMAIN leases2 = inflight \cup {i}
      /\ leases2[i] = m
      /\ \A j \in inflight : leases2[j] = leases[j]
    BY <1>1 DEF IsHash, Put, Field
<1>4. m \in Nat /\ \A j \in inflight : leases[j] # m /\ leases[j] <= m
    BY <1>1
<1>5. \A j, k \in inflight : leases[j] = leases[k] => j = k
    BY DEF LeaseInv
<1>6. \A j \in inflight2 : leases2[j] <= m
    BY <1>3, <1>4
<1>7. \A j, k \in inflight2 : leases2[j] = leases2[k] => j = k
    BY <1>3, <1>4, <1>5
<1>8. DOMAIN deadlines2 \subseteq inflight2
    BY DEF LeaseInv
<1>9. \A j \in inflight2 : j \in DOMAIN deadlines2 <=> owners2[j] \in SyncDefined
    BY <1>2 DEF LeaseInv
<1>10. inflight2 \subseteq Ids
    BY DEF LeaseInv
<1> QED
    BY <1>2, <1>3, <1>6, <1>7, <1>8, <1>9, <1>10 DEF LeaseInv

LEMMA BucketClaim ==
    ASSUME NEW tasks, NEW ready, NEW delayed, NEW inflight, NEW t,
           BucketInv(tasks, ready, delayed, inflight, t), NEW i \in ready,
           NEW ready2, ready2 = ready \ {i},
           NEW delayed2, delayed2 = Del(delayed, {i}),
           NEW inflight2, inflight2 = inflight \cup {i}
    PROVE  BucketInv(tasks, ready2, delayed2, inflight2, t)
<1>1. /\ IsHash(delayed2, Nat)
      /\ DOMAIN delayed2 = DOMAIN delayed
      /\ \A j \in DOMAIN delayed : delayed2[j] = delayed[j]
    <2>1. IsHash(delayed, Nat) /\ i \notin DOMAIN delayed
        BY DEF BucketInv
    <2>2. DOMAIN delayed2 = DOMAIN delayed \ {i}
        BY DEF Del
    <2> QED
        BY <2>1, <2>2 DEF IsHash, Del
<1>2. /\ ready2 \cup inflight2 = ready \cup inflight
      /\ ready2 \cap DOMAIN delayed = {}
      /\ ready2 \cap inflight2 = {}
      /\ inflight2 \cap DOMAIN delayed = {}
    BY DEF BucketInv
<1> QED
    BY <1>1, <1>2 DEF BucketInv

\* What the script does before sync_worker_runtime, all it does when that call fails.
LEMMA MoveToInflightInv ==
    ASSUME NEW d, NEW n \in Nat, NEW t \in Nat, DbInv(d, n, t),
           NEW i \in d.ready, NEW w \in Workers \ SyncDefined, NEW m, m = n + 1,
           NEW e, e = MoveToInflight(d, i, w, m)
    PROVE  DbInv(e, m, t) /\ OneNewLease(d, e, i, w, m)
<1>0. HasKeys(d)
    BY DEF DbInv
<1>1. /\ HasKeys(e)
      /\ e.tasks = d.tasks
      /\ e.ready = d.ready \ {i}
      /\ e.ready_order = Del(d.ready_order, {i})
      /\ e.delayed = Del(d.delayed, {i})
      /\ e.inflight = d.inflight \cup {i}
      /\ e.inflight_deadlines = Del(d.inflight_deadlines, {i})
      /\ e.inflight_workers = Put(d.inflight_workers, Field(i, w))
      /\ e.inflight_leases = Put(d.inflight_leases, Field(i, m))
      /\ e.sequence = d.sequence
      /\ e.workers = d.workers
      /\ e.paused = d.paused
    BY <1>0 DEF MoveToInflight, Unqueue, HasKeys
<1>2. QueueInv(e.ready, e.ready_order, e.sequence)
    BY <1>1, QueuePop DEF DbInv
<1>3. LeaseInv(e.inflight, e.inflight_deadlines, e.inflight_workers,
               e.inflight_leases, e.workers, m)
    <2>1. /\ LeaseInv(d.inflight, d.inflight_deadlines, d.inflight_workers,
                      d.inflight_leases, d.workers, n)
          /\ i \in Ids /\ i \notin d.inflight /\ d.workers \subseteq Workers
        BY DEF DbInv, BucketInv, QueueInv, LeaseInv
    <2>2. /\ IsHash(e.inflight_deadlines, Nat)
          /\ DOMAIN e.inflight_deadlines = DOMAIN d.inflight_deadlines
        BY <1>1, <2>1 DEF LeaseInv, IsHash, Del
    <2>3. Claimed(d.inflight, d.inflight_deadlines, d.workers, n, i, w,
                  e.inflight_deadlines, e.workers, m)
        BY <1>1, <2>1, <2>2 DEF Claimed
    <2> QED
        BY <1>1, <2>1, <2>3, LeaseAdd
<1>4. BucketInv(e.tasks, e.ready, e.delayed, e.inflight, t)
    BY <1>1, BucketClaim DEF DbInv
<1>5. OneNewLease(d, e, i, w, m)
    BY <1>1 DEF DbInv, LeaseInv, OneNewLease, Put, Field
<1> QED
    BY <1>1, <1>2, <1>3, <1>4, <1>5 DEF DbInv

\* The whole claim.
LEMMA ClaimInv ==
    ASSUME NEW d, NEW n \in Nat, NEW t \in Nat, DbInv(d, n, t),
           NEW i \in d.ready, NEW w \in SyncDefined, w \in Workers, NEW s \in Nat,
           NEW m, m = n + 1,
           NEW e, e = SetDeadline(SyncWorker(MoveToInflight(d, i, w, m), w), i, s)
    PROVE  DbInv(e, m, t) /\ OneNewLease(d, e, i, w, m)
<1> DEFINE e1 == MoveToInflight(d, i, w, m)
           e2 == SyncWorker(e1, w)
           until == s + LeaseTimeout
<1>0. HasKeys(d) /\ e1 = MoveToInflight(d, i, w, m)
    BY DEF DbInv
<1>1. e = SetDeadline(e2, i, s)
    OBVIOUS
<1> HIDE DEF e1
<1>2. /\ HasKeys(e1)
      /\ e1.tasks = d.tasks
      /\ e1.ready = d.ready \ {i}
      /\ e1.ready_order = Del(d.ready_order, {i})
      /\ e1.delayed = Del(d.delayed, {i})
      /\ e1.inflight = d.inflight \cup {i}
      /\ e1.inflight_deadlines = Del(d.inflight_deadlines, {i})
      /\ e1.inflight_workers = Put(d.inflight_workers, Field(i, w))
      /\ e1.inflight_leases = Put(d.inflight_leases, Field(i, m))
      /\ e1.sequence = d.sequence
      /\ e1.workers = d.workers
      /\ e1.paused = d.paused
    BY <1>0 DEF MoveToInflight, Unqueue, HasKeys
<1>3. /\ HasKeys(e2)
      /\ e2.tasks = e1.tasks
      /\ e2.ready = e1.ready
      /\ e2.ready_order = e1.ready_order
      /\ e2.delayed = e1.delayed
      /\ e2.inflight = e1.inflight
      /\ e2.inflight_deadlines = e1.inflight_deadlines
      /\ e2.inflight_workers = e1.inflight_workers
      /\ e2.inflight_leases = e1.inflight_leases
      /\ e2.sequence = e1.sequence
      /\ e2.workers = e1.workers \cup {w}
      /\ e2.paused = e1.paused
    BY <1>2, SyncWorkerKeys
<1> HIDE DEF e2
<1>4. /\ HasKeys(e)
      /\ e.tasks = e2.tasks
      /\ e.ready = e2.ready
      /\ e.ready_order = e2.ready_order
      /\ e.delayed = e2.delayed
      /\ e.inflight = e2.inflight
      /\ e.inflight_deadlines = Put(e2.inflight_deadlines, Field(i, until))
      /\ e.inflight_workers = e2.inflight_workers
      /\ e.inflight_leases = e2.inflight_leases
      /\ e.sequence = e2.sequence
      /\ e.workers = e2.workers
      /\ e.paused = e2.paused
    BY <1>1, <1>3, SetDeadlineKeys
<1>5. QueueInv(e.ready, e.ready_order, e.sequence)
    BY <1>2, <1>3, <1>4, QueuePop DEF DbInv
<1>6. LeaseInv(e.inflight, e.inflight_deadlines, e.inflight_workers,
               e.inflight_leases, e.workers, m)
    <2>1. /\ LeaseInv(d.inflight, d.inflight_deadlines, d.inflight_workers,
                      d.inflight_leases, d.workers, n)
          /\ i \in Ids /\ i \notin d.inflight
        BY DEF DbInv, BucketInv, QueueInv
    <2>2. until \in Nat
        BY RedisAssumption
    <2> HIDE DEF until
    <2>3. IsHash(e2.inflight_deadlines, Nat)
        BY <1>2, <1>3, <2>1 DEF LeaseInv, IsHash, Del
    <2>4. DOMAIN e2.inflight_deadlines = DOMAIN d.inflight_deadlines \ {i}
        BY <1>2, <1>3 DEF Del
    <2>5. /\ IsHash(e.inflight_deadlines, Nat)
          /\ DOMAIN e.inflight_deadlines = DOMAIN e2.inflight_deadlines \cup {i}
        BY <1>4, <2>1, <2>2, <2>3 DEF IsHash, Put, Field
    <2>6. e.workers \subseteq Workers
        BY <1>2, <1>3, <1>4, <2>1 DEF LeaseInv
    <2>7. DOMAIN e.inflight_deadlines = DOMAIN d.inflight_deadlines \cup {i}
        BY <2>4, <2>5
    <2>8. /\ e.inflight = d.inflight \cup {i}
          /\ e.inflight_workers = Put(d.inflight_workers, Field(i, w))
          /\ e.inflight_leases = Put(d.inflight_leases, Field(i, m))
        BY <1>2, <1>3, <1>4
    <2>9. Claimed(d.inflight, d.inflight_deadlines, d.workers, n, i, w,
                  e.inflight_deadlines, e.workers, m)
        BY <2>1, <2>5, <2>6, <2>7 DEF Claimed
    <2> QED
        BY <2>1, <2>8, <2>9, LeaseAdd
<1>7. BucketInv(e.tasks, e.ready, e.delayed, e.inflight, t)
    BY <1>2, <1>3, <1>4, BucketClaim DEF DbInv
<1>8. OneNewLease(d, e, i, w, m)
    <2>1. /\ e.inflight_workers = Put(d.inflight_workers, Field(i, w))
          /\ e.inflight_leases = Put(d.inflight_leases, Field(i, m))
        BY <1>2, <1>3, <1>4
    <2> QED
        BY <2>1 DEF DbInv, LeaseInv, OneNewLease, Put, Field
<1> QED
    BY <1>2, <1>3, <1>4, <1>5, <1>6, <1>7, <1>8 DEF DbInv

\* The set of registered workers changes.
LEMMA WorkersInv ==
    ASSUME NEW d, NEW n, NEW t, DbInv(d, n, t), NEW e, HasKeys(e),
           e = [d EXCEPT !.workers = e.workers], e.workers \subseteq Workers
    PROVE  DbInv(e, n, t) /\ NoNewLease(d, e)
<1>1. HasKeys(d)
    BY DEF DbInv
<1>2. /\ e.tasks = d.tasks
      /\ e.ready = d.ready
      /\ e.ready_order = d.ready_order
      /\ e.delayed = d.delayed
      /\ e.inflight = d.inflight
      /\ e.inflight_deadlines = d.inflight_deadlines
      /\ e.inflight_workers = d.inflight_workers
      /\ e.inflight_leases = d.inflight_leases
      /\ e.sequence = d.sequence
      /\ e.paused = d.paused
    BY <1>1 DEF HasKeys
<1>3. LeaseInv(e.inflight, e.inflight_deadlines, e.inflight_workers,
               e.inflight_leases, e.workers, n)
    BY <1>2 DEF DbInv, LeaseInv
<1> QED
    BY <1>2, <1>3 DEF DbInv, NoNewLease

LEMMA SyncWorkerInv ==
    ASSUME NEW d, NEW n, NEW t, DbInv(d, n, t), NEW w \in Workers,
           NEW e, e = SyncWorker(d, w)
    PROVE  /\ DbInv(e, n, t)
           /\ NoNewLease(d, e)
           /\ e.tasks = d.tasks
           /\ e.inflight = d.inflight
           /\ e.sequence = d.sequence
<1>1. HasKeys(d) /\ d.workers \subseteq Workers
    BY DEF DbInv, LeaseInv
<1>2. /\ HasKeys(e)
      /\ e = [d EXCEPT !.workers = e.workers]
      /\ e.workers = d.workers \cup {w}
      /\ e.tasks = d.tasks
      /\ e.inflight = d.inflight
      /\ e.sequence = d.sequence
    BY <1>1 DEF SyncWorker, HasKeys
<1> QED
    BY <1>1, <1>2, WorkersInv

LEMMA ClearWorkerIfIdleInv ==
    ASSUME NEW d, NEW n, NEW t, DbInv(d, n, t), NEW w \in Workers,
           NEW e, e = ClearWorkerIfIdle(d, w)
    PROVE  DbInv(e, n, t) /\ NoNewLease(d, e)
<1>1. /\ HasKeys(d)
      /\ d.workers \subseteq Workers
      /\ DOMAIN d.inflight_workers = d.inflight
    BY DEF DbInv, LeaseInv
<1>2. CASE OwnedBy(d, w) = {}
    <2>1. /\ HasKeys(e)
          /\ e = [d EXCEPT !.workers = e.workers]
          /\ e.workers = d.workers \ {w}
        BY <1>1, <1>2 DEF ClearWorkerIfIdle, HasKeys
    <2> QED
        BY <1>1, <2>1, WorkersInv
<1>3. CASE OwnedBy(d, w) # {}
    BY <1>3 DEF ClearWorkerIfIdle, NoNewLease
<1> QED
    BY <1>2, <1>3

\* Completion of the inflight task i: no key keeps a trace of it.
LEMMA ForgetInv ==
    ASSUME NEW d, NEW n, NEW t, DbInv(d, n, t), NEW i, i \in d.inflight,
           NEW e, e = Forget(d, i)
    PROVE  /\ DbInv(e, n, t)
           /\ NoNewLease(d, e)
           /\ DOMAIN e.tasks = DOMAIN d.tasks \ {i}
           /\ e.sequence = d.sequence
<1> DEFINE S == {i}
<1>0. HasKeys(d)
    BY DEF DbInv
<1>1. /\ HasKeys(e)
      /\ e.tasks = Del(d.tasks, S)
      /\ e.ready = d.ready \ S
      /\ e.ready_order = Del(d.ready_order, S)
      /\ e.delayed = Del(d.delayed, S)
      /\ e.inflight = d.inflight \ S
      /\ e.inflight_deadlines = Del(d.inflight_deadlines, S)
      /\ e.inflight_workers = Del(d.inflight_workers, S)
      /\ e.inflight_leases = Del(d.inflight_leases, S)
      /\ e.sequence = d.sequence
      /\ e.workers = d.workers
      /\ e.paused = d.paused
    BY <1>0 DEF Forget, Unqueue, Unlease, HasKeys
<1>2. i \in S /\ S \subseteq {i}
    OBVIOUS
<1> HIDE DEF S
<1>3. QueueInv(e.ready, e.ready_order, e.sequence)
    BY <1>1, QueuePop DEF DbInv
<1>4. LeaseInv(e.inflight, e.inflight_deadlines, e.inflight_workers,
               e.inflight_leases, e.workers, n)
    BY <1>1, LeaseDrop DEF DbInv
<1>5. /\ IsHash(e.tasks, Payloads)
      /\ DOMAIN e.tasks = DOMAIN d.tasks \ S
      /\ \A j \in DOMAIN e.tasks : e.tasks[j] = d.tasks[j]
    BY <1>1 DEF DbInv, BucketInv, IsHash, Del
<1>6. /\ IsHash(e.delayed, Nat)
      /\ DOMAIN e.delayed = DOMAIN d.delayed \ S
      /\ \A j \in DOMAIN e.delayed : e.delayed[j] = d.delayed[j]
    BY <1>1 DEF DbInv, BucketInv, IsHash, Del
<1>7. BucketInv(e.tasks, e.ready, e.delayed, e.inflight, t)
    <2>1. BucketInv(d.tasks, d.ready, d.delayed, d.inflight, t)
        BY DEF DbInv
    <2>2. /\ e.ready \cup DOMAIN e.delayed \cup e.inflight \subseteq DOMAIN e.tasks
          /\ \A j \in DOMAIN e.tasks \ (e.ready \cup DOMAIN e.delayed \cup e.inflight) :
                 ~NullIsAbsent /\ e.tasks[j].ready_at = Immediate
        BY <1>1, <1>5, <1>6, <2>1 DEF BucketInv
    <2>3. \A j \in e.ready \cup e.inflight : e.tasks[j].ready_at <= t
        BY <1>1, <1>5, <2>1, <2>2 DEF BucketInv
    <2>4. \A j \in DOMAIN e.delayed : e.delayed[j] = e.tasks[j].ready_at
        BY <1>5, <1>6, <2>1, <2>2 DEF BucketInv
    <2> QED
        BY <1>1, <1>5, <1>6, <2>1, <2>2, <2>3, <2>4 DEF BucketInv
<1>8. NoNewLease(d, e)
    BY <1>1 DEF DbInv, LeaseInv, NoNewLease, Del
<1> QED
    BY <1>1, <1>2, <1>3, <1>4, <1>5, <1>7, <1>8 DEF DbInv

\* New tasks, under ids the namespace does not use.
LEMMA EnqueueInv ==
    ASSUME NEW d, NEW n, NEW t \in Nat, DbInv(d, n, t),
           NEW payload, IsHash(payload, Payloads),
           DOMAIN payload \cap DOMAIN d.tasks = {}, NEW score,
           NEW order \in Numberings(AtOnce(payload), d.sequence, score),
           NEW e, e = EnqueueTasks(d, payload, order)
    PROVE  DbInv(e, n, t) /\ NoNewLease(d, e)
<1> DEFINE S == AtOnce(payload)
           later == ReadyAt(payload, Postponed(payload))
<1>0. HasKeys(d)
    BY DEF DbInv
<1>1. /\ HasKeys(e)
      /\ e.tasks = Put(d.tasks, payload)
      /\ e.ready = d.ready \cup S
      /\ e.ready_order = Put(d.ready_order, order)
      /\ e.delayed = Put(d.delayed, later)
      /\ e.inflight = d.inflight
      /\ e.inflight_deadlines = d.inflight_deadlines
      /\ e.inflight_workers = d.inflight_workers
      /\ e.inflight_leases = d.inflight_leases
      /\ e.sequence = d.sequence + Cardinality(S)
      /\ e.workers = d.workers
      /\ e.paused = d.paused
    BY <1>0, EnqueueTasksKeys
<1>2. /\ S \subseteq Ids
      /\ \A i \in DOMAIN payload : payload[i].ready_at \in Nat
    BY RedisAssumption DEF AtOnce, IsHash
<1>3. /\ S \subseteq DOMAIN payload
      /\ \A i \in S : payload[i].ready_at = 0
    BY DEF AtOnce, Immediate
<1>4. /\ DOMAIN later = DOMAIN payload \ S
      /\ IsHash(later, Nat)
      /\ \A i \in DOMAIN payload \ S : later[i] = payload[i].ready_at
    BY <1>2 DEF ReadyAt, Postponed, IsHash
<1> HIDE DEF S, later
<1>5. QueueInv(e.ready, e.ready_order, e.sequence)
    <2>1. QueueInv(d.ready, d.ready_order, d.sequence)
        BY DEF DbInv
    <2>2. order \in Numberings(S, d.sequence, score)
        BY DEF S
    <2> QED
        BY <1>1, <1>2, <2>1, <2>2, QueuePush
<1>6. /\ IsHash(e.tasks, Payloads)
      /\ DOMAIN e.tasks = DOMAIN d.tasks \cup DOMAIN payload
      /\ \A i \in DOMAIN payload : e.tasks[i] = payload[i]
      /\ \A i \in DOMAIN d.tasks : e.tasks[i] = d.tasks[i]
    BY <1>1 DEF DbInv, BucketInv, IsHash, Put
<1>7. /\ IsHash(e.delayed, Nat)
      /\ DOMAIN e.delayed = DOMAIN d.delayed \cup (DOMAIN payload \ S)
      /\ \A i \in DOMAIN payload \ S : e.delayed[i] = payload[i].ready_at
      /\ \A i \in DOMAIN d.delayed \ DOMAIN payload : e.delayed[i] = d.delayed[i]
    BY <1>1, <1>4 DEF DbInv, BucketInv, IsHash, Put
<1>8. BucketInv(e.tasks, e.ready, e.delayed, e.inflight, t)
    <2>1. BucketInv(d.tasks, d.ready, d.delayed, d.inflight, t)
        BY DEF DbInv
    <2>2. DOMAIN payload \cap (d.ready \cup d.inflight \cup DOMAIN d.delayed) = {}
        BY <2>1 DEF BucketInv
    <2>3. /\ e.ready \cup DOMAIN e.delayed \cup e.inflight \subseteq DOMAIN e.tasks
          /\ \A j \in DOMAIN e.tasks \ (e.ready \cup DOMAIN e.delayed \cup e.inflight) :
                 ~NullIsAbsent /\ e.tasks[j].ready_at = Immediate
        BY <1>1, <1>3, <1>6, <1>7, <2>1 DEF BucketInv
    <2>4. /\ e.ready \cap DOMAIN e.delayed = {}
          /\ e.ready \cap e.inflight = {}
          /\ e.inflight \cap DOMAIN e.delayed = {}
        BY <1>1, <1>3, <1>7, <2>1, <2>2 DEF BucketInv
    <2>5. \A i \in e.ready \cup e.inflight : e.tasks[i].ready_at <= t
        BY <1>1, <1>3, <1>6, <2>1 DEF BucketInv
    <2>6. \A i \in DOMAIN e.delayed : e.delayed[i] = e.tasks[i].ready_at
        BY <1>6, <1>7, <2>1, <2>2 DEF BucketInv
    <2> QED
        BY <1>6, <1>7, <2>3, <2>4, <2>5, <2>6 DEF BucketInv
<1> QED
    BY <1>1, <1>5, <1>8 DEF DbInv, NoNewLease

\* Requeue also clears the queues, where an inflight id has nothing.
LEMMA UnqueueNothing ==
    ASSUME NEW d, NEW n, NEW t, DbInv(d, n, t), NEW S, S \subseteq d.inflight,
           NEW u, u = Unlease(d, S)
    PROVE  Unqueue(u, S) = u
<1> DEFINE v == Unqueue(u, S)
<1>1. HasKeys(d)
    BY DEF DbInv
<1>2. /\ HasKeys(u)
      /\ u.ready = d.ready
      /\ u.ready_order = d.ready_order
      /\ u.delayed = d.delayed
    BY <1>1, UnleaseKeys
<1>3. /\ d.ready \ S = d.ready
      /\ Del(d.ready_order, S) = d.ready_order
      /\ Del(d.delayed, S) = d.delayed
    <2>1. /\ S \cap d.ready = {}
          /\ S \cap DOMAIN d.delayed = {}
          /\ DOMAIN d.ready_order = d.ready
          /\ d.ready_order \in [DOMAIN d.ready_order -> Nat]
          /\ d.delayed \in [DOMAIN d.delayed -> Nat]
        BY DEF DbInv, QueueInv, BucketInv, IsHash
    <2> QED
        BY <2>1 DEF Del
<1>4. v = [u EXCEPT !.ready = u.ready \ S,
                    !.ready_order = Del(u.ready_order, S),
                    !.delayed = Del(u.delayed, S)]
    BY DEF Unqueue
<1>5. v = [u EXCEPT !.ready = u.ready, !.ready_order = u.ready_order,
                    !.delayed = u.delayed]
    BY <1>2, <1>3, <1>4
<1> HIDE DEF v
<1>6. v = u
    BY <1>2, <1>5 DEF HasKeys
<1> QED
    BY <1>6 DEF v

LEMMA RequeueInv ==
    ASSUME NEW d, NEW n \in Nat, NEW t \in Nat, DbInv(d, n, t),
           NEW S, S \subseteq d.inflight, NEW s \in Nat, s <= t, NEW score,
           NEW order \in Numberings(Due(d, S, s), d.sequence, score),
           NEW e, e = RouteTasks(Unqueue(Unlease(d, S), S), S, s, order)
    PROVE  DbInv(e, n, t) /\ NoNewLease(d, e)
<1>1. e = GiveBack(d, S, S, s, order)
    BY UnqueueNothing DEF GiveBack
<1> QED
    BY <1>1, GiveBackInv

\* Leases given up without a bucket for their tasks: what is left of the tasks
\* when route_task fails on their null.
LEMMA UnleaseInv ==
    ASSUME NEW d, NEW n, NEW t, DbInv(d, n, t), NEW S,
           \A i \in S : ~NullIsAbsent /\ d.tasks[i].ready_at = Immediate,
           NEW e, e = Unlease(d, S)
    PROVE  DbInv(e, n, t) /\ NoNewLease(d, e)
<1>1. HasKeys(d)
    BY DEF DbInv
<1>2. /\ HasKeys(e)
      /\ e.tasks = d.tasks
      /\ e.ready = d.ready
      /\ e.ready_order = d.ready_order
      /\ e.delayed = d.delayed
      /\ e.inflight = d.inflight \ S
      /\ e.inflight_deadlines = Del(d.inflight_deadlines, S)
      /\ e.inflight_workers = Del(d.inflight_workers, S)
      /\ e.inflight_leases = Del(d.inflight_leases, S)
      /\ e.sequence = d.sequence
      /\ e.workers = d.workers
      /\ e.paused = d.paused
    BY <1>1 DEF Unlease, HasKeys
<1>3. LeaseInv(e.inflight, e.inflight_deadlines, e.inflight_workers,
               e.inflight_leases, e.workers, n)
    BY <1>2, LeaseDrop DEF DbInv
<1>4. BucketInv(e.tasks, e.ready, e.delayed, e.inflight, t)
    BY <1>2 DEF DbInv, BucketInv
<1>5. NoNewLease(d, e)
    BY <1>2 DEF DbInv, LeaseInv, NoNewLease, Del
<1> QED
    BY <1>2, <1>3, <1>4, <1>5 DEF DbInv

\* A heartbeat moves the deadline of an inflight task.
LEMMA SetDeadlineInv ==
    ASSUME NEW d, NEW n, NEW t, DbInv(d, n, t), NEW i, i \in d.inflight, NEW s \in Nat,
           d.inflight_workers[i] \in SyncDefined,
           NEW e, e = SetDeadline(d, i, s)
    PROVE  DbInv(e, n, t) /\ NoNewLease(d, e)
<1> DEFINE until == s + LeaseTimeout
<1>1. until \in Nat
    BY RedisAssumption
<1>2. HasKeys(d)
    BY DEF DbInv
<1>3. /\ HasKeys(e)
      /\ e.tasks = d.tasks
      /\ e.ready = d.ready
      /\ e.ready_order = d.ready_order
      /\ e.delayed = d.delayed
      /\ e.inflight = d.inflight
      /\ e.inflight_deadlines = Put(d.inflight_deadlines, Field(i, until))
      /\ e.inflight_workers = d.inflight_workers
      /\ e.inflight_leases = d.inflight_leases
      /\ e.sequence = d.sequence
      /\ e.workers = d.workers
      /\ e.paused = d.paused
    BY <1>2 DEF SetDeadline, HasKeys
<1> HIDE DEF until
<1>4. /\ IsHash(e.inflight_deadlines, Nat)
      /\ DOMAIN e.inflight_deadlines = DOMAIN d.inflight_deadlines \cup {i}
    <2>1. i \in Ids /\ IsHash(d.inflight_deadlines, Nat)
        BY DEF DbInv, LeaseInv
    <2> QED
        BY <1>1, <1>3, <2>1 DEF IsHash, Put, Field
<1>5. LeaseInv(e.inflight, e.inflight_deadlines, e.inflight_workers,
               e.inflight_leases, e.workers, n)
    BY <1>3, <1>4 DEF DbInv, LeaseInv
<1> QED
    BY <1>3, <1>5 DEF DbInv, NoNewLease

\* The reclaim that opens a claim, a count, a checkpoint and a snapshot.
LEMMA ReclaimInv ==
    ASSUME NEW d, NEW n \in Nat, NEW t \in Nat, DbInv(d, n, t),
           NEW s \in Nat, s <= t, NEW order \in ReclaimOrders(d, s),
           NEW e, e = Reclaim(d, s, order)
    PROVE  DbInv(e, n, t) /\ NoNewLease(d, e)
<1> DEFINE S == Expired(d, s)
<1>1. S \subseteq d.inflight /\ S \subseteq DOMAIN d.tasks
    BY DEF Expired, DbInv, LeaseInv, BucketInv
<1>2. WithPayload(d, S) = S
    BY <1>1 DEF WithPayload
<1>3. /\ order \in Numberings(Due(d, S, s), d.sequence, d.inflight_deadlines)
      /\ e = GiveBack(d, S, S, s, order)
    BY <1>2 DEF ReclaimOrders, Reclaim
<1> HIDE DEF S
<1> QED
    BY <1>1, <1>3, GiveBackInv

\* A release of inflight tasks: each of them has its payload.
LEMMA ReleaseInv ==
    ASSUME NEW d, NEW n \in Nat, NEW t \in Nat, DbInv(d, n, t),
           NEW S, S \subseteq d.inflight, NEW back, back = WithPayload(d, S),
           NEW s \in Nat, s <= t, NEW score,
           NEW order \in Numberings(Due(d, back, s), d.sequence, score),
           NEW e, e = GiveBack(d, S, back, s, order)
    PROVE  DbInv(e, n, t) /\ NoNewLease(d, e)
<1>1. back = S
    BY DEF WithPayload, DbInv, BucketInv
<1> QED
    BY <1>1, GiveBackInv

LEMMA NoNewLeaseTrans ==
    ASSUME NEW d, NEW e, NEW f, NoNewLease(d, e), NoNewLease(e, f)
    PROVE  NoNewLease(d, f)
BY DEF NoNewLease

\* A loop over inflight ids that fails at the first one without a ready_at.
LEMMA StopsAtNullInv ==
    ASSUME NEW d, NEW n \in Nat, NEW t \in Nat, DbInv(d, n, t),
           NEW S, S \subseteq d.inflight, NEW back, back = WithPayload(d, S),
           NEW s \in Nat, s <= t, NEW score, NEW e, StopsAtNull(d, S, back, score, s, e)
    PROVE  DbInv(e, n, t) /\ NoNewLease(d, e)
<1>1. back = S
    BY DEF WithPayload, DbInv, BucketInv
<1>2. PICK i \in Unroutable(d, back), before \in SUBSET (S \ Unroutable(d, back)) :
          \E order \in Numberings(Due(d, back \cap before, s), d.sequence, score) :
              e = Unlease(GiveBack(d, before, back \cap before, s, order), {i})
    BY DEF StopsAtNull
<1>3. before \subseteq d.inflight /\ back \cap before = before
    BY <1>1, <1>2
<1>4. ~NullIsAbsent /\ d.tasks[i].ready_at = Immediate
    BY <1>2 DEF Unroutable
<1>5. PICK order \in Numberings(Due(d, before, s), d.sequence, score) :
          e = Unlease(GiveBack(d, before, before, s, order), {i})
    BY <1>2, <1>3
<1> DEFINE g == GiveBack(d, before, before, s, order)
           one == {i}
<1>6. /\ g = GiveBack(d, before, before, s, order) /\ e = Unlease(g, one)
      /\ \A j \in one : j = i
    BY <1>5
<1> HIDE DEF g, one
<1>7. DbInv(g, n, t) /\ NoNewLease(d, g)
    BY <1>3, <1>5, <1>6, GiveBackInv
<1>8. g.tasks = d.tasks
    BY <1>6, GiveBackKeys DEF DbInv
<1>9. DbInv(e, n, t) /\ NoNewLease(g, e)
    BY <1>4, <1>6, <1>7, <1>8, UnleaseInv
<1> QED
    BY <1>7, <1>9, NoNewLeaseTrans

-----------------------------------------------------------------------------
(* What the processes know. *)

\* Leases in the hands of a process were generated before, one that is in force is
\* in the hands of its owner only, and a claim script that fails hands none out.
HeldInv(d, h, n) ==
    /\ h \in [Workers -> SUBSET Lease]
    /\ \A w \in Workers \ SyncDefined : h[w] = {}
    /\ \A w \in Workers : \A lease \in h[w] :
          /\ lease[2] <= n
          /\ lease[1] \in DOMAIN d.inflight_leases
             /\ d.inflight_leases[lease[1]] = lease[2]
             => d.inflight_workers[lease[1]] = w

HeldLess(h, h2) ==
    /\ h2 \in [Workers -> SUBSET Lease]
    /\ \A w \in Workers : h2[w] \subseteq h[w]

LEMMA HeldKept ==
    ASSUME NEW d, NEW h, NEW n, HeldInv(d, h, n), NEW e, NoNewLease(d, e),
           NEW h2, HeldLess(h, h2)
    PROVE  HeldInv(e, h2, n)
BY DEF HeldInv, HeldLess, NoNewLease

LEMMA HeldClaim ==
    ASSUME NEW d, NEW h, NEW n \in Nat, HeldInv(d, h, n), NEW e, NEW i \in Ids,
           NEW w \in Workers, NEW m, m = n + 1, OneNewLease(d, e, i, w, m),
           NEW h2, \/ h2 = h
                   \/ w \in SyncDefined /\ h2 = [h EXCEPT ![w] = @ \cup {<<i, m>>}]
    PROVE  HeldInv(e, h2, m)
<1>1. \A v \in Workers : \A lease \in h[v] :
          /\ lease \in Lease
          /\ lease[2] \in Nat
          /\ lease[2] <= n
          /\ lease[1] \in DOMAIN d.inflight_leases
             /\ d.inflight_leases[lease[1]] = lease[2]
             => d.inflight_workers[lease[1]] = v
    BY DEF HeldInv, Lease
<1>2. \A v \in Workers : \A lease \in h[v] :
          /\ lease[2] <= m
          /\ lease[1] \in DOMAIN e.inflight_leases
             /\ e.inflight_leases[lease[1]] = lease[2]
             => e.inflight_workers[lease[1]] = v
    <2> SUFFICES ASSUME NEW v \in Workers, NEW lease \in h[v]
                 PROVE  /\ lease[2] <= m
                        /\ lease[1] \in DOMAIN e.inflight_leases
                           /\ e.inflight_leases[lease[1]] = lease[2]
                           => e.inflight_workers[lease[1]] = v
        OBVIOUS
    <2>1. lease[2] <= m /\ lease[2] # m
        BY <1>1
    <2> QED
        BY <1>1, <2>1 DEF OneNewLease
<1>3. <<i, m>> \in Lease
    BY DEF Lease
<1>4. CASE h2 = h
    BY <1>2, <1>4 DEF HeldInv
<1>5. CASE w \in SyncDefined /\ h2 = [h EXCEPT ![w] = @ \cup {<<i, m>>}]
    <2>1. h \in [Workers -> SUBSET Lease]
        BY DEF HeldInv
    <2>2. h2 \in [Workers -> SUBSET Lease]
        BY <1>3, <1>5, <2>1
    <2>3. \A v \in Workers : \A lease \in h2[v] :
              lease \in h[v] \/ (v = w /\ lease = <<i, m>>)
        BY <1>5, <2>1
    <2>4. /\ m <= m
          /\ i \in DOMAIN e.inflight_leases => e.inflight_workers[i] = w
        BY DEF OneNewLease
    <2>5. \A v \in Workers \ SyncDefined : h2[v] = {}
        BY <1>5, <2>1 DEF HeldInv
    <2> QED
        BY <1>2, <2>2, <2>3, <2>4, <2>5 DEF HeldInv
<1> QED
    BY <1>4, <1>5

-----------------------------------------------------------------------------
(* The inductive invariant. *)

IInv ==
    /\ now \in Nat
    /\ issued \in Nat
    /\ DbInv(db, issued, now)
    /\ HeldInv(db, held, issued)

LEMMA IInvInit == Init => IInv
<1> SUFFICES ASSUME Init
             PROVE  IInv
    OBVIOUS
<1>1. /\ HasKeys(db)
      /\ db.ready = {} /\ db.inflight = {} /\ db.workers = {}
      /\ db.sequence = 0 /\ db.paused = FALSE
      /\ db.tasks = NoFields /\ db.ready_order = NoFields /\ db.delayed = NoFields
      /\ db.inflight_deadlines = NoFields /\ db.inflight_workers = NoFields
      /\ db.inflight_leases = NoFields
    BY DEF Init, EmptyKeySpace, HasKeys
<1>2. DOMAIN NoFields = {}
    BY DEF NoFields
<1>3. IsHash(NoFields, Nat) /\ IsHash(NoFields, Workers) /\ IsHash(NoFields, Payloads)
    BY DEF NoFields, IsHash
<1>4. QueueInv(db.ready, db.ready_order, db.sequence)
    BY <1>1, <1>2, <1>3 DEF QueueInv
<1>5. LeaseInv(db.inflight, db.inflight_deadlines, db.inflight_workers,
               db.inflight_leases, db.workers, 0)
    BY <1>1, <1>2, <1>3 DEF LeaseInv
<1>6. BucketInv(db.tasks, db.ready, db.delayed, db.inflight, 0)
    BY <1>1, <1>2, <1>3 DEF BucketInv
<1>7. HeldInv(db, held, 0)
    BY DEF HeldInv, Init
<1> QED
    BY <1>1, <1>4, <1>5, <1>6, <1>7 DEF Init, IInv, DbInv

\* Time passes: what was due stays due.
LEMMA DbLater ==
    ASSUME NEW d, NEW n, NEW t \in Nat, NEW t2 \in Nat, t <= t2, DbInv(d, n, t)
    PROVE  DbInv(d, n, t2)
<1>1. BucketInv(d.tasks, d.ready, d.delayed, d.inflight, t)
    BY DEF DbInv
<1>2. \A i \in DOMAIN d.tasks : d.tasks[i].ready_at \in Nat
    BY <1>1, RedisAssumption DEF BucketInv, IsHash
<1>3. BucketInv(d.tasks, d.ready, d.delayed, d.inflight, t2)
    BY <1>1, <1>2 DEF BucketInv
<1> QED
    BY <1>3 DEF DbInv

\* A step that leaves the clock and the lease ids alone.
LEMMA IInvKept ==
    ASSUME IInv, DbInv(db', issued, now), NoNewLease(db, db'), HeldLess(held, held'),
           UNCHANGED <<now, issued>>
    PROVE  IInv'
<1>1. HeldInv(db', held', issued)
    BY HeldKept DEF IInv
<1> QED
    BY <1>1 DEF IInv

LEMMA DropLess ==
    ASSUME IInv, NEW w \in Workers, NEW lease, held' = Drop(w, lease)
    PROVE  HeldLess(held, held')
BY DEF IInv, HeldInv, HeldLess, Drop

LEMMA SameLess ==
    ASSUME IInv, held' = held
    PROVE  HeldLess(held, held')
BY DEF IInv, HeldInv, HeldLess

\* The lease ids and the clock as the lemmas about the scripts take them.
LEMMA ReadingType ==
    ASSUME IInv, NEW t \in Reading
    PROVE  now \in Nat /\ issued \in Nat /\ t \in Nat /\ t <= now
BY DEF IInv, Reading

-----------------------------------------------------------------------------
(* One lemma per action. *)

LEMMA EnqueueStep ==
    ASSUME IInv, ~IdsCollide, NEW i \in Ids, NEW p \in Payloads, Enqueue(i, p)
    PROVE  IInv'
<1> DEFINE payload == Field(i, p)
<1>1. i \notin DOMAIN db.tasks
    BY DEF Enqueue, Submittable
<1>2. IsHash(payload, Payloads) /\ DOMAIN payload = {i}
    BY DEF IsHash, Field
<1>3. PICK order \in Numberings(AtOnce(payload), db.sequence, NoScore) :
          db' = EnqueueTasks(db, payload, order)
    BY DEF Enqueue
<1> HIDE DEF payload
<1>4. DbInv(db', issued, now) /\ NoNewLease(db, db')
    BY <1>1, <1>2, <1>3, EnqueueInv DEF IInv
<1> QED
    BY <1>4, SameLess, IInvKept DEF Enqueue

LEMMA TakeReadyStep ==
    ASSUME IInv, NEW w \in Workers, NEW t \in Reading, TakeReady(w, t)
    PROVE  IInv'
<1>1. /\ now \in Nat /\ issued \in Nat /\ t \in Nat /\ t <= now
      /\ DbInv(db, issued, now)
      /\ HeldInv(db, held, issued)
      /\ now' = now
    BY ReadingType DEF IInv, TakeReady
<1> DEFINE n == issued + 1
           d1(o1) == Reclaim(db, t, o1)
           d2(o1, o2) == Promote(d1(o1), t, o2)
           d3(o1, o2) == Prune(d2(o1, o2))
<1>2. PICK o1 \in ReclaimOrders(db, t) : \E o2 \in PromoteOrders(d1(o1), t) :
          \/ db' = d2(o1, o2) /\ UNCHANGED <<held, issued>>
          \/ db' = d3(o1, o2) /\ UNCHANGED <<held, issued>>
          \/ /\ w \in SyncDefined
             /\ \E i \in Best(d3(o1, o2)) :
                   /\ db' = SetDeadline(
                               SyncWorker(MoveToInflight(d3(o1, o2), i, w, n), w), i, t)
                   /\ held' \in {held, [held EXCEPT ![w] = @ \cup {<<i, n>>}]}
             /\ issued' = n
          \/ /\ w \notin SyncDefined
             /\ \E i \in Best(d3(o1, o2)) : db' = MoveToInflight(d3(o1, o2), i, w, n)
             /\ issued' = n
             /\ UNCHANGED held
    BY DEF TakeReady
<1> DEFINE e1 == d1(o1)
<1>3. DbInv(e1, issued, now) /\ NoNewLease(db, e1)
    BY <1>1, ReclaimInv
<1>4. PICK o2 \in PromoteOrders(e1, t) :
          \/ db' = d2(o1, o2) /\ UNCHANGED <<held, issued>>
          \/ db' = d3(o1, o2) /\ UNCHANGED <<held, issued>>
          \/ /\ w \in SyncDefined
             /\ \E i \in Best(d3(o1, o2)) :
                   /\ db' = SetDeadline(
                               SyncWorker(MoveToInflight(d3(o1, o2), i, w, n), w), i, t)
                   /\ held' \in {held, [held EXCEPT ![w] = @ \cup {<<i, n>>}]}
             /\ issued' = n
          \/ /\ w \notin SyncDefined
             /\ \E i \in Best(d3(o1, o2)) : db' = MoveToInflight(d3(o1, o2), i, w, n)
             /\ issued' = n
             /\ UNCHANGED held
    BY <1>2
<1> DEFINE e2 == d2(o1, o2)
           e3 == d3(o1, o2)
<1>5. e2 = Promote(e1, t, o2) /\ e3 = Prune(e2)
    OBVIOUS
<1>6. \/ db' = e2 /\ UNCHANGED <<held, issued>>
      \/ db' = e3 /\ UNCHANGED <<held, issued>>
      \/ /\ w \in SyncDefined
         /\ \E i \in Best(e3) :
               /\ db' = SetDeadline(SyncWorker(MoveToInflight(e3, i, w, n), w), i, t)
               /\ held' \in {held, [held EXCEPT ![w] = @ \cup {<<i, n>>}]}
         /\ issued' = n
      \/ /\ w \notin SyncDefined
         /\ \E i \in Best(e3) : db' = MoveToInflight(e3, i, w, n)
         /\ issued' = n
         /\ UNCHANGED held
    BY <1>4
<1> HIDE DEF e1, e2, e3, d1, d2, d3
<1>7. DbInv(e2, issued, now) /\ NoNewLease(e1, e2)
    BY <1>1, <1>3, <1>4, <1>5, PromoteInv
<1>8. DbInv(e3, issued, now) /\ NoNewLease(e2, e3)
    BY <1>5, <1>7, PruneInv
<1>9. NoNewLease(db, e2) /\ NoNewLease(db, e3)
    BY <1>3, <1>7, <1>8, NoNewLeaseTrans
<1>10. HeldLess(held, held)
    BY <1>1 DEF HeldInv, HeldLess
<1>11. HeldInv(e3, held, issued)
    BY <1>1, <1>9, <1>10, HeldKept
<1>12. \A i \in Best(e3) : i \in e3.ready /\ i \in Ids
    BY <1>8 DEF Best, DbInv, QueueInv
<1>13. n \in Nat /\ n = issued + 1
    BY <1>1
<1> HIDE DEF n
<1>14. CASE db' = e2 /\ UNCHANGED <<held, issued>>
    BY <1>1, <1>7, <1>9, <1>14, SameLess, IInvKept
<1>15. CASE db' = e3 /\ UNCHANGED <<held, issued>>
    BY <1>1, <1>8, <1>9, <1>15, SameLess, IInvKept
<1>16. ASSUME w \in SyncDefined, NEW i \in Best(e3),
              db' = SetDeadline(SyncWorker(MoveToInflight(e3, i, w, n), w), i, t),
              held' \in {held, [held EXCEPT ![w] = @ \cup {<<i, n>>}]},
              issued' = n
       PROVE  IInv'
    <2>1. DbInv(db', n, now) /\ OneNewLease(e3, db', i, w, n)
        BY <1>1, <1>8, <1>12, <1>13, <1>16, ClaimInv
    <2>2. HeldInv(db', held', n)
        BY <1>1, <1>11, <1>12, <1>13, <1>16, <2>1, HeldClaim
    <2> QED
        BY <1>1, <1>13, <1>16, <2>1, <2>2 DEF IInv
<1>17. ASSUME w \notin SyncDefined, NEW i \in Best(e3),
              db' = MoveToInflight(e3, i, w, n), held' = held, issued' = n
       PROVE  IInv'
    <2>1. DbInv(db', n, now) /\ OneNewLease(e3, db', i, w, n)
        BY <1>1, <1>8, <1>12, <1>13, <1>17, MoveToInflightInv
    <2>2. HeldInv(db', held', n)
        BY <1>1, <1>11, <1>12, <1>13, <1>17, <2>1, HeldClaim
    <2> QED
        BY <1>1, <1>13, <1>17, <2>1, <2>2 DEF IInv
<1> QED
    BY <1>6, <1>14, <1>15, <1>16, <1>17

\* What a resolving script finds under a lease in force.
LEMMA LiveInflight ==
    ASSUME NEW d, NEW n, NEW t, DbInv(d, n, t), NEW w, NEW lease, Live(d, w, lease)
    PROVE  lease[1] \in d.inflight /\ lease[1] \in DOMAIN d.tasks
BY DEF Live, DbInv, LeaseInv, BucketInv

LEMMA CompleteStep ==
    ASSUME IInv, NEW w \in Workers, NEW lease, Complete(w, lease)
    PROVE  IInv'
<1> DEFINE i == lease[1]
           d == SyncWorker(db, w)
<1>1. i \in db.inflight
    BY LiveInflight DEF Complete, IInv
<1>2. DbInv(d, issued, now) /\ NoNewLease(db, d) /\ d.inflight = db.inflight
    BY SyncWorkerInv DEF IInv
<1>3. db' = Forget(d, i)
    BY DEF Complete
<1> HIDE DEF i, d
<1>4. DbInv(db', issued, now) /\ NoNewLease(d, db')
    BY <1>1, <1>2, <1>3, ForgetInv
<1> QED
    BY <1>2, <1>4, NoNewLeaseTrans, DropLess, IInvKept DEF Complete

LEMMA CompleteAndEnqueueStep ==
    ASSUME IInv, ~IdsCollide, NEW w \in Workers, NEW lease, CompleteAndEnqueue(w, lease)
    PROVE  IInv'
<1> DEFINE i == lease[1]
           c == SyncWorker(db, w)
           d == Forget(c, i)
<1>1. i \in db.inflight
    BY LiveInflight DEF CompleteAndEnqueue, IInv
<1>2. DbInv(c, issued, now) /\ NoNewLease(db, c) /\ c.inflight = db.inflight
      /\ c.tasks = db.tasks
    BY SyncWorkerInv DEF IInv
<1>3. PICK S \in SUBSET Submittable({i}) \ {{}} : \E payload \in [S -> Payloads] :
          \E order \in Numberings(AtOnce(payload), d.sequence, NoScore) :
              db' = EnqueueTasks(d, payload, order)
    BY DEF CompleteAndEnqueue
<1>4. PICK payload \in [S -> Payloads] :
          \E order \in Numberings(AtOnce(payload), d.sequence, NoScore) :
              db' = EnqueueTasks(d, payload, order)
    BY <1>3
<1>5. PICK order \in Numberings(AtOnce(payload), d.sequence, NoScore) :
          db' = EnqueueTasks(d, payload, order)
    BY <1>4
<1>6. d = Forget(c, i)
    OBVIOUS
<1>7. i \in Ids
    BY <1>1 DEF IInv, DbInv, LeaseInv
<1>8. S \subseteq (Ids \ DOMAIN db.tasks) \cup {i}
    BY <1>3 DEF Submittable
<1> HIDE DEF i, c, d
<1>9. /\ DbInv(d, issued, now)
      /\ NoNewLease(c, d)
      /\ DOMAIN d.tasks = DOMAIN c.tasks \ {i}
    BY <1>1, <1>2, <1>6, ForgetInv
<1>10. /\ IsHash(payload, Payloads)
       /\ DOMAIN payload \cap DOMAIN d.tasks = {}
    BY <1>2, <1>4, <1>7, <1>8, <1>9 DEF IsHash
<1>11. DbInv(db', issued, now) /\ NoNewLease(d, db')
    BY <1>5, <1>9, <1>10, EnqueueInv DEF IInv
<1>12. NoNewLease(db, db')
    BY <1>2, <1>9, <1>11, NoNewLeaseTrans
<1> QED
    BY <1>11, <1>12, DropLess, IInvKept DEF CompleteAndEnqueue

LEMMA RequeueStep ==
    ASSUME IInv, NEW w \in Workers, NEW lease, NEW t \in Reading, Requeue(w, lease, t)
    PROVE  IInv'
<1> DEFINE S == {lease[1]}
           back == WithPayload(db, S)
           c == SyncWorker(db, w)
<1>1. /\ now \in Nat /\ issued \in Nat /\ t \in Nat /\ t <= now
      /\ DbInv(db, issued, now)
    BY ReadingType DEF IInv
<1>2. S \subseteq db.inflight /\ back = S
    <2>1. lease[1] \in db.inflight /\ lease[1] \in DOMAIN db.tasks
        BY <1>1, LiveInflight DEF Requeue
    <2> QED
        BY <2>1 DEF WithPayload
<1>3. PICK order \in Numberings(Due(db, back, t), db.sequence, NoScore) :
          db' = RouteTasks(Unqueue(Unlease(c, S), S), back, t, order)
    BY DEF Requeue
<1>4. c = SyncWorker(db, w)
    OBVIOUS
<1> HIDE DEF S, back, c
<1>5. /\ DbInv(c, issued, now)
      /\ NoNewLease(db, c)
      /\ c.inflight = db.inflight
      /\ c.tasks = db.tasks
      /\ c.sequence = db.sequence
    BY <1>1, <1>4, SyncWorkerInv
<1>6. Due(c, S, t) = Due(db, back, t)
    BY <1>2, <1>5 DEF Due
<1>7. /\ order \in Numberings(Due(c, S, t), c.sequence, NoScore)
      /\ db' = RouteTasks(Unqueue(Unlease(c, S), S), S, t, order)
    BY <1>2, <1>3, <1>5, <1>6
<1>8. DbInv(db', issued, now) /\ NoNewLease(c, db')
    BY <1>1, <1>2, <1>5, <1>7, RequeueInv
<1> QED
    BY <1>5, <1>8, NoNewLeaseTrans, DropLess, IInvKept DEF Requeue

LEMMA HeartbeatStep ==
    ASSUME IInv, NEW w \in Workers, NEW lease, NEW t \in Reading, Heartbeat(w, lease, t)
    PROVE  IInv'
<1> DEFINE i == lease[1]
           c == SetDeadline(db, i, t)
<1>1. /\ now \in Nat /\ issued \in Nat /\ t \in Nat /\ t <= now
      /\ DbInv(db, issued, now)
    BY ReadingType DEF IInv
<1>2. i \in db.inflight
    BY <1>1, LiveInflight DEF Heartbeat
<1>3. db' = SyncWorker(c, w) /\ held' = held /\ UNCHANGED <<now, issued>>
    BY <1>2 DEF Heartbeat
<1>4. c = SetDeadline(db, i, t)
    OBVIOUS
<1> HIDE DEF i, c
<1>5. DbInv(c, issued, now) /\ NoNewLease(db, c)
    <2>1. db.inflight_workers[i] = w
        BY DEF Heartbeat, Live, i
    <2>2. w \in SyncDefined
        BY DEF Heartbeat, IInv, HeldInv
    <2> QED BY <1>1, <1>2, <1>4, <2>1, <2>2, SetDeadlineInv
<1>6. DbInv(db', issued, now) /\ NoNewLease(c, db')
    BY <1>3, <1>5, SyncWorkerInv
<1> QED
    BY <1>3, <1>5, <1>6, NoNewLeaseTrans, SameLess, IInvKept

LEMMA ReleaseInflightStep ==
    ASSUME IInv, NEW w \in Workers, NEW t \in Reading, ReleaseInflight(w, t)
    PROVE  IInv'
<1> DEFINE S == OwnedBy(db, w)
           back == WithPayload(db, S \cap db.inflight)
           d(order) == GiveBack(db, S, back, t, order)
<1>1. /\ now \in Nat /\ issued \in Nat /\ t \in Nat /\ t <= now
      /\ DbInv(db, issued, now)
    BY ReadingType DEF IInv
<1>2. S \subseteq db.inflight /\ back = WithPayload(db, S)
    BY <1>1 DEF OwnedBy, DbInv, LeaseInv, WithPayload
<1>3. PICK order \in Numberings(Due(db, back, t), db.sequence, NoScore) :
          db' \in {d(order), ClearWorkerIfIdle(d(order), w)}
    BY DEF ReleaseInflight
<1> DEFINE e == d(order)
<1>4. e = GiveBack(db, S, back, t, order)
    OBVIOUS
<1>5. db' = e \/ db' = ClearWorkerIfIdle(e, w)
    BY <1>3
<1> HIDE DEF S, back, d, e
<1>6. DbInv(e, issued, now) /\ NoNewLease(db, e)
    BY <1>1, <1>2, <1>3, <1>4, ReleaseInv
<1>7. DbInv(db', issued, now) /\ NoNewLease(e, db')
    BY <1>5, <1>6, ClearWorkerIfIdleInv DEF NoNewLease
<1> QED
    BY <1>6, <1>7, NoNewLeaseTrans, SameLess, IInvKept DEF ReleaseInflight

LEMMA ReleaseScopeStep ==
    ASSUME IInv, NEW t \in Reading, ReleaseScope(t)
    PROVE  IInv'
<1> DEFINE S == db.inflight
           back == WithPayload(db, S)
           d(order) == GiveBack(db, S, back, t, order)
<1>1. /\ now \in Nat /\ issued \in Nat /\ t \in Nat /\ t <= now
      /\ DbInv(db, issued, now)
    BY ReadingType DEF IInv
<1>2. PICK order \in Numberings(Due(db, back, t), db.sequence, NoScore) :
          db' = [d(order) EXCEPT !.workers = {}]
    BY DEF ReleaseScope
<1> DEFINE e == d(order)
<1>3. e = GiveBack(db, S, back, t, order) /\ S \subseteq db.inflight
    OBVIOUS
<1>4. db' = [e EXCEPT !.workers = {}]
    BY <1>2
<1>5. HasKeys(db)
    BY <1>1 DEF DbInv
<1>6. e.inflight = db.inflight \ S
    BY <1>3, <1>5, GiveBackKeys
<1>7. e.inflight = {}
    BY <1>6
<1>8. back = WithPayload(db, S)
    OBVIOUS
<1> HIDE DEF S, back, d, e
<1>9. DbInv(e, issued, now) /\ NoNewLease(db, e)
    BY <1>1, <1>2, <1>3, <1>8, ReleaseInv
<1>10. /\ HasKeys(db')
       /\ db' = [e EXCEPT !.workers = db'.workers]
       /\ db'.workers = {}
    <2>1. HasKeys(e)
        BY <1>9 DEF DbInv
    <2> QED
        BY <1>4, <2>1 DEF HasKeys
<1>11. DbInv(db', issued, now) /\ NoNewLease(e, db')
    BY <1>7, <1>9, <1>10, WorkersInv
<1> QED
    BY <1>9, <1>11, NoNewLeaseTrans, SameLess, IInvKept DEF ReleaseScope

LEMMA CloseStep ==
    ASSUME IInv, NEW w \in Workers, Close(w)
    PROVE  IInv'
<1>1. DbInv(db', issued, now) /\ NoNewLease(db, db')
    BY ClearWorkerIfIdleInv DEF Close, IInv
<1> QED
    BY <1>1, SameLess, IInvKept DEF Close

LEMMA RefreshStep ==
    ASSUME IInv, NEW t \in Reading, Refresh(t)
    PROVE  IInv'
<1>1. /\ now \in Nat /\ issued \in Nat /\ t \in Nat /\ t <= now
      /\ DbInv(db, issued, now)
    BY ReadingType DEF IInv
<1>2. PICK order \in ReclaimOrders(db, t) : db' = Reclaim(db, t, order)
    BY DEF Refresh
<1>3. DbInv(db', issued, now) /\ NoNewLease(db, db')
    BY <1>1, <1>2, ReclaimInv
<1> QED
    BY <1>3, SameLess, IInvKept DEF Refresh

\* The scripts that end in an error of route_task.
LEMMA ReclaimFailsStep ==
    ASSUME IInv, NEW t \in Reading, ReclaimFails(t)
    PROVE  IInv'
<1> DEFINE S == Expired(db, t)
           back == WithPayload(db, S)
<1>1. /\ now \in Nat /\ issued \in Nat /\ t \in Nat /\ t <= now
      /\ DbInv(db, issued, now)
    BY ReadingType DEF IInv
<1>2. S \subseteq db.inflight /\ back = WithPayload(db, S)
    BY <1>1 DEF Expired, DbInv, LeaseInv
<1>3. StopsAtNull(db, S, back, db.inflight_deadlines, t, db')
    BY DEF ReclaimFails
<1> HIDE DEF S, back
<1>4. DbInv(db', issued, now) /\ NoNewLease(db, db')
    BY <1>1, <1>2, <1>3, StopsAtNullInv
<1> QED
    BY <1>4, SameLess, IInvKept DEF ReclaimFails

LEMMA ReleaseInflightFailsStep ==
    ASSUME IInv, NEW w \in Workers, NEW t \in Reading, ReleaseInflightFails(w, t)
    PROVE  IInv'
<1> DEFINE S == OwnedBy(db, w)
           back == WithPayload(db, S)
<1>1. /\ now \in Nat /\ issued \in Nat /\ t \in Nat /\ t <= now
      /\ DbInv(db, issued, now)
    BY ReadingType DEF IInv
<1>2. S \subseteq db.inflight /\ S \cap db.inflight = S /\ back = WithPayload(db, S)
    BY <1>1 DEF OwnedBy, DbInv, LeaseInv
<1>3. StopsAtNull(db, S, back, NoScore, t, db')
    BY <1>2 DEF ReleaseInflightFails
<1> HIDE DEF S, back
<1>4. DbInv(db', issued, now) /\ NoNewLease(db, db')
    BY <1>1, <1>2, <1>3, StopsAtNullInv
<1> QED
    BY <1>4, SameLess, IInvKept DEF ReleaseInflightFails

LEMMA ReleaseScopeFailsStep ==
    ASSUME IInv, NEW t \in Reading, ReleaseScopeFails(t)
    PROVE  IInv'
<1> DEFINE S == db.inflight
           back == WithPayload(db, S)
<1>1. /\ now \in Nat /\ issued \in Nat /\ t \in Nat /\ t <= now
      /\ DbInv(db, issued, now)
    BY ReadingType DEF IInv
<1>2. S \subseteq db.inflight /\ back = WithPayload(db, S)
    OBVIOUS
<1>3. StopsAtNull(db, S, back, NoScore, t, db')
    BY DEF ReleaseScopeFails
<1> HIDE DEF S, back
<1>4. DbInv(db', issued, now) /\ NoNewLease(db, db')
    BY <1>1, <1>2, <1>3, StopsAtNullInv
<1> QED
    BY <1>4, SameLess, IInvKept DEF ReleaseScopeFails

LEMMA RequeueFailsStep ==
    ASSUME IInv, NEW w \in Workers, NEW lease, RequeueFails(w, lease)
    PROVE  IInv'
<1> DEFINE S == {lease[1]}
           c == SyncWorker(db, w)
           u == Unlease(c, S)
<1>1. DbInv(db, issued, now)
    BY DEF IInv
<1>2. S \subseteq db.inflight
    BY <1>1, LiveInflight DEF RequeueFails
<1>3. /\ \A j \in S : ~NullIsAbsent /\ db.tasks[j].ready_at = Immediate
      /\ c = SyncWorker(db, w)
      /\ u = Unlease(c, S)
      /\ db' = Unqueue(u, S)
    <2>1. PICK j \in Unroutable(db, S) : TRUE
        BY DEF RequeueFails
    <2>2. j = lease[1] /\ ~NullIsAbsent /\ db.tasks[j].ready_at = Immediate
        BY <2>1 DEF Unroutable, WithPayload
    <2> QED BY <2>2 DEF RequeueFails
<1> HIDE DEF S, c, u
<1>4. /\ DbInv(c, issued, now) /\ NoNewLease(db, c)
      /\ c.inflight = db.inflight /\ c.tasks = db.tasks
    BY <1>1, <1>3, SyncWorkerInv
<1>5. db' = u
    BY <1>2, <1>3, <1>4, UnqueueNothing
<1>6. DbInv(db', issued, now) /\ NoNewLease(c, db')
    BY <1>3, <1>4, <1>5, UnleaseInv
<1> QED
    BY <1>4, <1>6, NoNewLeaseTrans, DropLess, IInvKept DEF RequeueFails

LEMMA PauseResumeStep ==
    ASSUME IInv, PauseScope \/ ResumeScope
    PROVE  IInv'
<1>1. DbInv(db, issued, now) /\ HasKeys(db)
    BY DEF IInv, DbInv
<1>2. /\ HasKeys(db')
      /\ db'.tasks = db.tasks
      /\ db'.ready = db.ready
      /\ db'.ready_order = db.ready_order
      /\ db'.delayed = db.delayed
      /\ db'.inflight = db.inflight
      /\ db'.inflight_deadlines = db.inflight_deadlines
      /\ db'.inflight_workers = db.inflight_workers
      /\ db'.inflight_leases = db.inflight_leases
      /\ db'.sequence = db.sequence
      /\ db'.workers = db.workers
      /\ db'.paused \in BOOLEAN
    BY <1>1 DEF PauseScope, ResumeScope, HasKeys
<1>3. DbInv(db', issued, now) /\ NoNewLease(db, db')
    BY <1>1, <1>2 DEF DbInv, NoNewLease
<1> QED
    BY <1>3, SameLess, IInvKept DEF PauseScope, ResumeScope

LEMMA PurgeStep ==
    ASSUME IInv, PurgeScope
    PROVE  IInv'
<1>1. db.paused \in BOOLEAN /\ issued \in Nat /\ now \in Nat
    BY DEF IInv, DbInv
<1>2. /\ HasKeys(db')
      /\ db'.ready = {} /\ db'.inflight = {} /\ db'.workers = {}
      /\ db'.sequence = 0 /\ db'.paused = db.paused
      /\ db'.tasks = NoFields /\ db'.ready_order = NoFields /\ db'.delayed = NoFields
      /\ db'.inflight_deadlines = NoFields /\ db'.inflight_workers = NoFields
      /\ db'.inflight_leases = NoFields
    BY DEF PurgeScope, EmptyKeySpace, HasKeys
<1>3. DOMAIN NoFields = {}
    BY DEF NoFields
<1>4. IsHash(NoFields, Nat) /\ IsHash(NoFields, Workers) /\ IsHash(NoFields, Payloads)
    BY DEF NoFields, IsHash
<1>5. QueueInv(db'.ready, db'.ready_order, db'.sequence)
    BY <1>2, <1>3, <1>4 DEF QueueInv
<1>6. LeaseInv(db'.inflight, db'.inflight_deadlines, db'.inflight_workers,
               db'.inflight_leases, db'.workers, issued)
    BY <1>2, <1>3, <1>4 DEF LeaseInv
<1>7. BucketInv(db'.tasks, db'.ready, db'.delayed, db'.inflight, now)
    BY <1>2, <1>3, <1>4 DEF BucketInv
<1>8. DbInv(db', issued, now) /\ NoNewLease(db, db')
    BY <1>1, <1>2, <1>3, <1>5, <1>6, <1>7 DEF DbInv, NoNewLease
<1> QED
    BY <1>8, SameLess, IInvKept DEF PurgeScope

\* A process loses leases and nothing else: Refused, Abandon and Crash.
LEMMA ForgetLeasesStep ==
    ASSUME IInv, NEW w \in Workers,
           \/ \E lease \in held[w] : Refused(w, lease) \/ Abandon(w, lease)
           \/ Crash(w)
    PROVE  IInv'
<1>1. UNCHANGED <<db, now, issued>>
    BY DEF Refused, Abandon, Crash
<1>2. HeldLess(held, held')
    <2>1. CASE Crash(w)
        BY <2>1 DEF Crash, IInv, HeldInv, HeldLess
    <2>2. ASSUME NEW lease \in held[w], Refused(w, lease) \/ Abandon(w, lease)
          PROVE  HeldLess(held, held')
        BY <2>2, DropLess DEF Refused, Abandon
    <2> QED
        BY <2>1, <2>2
<1>3. DbInv(db', issued, now) /\ NoNewLease(db, db')
    BY <1>1 DEF IInv, NoNewLease
<1> QED
    BY <1>1, <1>2, <1>3, IInvKept

LEMMA TickStep ==
    ASSUME IInv, Tick
    PROVE  IInv'
<1>1. now \in Nat /\ now' = now + 1 /\ DbInv(db, issued, now) /\ HeldInv(db, held, issued)
    BY DEF IInv, Tick
<1>2. now' \in Nat /\ now <= now'
    BY <1>1
<1>3. DbInv(db, issued, now')
    BY <1>1, <1>2, DbLater
<1> QED
    BY <1>1, <1>2, <1>3 DEF IInv, Tick

\* Every step keeps the invariant while task ids do not collide.
LEMMA IInvStep ==
    ASSUME ~IdsCollide
    PROVE  IInv /\ [Next]_vars => IInv'
<1> SUFFICES ASSUME IInv, [Next]_vars
             PROVE  IInv'
    OBVIOUS
<1>1. CASE \E i \in Ids, p \in Payloads : Enqueue(i, p)
    BY <1>1, EnqueueStep
<1>2. CASE \E w \in Workers, t \in Reading : TakeReady(w, t)
    BY <1>2, TakeReadyStep
<1>3. ASSUME NEW w \in Workers, NEW lease \in held[w],
             \/ Refused(w, lease)
             \/ Complete(w, lease)
             \/ CompleteAndEnqueue(w, lease)
             \/ Abandon(w, lease)
             \/ RequeueFails(w, lease)
             \/ \E t \in Reading : Requeue(w, lease, t) \/ Heartbeat(w, lease, t)
      PROVE  IInv'
    <2>1. CASE Refused(w, lease) \/ Abandon(w, lease)
        BY <2>1, ForgetLeasesStep
    <2>2. CASE Complete(w, lease)
        BY <2>2, CompleteStep
    <2>3. CASE CompleteAndEnqueue(w, lease)
        BY <2>3, CompleteAndEnqueueStep
    <2>4. CASE \E t \in Reading : Requeue(w, lease, t)
        BY <2>4, RequeueStep
    <2>5. CASE \E t \in Reading : Heartbeat(w, lease, t)
        BY <2>5, HeartbeatStep
    <2>6. CASE RequeueFails(w, lease)
        BY <2>6, RequeueFailsStep
    <2> QED
        BY <1>3, <2>1, <2>2, <2>3, <2>4, <2>5, <2>6
<1>4. ASSUME NEW w \in Workers, Crash(w) \/ Close(w)
      PROVE  IInv'
    BY <1>4, ForgetLeasesStep, CloseStep
<1>5. CASE \E w \in Workers, t \in Reading :
               ReleaseInflight(w, t) \/ ReleaseInflightFails(w, t)
    BY <1>5, ReleaseInflightStep, ReleaseInflightFailsStep
<1>6. CASE \E t \in Reading : Refresh(t) \/ ReleaseScope(t)
    BY <1>6, RefreshStep, ReleaseScopeStep
<1>7. CASE PauseScope \/ ResumeScope \/ PurgeScope
    BY <1>7, PauseResumeStep, PurgeStep
<1>8. CASE Tick
    BY <1>8, TickStep
<1>9. CASE \E t \in Reading : ReclaimFails(t) \/ ReleaseScopeFails(t)
    BY <1>9, ReclaimFailsStep, ReleaseScopeFailsStep
<1>10. CASE UNCHANGED vars
    BY <1>10 DEF vars, IInv
<1> QED
    BY <1>1, <1>2, <1>3, <1>4, <1>5, <1>6, <1>7, <1>8, <1>9, <1>10 DEF Next

-----------------------------------------------------------------------------
(* What the scripts do to the pool of tasks: which ids wait, which leases are *)
(* in force, and where in the queue an id of ready stands.                    *)

\* What was ready keeps its place, what comes gets one behind it.
QueueGrows(d, e) ==
    /\ d.ready \subseteq e.ready
    /\ \A i \in d.ready : e.ready_order[i] = d.ready_order[i]
    /\ \A i \in e.ready \ d.ready : e.ready_order[i] > d.sequence

\* The leases of S are given up, and their tasks wait again.
GivenBack(d, e, S) ==
    /\ e.tasks = d.tasks
    /\ e.paused = d.paused
    /\ Queued(e) = Queued(d) \cup S
    /\ e.inflight_leases = Del(d.inflight_leases, S)
    /\ d.sequence <= e.sequence
    /\ QueueGrows(d, e)

LEMMA DbParts ==
    ASSUME NEW d, NEW n, NEW t, DbInv(d, n, t)
    PROVE  /\ HasKeys(d)
           /\ IsHash(d.inflight_leases, Nat) /\ DOMAIN d.inflight_leases = d.inflight
           /\ DOMAIN d.inflight_workers = d.inflight
           /\ DOMAIN d.ready_order = d.ready /\ d.sequence \in Nat
           /\ \A i \in d.ready : d.ready_order[i] \in Nat /\ d.ready_order[i] <= d.sequence
           /\ d.ready \subseteq Ids /\ d.inflight \subseteq Ids
           /\ d.inflight \subseteq DOMAIN d.tasks
           /\ d.ready \cap d.inflight = {} /\ d.inflight \cap DOMAIN d.delayed = {}
           /\ d.ready \cap DOMAIN d.delayed = {}
           /\ DOMAIN d.delayed \subseteq DOMAIN d.tasks /\ DOMAIN d.tasks \subseteq Ids
           /\ d.ready \subseteq DOMAIN d.tasks
BY DEF DbInv, LeaseInv, QueueInv, BucketInv, IsHash

LEMMA DelNothing ==
    ASSUME NEW V, NEW h, IsHash(h, V), NEW S, S \cap DOMAIN h = {}
    PROVE  Del(h, S) = h
BY DEF IsHash, Del

LEMMA QueuePushGrows ==
    ASSUME NEW d, NEW n, NEW t, DbInv(d, n, t), NEW S, S \subseteq Ids, S \cap d.ready = {},
           NEW score, NEW order \in Numberings(S, d.sequence, score), NEW e,
           e.ready = d.ready \cup S, e.ready_order = Put(d.ready_order, order),
           e.sequence = d.sequence + Cardinality(S)
    PROVE  QueueGrows(d, e) /\ d.sequence <= e.sequence
<1>1. DOMAIN d.ready_order = d.ready /\ d.sequence \in Nat
    BY DbParts
<1>2. /\ Cardinality(S) \in Nat /\ DOMAIN order = S
      /\ \A i \in S : order[i] > d.sequence
    BY <1>1, NumberingsHash
<1>3. \A i \in d.ready \cup S : e.ready_order[i] = IF i \in S THEN order[i] ELSE d.ready_order[i]
    BY <1>1, <1>2 DEF Put
<1>4. d.sequence <= e.sequence
    BY <1>1, <1>2
<1> QED BY <1>2, <1>3, <1>4 DEF QueueGrows

LEMMA GiveBackPool ==
    ASSUME NEW d, NEW n \in Nat, NEW t \in Nat, DbInv(d, n, t),
           NEW S, S \subseteq d.inflight, NEW s, NEW score,
           NEW order \in Numberings(Due(d, S, s), d.sequence, score),
           NEW e, e = GiveBack(d, S, S, s, order)
    PROVE  GivenBack(d, e, S)
<1> DEFINE due == Due(d, S, s)
           later == ReadyAt(d.tasks, NotDue(d, S, s))
<1>1. /\ e.tasks = d.tasks /\ e.paused = d.paused
      /\ e.ready = d.ready \cup due
      /\ e.ready_order = Put(d.ready_order, order)
      /\ e.delayed = Put(d.delayed, later)
      /\ e.inflight_leases = Del(d.inflight_leases, S)
      /\ e.sequence = d.sequence + Cardinality(due)
    BY GiveBackKeys, DbParts
<1>2. due \subseteq S /\ DOMAIN later = S \ due
    BY DEF Due, NotDue, ReadyAt
<1>3. order \in Numberings(due, d.sequence, score)
    OBVIOUS
<1> HIDE DEF due, later
<1>4. Queued(e) = Queued(d) \cup S
    BY <1>1, <1>2 DEF Queued, Put
<1>5. due \subseteq Ids /\ due \cap d.ready = {}
    BY <1>2, DbParts
<1>6. QueueGrows(d, e) /\ d.sequence <= e.sequence
    BY <1>1, <1>3, <1>5, QueuePushGrows
<1> QED BY <1>1, <1>4, <1>6 DEF GivenBack

LEMMA ReclaimPool ==
    ASSUME NEW d, NEW n \in Nat, NEW t \in Nat, DbInv(d, n, t),
           NEW s, NEW order \in ReclaimOrders(d, s),
           NEW e, e = Reclaim(d, s, order)
    PROVE  GivenBack(d, e, Expired(d, s)) /\ Expired(d, s) \subseteq d.inflight
<1> DEFINE S == Expired(d, s)
<1>1. S \subseteq d.inflight /\ S \subseteq DOMAIN d.tasks
    BY DEF Expired, DbInv, LeaseInv, BucketInv
<1>2. WithPayload(d, S) = S
    BY <1>1 DEF WithPayload
<1>3. /\ order \in Numberings(Due(d, S, s), d.sequence, d.inflight_deadlines)
      /\ e = GiveBack(d, S, S, s, order)
    BY <1>2 DEF ReclaimOrders, Reclaim
<1> HIDE DEF S
<1>4. GivenBack(d, e, S)
    BY <1>1, <1>3, GiveBackPool
<1> QED BY <1>1, <1>4 DEF S

LEMMA PromotePool ==
    ASSUME NEW d, NEW n \in Nat, NEW t \in Nat, DbInv(d, n, t),
           NEW s, NEW order \in PromoteOrders(d, s), NEW e, e = Promote(d, s, order)
    PROVE  GivenBack(d, e, {})
<1> DEFINE P == Promotable(d, s)
<1>1. P \subseteq DOMAIN d.delayed /\ P \subseteq Ids /\ P \cap d.ready = {}
      /\ WithPayload(d, P) = P
    BY DbParts DEF Promotable, WithPayload
<1>2. order \in Numberings(P, d.sequence, d.delayed)
    BY <1>1 DEF PromoteOrders
<1>3. /\ e.tasks = d.tasks /\ e.paused = d.paused
      /\ e.ready = d.ready \cup P
      /\ e.ready_order = Put(d.ready_order, order)
      /\ e.delayed = Del(d.delayed, P)
      /\ e.inflight_leases = d.inflight_leases
      /\ e.sequence = d.sequence + Cardinality(P)
    BY <1>1, PromoteKeys, DbParts
<1> HIDE DEF P
<1>4. Queued(e) = Queued(d) \cup {}
    BY <1>1, <1>3 DEF Queued, Del
<1>5. QueueGrows(d, e) /\ d.sequence <= e.sequence
    BY <1>1, <1>2, <1>3, QueuePushGrows
<1>6. Del(d.inflight_leases, {}) = d.inflight_leases
    BY DbParts, DelNothing
<1> QED BY <1>3, <1>4, <1>5, <1>6 DEF GivenBack

LEMMA PrunePool ==
    ASSUME NEW d, NEW n, NEW t, DbInv(d, n, t)
    PROVE  LET e == Prune(d) IN GivenBack(d, e, {}) /\ e.ready = d.ready
<1> DEFINE S == d.ready \ DOMAIN d.tasks
           e == Prune(d)
<1>1. e = Unqueue(d, S) /\ S = {}
    BY DbParts DEF Prune
<1> HIDE DEF S, e
<1>2. /\ e.tasks = d.tasks /\ e.paused = d.paused
      /\ e.ready = d.ready \ S /\ e.ready_order = Del(d.ready_order, S)
      /\ e.delayed = Del(d.delayed, S)
      /\ e.inflight_leases = d.inflight_leases /\ e.sequence = d.sequence
    <2>1. HasKeys(d)
        BY DbParts
    <2> QED BY <1>1, <2>1, UnqueueKeys
<1>3. /\ DOMAIN e.delayed = DOMAIN d.delayed /\ e.ready = d.ready
      /\ \A i \in d.ready : e.ready_order[i] = d.ready_order[i]
    BY <1>1, <1>2, DbParts DEF Del
<1>4. Del(d.inflight_leases, {}) = d.inflight_leases
    BY DbParts, DelNothing
<1>5. d.sequence <= e.sequence
    BY <1>2, DbParts
<1>6. GivenBack(d, e, {}) /\ e.ready = d.ready
    BY <1>2, <1>3, <1>4, <1>5 DEF GivenBack, QueueGrows, Queued
<1> QED BY <1>6 DEF e

LEMMA GivenBackTrans ==
    ASSUME NEW d, NEW e, NEW f, NEW S, GivenBack(d, e, S), GivenBack(e, f, {}),
           d.sequence \in Nat, e.sequence \in Nat, f.sequence \in Nat,
           \A i \in f.ready : f.ready_order[i] \in Nat
    PROVE  GivenBack(d, f, S)
<1>1. /\ f.tasks = d.tasks /\ f.paused = d.paused /\ Queued(f) = Queued(d) \cup S
    BY DEF GivenBack
<1>2. f.inflight_leases = Del(d.inflight_leases, S)
    <2>1. f.inflight_leases = Del(e.inflight_leases, {})
        BY DEF GivenBack
    <2>2. e.inflight_leases = Del(d.inflight_leases, S)
        BY DEF GivenBack
    <2> QED BY <2>1, <2>2 DEF Del
<1>3. d.sequence <= f.sequence
    BY DEF GivenBack
<1>4. QueueGrows(d, f)
    <2>1. QueueGrows(d, e) /\ QueueGrows(e, f) /\ d.sequence <= e.sequence
        BY DEF GivenBack
    <2>2. d.ready \subseteq f.ready
        BY <2>1 DEF QueueGrows
    <2>3. \A i \in d.ready : f.ready_order[i] = d.ready_order[i]
        BY <2>1 DEF QueueGrows
    <2>4. ASSUME NEW i \in f.ready \ d.ready PROVE f.ready_order[i] > d.sequence
        BY <2>1 DEF QueueGrows
    <2> QED BY <2>2, <2>3, <2>4 DEF QueueGrows
<1> QED BY <1>1, <1>2, <1>3, <1>4 DEF GivenBack

\* The script takes the ready task i away, under the lease m.
Taken(d, e, i, m) ==
    /\ e.tasks = d.tasks
    /\ e.ready = d.ready \ {i}
    /\ Queued(e) = Queued(d) \ {i}
    /\ e.inflight_leases = Put(d.inflight_leases, Field(i, m))

LEMMA MoveToInflightPool ==
    ASSUME NEW d, NEW n, NEW t, DbInv(d, n, t), NEW i, NEW w, NEW m,
           NEW e, e = MoveToInflight(d, i, w, m)
    PROVE  Taken(d, e, i, m) /\ HasKeys(e)
<1>0. HasKeys(d)
    BY DEF DbInv
<1>1. /\ HasKeys(e)
      /\ e.tasks = d.tasks
      /\ e.ready = d.ready \ {i}
      /\ e.delayed = Del(d.delayed, {i})
      /\ e.inflight_leases = Put(d.inflight_leases, Field(i, m))
    BY <1>0 DEF MoveToInflight, Unqueue, HasKeys
<1>2. Queued(e) = Queued(d) \ {i}
    BY <1>1 DEF Queued, Del
<1> QED BY <1>1, <1>2 DEF Taken

LEMMA ClaimPool ==
    ASSUME NEW d, NEW n, NEW t, DbInv(d, n, t), NEW i, NEW w, NEW s, NEW m,
           NEW e, e = SetDeadline(SyncWorker(MoveToInflight(d, i, w, m), w), i, s)
    PROVE  Taken(d, e, i, m)
<1> DEFINE e1 == MoveToInflight(d, i, w, m)
           e2 == SyncWorker(e1, w)
<1>1. Taken(d, e1, i, m) /\ HasKeys(e1)
    BY MoveToInflightPool
<1>2. e = SetDeadline(e2, i, s) /\ e2 = SyncWorker(e1, w)
    OBVIOUS
<1> HIDE DEF e1, e2
<1>3. /\ HasKeys(e2) /\ e2.tasks = e1.tasks /\ e2.ready = e1.ready /\ e2.delayed = e1.delayed
      /\ e2.inflight_leases = e1.inflight_leases
    BY <1>1, <1>2, SyncWorkerKeys
<1>4. /\ e.tasks = e2.tasks /\ e.ready = e2.ready /\ e.delayed = e2.delayed
      /\ e.inflight_leases = e2.inflight_leases
    <2>1. HasKeys(e2) /\ e = SetDeadline(e2, i, s)
        BY <1>2, <1>3
    <2> QED BY <2>1, SetDeadlineKeys
<1>5. Queued(e) = Queued(e1)
    BY <1>3, <1>4 DEF Queued
<1> QED BY <1>1, <1>3, <1>4, <1>5 DEF Taken

\* Nothing changes for the pool.
SamePool(d, e) == Queued(e) = Queued(d) /\ e.inflight_leases = d.inflight_leases

LEMMA SyncWorkerPool ==
    ASSUME NEW d, HasKeys(d), NEW w, NEW e, e = SyncWorker(d, w)
    PROVE  SamePool(d, e) /\ e.inflight_deadlines = d.inflight_deadlines
<1>1. /\ e.ready = d.ready /\ e.delayed = d.delayed
      /\ e.inflight_leases = d.inflight_leases
      /\ e.inflight_deadlines = d.inflight_deadlines
    BY SyncWorkerKeys
<1> QED BY <1>1 DEF SamePool, Queued

LEMMA ClearWorkerPool ==
    ASSUME NEW d, HasKeys(d), NEW w, NEW e, e = ClearWorkerIfIdle(d, w)
    PROVE  SamePool(d, e)
<1>1. /\ e.ready = d.ready /\ e.delayed = d.delayed
      /\ e.inflight_leases = d.inflight_leases
    BY DEF ClearWorkerIfIdle, HasKeys
<1> QED BY <1>1 DEF SamePool, Queued

LEMMA ForgetPool ==
    ASSUME NEW d, NEW n, NEW t, DbInv(d, n, t), NEW i \in d.inflight,
           NEW e, e = Forget(d, i)
    PROVE  Queued(e) = Queued(d) /\ e.inflight_leases = Del(d.inflight_leases, {i})
<1>0. HasKeys(d)
    BY DEF DbInv
<1>1. /\ e.ready = d.ready \ {i}
      /\ e.delayed = Del(d.delayed, {i})
      /\ e.inflight_leases = Del(d.inflight_leases, {i})
    BY <1>0 DEF Forget, Unqueue, Unlease, HasKeys
<1>2. i \notin d.ready /\ i \notin DOMAIN d.delayed
    BY DbParts
<1>3. DOMAIN e.delayed = DOMAIN d.delayed
    BY <1>1, <1>2 DEF Del
<1> QED BY <1>1, <1>2, <1>3 DEF Queued

LEMMA EnqueuePool ==
    ASSUME NEW d, HasKeys(d), NEW payload, NEW order, NEW e,
           e = EnqueueTasks(d, payload, order)
    PROVE  Queued(e) = Queued(d) \cup DOMAIN payload /\ e.inflight_leases = d.inflight_leases
<1> DEFINE once == AtOnce(payload)
           later == ReadyAt(payload, Postponed(payload))
<1>1. /\ e.ready = d.ready \cup once
      /\ e.delayed = Put(d.delayed, later)
      /\ e.inflight_leases = d.inflight_leases
    BY EnqueueTasksKeys
<1>2. once \cup DOMAIN later = DOMAIN payload
    BY DEF AtOnce, Postponed, ReadyAt
<1> HIDE DEF once, later
<1> QED BY <1>1, <1>2 DEF Queued, Put

-----------------------------------------------------------------------------
(* Steps, as the action properties and the contract see them. *)

Excused(i) ==
    LET w == db.inflight_workers[i]
        lease == <<i, db.inflight_leases[i]>>
    IN  \/ i \in Expired(db, now)
        \/ lease \in held[w] \ held'[w]
        \/ \E t \in Reading :
              \/ ReleaseInflight(w, t) \/ ReleaseScope(t)
              \/ ReleaseInflightFails(w, t) \/ ReleaseScopeFails(t)
        \/ PurgeScope

Released(i) ==
    \/ \E t \in Reading :
          \/ ReleaseInflight(db.inflight_workers[i], t) \/ ReleaseScope(t)
          \/ ReleaseInflightFails(db.inflight_workers[i], t) \/ ReleaseScopeFails(t)
    \/ PurgeScope

Stays(i) ==
    /\ i \in DOMAIN db'.inflight_leases
    /\ db'.inflight_leases[i] = db.inflight_leases[i]

LeaseEnds == \A i \in DOMAIN db.inflight_leases : Stays(i) \/ Excused(i)

StrandedStays ==
    \A i \in DOMAIN db.inflight_leases \ DOMAIN db.inflight_deadlines : Stays(i) \/ Released(i)

\* In a claim, i comes before j.
First(i, j) ==
    LET p == db'.tasks[i]
        q == db'.tasks[j]
    IN  \/ p.priority > q.priority
        \/ /\ p.priority = q.priority
           /\ p.depth < q.depth
        \/ /\ p.priority = q.priority
           /\ p.depth = q.depth
           /\ (j \in db.ready => i \in db.ready /\ db.ready_order[i] < db.ready_order[j])

BestFirst ==
    \A i \in DOMAIN db'.inflight_leases :
        (i \notin DOMAIN db.inflight_leases
            \/ db.inflight_leases[i] # db'.inflight_leases[i])
        => \A j \in db'.ready : First(i, j)

\* A step of the contract, or a loop that stops at a null.
PoolStep ==
    \/ Pool!Next
    \/ \E S \in SUBSET Ids : \E i \in S : LosesToNull(S, i)

StepOK ==
    /\ LeaseEnds
    /\ StrandedStays
    /\ BestFirst
    /\ PoolStep

Lost(S) == db'.inflight_leases = Del(db.inflight_leases, S)

LEMMA NoClaimStep ==
    ASSUME NEW S, Lost(S),
           \A i \in S \cap DOMAIN db.inflight_leases :
               /\ Excused(i)
               /\ i \in DOMAIN db.inflight_deadlines \/ Released(i),
           PoolStep
    PROVE  StepOK
<1>1. \A i \in DOMAIN db.inflight_leases \ S : Stays(i)
    BY DEF Lost, Del, Stays
<1>2. \A i \in DOMAIN db'.inflight_leases :
         i \in DOMAIN db.inflight_leases /\ db.inflight_leases[i] = db'.inflight_leases[i]
    BY DEF Lost, Del
<1>3. LeaseEnds
    BY <1>1 DEF LeaseEnds
<1>4. StrandedStays
    BY <1>1 DEF StrandedStays
<1>5. BestFirst
    BY <1>2 DEF BestFirst
<1> QED BY <1>3, <1>4, <1>5 DEF StepOK

LEMMA LostNothing ==
    ASSUME IInv, db'.inflight_leases = db.inflight_leases
    PROVE  Lost({})
<1>1. IsHash(db.inflight_leases, Nat)
    BY DbParts DEF IInv
<1> QED BY <1>1, DelNothing DEF Lost

\* Everything some worker works under.
Handed == UNION {held[w] : w \in Workers}

LEMMA HandedLess ==
    ASSUME HeldLess(held, held')
    PROVE  Handed' \subseteq Handed
BY DEF HeldLess, Handed

\* A step that gives the leases of S up or none.
LEMMA PoolGiveBack ==
    ASSUME IInv, NEW S \in SUBSET DOMAIN db.inflight_leases, Lost(S),
           Queued(db') = Queued(db) \cup S, issued' = issued, HeldLess(held, held')
    PROVE  Pool!Next
<1>1. S \in SUBSET Ids
    BY DbParts DEF IInv
<1>2. Handed' \subseteq Handed
    BY HandedLess
<1>3. Pool!GiveBack(S)
    BY <1>2 DEF Pool!GiveBack, Pool!Without, Lost, Del, Handed, Queued
<1> QED BY <1>1, <1>3 DEF Pool!Next

LEMMA QuietStep ==
    ASSUME IInv, SamePool(db, db'), issued' = issued, HeldLess(held, held')
    PROVE  StepOK
<1>1. Lost({})
    BY LostNothing DEF SamePool
<1>2. Pool!Next
    BY <1>1, PoolGiveBack DEF SamePool
<1> QED BY <1>1, <1>2, NoClaimStep DEF PoolStep

\* A call under a lease in force, in which its worker lets go of it.
LEMMA HolderEnds ==
    ASSUME IInv, NEW w \in Workers, NEW lease \in held[w], Live(db, w, lease),
           held' = Drop(w, lease)
    PROVE  /\ lease[1] \in db.inflight /\ lease[1] \in DOMAIN db.inflight_leases
           /\ lease[1] \in DOMAIN db.inflight_deadlines
           /\ Excused(lease[1])
           /\ <<lease[1], db.inflight_leases[lease[1]]>> \in Handed
           /\ Handed' \subseteq Handed \ {<<lease[1], db.inflight_leases[lease[1]]>>}
           /\ HeldLess(held, held')
<1>1. held \in [Workers -> SUBSET Lease] /\ lease \in Lease
    BY DEF IInv, HeldInv
<1>2. lease = <<lease[1], db.inflight_leases[lease[1]]>>
    BY <1>1 DEF Lease, Live
<1>3. /\ lease[1] \in DOMAIN db.inflight_leases
      /\ db.inflight_leases[lease[1]] = lease[2]
      /\ db.inflight_workers[lease[1]] = w
    BY DEF Live
<1>4. lease[1] \in db.inflight
    BY <1>3, DbParts DEF IInv
<1>5. lease[1] \in DOMAIN db.inflight_deadlines
    <2>1. w \in SyncDefined
        BY DEF IInv, HeldInv
    <2> QED BY <1>3, <1>4, <2>1 DEF IInv, DbInv, LeaseInv
<1>6. held'[w] = held[w] \ {lease} /\ \A v \in Workers : v # w => held'[v] = held[v]
    BY <1>1 DEF Drop
<1>7. Excused(lease[1])
    BY <1>2, <1>3, <1>6 DEF Excused
<1>8. \A v \in Workers : v # w => lease \notin held[v]
    BY <1>3 DEF IInv, HeldInv
<1>9. Handed' \subseteq Handed \ {lease}
    BY <1>6, <1>8 DEF Handed
<1>10. lease \in Handed
    BY DEF Handed
<1>11. HeldLess(held, held')
    BY DropLess
<1> QED BY <1>2, <1>3, <1>4, <1>5, <1>7, <1>9, <1>10, <1>11

\* A holder's call gives its own lease up, and nobody else's.
LEMMA HolderStep ==
    ASSUME IInv, NEW w \in Workers, NEW lease \in held[w], Live(db, w, lease),
           held' = Drop(w, lease), Lost({lease[1]}), PoolStep
    PROVE  StepOK
<1>1. \A i \in {lease[1]} : Excused(i) /\ i \in DOMAIN db.inflight_deadlines
    BY HolderEnds
<1> QED BY <1>1, NoClaimStep

\* The task of the lease leaves, new tasks come.
LEMMA PoolFinish ==
    ASSUME IInv, NEW w \in Workers, NEW lease \in held[w], Live(db, w, lease),
           held' = Drop(w, lease), Lost({lease[1]}), issued' = issued,
           NEW S \in SUBSET Ids, S \cap (DOMAIN db.tasks \ {lease[1]}) = {},
           Queued(db') = Queued(db) \cup S
    PROVE  Pool!Next
<1> DEFINE i == lease[1]
           l == <<i, db.inflight_leases[i]>>
<1>1. /\ i \in db.inflight /\ i \in DOMAIN db.inflight_leases
      /\ l \in Handed /\ Handed' \subseteq Handed \ {l}
    BY HolderEnds
<1>2. i \in Ids
    BY <1>1, DbParts DEF IInv
<1>3. Queued(db) \cup DOMAIN db.inflight_leases \subseteq DOMAIN db.tasks
    BY DbParts DEF IInv, Queued
<1>4. S \subseteq Ids \ ((Queued(db) \cup DOMAIN db.inflight_leases) \ {i})
    BY <1>3
<1>5. Pool!Finish(i, S)
    BY <1>1, <1>4 DEF Pool!Finish, Pool!Without, Pool!Pool, Lost, Del, Handed, Queued
<1> QED BY <1>2, <1>5 DEF Pool!Next

LEMMA EnqueueDoes ==
    ASSUME IInv, ~IdsCollide, NEW i \in Ids, NEW p \in Payloads, Enqueue(i, p)
    PROVE  StepOK
<1>1. /\ i \notin DOMAIN db.tasks /\ held' = held /\ issued' = issued
    BY DEF Enqueue, Submittable
<1>2. PICK order : db' = EnqueueTasks(db, Field(i, p), order)
    BY DEF Enqueue
<1>3. HasKeys(db)
    BY DbParts DEF IInv
<1>4. Queued(db') = Queued(db) \cup {i} /\ db'.inflight_leases = db.inflight_leases
    <2> DEFINE payload == Field(i, p)
    <2>1. DOMAIN payload = {i} /\ db' = EnqueueTasks(db, payload, order)
        BY <1>2 DEF Field
    <2> HIDE DEF payload
    <2> QED BY <1>3, <2>1, EnqueuePool
<1>5. Lost({})
    BY <1>4, LostNothing
<1>6. i \notin Queued(db) \cup DOMAIN db.inflight_leases
    BY <1>1, DbParts DEF IInv, Queued
<1>7. Pool!Submit(i)
    BY <1>1, <1>4, <1>6 DEF Pool!Submit, Pool!Pool, Queued
<1>8. Pool!Next
    BY <1>7 DEF Pool!Next
<1> QED BY <1>5, <1>8, NoClaimStep DEF PoolStep

LEMMA CompleteDoes ==
    ASSUME IInv, NEW w \in Workers, NEW lease \in held[w], Complete(w, lease)
    PROVE  StepOK
<1> DEFINE i == lease[1]
           d == SyncWorker(db, w)
<1>1. Live(db, w, lease) /\ held' = Drop(w, lease) /\ issued' = issued
    BY DEF Complete
<1>2. i \in db.inflight
    BY <1>1, LiveInflight DEF IInv
<1>3. DbInv(d, issued, now) /\ d.inflight = db.inflight
    BY SyncWorkerInv DEF IInv
<1>4. SamePool(db, d)
    BY SyncWorkerPool, DbParts DEF IInv
<1>5. db' = Forget(d, i)
    BY DEF Complete
<1> HIDE DEF d
<1>6. Queued(db') = Queued(d) /\ db'.inflight_leases = Del(d.inflight_leases, {i})
    BY <1>2, <1>3, <1>5, ForgetPool
<1>7. Lost({i}) /\ Queued(db') = Queued(db) \cup {}
    BY <1>4, <1>6 DEF SamePool, Lost
<1>8. Pool!Next
    <2>1. \A S \in SUBSET Ids : S \cap (DOMAIN db.tasks \ {i}) = {}
                                /\ Queued(db') = Queued(db) \cup S => Pool!Next
        BY <1>1, <1>7, PoolFinish
    <2>2. {} \in SUBSET Ids /\ {} \cap (DOMAIN db.tasks \ {i}) = {}
        OBVIOUS
    <2> QED BY <1>7, <2>1, <2>2
<1> QED BY <1>1, <1>7, <1>8, HolderStep DEF PoolStep

LEMMA CompleteAndEnqueueDoes ==
    ASSUME IInv, ~IdsCollide, NEW w \in Workers, NEW lease \in held[w],
           CompleteAndEnqueue(w, lease)
    PROVE  StepOK
<1> DEFINE i == lease[1]
           c == SyncWorker(db, w)
           d == Forget(c, i)
<1>1. Live(db, w, lease) /\ held' = Drop(w, lease) /\ issued' = issued
    BY DEF CompleteAndEnqueue
<1>2. PICK S \in SUBSET Submittable({i}) \ {{}} : \E payload \in [S -> Payloads] :
          \E order \in Numberings(AtOnce(payload), d.sequence, NoScore) :
              db' = EnqueueTasks(d, payload, order)
    BY DEF CompleteAndEnqueue
<1>3. PICK payload, order : payload \in [S -> Payloads] /\ db' = EnqueueTasks(d, payload, order)
    BY <1>2
<1>4. i \in db.inflight
    BY <1>1, LiveInflight DEF IInv
<1>5. i \in Ids
    BY <1>4, DbParts DEF IInv
<1>6. DbInv(c, issued, now) /\ c.inflight = db.inflight
    BY SyncWorkerInv DEF IInv
<1>7. SamePool(db, c)
    BY SyncWorkerPool, DbParts DEF IInv
<1>8. d = Forget(c, i)
    OBVIOUS
<1>9. S \in SUBSET Ids /\ S \cap (DOMAIN db.tasks \ {i}) = {} /\ DOMAIN payload = S
    BY <1>2, <1>3, <1>5 DEF Submittable
<1> HIDE DEF c, d
<1>10. Queued(d) = Queued(c) /\ d.inflight_leases = Del(c.inflight_leases, {i})
    BY <1>4, <1>6, <1>8, ForgetPool
<1>11. HasKeys(d)
    BY <1>4, <1>6, <1>8, ForgetInv, DbParts
<1>12. Queued(db') = Queued(d) \cup S /\ db'.inflight_leases = d.inflight_leases
    BY <1>3, <1>9, <1>11, EnqueuePool
<1>13. Lost({i}) /\ Queued(db') = Queued(db) \cup S
    BY <1>7, <1>10, <1>12 DEF SamePool, Lost
<1>14. Pool!Next
    BY <1>1, <1>9, <1>13, PoolFinish
<1> QED BY <1>1, <1>13, <1>14, HolderStep DEF PoolStep

LEMMA RequeueDoes ==
    ASSUME IInv, NEW w \in Workers, NEW lease \in held[w], NEW t \in Reading,
           Requeue(w, lease, t)
    PROVE  StepOK
<1> DEFINE S == {lease[1]}
           back == WithPayload(db, S)
           c == SyncWorker(db, w)
<1>1. Live(db, w, lease) /\ held' = Drop(w, lease) /\ issued' = issued
    BY DEF Requeue
<1>2. S \subseteq db.inflight /\ back = S
    <2>1. lease[1] \in db.inflight /\ lease[1] \in DOMAIN db.tasks
        BY <1>1, LiveInflight DEF IInv
    <2> QED BY <2>1 DEF WithPayload
<1>3. PICK order \in Numberings(Due(db, back, t), db.sequence, NoScore) :
          db' = RouteTasks(Unqueue(Unlease(c, S), S), back, t, order)
    BY DEF Requeue
<1>4. c = SyncWorker(db, w)
    OBVIOUS
<1>5. S \in SUBSET DOMAIN db.inflight_leases
    BY <1>2, DbParts DEF IInv
<1>6. \A j \in {lease[1]} : S = {j}
    OBVIOUS
<1> HIDE DEF S, back, c
<1>7. /\ DbInv(c, issued, now) /\ c.inflight = db.inflight
      /\ c.tasks = db.tasks /\ c.sequence = db.sequence
    BY <1>4, SyncWorkerInv DEF IInv
<1>8. SamePool(db, c)
    BY <1>4, SyncWorkerPool, DbParts DEF IInv
<1>9. Due(c, S, t) = Due(db, S, t)
    BY <1>7 DEF Due
<1>10. /\ order \in Numberings(Due(c, S, t), c.sequence, NoScore)
       /\ db' = GiveBack(c, S, S, t, order)
    <2>1. Unqueue(Unlease(c, S), S) = Unlease(c, S)
        BY <1>2, <1>7, UnqueueNothing
    <2> QED BY <1>2, <1>3, <1>7, <1>9, <2>1 DEF GiveBack
<1>11. GivenBack(c, db', S)
    BY <1>2, <1>7, <1>10, GiveBackPool DEF IInv
<1>12. Lost(S) /\ Queued(db') = Queued(db) \cup S
    BY <1>8, <1>11 DEF GivenBack, SamePool, Lost
<1>13. HeldLess(held, held')
    BY <1>1, DropLess
<1>14. Pool!Next
    BY <1>1, <1>5, <1>12, <1>13, PoolGiveBack
<1>15. Lost({lease[1]})
    BY <1>6, <1>12
<1> QED BY <1>1, <1>14, <1>15, HolderStep DEF PoolStep

LEMMA RequeueFailsDoes ==
    ASSUME IInv, NEW w \in Workers, NEW lease \in held[w], RequeueFails(w, lease)
    PROVE  StepOK
<1> DEFINE S == {lease[1]}
           c == SyncWorker(db, w)
           u == Unlease(c, S)
<1>1. Live(db, w, lease) /\ held' = Drop(w, lease) /\ issued' = issued
    BY DEF RequeueFails
<1>2. S \subseteq db.inflight
    BY <1>1, LiveInflight DEF IInv
<1>3. DbInv(c, issued, now) /\ c.inflight = db.inflight /\ c.tasks = db.tasks
    BY SyncWorkerInv DEF IInv
<1>4. SamePool(db, c)
    BY SyncWorkerPool, DbParts DEF IInv
<1>5. /\ u = Unlease(c, S) /\ db' = Unqueue(u, S) /\ S = {lease[1]}
      /\ lease[1] \in S \cap Unroutable(db, S)
    <2>1. PICK j \in Unroutable(db, S) : TRUE
        BY DEF RequeueFails
    <2>2. j = lease[1]
        BY <2>1 DEF Unroutable, WithPayload
    <2> QED BY <2>1, <2>2 DEF RequeueFails
<1> HIDE DEF S, c, u
<1>6. db' = u
    BY <1>2, <1>3, <1>5, UnqueueNothing
<1>7. /\ db'.inflight_leases = Del(c.inflight_leases, S)
      /\ db'.tasks = c.tasks /\ db'.ready = c.ready /\ db'.delayed = c.delayed
    <2>1. HasKeys(c)
        BY <1>3 DEF DbInv
    <2> QED BY <1>5, <1>6, <2>1, UnleaseKeys
<1>8. Lost(S) /\ Queued(db') = Queued(db)
    BY <1>4, <1>7 DEF Lost, SamePool, Queued
<1>9. PoolStep
    <2>1. S \subseteq DOMAIN db.inflight_leases /\ S \in SUBSET Ids
        BY <1>2, DbParts DEF IInv
    <2>2. Handed' \subseteq Handed
        BY <1>1, HolderEnds
    <2>3. S \ {lease[1]} = {}
        BY <1>5
    <2>4. LosesToNull(S, lease[1])
        BY <1>1, <1>3, <1>5, <1>7, <1>8, <2>1, <2>2, <2>3 DEF LosesToNull, Lost, Handed
    <2> QED BY <1>5, <2>1, <2>4 DEF PoolStep
<1> QED BY <1>1, <1>5, <1>8, <1>9, HolderStep

LEMMA HeartbeatDoes ==
    ASSUME IInv, NEW w \in Workers, NEW lease \in held[w], NEW t \in Reading,
           Heartbeat(w, lease, t)
    PROVE  StepOK
<1> DEFINE c == SetDeadline(db, lease[1], t)
<1>1. lease[1] \in db.inflight
    BY LiveInflight DEF Heartbeat, IInv
<1>2. db' = SyncWorker(c, w) /\ held' = held /\ issued' = issued
    BY <1>1 DEF Heartbeat
<1>3. /\ HasKeys(c) /\ c.ready = db.ready /\ c.delayed = db.delayed
      /\ c.inflight_leases = db.inflight_leases
    <2>1. HasKeys(db)
        BY DEF IInv, DbInv
    <2> QED BY <2>1, SetDeadlineKeys
<1> HIDE DEF c
<1>4. SamePool(c, db')
    BY <1>2, <1>3, SyncWorkerPool
<1>5. SamePool(db, db')
    BY <1>3, <1>4 DEF SamePool, Queued
<1>6. HeldLess(held, held')
    BY <1>2, SameLess
<1> QED BY <1>2, <1>5, <1>6, QuietStep

\* A script that gives back the leases of S, where each of them may end.
LEMMA GivenBackStep ==
    ASSUME IInv, NEW S, S \subseteq db.inflight, GivenBack(db, db', S),
           \A i \in S : Excused(i) /\ (i \in DOMAIN db.inflight_deadlines \/ Released(i)),
           held' = held, issued' = issued
    PROVE  StepOK
<1>1. S \in SUBSET DOMAIN db.inflight_leases
    BY DbParts DEF IInv
<1>2. Lost(S) /\ Queued(db') = Queued(db) \cup S
    BY DEF GivenBack, Lost
<1>3. Pool!Next
    BY <1>1, <1>2, SameLess, PoolGiveBack
<1> QED BY <1>2, <1>3, NoClaimStep DEF PoolStep

\* A script that fails half way, where each lease it may have taken may end.
LEMMA FailedStep ==
    ASSUME IInv, NEW S, S \subseteq db.inflight, NEW back, back = WithPayload(db, S),
           NEW score, NEW t, StopsAtNull(db, S, back, score, t, db'),
           \A i \in S : Excused(i) /\ (i \in DOMAIN db.inflight_deadlines \/ Released(i)),
           held' = held, issued' = issued
    PROVE  StepOK
<1>1. back = S
    BY DbParts DEF WithPayload, IInv
<1>2. PICK i \in Unroutable(db, S), before \in SUBSET (S \ Unroutable(db, S)) :
          \E order \in Numberings(Due(db, S \cap before, t), db.sequence, score) :
              db' = Unlease(GiveBack(db, before, S \cap before, t, order), {i})
    BY <1>1 DEF StopsAtNull
<1>3. S \cap before = before /\ before \subseteq db.inflight /\ i \in S /\ i \notin before
    BY <1>2 DEF Unroutable, WithPayload
<1>4. PICK order \in Numberings(Due(db, before, t), db.sequence, score) :
          db' = Unlease(GiveBack(db, before, before, t, order), {i})
    BY <1>2, <1>3
<1> DEFINE g == GiveBack(db, before, before, t, order)
           one == {i}
           all == before \cup one
<1>5. /\ g = GiveBack(db, before, before, t, order)
      /\ db' = Unlease(g, one)
      /\ i \in one /\ all \ {i} = before /\ all \subseteq S /\ all = before \cup one
    BY <1>3, <1>4
<1>6. i \in all \cap Unroutable(db, all)
    BY <1>2 DEF Unroutable, WithPayload
<1> HIDE DEF g, one, all
<1>7. GivenBack(db, g, before)
    BY <1>3, <1>4, <1>5, GiveBackPool DEF IInv
<1>8. HasKeys(g)
    BY <1>5, GiveBackKeys, DbParts DEF IInv
<1>9. /\ db'.inflight_leases = Del(g.inflight_leases, one)
      /\ db'.tasks = g.tasks /\ db'.ready = g.ready /\ db'.delayed = g.delayed
    BY <1>5, <1>8, UnleaseKeys
<1>10. db'.tasks = db.tasks /\ Queued(db') = Queued(db) \cup before
    BY <1>7, <1>9 DEF GivenBack, Queued
<1>11. Lost(all)
    BY <1>5, <1>7, <1>9 DEF GivenBack, Lost, Del
<1>12. PoolStep
    <2>1. all \subseteq DOMAIN db.inflight_leases /\ all \in SUBSET Ids
        BY <1>5, DbParts DEF IInv
    <2>2. LosesToNull(all, i)
        BY <1>5, <1>6, <1>10, <1>11, <2>1 DEF LosesToNull, Lost
    <2> QED BY <1>6, <2>1, <2>2 DEF PoolStep
<1> QED BY <1>5, <1>11, <1>12, NoClaimStep

\* What has expired by the clock of a caller has expired.
LEMMA ExpiredEnds ==
    ASSUME IInv, NEW t \in Reading, NEW i \in Expired(db, t)
    PROVE  Excused(i) /\ i \in DOMAIN db.inflight_deadlines
<1>1. now \in Nat /\ t \in Nat /\ t <= now
    BY ReadingType
<1>2. i \in DOMAIN db.inflight_deadlines /\ db.inflight_deadlines[i] <= t
    BY DEF Expired
<1>3. db.inflight_deadlines[i] \in Nat
    BY <1>2 DEF IInv, DbInv, LeaseInv, IsHash
<1>4. i \in Expired(db, now)
    BY <1>1, <1>2, <1>3 DEF Expired
<1> QED BY <1>2, <1>4 DEF Excused

LEMMA ReleaseInflightDoes ==
    ASSUME IInv, NEW w \in Workers, NEW t \in Reading, ReleaseInflight(w, t)
    PROVE  StepOK
<1> DEFINE S == OwnedBy(db, w)
           back == WithPayload(db, S \cap db.inflight)
           d(order) == GiveBack(db, S, back, t, order)
<1>1. S \subseteq db.inflight /\ back = S
    BY DbParts DEF OwnedBy, WithPayload, IInv
<1>2. PICK order \in Numberings(Due(db, back, t), db.sequence, NoScore) :
          db' \in {d(order), ClearWorkerIfIdle(d(order), w)}
    BY DEF ReleaseInflight
<1> DEFINE e == d(order)
<1>3. e = GiveBack(db, S, back, t, order) /\ (db' = e \/ db' = ClearWorkerIfIdle(e, w))
    BY <1>2
<1>4. \A i \in S : Excused(i) /\ Released(i)
    BY DEF OwnedBy, Excused, Released
<1> HIDE DEF S, back, d, e
<1>5. GivenBack(db, e, S)
    BY <1>1, <1>2, <1>3, GiveBackPool DEF IInv
<1>6. HasKeys(e)
    BY <1>3, GiveBackKeys, DbParts DEF IInv
<1>7. GivenBack(db, db', S)
    <2>1. CASE db' = e
        BY <1>5, <2>1
    <2>2. CASE db' = ClearWorkerIfIdle(e, w)
        <3>1. /\ db'.tasks = e.tasks /\ db'.paused = e.paused /\ db'.sequence = e.sequence
              /\ db'.ready = e.ready /\ db'.ready_order = e.ready_order
              /\ db'.delayed = e.delayed /\ db'.inflight_leases = e.inflight_leases
            BY <1>6, <2>2 DEF ClearWorkerIfIdle, HasKeys
        <3> QED BY <1>5, <3>1 DEF GivenBack, QueueGrows, Queued
    <2> QED BY <1>3, <2>1, <2>2
<1> QED BY <1>1, <1>4, <1>7, GivenBackStep DEF ReleaseInflight

LEMMA ReleaseInflightFailsDoes ==
    ASSUME IInv, NEW w \in Workers, NEW t \in Reading, ReleaseInflightFails(w, t)
    PROVE  StepOK
<1> DEFINE S == OwnedBy(db, w)
           back == WithPayload(db, S)
<1>1. S \subseteq db.inflight /\ S \cap db.inflight = S /\ back = WithPayload(db, S)
    BY DbParts DEF OwnedBy, IInv
<1>2. \A i \in S : Excused(i) /\ Released(i)
    BY DEF OwnedBy, Excused, Released
<1>3. StopsAtNull(db, S, back, NoScore, t, db') /\ held' = held /\ issued' = issued
    BY <1>1 DEF ReleaseInflightFails
<1> HIDE DEF S, back
<1> QED BY <1>1, <1>2, <1>3, FailedStep

LEMMA ReleaseScopeDoes ==
    ASSUME IInv, NEW t \in Reading, ReleaseScope(t)
    PROVE  StepOK
<1> DEFINE S == db.inflight
           back == WithPayload(db, S)
           d(order) == GiveBack(db, S, back, t, order)
<1>1. S \subseteq db.inflight /\ back = S
    BY DbParts DEF WithPayload, IInv
<1>2. PICK order \in Numberings(Due(db, back, t), db.sequence, NoScore) :
          db' = [d(order) EXCEPT !.workers = {}]
    BY DEF ReleaseScope
<1> DEFINE e == d(order)
<1>3. e = GiveBack(db, S, back, t, order) /\ db' = [e EXCEPT !.workers = {}]
    BY <1>2
<1>4. \A i \in S : Excused(i) /\ Released(i)
    BY DEF Excused, Released
<1> HIDE DEF S, back, d, e
<1>5. GivenBack(db, e, S)
    BY <1>1, <1>2, <1>3, GiveBackPool DEF IInv
<1>6. HasKeys(e)
    BY <1>3, GiveBackKeys, DbParts DEF IInv
<1>7. /\ db'.tasks = e.tasks /\ db'.paused = e.paused /\ db'.sequence = e.sequence
      /\ db'.ready = e.ready /\ db'.ready_order = e.ready_order
      /\ db'.delayed = e.delayed /\ db'.inflight_leases = e.inflight_leases
    BY <1>3, <1>6 DEF HasKeys
<1>8. GivenBack(db, db', S)
    BY <1>5, <1>7 DEF GivenBack, QueueGrows, Queued
<1> QED BY <1>1, <1>4, <1>8, GivenBackStep DEF ReleaseScope

LEMMA ReleaseScopeFailsDoes ==
    ASSUME IInv, NEW t \in Reading, ReleaseScopeFails(t)
    PROVE  StepOK
<1> DEFINE S == db.inflight
           back == WithPayload(db, S)
<1>1. /\ StopsAtNull(db, S, back, NoScore, t, db') /\ held' = held /\ issued' = issued
      /\ S \subseteq db.inflight /\ back = WithPayload(db, S)
    BY DEF ReleaseScopeFails
<1>2. \A i \in S : Excused(i) /\ Released(i)
    BY DEF Excused, Released
<1> HIDE DEF S, back
<1> QED BY <1>1, <1>2, FailedStep

LEMMA RefreshDoes ==
    ASSUME IInv, NEW t \in Reading, Refresh(t)
    PROVE  StepOK
<1>1. PICK order \in ReclaimOrders(db, t) : db' = Reclaim(db, t, order)
    BY DEF Refresh
<1>2. GivenBack(db, db', Expired(db, t)) /\ Expired(db, t) \subseteq db.inflight
    BY <1>1, ReclaimPool DEF IInv
<1> QED BY <1>2, ExpiredEnds, GivenBackStep DEF Refresh

LEMMA ReclaimFailsDoes ==
    ASSUME IInv, NEW t \in Reading, ReclaimFails(t)
    PROVE  StepOK
<1> DEFINE S == Expired(db, t)
           back == WithPayload(db, S)
<1>1. /\ StopsAtNull(db, S, back, db.inflight_deadlines, t, db')
      /\ held' = held /\ issued' = issued
      /\ S \subseteq db.inflight /\ back = WithPayload(db, S)
    BY DbParts DEF ReclaimFails, Expired, IInv, DbInv, LeaseInv
<1>2. \A i \in S : Excused(i) /\ i \in DOMAIN db.inflight_deadlines
    BY ExpiredEnds
<1> HIDE DEF S, back
<1> QED BY <1>1, <1>2, FailedStep

LEMMA PurgeDoes ==
    ASSUME IInv, PurgeScope
    PROVE  StepOK
<1>1. /\ db'.inflight_leases = NoFields /\ db'.ready = {} /\ db'.delayed = NoFields
      /\ held' = held /\ issued' = issued
    BY DEF PurgeScope, EmptyKeySpace
<1>2. Lost(DOMAIN db.inflight_leases)
    BY <1>1 DEF Lost, Del, NoFields
<1>3. Queued(db') = {}
    BY <1>1 DEF Queued, NoFields
<1>4. Pool!Purge
    BY <1>1, <1>2, <1>3 DEF Pool!Purge, Pool!Without, Lost, Del, Queued
<1>5. Pool!Next
    BY <1>4 DEF Pool!Next
<1>6. \A i \in DOMAIN db.inflight_leases : Excused(i) /\ Released(i)
    BY DEF Excused, Released
<1> QED BY <1>2, <1>5, <1>6, NoClaimStep DEF PoolStep

LEMMA ForgetLeasesDoes ==
    ASSUME IInv, NEW w \in Workers,
           \/ \E lease \in held[w] : Refused(w, lease) \/ Abandon(w, lease)
           \/ Crash(w)
    PROVE  StepOK
<1>1. UNCHANGED <<db, now, issued>>
    BY DEF Refused, Abandon, Crash
<1>2. HeldLess(held, held')
    <2>1. CASE Crash(w)
        BY <2>1 DEF Crash, IInv, HeldInv, HeldLess
    <2>2. ASSUME NEW lease \in held[w], Refused(w, lease) \/ Abandon(w, lease)
          PROVE  HeldLess(held, held')
        BY <2>2, DropLess DEF Refused, Abandon
    <2> QED BY <2>1, <2>2
<1> QED BY <1>1, <1>2, QuietStep DEF SamePool

LEMMA IdleDoes ==
    ASSUME IInv, (\E w \in Workers : Close(w)) \/ PauseScope \/ ResumeScope \/ Tick
    PROVE  StepOK
<1>1. HasKeys(db)
    BY DEF IInv, DbInv
<1>2. held' = held /\ issued' = issued
    BY DEF Close, PauseScope, ResumeScope, Tick
<1>3. SamePool(db, db')
    <2>1. ASSUME NEW w \in Workers, Close(w) PROVE SamePool(db, db')
        BY <1>1, <2>1, ClearWorkerPool DEF Close
    <2>2. CASE PauseScope \/ ResumeScope \/ Tick
        BY <1>1, <2>2 DEF PauseScope, ResumeScope, Tick, HasKeys, SamePool, Queued
    <2> QED BY <2>1, <2>2
<1> QED BY <1>2, <1>3, SameLess, QuietStep

\* The claim script, whether it finds a task or not.
LEMMA TakeReadyDoes ==
    ASSUME IInv, NEW w \in Workers, NEW t \in Reading, TakeReady(w, t)
    PROVE  \/ /\ GivenBack(db, db', Expired(db, t))
              /\ held' = held /\ issued' = issued
           \/ \E d : \E i \in Best(d) :
                 /\ DbInv(d, issued, now)
                 /\ GivenBack(db, d, Expired(db, t))
                 /\ Taken(d, db', i, issued + 1)
                 /\ issued' = issued + 1
                 /\ held' \in {held, [held EXCEPT ![w] = @ \cup {<<i, issued + 1>>}]}
<1>1. /\ now \in Nat /\ issued \in Nat /\ t \in Nat /\ t <= now
      /\ DbInv(db, issued, now)
    BY ReadingType DEF IInv
<1> DEFINE n == issued + 1
           d1(o1) == Reclaim(db, t, o1)
           d2(o1, o2) == Promote(d1(o1), t, o2)
           d3(o1, o2) == Prune(d2(o1, o2))
           Outcome(e2, e3) ==
               \/ db' = e2 /\ held' = held /\ issued' = issued
               \/ db' = e3 /\ held' = held /\ issued' = issued
               \/ /\ \E i \in Best(e3) :
                        /\ db' = SetDeadline(SyncWorker(MoveToInflight(e3, i, w, n), w), i, t)
                        /\ held' \in {held, [held EXCEPT ![w] = @ \cup {<<i, n>>}]}
                  /\ issued' = n
               \/ /\ \E i \in Best(e3) : db' = MoveToInflight(e3, i, w, n)
                  /\ issued' = n
                  /\ held' = held
<1>2. \E o1 \in ReclaimOrders(db, t) : \E o2 \in PromoteOrders(d1(o1), t) :
          Outcome(d2(o1, o2), d3(o1, o2))
    BY DEF TakeReady
<1>3. PICK o1 \in ReclaimOrders(db, t) : \E o2 \in PromoteOrders(d1(o1), t) :
          Outcome(d2(o1, o2), d3(o1, o2))
    BY <1>2
<1> DEFINE e1 == d1(o1)
<1>4. DbInv(e1, issued, now) /\ GivenBack(db, e1, Expired(db, t))
    BY <1>1, <1>3, ReclaimInv, ReclaimPool
<1>5. PICK o2 \in PromoteOrders(e1, t) : Outcome(d2(o1, o2), d3(o1, o2))
    BY <1>3
<1> DEFINE e2 == d2(o1, o2)
           e3 == d3(o1, o2)
<1>6. e2 = Promote(e1, t, o2) /\ e3 = Prune(e2) /\ Outcome(e2, e3)
    BY <1>5
<1> HIDE DEF e1, e2, e3, d1, d2, d3, Outcome
<1>7. DbInv(e2, issued, now) /\ GivenBack(e1, e2, {})
    BY <1>1, <1>4, <1>5, <1>6, PromoteInv, PromotePool
<1>8. DbInv(e3, issued, now) /\ GivenBack(e2, e3, {})
    BY <1>6, <1>7, PruneInv, PrunePool
<1>9. GivenBack(db, e2, Expired(db, t))
    <2>1. /\ db.sequence \in Nat /\ e1.sequence \in Nat /\ e2.sequence \in Nat
          /\ \A i \in e2.ready : e2.ready_order[i] \in Nat
        BY <1>1, <1>4, <1>7, DbParts
    <2> QED BY <1>4, <1>7, <2>1, GivenBackTrans
<1>10. GivenBack(db, e3, Expired(db, t))
    <2>1. /\ db.sequence \in Nat /\ e2.sequence \in Nat /\ e3.sequence \in Nat
          /\ \A i \in e3.ready : e3.ready_order[i] \in Nat
        BY <1>1, <1>7, <1>8, DbParts
    <2> QED BY <1>8, <1>9, <2>1, GivenBackTrans
<1>11. CASE (db' = e2 \/ db' = e3) /\ held' = held /\ issued' = issued
    BY <1>9, <1>10, <1>11
<1>12. ASSUME NEW i \in Best(e3), issued' = n,
              db' = SetDeadline(SyncWorker(MoveToInflight(e3, i, w, n), w), i, t),
              held' \in {held, [held EXCEPT ![w] = @ \cup {<<i, n>>}]}
       PROVE  /\ Taken(e3, db', i, n) /\ issued' = n
              /\ held' \in {held, [held EXCEPT ![w] = @ \cup {<<i, n>>}]}
    <2> HIDE DEF n
    <2>1. Taken(e3, db', i, n)
        BY <1>8, <1>12, ClaimPool
    <2> QED BY <1>12, <2>1
<1>13. ASSUME NEW i \in Best(e3), issued' = n, db' = MoveToInflight(e3, i, w, n), held' = held
       PROVE  /\ Taken(e3, db', i, n) /\ issued' = n
              /\ held' \in {held, [held EXCEPT ![w] = @ \cup {<<i, n>>}]}
    <2> HIDE DEF n
    <2>1. Taken(e3, db', i, n)
        BY <1>8, <1>13, MoveToInflightPool
    <2> QED BY <1>13, <2>1
<1>14. \/ (db' = e2 \/ db' = e3) /\ held' = held /\ issued' = issued
       \/ \E i \in Best(e3) :
             /\ Taken(e3, db', i, n) /\ issued' = n
             /\ held' \in {held, [held EXCEPT ![w] = @ \cup {<<i, n>>}]}
    BY <1>6, <1>12, <1>13 DEF Outcome
<1> QED BY <1>8, <1>10, <1>11, <1>14

\* What the claim takes from d, the key space after its reclaim and promotion, comes
\* before what it leaves.
LEMMA ClaimFirst ==
    ASSUME IInv, NEW d, DbInv(d, issued, now), NEW S, GivenBack(db, d, S),
           NEW i \in Best(d), NEW m, Taken(d, db', i, m), NEW j \in db'.ready
    PROVE  First(i, j)
<1> DEFINE p == d.tasks[i]
           q == d.tasks[j]
<1>1. /\ db'.tasks = d.tasks /\ i \in d.ready /\ j \in d.ready /\ j # i /\ ~Better(d, j, i)
    BY DEF Taken, Best
<1>2. /\ p.priority \in Int /\ q.priority \in Int /\ p.depth \in Nat /\ q.depth \in Nat
    <2>1. p \in Payloads /\ q \in Payloads
        BY <1>1, DbParts DEF DbInv, BucketInv, IsHash
    <2> QED BY <2>1, RedisAssumption
<1>3. /\ d.ready_order[i] \in Nat /\ d.ready_order[j] \in Nat
      /\ d.ready_order[i] # d.ready_order[j]
    <2>1. d.ready_order[i] = d.ready_order[j] => i = j
        BY <1>1 DEF DbInv, QueueInv
    <2> QED BY <1>1, <2>1, DbParts
<1>4. ASSUME j \in db.ready, d.ready_order[i] < d.ready_order[j]
      PROVE  i \in db.ready /\ db.ready_order[i] < db.ready_order[j]
    <2>1. QueueGrows(db, d)
        BY DEF GivenBack
    <2>2. /\ d.ready_order[j] = db.ready_order[j] /\ db.ready_order[j] <= db.sequence
          /\ db.sequence \in Nat
        BY <1>4, <2>1, DbParts DEF QueueGrows, IInv
    <2>3. i \in db.ready
        BY <1>1, <1>3, <1>4, <2>1, <2>2 DEF QueueGrows
    <2> QED BY <1>4, <2>1, <2>2, <2>3 DEF QueueGrows
<1>5. /\ ~(q.priority > p.priority)
      /\ ~(q.priority = p.priority /\ q.depth < p.depth)
      /\ ~(q.priority = p.priority /\ q.depth = p.depth
           /\ d.ready_order[j] < d.ready_order[i])
    BY <1>1 DEF Better
<1> HIDE DEF p, q
<1>6. \/ p.priority > q.priority
      \/ p.priority = q.priority /\ p.depth < q.depth
      \/ /\ p.priority = q.priority /\ p.depth = q.depth
         /\ d.ready_order[i] < d.ready_order[j]
    BY <1>2, <1>3, <1>5
<1>7. \/ p.priority > q.priority
      \/ p.priority = q.priority /\ p.depth < q.depth
      \/ /\ p.priority = q.priority /\ p.depth = q.depth
         /\ (j \in db.ready => i \in db.ready /\ db.ready_order[i] < db.ready_order[j])
    BY <1>4, <1>6
<1> QED BY <1>1, <1>7 DEF First, p, q

LEMMA TakeReadyIsStep ==
    ASSUME IInv, NEW w \in Workers, NEW t \in Reading, TakeReady(w, t)
    PROVE  StepOK
<1> DEFINE S == Expired(db, t)
           m == issued + 1
<1>1. S \subseteq db.inflight
    BY DEF Expired, IInv, DbInv, LeaseInv
<1>2. \A i \in S : Excused(i) /\ i \in DOMAIN db.inflight_deadlines
    BY ExpiredEnds
<1>3. CASE GivenBack(db, db', S) /\ held' = held /\ issued' = issued
    BY <1>1, <1>2, <1>3, GivenBackStep
<1>4. ASSUME NEW d, NEW i \in Best(d), DbInv(d, issued, now), GivenBack(db, d, S),
             Taken(d, db', i, m), issued' = m,
             held' \in {held, [held EXCEPT ![w] = @ \cup {<<i, m>>}]}
      PROVE  StepOK
    <2> HIDE DEF S, m
    <2>1. i \in d.ready /\ i \in Ids /\ i \notin DOMAIN d.inflight_leases
        BY <1>4, DbParts DEF Best
    <2>2. /\ DOMAIN d.inflight_leases = DOMAIN db.inflight_leases \ S
          /\ \A j \in DOMAIN db.inflight_leases \ S :
                d.inflight_leases[j] = db.inflight_leases[j]
        BY <1>4 DEF GivenBack, Del
    <2>3. /\ DOMAIN db'.inflight_leases = (DOMAIN db.inflight_leases \ S) \cup {i}
          /\ \A j \in DOMAIN db'.inflight_leases :
                db'.inflight_leases[j] = IF j = i THEN m ELSE db.inflight_leases[j]
          /\ db'.inflight_leases = [j \in (DOMAIN db.inflight_leases \ S) \cup {i} |->
                                       IF j = i THEN m ELSE db.inflight_leases[j]]
        BY <1>4, <2>1, <2>2 DEF Taken, Put, Field
    <2>4. \A j \in DOMAIN db.inflight_leases \ S : Stays(j)
        BY <2>1, <2>2, <2>3 DEF Stays
    <2>5. LeaseEnds
        BY <1>2, <2>4 DEF LeaseEnds
    <2>6. StrandedStays
        BY <1>2, <2>4 DEF StrandedStays
    <2>7. BestFirst
        <3> SUFFICES ASSUME NEW j \in DOMAIN db'.inflight_leases,
                            j \notin DOMAIN db.inflight_leases
                                \/ db.inflight_leases[j] # db'.inflight_leases[j],
                            NEW k \in db'.ready
                     PROVE  First(j, k)
            BY DEF BestFirst
        <3>1. j = i
            BY <2>3
        <3>2. First(i, k)
            BY <1>4, ClaimFirst
        <3> QED BY <3>1, <3>2
    <2>8. ASSUME NEW U \in SUBSET Ids, U = S
          PROVE  Pool!Claim(i, U)
        <3>1. S \subseteq DOMAIN db.inflight_leases
            BY <1>1, DbParts DEF IInv
        <3>2. i \in Queued(db) \cup S /\ Queued(db') = (Queued(db) \cup S) \ {i}
            BY <1>4, <2>1 DEF GivenBack, Taken, Queued
        <3>3. issued' = issued + 1
            BY <1>4 DEF m
        <3>4. Handed' \in {Handed, Handed \cup {<<i, issued'>>}}
            <4>1. held \in [Workers -> SUBSET Lease]
                BY DEF IInv, HeldInv
            <4>2. CASE held' = held
                BY <4>2 DEF Handed
            <4>3. CASE held' = [held EXCEPT ![w] = @ \cup {<<i, m>>}]
                <5>1. \A v \in Workers : held'[v] = IF v = w THEN held[v] \cup {<<i, m>>}
                                                    ELSE held[v]
                    BY <4>1, <4>3
                <5>2. Handed' = Handed \cup {<<i, m>>}
                    BY <5>1 DEF Handed
                <5> QED BY <1>4, <5>2
            <4> QED BY <1>4, <4>2, <4>3
        <3> QED BY <1>4, <2>3, <2>8, <3>1, <3>2, <3>3, <3>4 DEF Pool!Claim, Handed, Queued
    <2>9. S \in SUBSET Ids
        BY <1>1, DbParts DEF IInv
    <2>10. Pool!Next
        <3>1. PICK U \in SUBSET Ids : U = S
            BY <2>9
        <3>2. Pool!Claim(i, U)
            BY <2>8, <3>1
        <3> QED BY <2>1, <3>2 DEF Pool!Next
    <2> QED BY <2>5, <2>6, <2>7, <2>10 DEF StepOK, PoolStep
<1> QED BY <1>3, <1>4, TakeReadyDoes

LEMMA StepsOK ==
    ASSUME ~IdsCollide
    PROVE  IInv /\ Next => StepOK
<1> SUFFICES ASSUME IInv, Next
             PROVE  StepOK
    OBVIOUS
<1>1. CASE \E i \in Ids, p \in Payloads : Enqueue(i, p)
    BY <1>1, EnqueueDoes
<1>2. CASE \E w \in Workers, t \in Reading : TakeReady(w, t)
    BY <1>2, TakeReadyIsStep
<1>3. ASSUME NEW w \in Workers, NEW lease \in held[w],
             \/ Refused(w, lease)
             \/ Complete(w, lease)
             \/ CompleteAndEnqueue(w, lease)
             \/ Abandon(w, lease)
             \/ RequeueFails(w, lease)
             \/ \E t \in Reading : Requeue(w, lease, t) \/ Heartbeat(w, lease, t)
      PROVE  StepOK
    <2>1. CASE Refused(w, lease) \/ Abandon(w, lease)
        BY <2>1, ForgetLeasesDoes
    <2>2. CASE Complete(w, lease)
        BY <2>2, CompleteDoes
    <2>3. CASE CompleteAndEnqueue(w, lease)
        BY <2>3, CompleteAndEnqueueDoes
    <2>4. CASE \E t \in Reading : Requeue(w, lease, t)
        BY <2>4, RequeueDoes
    <2>5. CASE \E t \in Reading : Heartbeat(w, lease, t)
        BY <2>5, HeartbeatDoes
    <2>6. CASE RequeueFails(w, lease)
        BY <2>6, RequeueFailsDoes
    <2> QED BY <1>3, <2>1, <2>2, <2>3, <2>4, <2>5, <2>6
<1>4. ASSUME NEW w \in Workers, Crash(w) \/ Close(w)
      PROVE  StepOK
    BY <1>4, ForgetLeasesDoes, IdleDoes
<1>5. CASE \E w \in Workers, t \in Reading :
               ReleaseInflight(w, t) \/ ReleaseInflightFails(w, t)
    BY <1>5, ReleaseInflightDoes, ReleaseInflightFailsDoes
<1>6. CASE \E t \in Reading : Refresh(t) \/ ReleaseScope(t)
    BY <1>6, RefreshDoes, ReleaseScopeDoes
<1>7. CASE PauseScope \/ ResumeScope \/ PurgeScope \/ Tick
    BY <1>7, IdleDoes, PurgeDoes
<1>8. CASE \E t \in Reading : ReclaimFails(t) \/ ReleaseScopeFails(t)
    BY <1>8, ReclaimFailsDoes, ReleaseScopeFailsDoes
<1> QED
    BY <1>1, <1>2, <1>3, <1>4, <1>5, <1>6, <1>7, <1>8 DEF Next

-----------------------------------------------------------------------------
(* The theorems. *)

\* The inductive invariant holds of every behaviour in which each enqueue uses a
\* task id of its own.
THEOREM Inductive ==
    ASSUME ~IdsCollide
    PROVE  Spec => []IInv
<1>1. IInv /\ [Next]_vars => IInv'
    BY IInvStep
<1> QED
    BY IInvInit, <1>1, PTL DEF Spec

\* A process whose claim script fails at sync_worker_runtime never works under a
\* lease: as shipped, no process does.
THEOREM AlwaysNothingHeldUnsynced ==
    ASSUME ~IdsCollide
    PROVE  Spec => []NothingHeldUnsynced
<1>1. IInv => NothingHeldUnsynced
    BY DEF IInv, HeldInv, NothingHeldUnsynced
<1> QED
    BY Inductive, <1>1, PTL

\* Type correctness of the key space and of what the processes hold.
THEOREM TypeCorrect ==
    ASSUME ~IdsCollide
    PROVE  Spec => []TypeOK
<1>1. IInv => TypeOK
    BY DEF IInv, DbInv, QueueInv, LeaseInv, BucketInv, HeldInv, TypeOK, IsKeySpace
<1> QED
    BY Inductive, <1>1, PTL

\* No script puts a task in two buckets or an id in one without its payload, even
\* one that fails half way: for any number of workers, tasks, clock skews, deaths.
THEOREM BucketsAreAlwaysDisjoint ==
    ASSUME ~IdsCollide
    PROVE  Spec => []BucketsAreDisjoint
<1>1. IInv => BucketsAreDisjoint
    BY DEF IInv, DbInv, BucketInv, BucketsAreDisjoint, Queued
<1> QED
    BY Inductive, <1>1, PTL

\* What the scripts lose, as shipped or with null read as absent: nothing but a task
\* whose ready_at is null, to a loop that stops at it.
THEOREM OnlyNullIsEverLost ==
    ASSUME ~IdsCollide
    PROVE  Spec => []OnlyNullIsLost
<1>1. IInv => OnlyNullIsLost
    BY DEF IInv, DbInv, BucketInv, OnlyNullIsLost, Queued
<1> QED
    BY Inductive, <1>1, PTL

\* The owner, the lease and the queue number of a task exist exactly while it is
\* inflight, respectively ready.
THEOREM KeysAlwaysAgree ==
    ASSUME ~IdsCollide
    PROVE  Spec => []KeysAgree
<1>1. IInv => KeysAgree
    BY DEF IInv, DbInv, QueueInv, LeaseInv, KeysAgree
<1> QED
    BY Inductive, <1>1, PTL

\* Mutual exclusion: two workers never hold the lease in force of one task.
THEOREM LeaseIsAlwaysOwnership ==
    ASSUME ~IdsCollide
    PROVE  Spec => []LeaseIsOwnership
<1>1. IInv => LeaseIsOwnership
    BY DEF IInv, DbInv, LeaseInv, HeldInv, LeaseIsOwnership
<1> QED
    BY Inductive, <1>1, PTL

\* Whatever the clock lag of the callers, no task runs before its ready_at.
THEOREM NeverEarlyHolds ==
    ASSUME ~IdsCollide
    PROVE  Spec => []NeverEarly
<1>1. IInv => NeverEarly
    BY DEF IInv, DbInv, BucketInv, NeverEarly
<1> QED
    BY Inductive, <1>1, PTL

\* The order of the ready tasks is total, so the claim script has one best task.
THEOREM ReadyOrderIsAlwaysTotal ==
    ASSUME ~IdsCollide
    PROVE  Spec => []ReadyOrderIsTotal
<1>1. IInv => ReadyOrderIsTotal
    BY DEF IInv, DbInv, QueueInv, ReadyOrderIsTotal
<1> QED
    BY Inductive, <1>1, PTL

\* Exactly the claims of the scripts that get past sync_worker_runtime have a
\* deadline: no heartbeat gives the others one, so as shipped no claim expires.
THEOREM ClaimsExpireExactlyIfSynced ==
    ASSUME ~IdsCollide
    PROVE  Spec => []ClaimsExpireIfSynced
<1>1. IInv => ClaimsExpireIfSynced
    BY DEF IInv, DbInv, LeaseInv, ClaimsExpireIfSynced
<1> QED
    BY Inductive, <1>1, PTL

\* A worker loses a running task only by its own call under the lease, after its
\* deadline, or to an explicit release or purge: whatever the other processes do,
\* and with the scripts as they are shipped.
THEOREM OnlyHoldersOrExpiryEndLeases ==
    ASSUME ~IdsCollide
    PROVE  Spec => OnlyHolderOrExpiryEndsLease
<1>1. IInv /\ [Next]_vars => [LeaseEnds]_vars
    BY StepsOK DEF StepOK
<1>2. IInv /\ [Next]_vars =>
        [\A i \in DOMAIN db.inflight_leases :
          LET w == db.inflight_workers[i]
              lease == <<i, db.inflight_leases[i]>>
          IN  \/ /\ i \in DOMAIN db'.inflight_leases
                 /\ db'.inflight_leases[i] = db.inflight_leases[i]
              \/ i \in Expired(db, now)
              \/ lease \in held[w] \ held'[w]
              \/ \E t \in Reading :
                    \/ ReleaseInflight(w, t) \/ ReleaseScope(t)
                    \/ ReleaseInflightFails(w, t) \/ ReleaseScopeFails(t)
              \/ PurgeScope]_vars
    BY <1>1 DEF LeaseEnds, Excused, Stays
<1> QED
    BY Inductive, <1>2, PTL DEF Spec, OnlyHolderOrExpiryEndsLease

\* A claim takes the first of the ready tasks, although the script that picks it
\* first moves expired and due tasks to ready.
THEOREM ClaimsAlwaysTakeTheBest ==
    ASSUME ~IdsCollide
    PROVE  Spec => ClaimsTheBest
<1>1. IInv /\ [Next]_vars => [BestFirst]_vars
    BY StepsOK DEF StepOK
<1>2. IInv /\ [Next]_vars =>
        [\A i \in DOMAIN db'.inflight_leases :
          (i \notin DOMAIN db.inflight_leases
              \/ db.inflight_leases[i] # db'.inflight_leases[i])
          => \A j \in db'.ready :
                LET p == db'.tasks[i]
                    q == db'.tasks[j]
                IN  \/ p.priority > q.priority
                    \/ /\ p.priority = q.priority
                       /\ p.depth < q.depth
                    \/ /\ p.priority = q.priority
                       /\ p.depth = q.depth
                       /\ (j \in db.ready =>
                             i \in db.ready /\ db.ready_order[i] < db.ready_order[j])]_vars
    BY <1>1 DEF BestFirst, First
<1> QED
    BY Inductive, <1>2, PTL DEF Spec, ClaimsTheBest

\* A task claimed without a deadline is out of reach of the clock: only its
\* worker's release, a release of the scope or a purge brings it back.
THEOREM StrandedTasksStayUntilReleased ==
    ASSUME ~IdsCollide
    PROVE  Spec => StrandedUntilReleased
<1>1. IInv /\ [Next]_vars => [StrandedStays]_vars
    BY StepsOK DEF StepOK
<1>2. IInv /\ [Next]_vars =>
        [\A i \in DOMAIN db.inflight_leases \ DOMAIN db.inflight_deadlines :
          \/ /\ i \in DOMAIN db'.inflight_leases
             /\ db'.inflight_leases[i] = db.inflight_leases[i]
          \/ \E t \in Reading :
                \/ ReleaseInflight(db.inflight_workers[i], t) \/ ReleaseScope(t)
                \/ ReleaseInflightFails(db.inflight_workers[i], t) \/ ReleaseScopeFails(t)
          \/ PurgeScope]_vars
    BY <1>1 DEF StrandedStays, Stays, Released
<1> QED
    BY Inductive, <1>2, PTL DEF Spec, StrandedUntilReleased

\* The namespace is the pool of tasks the scheduler contract describes: every script
\* is one step of it or none, except that a loop stopped by a null loses that task.
THEOREM Implements ==
    ASSUME ~IdsCollide
    PROVE  Spec => ImplementsTaskPoolUnlessNull
<1>1. Init => Pool!Init
    <2> SUFFICES ASSUME Init
                 PROVE  Pool!Init
        OBVIOUS
    <2>1. Queued(db) = {} /\ db.inflight_leases = [i \in {} |-> 0] /\ issued = 0
        BY DEF Init, EmptyKeySpace, NoFields, Queued, Immediate
    <2>2. UNION {held[w] : w \in Workers} = {}
        BY DEF Init
    <2> QED BY <2>1, <2>2 DEF Pool!Init
<1>2. IInv /\ [Next]_vars => [PoolStep]_(Pool!vars)
    <2>1. CASE Next
        BY <2>1, StepsOK DEF StepOK
    <2>2. CASE UNCHANGED vars
        BY <2>2 DEF vars, Pool!vars, Queued
    <2> QED BY <2>1, <2>2
<1>3. IInv /\ [Next]_vars =>
        [\/ Pool!Next
         \/ \E S \in SUBSET Ids : \E i \in S : LosesToNull(S, i)]_(Pool!vars)
    BY <1>2 DEF PoolStep
<1> QED
    BY <1>1, <1>3, Inductive, PTL DEF Spec, ImplementsTaskPoolUnlessNull

=============================================================================
