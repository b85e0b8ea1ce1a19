----------------------------- MODULE MemoryState -----------------------------
(***************************************************************************)
(* The state of the memory scheduler (src/scheduler/memory.rs): ready is a *)
(* queue in the order of claims, delayed and inflight are vectors. Each    *)
(* operation runs under one lock and is an operator from state to state    *)
(* here. The time a worker was last seen is left out: only snapshots show  *)
(* it.                                                                     *)
(*                                                                         *)
(* A task is [id, priority, depth, ready_at]; ready_at is 0 for a task     *)
(* that never waits. An inflight entry is [task, lease]; lease is 0 when   *)
(* the entry comes from a checkpoint.                                      *)
(***************************************************************************)
EXTENDS Integers, SequencesExt

NewState == [ready |-> <<>>, delayed |-> <<>>, inflight |-> <<>>, paused |-> FALSE]

IdsOf(tasks) == {tasks[i].id : i \in DOMAIN tasks}

TasksOf(entries) == [i \in DOMAIN entries |-> entries[i].task]

Waiting(s) == IdsOf(s.ready) \cup IdsOf(s.delayed)

Inflight(s) == IdsOf(TasksOf(s.inflight))

\* Mutant of IsReady: a task that waits for nothing is never ready.
StrictlyReady(task, time) == task.ready_at < time

IsReady(task, time) == task.ready_at <= time

\* ready_ordering: left is claimed before right, whenever each arrived.
Before(left, right) ==
    \/ left.priority > right.priority
    \/ left.priority = right.priority /\ left.depth < right.depth

-----------------------------------------------------------------------------
\* Mutant of Place: a task overtakes those of its own rank.
PlaceFirst(ready, task) ==
    LET worse == {i \in DOMAIN ready : ~Before(ready[i], task)}
    IN  IF worse = {} THEN Len(ready) + 1 ELSE Min(worse)

\* Before the first task that is worse, or at the end.
Place(ready, task) ==
    LET worse == {i \in DOMAIN ready : Before(task, ready[i])}
    IN  IF worse = {} THEN Len(ready) + 1 ELSE Min(worse)

PushReadyTask(ready, task) == InsertAt(ready, Place(ready, task), task)

PushTask(s, task, time) ==
    IF IsReady(task, time)
    THEN [s EXCEPT !.ready = PushReadyTask(@, task)]
    ELSE [s EXCEPT !.delayed = Append(@, task)]

\* One after the other; pushed[n] is the state after the first n.
PushTasks(s, tasks, time) ==
    LET pushed[n \in 0 .. Len(tasks)] ==
            IF n = 0 THEN s ELSE PushTask(pushed[n - 1], tasks[n], time)
    IN  pushed[Len(tasks)]

PromoteDelayed(s, time) == PushTasks([s EXCEPT !.delayed = <<>>], s.delayed, time)

-----------------------------------------------------------------------------
\* Mutant of Take: the task stays in ready.
TakeCopy(s, lease, time) ==
    LET promoted == PromoteDelayed(s, time)
        entry == [task |-> Head(promoted.ready), lease |-> lease]
    IN  [promoted EXCEPT !.inflight = Append(@, entry)]

\* take_ready, when a task is ready: the first one, under a new lease.
Take(s, lease, time) ==
    LET promoted == PromoteDelayed(s, time)
        entry == [task |-> Head(promoted.ready), lease |-> lease]
    IN  [promoted EXCEPT !.ready = Tail(@), !.inflight = Append(@, entry)]

\* Mutant of LeaseHolds: the task is inflight, under any lease.
AnyLeaseHolds(s, id, lease) == \E i \in DOMAIN s.inflight : s.inflight[i].task.id = id

\* ensure_memory_lease
LeaseHolds(s, id, lease) ==
    \E i \in DOMAIN s.inflight :
        /\ s.inflight[i].task.id = id
        /\ s.inflight[i].lease = lease

KeptWith(kept, entry, ids) == IF entry.task.id \in ids THEN Append(kept, entry) ELSE kept

\* The entries of these tasks, in their order.
Entries(entries, ids) ==
    LET kept[n \in 0 .. Len(entries)] ==
            IF n = 0 THEN <<>> ELSE KeptWith(kept[n - 1], entries[n], ids)
    IN  kept[Len(entries)]

Resolved(s, id) == [s EXCEPT !.inflight = Entries(@, Inflight(s) \ {id})]

\* complete, and complete_and_enqueue with its follow-ups.
CompleteAndEnqueue(s, id, tasks, time) == PushTasks(Resolved(s, id), tasks, time)

\* The entries of these tasks go back in their order, the others stay.
Released(s, ids, time) ==
    PushTasks([s EXCEPT !.inflight = Entries(@, Inflight(s) \ ids)],
              TasksOf(Entries(s.inflight, ids)), time)

Requeue(s, id, time) == Released(s, {id}, time)

\* Every entry with a lease is the worker's own: a process has one worker.
ReleaseInflight(s, time) ==
    Released(s, {entry.task.id : entry \in {e \in ToSet(s.inflight) : e.lease # 0}}, time)

ReleaseScope(s, time) == Released(s, Inflight(s), time)

Purged(s) == [NewState EXCEPT !.paused = s.paused]

-----------------------------------------------------------------------------
\* Mutant of CheckpointOf: tasks that are inflight are not kept.
QueuesOf(s) == [ready |-> s.ready, delayed |-> s.delayed, inflight |-> <<>>]

\* What a checkpoint keeps, and what it restores: inflight tasks lose their
\* lease, and a pause is forgotten.
CheckpointOf(s) == [ready |-> s.ready, delayed |-> s.delayed, inflight |-> TasksOf(s.inflight)]

FromCheckpoint(c) ==
    [ready |-> c.ready, delayed |-> c.delayed, paused |-> FALSE,
     inflight |-> [i \in DOMAIN c.inflight |-> [task |-> c.inflight[i], lease |-> 0]]]

=============================================================================
