-------------------------- MODULE MCRedisScheduler --------------------------
(* Small instances of RedisScheduler for TLC. *)
EXTENDS RedisScheduler, TLC

\* s is a worker whose claim script fails where the shipped one does.
CONSTANTS a, b, u, v, s

\* A task that is ready at once, and two that wait and differ in priority or depth.
MCPayloads ==
    {[priority |-> 0, depth |-> 0, ready_at |-> Immediate],
     [priority |-> 0, depth |-> 1, ready_at |-> 1],
     [priority |-> 1, depth |-> 1, ready_at |-> 1]}

\* For the runs about time: the order of claims does not matter there.
MCPlainPayloads ==
    {[priority |-> 0, depth |-> 0, ready_at |-> Immediate]}

Symmetry == Permutations(Ids) \cup Permutations(SyncDefined)

=============================================================================
