----------------------- MODULE MCCheckpointScheduler -----------------------
(* Small instances of CheckpointScheduler. *)
EXTENDS CheckpointScheduler

CONSTANTS engine, t1, t2

\* A plain task, and one of a better rank that waits.
MCPayloads ==
    {[priority |-> 0, depth |-> 0, ready_at |-> 0],
     [priority |-> 1, depth |-> 0, ready_at |-> 1]}

MCSymmetry == Permutations(Ids)

=============================================================================
