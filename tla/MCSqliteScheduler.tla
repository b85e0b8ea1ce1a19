------------------------- MODULE MCSqliteScheduler -------------------------
(* Small instances of SqliteScheduler. *)
EXTENDS SqliteScheduler, TLC

CONSTANTS a, b, t1, t2

\* A plain task, and one of a better rank that waits.
MCPayload ==
    [id \in Ids |->
        IF id = t1 THEN [priority |-> 0, depth |-> 0, ready_at |-> 0]
        ELSE [priority |-> 1, depth |-> 0, ready_at |-> 1]]

\* a is a process that dies or meets errors, b the one an operator uses.
MCOperations ==
    (a :> {"release_inflight", "crash", "error"}) @@ (b :> {"release_scope", "purge"})

\* Both may die, and read, and the scope may be paused and stay so.
MCPauses == (a :> {"crash", "snapshot"}) @@ (b :> {"crash", "pause", "checkpoint", "counts"})

=============================================================================
