------------------------------ MODULE TaskPool ------------------------------
(***************************************************************************)
(* What every scheduler backend promises to the engine: the contract of    *)
(* the Scheduler and Control traits (src/scheduler/traits.rs, control.rs). *)
(* A pool of tasks, each either waiting or running; a running task has one *)
(* lease, and only whoever was handed that lease can finish the task.      *)
(* Buckets, deadlines, workers and the order of claims are left to the     *)
(* backends, which are shown to implement this module.                     *)
(***************************************************************************)
EXTENDS Integers

CONSTANT Ids    \* task ids

VARIABLES
    waiting,    \* tasks nobody works on, ready or delayed
    running,    \* running[i]: the lease of the inflight task i
    granted,    \* number of leases granted so far
    handed      \* pairs <<task id, lease>> some worker works under

vars == <<waiting, running, granted, handed>>

Pool == waiting \cup DOMAIN running

Init ==
    /\ waiting = {}
    /\ running = [i \in {} |-> 0]
    /\ granted = 0
    /\ handed = {}

Without(S) == [i \in DOMAIN running \ S |-> running[i]]

\* enqueue: a task id is in the pool once.
Submit(i) ==
    /\ i \in Ids \ Pool
    /\ waiting' = waiting \cup {i}
    /\ UNCHANGED <<running, granted, handed>>

\* Leases given up or taken back: requeue, reclaim, release_inflight, release_scope.
GiveBack(S) ==
    /\ S \subseteq DOMAIN running
    /\ waiting' = waiting \cup S
    /\ running' = Without(S)
    /\ UNCHANGED granted
    /\ handed' \subseteq handed

\* take_ready: a backend may take expired leases back in the same step, and the
\* worker may never learn of its lease.
Claim(i, S) ==
    /\ S \subseteq DOMAIN running
    /\ i \in waiting \cup S
    /\ waiting' = (waiting \cup S) \ {i}
    /\ granted' = granted + 1
    /\ running' = [j \in (DOMAIN running \ S) \cup {i} |->
                     IF j = i THEN granted' ELSE running[j]]
    /\ handed' \in {handed, handed \cup {<<i, granted'>>}}

\* complete and complete_and_enqueue: the follow-ups appear in the same step. The
\* worker may forget other leases with this one, if the answer fails its process.
Finish(i, S) ==
    /\ i \in DOMAIN running
    /\ <<i, running[i]>> \in handed
    /\ S \subseteq Ids \ (Pool \ {i})
    /\ waiting' = waiting \cup S
    /\ running' = Without({i})
    /\ handed' \subseteq handed \ {<<i, running[i]>>}
    /\ UNCHANGED granted

\* A worker forgets leases: refused calls, errors, a crash.
Forget ==
    /\ handed' \subseteq handed
    /\ UNCHANGED <<waiting, running, granted>>

\* purge_scope
Purge ==
    /\ waiting' = {}
    /\ running' = Without(DOMAIN running)
    /\ UNCHANGED <<granted, handed>>

Next ==
    \/ \E i \in Ids : Submit(i)
    \/ \E S \in SUBSET Ids : GiveBack(S)
    \/ \E i \in Ids, S \in SUBSET Ids : Claim(i, S) \/ Finish(i, S)
    \/ Forget
    \/ Purge

Spec == Init /\ [][Next]_vars

=============================================================================
