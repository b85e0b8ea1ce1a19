-------------------------- MODULE SqliteScheduler --------------------------
(***************************************************************************)
(* One scope of the SQLite scheduler (src/scheduler/sqlite.rs), shared by  *)
(* processes that have a handle of their own on the file. A call is a      *)
(* series of SQL statements and each of them is one step: only             *)
(* complete_and_enqueue runs in a transaction, which the other processes   *)
(* see as one step. A process may die between two statements, and a        *)
(* statement may fail and end the call it belongs to with an error.        *)
(*                                                                         *)
(* Every process looks at its handle through Observed (runtime.rs), which  *)
(* reports what its calls did. Task ids are unique here.                   *)
(***************************************************************************)
EXTENDS Integers, Sequences, FiniteSetsExt, Maps

CONSTANTS
    Ids,            \* task ids
    Payload,        \* Payload[id]: [priority, depth, ready_at] of a task
    Workers,        \* processes, named by their worker_id
    LeaseTimeout,   \* lease_timeout
    Operations,     \* Operations[w]: what w does besides the calls of a run
    Horizon,        \* bound on the clock and on deadlines
    MaxLease,       \* bound on the number of claims
    MaxSequence,    \* bound on the sequences under which tasks are still added
    MaxFailing      \* bound on the sequences under which statements still fail

NoWorker == "none"

ASSUME SqliteAssumption ==
    /\ Payload \in [Ids -> [priority : Int, depth : Nat, ready_at : Nat]]
    /\ LeaseTimeout \in Nat \ {0}
    /\ Horizon \in Nat
    /\ MaxLease \in Nat
    /\ MaxSequence \in Nat
    /\ MaxFailing \in Nat
    /\ NoWorker \notin Workers

VARIABLES
    rows,           \* scheduler_tasks of the scope, by task_id
    next_sequence,  \* scheduler_scopes: the last sequence reserved
    is_paused,      \* scheduler_scopes
    now,            \* the clock
    granted,        \* number of leases granted
    up,             \* the processes that run
    call,           \* the call each process is in
    held,           \* held[w]: pairs <<task id, lease>> w works under
    events,         \* events[w]: leases reclaimed that w has not reported yet
    reported,       \* leases claimed less leases ended, as all reporters count them
    exact           \* nothing has happened without its report: else reported is not kept

scopeVars == <<next_sequence, is_paused>>
tableVars == <<rows, scopeVars>>
reportVars == <<events, reported, exact>>
vars == <<tableVars, now, granted, up, call, held, reportVars>>

-----------------------------------------------------------------------------
\* What a process knows inside a call: the rows it has still to give back, how many it
\* has, the one at hand, and what it has read, since when.
Idle == [op |-> "none", at |-> "idle", todo |-> {}, done |-> 0, id |-> NoWorker,
         lease |-> 0, state |-> "none", sequence |-> 0, since |-> 0, seen |-> Empty,
         found |-> <<>>]

Init ==
    /\ rows = Empty
    /\ next_sequence = 0
    /\ is_paused = FALSE
    /\ now = 0
    /\ granted = 0
    /\ up = Workers
    /\ call = [w \in Workers |-> Idle]
    /\ held = [w \in Workers |-> {}]
    /\ events = [w \in Workers |-> 0]
    /\ reported = 0
    /\ exact = TRUE

-----------------------------------------------------------------------------
\* Rows.

In(state) == {id \in DOMAIN rows : rows[id].state = state}

Owns(w, id) == id \in In("inflight") /\ rows[id].worker = w

\* Mutant of LeaseHolds: WHERE worker_id = ? without the lease.
WorkerHolds(w, id, lease) == Owns(w, id) /\ lease \in Int

LeaseHolds(w, id, lease) == Owns(w, id) /\ rows[id].lease = lease

\* Mutant of Expired: a row is due a moment early.
AlmostExpired == {id \in In("inflight") : rows[id].deadline <= now + 1}

Expired == {id \in In("inflight") : rows[id].deadline <= now}

StateFor(id) == IF Payload[id].ready_at <= now THEN "ready" ELSE "delayed"

NewRow(id, sequence) ==
    [state |-> StateFor(id), sequence |-> sequence,
     worker |-> NoWorker, lease |-> 0, deadline |-> 0]

\* Mutant of Returned: the deadline stays.
ReturnedWithDeadline(row, state, sequence) ==
    [row EXCEPT !.state = state, !.sequence = sequence, !.worker = NoWorker, !.lease = 0]

\* A row nobody works on any more, at the end of its queue.
Returned(row, state, sequence) ==
    [row EXCEPT !.state = state, !.sequence = sequence,
                !.worker = NoWorker, !.lease = 0, !.deadline = 0]

\* ORDER BY priority DESC, depth ASC, sequence ASC
Sooner(i, j) ==
    LET p == Payload[i]
        q == Payload[j]
    IN  \/ p.priority > q.priority
        \/ p.priority = q.priority /\ p.depth < q.depth
        \/ /\ p.priority = q.priority /\ p.depth = q.depth
           /\ rows[i].sequence < rows[j].sequence

FirstReady == {id \in In("ready") : \A other \in In("ready") : ~Sooner(other, id)}

-----------------------------------------------------------------------------
\* A call begins and returns; then Observed reports what it did, and the reclaims before.

At(w, at) == w \in up /\ call[w].at = at

Begin(w, frame) ==
    /\ At(w, "idle")
    /\ call' = [call EXCEPT ![w] = frame]

Report(w, claimed, ended) ==
    /\ events' = [events EXCEPT ![w] = 0]
    /\ reported' = IF exact THEN reported + claimed - ended - events[w] ELSE 0
    /\ UNCHANGED exact

\* Something escapes the reports.
Escapes(happens) ==
    /\ exact' = (exact /\ ~happens)
    /\ reported' = IF exact' THEN reported ELSE 0

Return(w, claimed, ended) ==
    /\ call' = [call EXCEPT ![w] = Idle]
    /\ Report(w, claimed, ended)

\* The lease was not in force: the process is told so and drops it.
Refuse(w, id, lease) ==
    /\ held' = [held EXCEPT ![w] = @ \ {<<id, lease>>}]
    /\ Return(w, 0, 0)

-----------------------------------------------------------------------------
\* enqueue. reserve_sequence is an UPDATE and a SELECT: two processes between them
\* read the same sequence.

Fresh == Ids \ (DOMAIN rows \cup {call[w].id : w \in {v \in Workers : call[v].op = "enqueue"}})

Enqueue(w, id) ==
    /\ id \in Fresh
    /\ next_sequence < MaxSequence
    /\ Begin(w, [Idle EXCEPT !.op = "enqueue", !.at = "reserved", !.id = id])
    /\ next_sequence' = next_sequence + 1
    /\ UNCHANGED <<rows, is_paused, now, granted, up, held, reportVars>>

ReadSequence(w) ==
    /\ At(w, "reserved")
    /\ call' = [call EXCEPT ![w].at = "write", ![w].sequence = next_sequence]
    /\ UNCHANGED <<tableVars, now, granted, up, held, reportVars>>

InsertTask(w) ==
    /\ At(w, "write")
    /\ call[w].op = "enqueue"
    /\ rows' = Put(rows, Field(call[w].id, NewRow(call[w].id, call[w].sequence)))
    /\ Return(w, 0, 0)
    /\ UNCHANGED <<scopeVars, now, granted, up, held>>

-----------------------------------------------------------------------------
\* Calls that give rows back read them first and then write them one by one: reclaim,
\* which is the first part of take_ready and of the calls that read, release_inflight,
\* release_scope and requeue.

Refreshing == {"counts", "checkpoint", "snapshot"}
Reclaiming == Refreshing \cup {"take"}

Loop(op, ids) ==
    [Idle EXCEPT !.op = op, !.at = "loop", !.todo = ids,
                 !.since = IF op \in Reclaiming THEN now ELSE 0]

\* Mutant of TakeReady: a paused scope is left alone.
TakeUnpaused(w) ==
    /\ ~is_paused
    /\ Begin(w, Loop("take", Expired))
    /\ UNCHANGED <<tableVars, now, granted, up, held, reportVars>>

TakeReady(w) ==
    /\ Begin(w, Loop("take", Expired))
    /\ UNCHANGED <<tableVars, now, granted, up, held, reportVars>>

Read(w, op) ==
    /\ op \in Operations[w]
    /\ Begin(w, Loop(op, Expired))
    /\ UNCHANGED <<tableVars, now, granted, up, held, reportVars>>

ReleaseInflight(w) ==
    /\ "release_inflight" \in Operations[w]
    /\ Begin(w, Loop("release_inflight", {id \in In("inflight") : Owns(w, id)}))
    /\ UNCHANGED <<tableVars, now, granted, up, held, reportVars>>

ReleaseScope(w) ==
    /\ "release_scope" \in Operations[w]
    /\ Begin(w, Loop("release_scope", In("inflight")))
    /\ UNCHANGED <<tableVars, now, granted, up, held, reportVars>>

Requeue(w, id, lease) ==
    /\ <<id, lease>> \in held[w]
    /\ IF LeaseHolds(w, id, lease)
       THEN /\ Begin(w, [Loop("requeue", {id}) EXCEPT !.lease = lease])
            /\ UNCHANGED <<held, reportVars>>
       ELSE At(w, "idle") /\ Refuse(w, id, lease)
    /\ UNCHANGED <<tableVars, now, granted, up>>

\* The bucket of the next row is chosen and a sequence reserved. The order of the
\* rows is left open.
NextRow(w, id) ==
    /\ At(w, "loop")
    /\ id \in call[w].todo
    /\ call' = [call EXCEPT ![w].at = "reserved", ![w].id = id, ![w].todo = @ \ {id},
                            ![w].state = StateFor(id)]
    /\ next_sequence' = next_sequence + 1
    /\ UNCHANGED <<rows, is_paused, now, granted, up, held, reportVars>>

\* Mutant of MayReturn: no UPDATE asks whose the row is.
MayReturnAny(w, id) == w \in Workers /\ id \in In("inflight")

\* What the UPDATE asks of the row: it need not be the row that was read. Reclaim asks
\* neither for the lease it read nor for the deadline.
MayReturn(w, id) ==
    CASE call[w].op = "requeue" -> LeaseHolds(w, id, call[w].lease)
      [] call[w].op = "release_inflight" -> Owns(w, id)
      [] OTHER -> id \in In("inflight")

\* Back to the rows that are left.
NextOf(c, written) ==
    [Idle EXCEPT !.op = c.op, !.at = "loop", !.todo = c.todo, !.done = c.done + written,
                 !.lease = c.lease, !.since = c.since, !.id = IF c.op = "requeue" THEN c.id ELSE NoWorker]

\* Mutant of WriteRow: the rows that were read are counted, not those that were changed.
WriteAndCount(w) ==
    LET c == call[w] IN
    /\ At(w, "write")
    /\ c.op # "enqueue"
    /\ rows' = IF MayReturn(w, c.id) THEN [rows EXCEPT ![c.id] = Returned(@, c.state, c.sequence)]
               ELSE rows
    /\ call' = [call EXCEPT ![w] = NextOf(c, 1)]
    /\ UNCHANGED <<scopeVars, now, granted, up, held, reportVars>>

WriteRow(w) ==
    LET c == call[w] IN
    /\ At(w, "write")
    /\ c.op # "enqueue"
    /\ \/ /\ MayReturn(w, c.id)
          /\ rows' = [rows EXCEPT ![c.id] = Returned(@, c.state, c.sequence)]
          /\ call' = [call EXCEPT ![w] = NextOf(c, 1)]
          /\ UNCHANGED <<held, reportVars>>
       \/ /\ ~MayReturn(w, c.id)
          /\ c.op # "requeue"
          /\ call' = [call EXCEPT ![w] = NextOf(c, 0)]
          /\ UNCHANGED <<rows, held, reportVars>>
       \/ /\ ~MayReturn(w, c.id)
          /\ c.op = "requeue"
          /\ Refuse(w, c.id, c.lease)
          /\ UNCHANGED rows
    /\ UNCHANGED <<scopeVars, now, granted, up>>

EndRelease(w) ==
    LET c == call[w] IN
    /\ At(w, "loop")
    /\ c.todo = {}
    /\ c.op \in {"release_inflight", "release_scope", "requeue"}
    /\ Return(w, 0, c.done)
    /\ held' = [held EXCEPT ![w] = @ \ {<<c.id, c.lease>>}]
    /\ UNCHANGED <<tableVars, now, granted, up>>

Places(table) == [id \in DOMAIN table |-> <<table[id].state, table[id].sequence>>]

\* Reclaim is over: its event waits to be reported. Promoted rows keep their sequence.
PromoteDelayed(w) ==
    LET c == call[w] IN
    /\ At(w, "loop")
    /\ c.todo = {}
    /\ c.op \in Reclaiming
    /\ events' = [events EXCEPT ![w] = @ + c.done]
    /\ rows' = [id \in DOMAIN rows |->
                  IF id \in In("delayed") /\ Payload[id].ready_at <= now
                  THEN [rows[id] EXCEPT !.state = "ready"] ELSE rows[id]]
    /\ call' = [call EXCEPT ![w] = IF c.op = "take" THEN [Idle EXCEPT !.op = c.op, !.at = "paused"]
                                   ELSE [Idle EXCEPT !.op = c.op, !.at = "read", !.seen = Places(rows')]]
    /\ UNCHANGED <<scopeVars, now, granted, up, held, reported, exact>>

-----------------------------------------------------------------------------
\* The rest of take_ready.

ReadPaused(w) ==
    /\ At(w, "paused")
    /\ IF is_paused THEN Return(w, 0, 0)
       ELSE call' = [call EXCEPT ![w].at = "claim"] /\ UNCHANGED reportVars
    /\ UNCHANGED <<tableVars, now, granted, up, held>>

\* Not a step of the code: a task that is claimed is not untouched, though it may be
\* back where a reader saw it when the reader is done.
Touched(c, id) == [c EXCEPT !.seen = Del(@, {id})]

ClaimReady(w, id) ==
    /\ At(w, "claim")
    /\ id \in FirstReady
    /\ granted < MaxLease
    /\ now + LeaseTimeout <= Horizon
    /\ granted' = granted + 1
    /\ rows' = [rows EXCEPT ![id].state = "inflight", ![id].worker = w,
                            ![id].lease = granted', ![id].deadline = now + LeaseTimeout]
    /\ call' = [v \in Workers |->
                  IF v = w THEN [call[w] EXCEPT !.at = "load", !.id = id, !.lease = granted']
                  ELSE Touched(call[v], id)]
    /\ UNCHANGED <<scopeVars, now, up, held, reportVars>>

ClaimNothing(w) ==
    /\ At(w, "claim")
    /\ \/ In("ready") = {}
       \/ granted = MaxLease
       \/ now + LeaseTimeout > Horizon
    /\ Return(w, 0, 0)
    /\ UNCHANGED <<tableVars, now, granted, up, held>>

\* The task is read by its lease: if that was taken back in between there is no row,
\* and the call is an error whose events stay where they are.
LoadClaimed(w) ==
    LET c == call[w] IN
    /\ At(w, "load")
    /\ IF LeaseHolds(w, c.id, c.lease)
       THEN /\ held' = [held EXCEPT ![w] = @ \cup {<<c.id, c.lease>>}]
            /\ Return(w, 1, 0)
       ELSE /\ call' = [call EXCEPT ![w] = Idle]
            /\ Escapes(TRUE)
            /\ UNCHANGED <<held, events>>
    /\ UNCHANGED <<tableVars, now, granted, up>>

-----------------------------------------------------------------------------
\* The calls under a lease.

\* The task goes and its follow-ups come.
Replace(id, follow) ==
    /\ follow \subseteq Fresh
    /\ next_sequence' = next_sequence + Cardinality(follow)
    /\ rows' = Put(Del(rows, {id}), [f \in follow |-> NewRow(f, next_sequence')])

\* complete, and complete_and_enqueue in its transaction.
Complete(w, id, lease, follow) ==
    /\ At(w, "idle")
    /\ <<id, lease>> \in held[w]
    /\ IF LeaseHolds(w, id, lease)
       THEN /\ held' = [held EXCEPT ![w] = @ \ {<<id, lease>>}]
            /\ Replace(id, follow)
            /\ Return(w, 0, 1)
       ELSE /\ Refuse(w, id, lease)
            /\ UNCHANGED <<rows, next_sequence>>
    /\ UNCHANGED <<is_paused, now, granted, up>>

\* The task is gone, but what follows fails: the engine, that gets an error, ends its run.
CompleteUnanswered(w, id, lease, follow) ==
    /\ "error" \in Operations[w]
    /\ At(w, "idle")
    /\ <<id, lease>> \in held[w]
    /\ LeaseHolds(w, id, lease)
    /\ Replace(id, follow)
    /\ held' = [held EXCEPT ![w] = {}]
    /\ call' = [call EXCEPT ![w] = Idle]
    /\ events' = [events EXCEPT ![w] = 0]
    /\ Escapes(TRUE)
    /\ UNCHANGED <<is_paused, now, granted, up>>

Heartbeat(w, id, lease) ==
    /\ At(w, "idle")
    /\ <<id, lease>> \in held[w]
    /\ now + LeaseTimeout <= Horizon
    /\ IF LeaseHolds(w, id, lease)
       THEN /\ rows' = [rows EXCEPT ![id].deadline = now + LeaseTimeout]
            /\ Return(w, 0, 0)
            /\ UNCHANGED held
       ELSE /\ Refuse(w, id, lease)
            /\ UNCHANGED rows
    /\ UNCHANGED <<scopeVars, now, granted, up>>

-----------------------------------------------------------------------------
\* Control, and the reads.

SetPaused(w, paused) ==
    /\ "pause" \in Operations[w]
    /\ At(w, "idle")
    /\ is_paused # paused
    /\ is_paused' = paused
    /\ Report(w, 0, 0)
    /\ UNCHANGED <<rows, next_sequence, now, granted, up, call, held>>

\* purge_scope: the tasks go in one statement, the flag in another.
PurgeTasks(w) ==
    /\ "purge" \in Operations[w]
    /\ Begin(w, [Idle EXCEPT !.op = "purge", !.at = "scope"])
    /\ rows' = Empty
    /\ Escapes(In("inflight") # {})
    /\ UNCHANGED <<scopeVars, now, granted, up, held, events>>

PurgeScope(w) ==
    /\ At(w, "scope")
    /\ is_paused' = FALSE
    /\ Return(w, 0, 0)
    /\ UNCHANGED <<rows, next_sequence, now, granted, up, held>>

\* A read that needs several SELECTs answers from several moments.
Selects(op) ==
    CASE op = "counts" -> <<"counts">>
      [] op = "checkpoint" -> <<"ready", "delayed", "inflight">>
      [] op = "snapshot" -> <<"counts", "inflight">>

\* Mutant of Select: what nobody works on is ready.
SelectWaiting(what) ==
    IF what = "ready" THEN DOMAIN rows \ In("inflight") ELSE In(what)

Select(what) ==
    CASE what = "counts" -> {<<s, Cardinality(In(s))>> : s \in {"ready", "delayed", "inflight"}}
      [] OTHER -> In(what)

ReadNext(w) ==
    LET c == call[w]
        k == Len(c.found) + 1
    IN  /\ At(w, "read")
        /\ k <= Len(Selects(c.op))
        /\ call' = [call EXCEPT ![w].found = Append(@, Select(Selects(c.op)[k]))]
        /\ UNCHANGED <<tableVars, now, granted, up, held, reportVars>>

Answered(w) == call[w].at = "read" /\ Len(call[w].found) = Len(Selects(call[w].op))

EndRead(w) ==
    /\ w \in up
    /\ Answered(w)
    /\ Return(w, 0, 0)
    /\ UNCHANGED <<tableVars, now, granted, up, held>>

-----------------------------------------------------------------------------
\* The process dies. One that is started again has another worker_id.
Crash(w) ==
    /\ "crash" \in Operations[w]
    /\ w \in up
    /\ up' = up \ {w}
    /\ call' = [call EXCEPT ![w] = Idle]
    /\ held' = [held EXCEPT ![w] = {}]
    /\ events' = [events EXCEPT ![w] = 0]
    /\ Escapes(call[w] # Idle \/ events[w] # 0)
    /\ UNCHANGED <<tableVars, now, granted>>

\* A statement fails, and the call with it. What was done before stays done and is not
\* reported, and a claimed task is nobody's; the run of the engine may end with it.
Fails(w) ==
    LET c == call[w] IN
    /\ "error" \in Operations[w]
    /\ w \in up
    /\ next_sequence <= MaxFailing
    /\ call' = [call EXCEPT ![w] = Idle]
    /\ held' \in {held, [held EXCEPT ![w] = {}]}
    /\ events' = [events EXCEPT ![w] = IF c.op \in {"requeue", "release_inflight"} THEN 0 ELSE @]
    /\ exact' = (exact /\ c.done = 0 /\ c.at # "load")
    /\ reported' = IF exact' THEN reported - (events[w] - events'[w]) ELSE 0
    /\ UNCHANGED <<tableVars, now, granted, up>>

Tick ==
    /\ now < Horizon
    /\ now' = now + 1
    /\ UNCHANGED <<tableVars, granted, up, call, held, reportVars>>

Start(w) ==
    \/ \E id \in Ids : Enqueue(w, id)
    \/ TakeReady(w) \/ ReleaseInflight(w)
    \/ \E claim \in held[w] :
          \/ Requeue(w, claim[1], claim[2]) \/ Heartbeat(w, claim[1], claim[2])
          \/ \E follow \in {{}} \cup {{f} : f \in Ids} :
                \/ Complete(w, claim[1], claim[2], follow)
                \/ CompleteUnanswered(w, claim[1], claim[2], follow)
    \/ \E op \in Refreshing : Read(w, op)
    \/ ReleaseScope(w) \/ PurgeTasks(w)
    \/ \E paused \in BOOLEAN : SetPaused(w, paused)

Proceed(w) ==
    \/ ReadSequence(w) \/ InsertTask(w) \/ WriteRow(w) \/ EndRelease(w)
    \/ \E id \in Ids : NextRow(w, id) \/ ClaimReady(w, id)
    \/ PromoteDelayed(w) \/ ReadPaused(w) \/ ClaimNothing(w)
    \/ LoadClaimed(w) \/ PurgeScope(w) \/ ReadNext(w) \/ EndRead(w)

Next ==
    \/ \E w \in Workers : Start(w) \/ Proceed(w) \/ Crash(w) \/ Fails(w)
    \/ Tick

Spec == Init /\ [][Next]_vars

\* A call goes on while its process lives, and the loop of the engine calls
\* take_ready again and again between its other calls.
Fairness ==
    /\ \A w \in Workers : WF_vars(Proceed(w)) /\ SF_vars(TakeReady(w))
    /\ WF_vars(Tick)

FairSpec == Spec /\ Fairness

-----------------------------------------------------------------------------
IsRow(row) ==
    /\ row.state \in {"ready", "delayed", "inflight"}
    /\ row.sequence \in 1 .. next_sequence
    /\ row.deadline \in 0 .. Horizon
    /\ IF row.state = "inflight" THEN row.worker \in Workers /\ row.lease \in 1 .. granted
       ELSE row.worker = NoWorker /\ row.lease = 0 /\ row.deadline = 0

\* The variables have the types of what they stand for; exactly the inflight rows have a
\* worker and a lease.
TypeOK ==
    /\ DOMAIN rows \subseteq Ids /\ \A id \in DOMAIN rows : IsRow(rows[id])
    /\ is_paused \in BOOLEAN /\ exact \in BOOLEAN
    /\ up \subseteq Workers
    /\ now \in 0 .. Horizon
    /\ granted \in 0 .. MaxLease
    /\ \A w \in Workers : held[w] \subseteq Ids \X (1 .. granted)

\* A checkpoint or a snapshot is read in several statements: it is exact for every task
\* nobody touches meanwhile, neither missing it nor giving it twice.
ReadsAreExactForTheUntouched ==
    \A w \in {v \in Workers : Answered(v)} : LET c == call[w] IN
        \A id \in DOMAIN c.seen \cap DOMAIN rows :
            Places(rows)[id] = c.seen[id] =>
                \A k \in DOMAIN c.found :
                    Selects(c.op)[k] \in {"ready", "delayed", "inflight"} =>
                        (id \in c.found[k] <=> rows[id].state = Selects(c.op)[k])

\* Processes with a lease they do not know of yet.
Taken == {w \in Workers : call[w].op = "take" /\ call[w].at = "load"}

\* The leases the reporters have counted as claimed and not as ended are those in force:
\* no lease is counted as reclaimed by two processes, or both reclaimed and completed.
MetricsAddUp ==
    LET unreported(w) == events[w] + call[w].done
    IN  exact => Cardinality(In("inflight")) + MapThenSumSet(unreported, Workers)
                   = reported + Cardinality(Taken)

-----------------------------------------------------------------------------
\* Lease (id, rows[id].lease) is given up or taken back.
Ends(id) ==
    ~(id \in In("inflight")' /\ rows'[id].lease = rows[id].lease)

\* The step is one of w.
Acts(w) == call'[w] # call[w] \/ held'[w] # held[w]

\* What ends a lease before its time: its holder, who gives it up, an operator, or a
\* reclaim that had read the row before this lease was granted or renewed.
GivesUp(w, id) ==
    /\ rows[id].worker = w
    /\ \/ <<id, rows[id].lease>> \in held[w] \ held'[w]
       \/ call[w].op = "requeue" /\ call[w].id = id /\ call[w].lease = rows[id].lease
       \/ call[w].op = "release_inflight" /\ call[w].id = id

Stale(w, id) ==
    /\ call[w].op \in Reclaiming /\ call[w].at = "write" /\ call[w].id = id
    /\ rows[id].deadline >= call[w].since + LeaseTimeout

Operates(w, id) ==
    \/ call[w].op = "release_scope" /\ call[w].id = id
    \/ call'[w].op = "purge"

\* A lease whose deadline has not come is not taken from its holder, with this one
\* exception: a call that reads expired rows, and writes them one by one without asking
\* again, ends leases that were granted or renewed since it read. A lease that was in
\* force all the while, with time left, is safe from every reclaim.
EarlyEndIsStale ==
    \A id \in In("inflight") :
        Ends(id) /\ rows[id].deadline > now =>
            \E w \in Workers : Acts(w) /\ (GivesUp(w, id) \/ Operates(w, id) \/ Stale(w, id))

EarlyEndsAreStale == [][EarlyEndIsStale]_vars

\* What the contract calls waiting, running and handed.
Waiting == DOMAIN rows \ In("inflight")
Running == [id \in In("inflight") |-> rows[id].lease]
Knows(w) == held[w] \cup IF w \in Taken THEN {<<call[w].id, call[w].lease>>} ELSE {}
Handed == UNION {Knows(w) : w \in Workers}

TaskPool ==
    INSTANCE TaskPool WITH waiting <- Waiting, running <- Running, handed <- Handed

\* Every statement is one step the contract of the scheduler allows, or changes nothing
\* of it: a task answers to one lease, and no call loses a task or doubles it, though a
\* process die or a statement fail half way. When a lease may be taken back the contract
\* does not say: EarlyEndsAreStale does.
ImplementsTaskPool == TaskPool!Spec

\* A task whose process has died waits again in the end, if a process is left to call
\* take_ready, though the scope be paused and others die in between.
Orphaned(id, lease) ==
    id \in In("inflight") /\ rows[id].lease = lease /\ rows[id].worker \notin up

OrphansReturn ==
    \A id \in Ids, lease \in 1 .. MaxLease :
        Orphaned(id, lease) ~> (~Orphaned(id, lease) \/ up = {})

=============================================================================
