------------------------ MODULE SqliteSchedulerProofs ------------------------
(* Theorems about SqliteScheduler, for every value of its constants. *)
EXTENDS SqliteScheduler, FiniteSetTheorems, WellFoundedInduction, TLAPS

-----------------------------------------------------------------------------
(* The inductive invariant. *)

States == {"ready", "delayed", "inflight"}

Row == [state : States, sequence : Nat, worker : Workers \cup {NoWorker}, lease : Nat,
        deadline : Nat]

Counted(S) == {<<state, Cardinality(S[state])>> : state \in States}
Counts == {Counted(S) : S \in [States -> SUBSET Ids]}

\* What a SELECT answers: tasks, or how many there are in each state.
Reads == (SUBSET Ids) \cup Counts

Frame == [op : {"none", "enqueue", "take", "release_inflight", "release_scope", "requeue",
                "purge"} \cup Refreshing,
          at : {"idle", "loop", "reserved", "write", "paused", "claim", "load", "scope", "read"},
          todo : SUBSET Ids, done : Nat, id : Ids \cup {NoWorker}, lease : Nat,
          state : States \cup {"none"}, sequence : Nat, since : Nat,
          seen : UNION {[S -> States \X Nat] : S \in SUBSET Ids}, found : Seq(Reads)]

\* Rows are well formed, and what is in them was reserved or granted before.
RowsOK ==
    /\ DOMAIN rows \subseteq Ids
    /\ rows \in [DOMAIN rows -> Row]
    /\ \A id \in DOMAIN rows : IsRow(rows[id])

Counters ==
    /\ next_sequence \in Nat /\ now \in 0 .. Horizon /\ granted \in 0 .. MaxLease
    /\ is_paused \in BOOLEAN /\ exact \in BOOLEAN
    /\ up \subseteq Workers
    /\ events \in [Workers -> Int] /\ reported \in Int

\* What a call knows at each of its places.
FrameOK(c) ==
    /\ c.at \in {"reserved", "write"} =>
          c.id \in Ids /\ (c.op # "enqueue" => c.state \in {"ready", "delayed"})
    /\ c.at = "reserved" => next_sequence >= 1
    /\ c.at = "write" => c.sequence \in 1 .. next_sequence
    /\ c.at = "load" => c.id \in Ids /\ c.lease \in 1 .. granted
    /\ c.at \in {"paused", "claim", "load"} => c.op = "take"
    /\ c.op = "enqueue" => c.at \in {"reserved", "write"}

Calls ==
    /\ call \in [Workers -> Frame]
    /\ \A w \in Workers : FrameOK(call[w])

Leases ==
    /\ held \in [Workers -> SUBSET (Ids \X Nat)]
    /\ \A w \in Workers : held[w] \subseteq Ids \X (1 .. granted)

\* A task that is being added is not there yet, and is added by one call.
Arrivals ==
    \A w \in Workers : call[w].op = "enqueue" =>
        /\ call[w].id \notin DOMAIN rows
        /\ \A v \in Workers : call[v].op = "enqueue" /\ call[v].id = call[w].id => v = w

\* No two processes know of one lease.
OneHolder == \A v, w \in Workers : v # w => Knows(v) \cap Knows(w) = {}

IInv == RowsOK /\ Counters /\ Calls /\ Leases /\ Arrivals /\ OneHolder

-----------------------------------------------------------------------------
(* Frames. *)

LEMMA IdleFrame ==
    /\ Idle \in Frame
    /\ Idle.op = "none" /\ Idle.at = "idle" /\ Idle.todo = {} /\ Idle.done = 0
<1>1. Empty \in [{} -> States \X Nat]
    BY DEF Empty
<1>2. <<>> \in Seq(Reads)
    OBVIOUS
<1> QED BY <1>1, <1>2 DEF Idle, Frame, Refreshing

LEMMA LoopFrame ==
    ASSUME NEW ids \in SUBSET Ids, now \in Nat,
           NEW op \in {"take", "release_inflight", "release_scope", "requeue"} \cup Refreshing
    PROVE  /\ Loop(op, ids) \in Frame
           /\ Loop(op, ids).op = op /\ Loop(op, ids).at = "loop"
<1>1. Idle \in Frame BY IdleFrame
<1> DEFINE since == IF op \in Reclaiming THEN now ELSE 0
<1>2. since \in Nat
    OBVIOUS
<1>3. Loop(op, ids) = [Idle EXCEPT !.op = op, !.at = "loop", !.todo = ids, !.since = since]
    BY DEF Loop
<1> HIDE DEF since
<1> QED BY <1>1, <1>2, <1>3 DEF Frame

LEMMA RequeueFrame ==
    ASSUME NEW id \in Ids, NEW lease \in Nat, now \in Nat
    PROVE  LET f == [Loop("requeue", {id}) EXCEPT !.lease = lease] IN
           f \in Frame /\ f.op = "requeue" /\ f.at = "loop"
<1>1. Loop("requeue", {id}) \in Frame /\ Loop("requeue", {id}).op = "requeue"
      /\ Loop("requeue", {id}).at = "loop"
    BY LoopFrame
<1> QED BY <1>1 DEF Frame

LEMMA StartFrame ==
    ASSUME NEW id \in Ids \cup {NoWorker}, NEW op \in {"enqueue", "take", "purge"},
           NEW at \in {"reserved", "paused", "scope"}
    PROVE  /\ LET f == [Idle EXCEPT !.op = op, !.at = at, !.id = id] IN
              f \in Frame /\ f.op = op /\ f.at = at /\ f.id = id
           /\ LET f == [Idle EXCEPT !.op = op, !.at = at] IN
              f \in Frame /\ f.op = op /\ f.at = at
<1> DEFINE g == [Idle EXCEPT !.op = op, !.at = at]
<1>1. Idle \in Frame BY IdleFrame
<1>2. g \in Frame /\ g.op = op /\ g.at = at
    BY <1>1 DEF Frame
<1>3. [Idle EXCEPT !.op = op, !.at = at, !.id = id] = [g EXCEPT !.id = id]
    BY <1>1 DEF Frame
<1> HIDE DEF g
<1>4. LET f == [g EXCEPT !.id = id] IN f \in Frame /\ f.op = op /\ f.at = at /\ f.id = id
    BY <1>2 DEF Frame
<1> QED BY <1>2, <1>3, <1>4 DEF g

LEMMA ReadFrame ==
    ASSUME NEW op \in Refreshing, NEW S \in SUBSET Ids, NEW seen \in [S -> States \X Nat]
    PROVE  LET f == [Idle EXCEPT !.op = op, !.at = "read", !.seen = seen] IN
           f \in Frame /\ f.op = op /\ f.at = "read"
<1>1. Idle \in Frame BY IdleFrame
<1>2. seen \in UNION {[T -> States \X Nat] : T \in SUBSET Ids}
    OBVIOUS
<1> QED BY <1>1, <1>2 DEF Frame, Refreshing

LEMMA FrameSteps ==
    ASSUME NEW c \in Frame, NEW id \in Ids, NEW n \in Nat, NEW state \in States
    PROVE  /\ LET f == [c EXCEPT !.at = "write", !.sequence = n] IN
              f \in Frame /\ f.at = "write" /\ f.sequence = n /\ f.op = c.op /\ f.id = c.id
              /\ f.state = c.state
           /\ LET f == [c EXCEPT !.at = "reserved", !.id = id, !.todo = @ \ {id},
                                 !.state = state] IN
              f \in Frame /\ f.at = "reserved" /\ f.op = c.op /\ f.id = id /\ f.state = state
           /\ LET f == [c EXCEPT !.at = "claim"] IN
              f \in Frame /\ f.at = "claim" /\ f.op = c.op
           /\ LET f == [c EXCEPT !.at = "load", !.id = id, !.lease = n] IN
              f \in Frame /\ f.at = "load" /\ f.op = c.op /\ f.id = id /\ f.lease = n
BY DEF Frame

LEMMA FoundFrame ==
    ASSUME NEW c \in Frame, NEW what \in Reads
    PROVE  LET f == [c EXCEPT !.found = Append(@, what)] IN
           f \in Frame /\ f.at = c.at /\ f.op = c.op
<1>1. Append(c.found, what) \in Seq(Reads)
    BY DEF Frame
<1> QED BY <1>1 DEF Frame

LEMMA FrameParts ==
    ASSUME NEW c \in Frame
    PROVE  /\ c.todo \in SUBSET Ids /\ c.done \in Nat /\ c.id \in Ids \cup {NoWorker}
           /\ c.lease \in Nat /\ c.sequence \in Nat /\ c.since \in Nat
BY DEF Frame

LEMMA NextOfFrame ==
    ASSUME NEW c \in Frame, NEW n \in {0, 1}
    PROVE  /\ NextOf(c, n) \in Frame
           /\ NextOf(c, n).op = c.op /\ NextOf(c, n).at = "loop"
<1>1. Idle \in Frame BY IdleFrame
<1> DEFINE id == IF c.op = "requeue" THEN c.id ELSE NoWorker
           done == c.done + n
<1>2. /\ c.id \in Ids \cup {NoWorker} /\ c.done \in Nat /\ c.todo \in SUBSET Ids
      /\ c.lease \in Nat /\ c.since \in Nat
    BY FrameParts
<1>4. id \in Ids \cup {NoWorker} /\ done \in Nat
    BY <1>2
<1> HIDE DEF id, done
<1> DEFINE f == [Idle EXCEPT !.op = c.op, !.at = "loop", !.todo = c.todo]
<1>3. NextOf(c, n) = [f EXCEPT !.done = done, !.lease = c.lease, !.since = c.since, !.id = id]
    BY DEF NextOf, id, done
<1>5. c.op \in {"none", "enqueue", "take", "release_inflight", "release_scope", "requeue",
                "purge"} \cup Refreshing
    BY DEF Frame
<1>6. f \in Frame /\ f.op = c.op /\ f.at = "loop"
    BY <1>1, <1>2, <1>5 DEF Frame
<1> HIDE DEF f
<1> DEFINE g == [f EXCEPT !.done = done, !.lease = c.lease, !.since = c.since]
<1>7. g \in Frame /\ g.op = c.op /\ g.at = "loop"
    BY <1>2, <1>4, <1>6 DEF Frame
<1>8. NextOf(c, n) = [g EXCEPT !.id = id]
    BY <1>3, <1>6 DEF Frame
<1> HIDE DEF g
<1> QED BY <1>4, <1>7, <1>8 DEF Frame

\* A call moves on, and what the others know stays true.
LEMMA CallMoves ==
    ASSUME Calls, NEW w \in Workers, NEW f \in Frame, call' = [call EXCEPT ![w] = f],
           FrameOK(f)', next_sequence \in Nat, next_sequence' \in Nat,
           next_sequence' >= next_sequence,
           granted \in Nat, granted' \in Nat, granted' >= granted
    PROVE  Calls'
<1>1. call' \in [Workers -> Frame]
    BY DEF Calls
<1>2. ASSUME NEW v \in Workers PROVE FrameOK(call[v])'
    <2>1. CASE v = w
        <3>1. call'[v] = f
            BY <2>1 DEF Calls
        <3> QED BY <3>1 DEF FrameOK
    <2>2. CASE v # w
        <3>1. call'[v] = call[v] /\ FrameOK(call[v]) /\ call[v] \in Frame
            BY <2>2 DEF Calls
        <3>2. call[v].sequence \in Nat /\ call[v].lease \in Nat
            BY <3>1, FrameParts
        <3> QED BY <3>1, <3>2 DEF FrameOK
    <2> QED BY <2>1, <2>2
<1> QED BY <1>1, <1>2 DEF Calls

LEMMA CallsStay ==
    ASSUME Calls, UNCHANGED call, next_sequence \in Nat, next_sequence' \in Nat,
           next_sequence' >= next_sequence,
           granted \in Nat, granted' \in Nat, granted' >= granted
    PROVE  Calls'
<1>1. ASSUME NEW v \in Workers PROVE FrameOK(call[v])'
    <2>1. FrameOK(call[v]) /\ call[v] \in Frame
        BY DEF Calls
    <2>2. call[v].sequence \in Nat /\ call[v].lease \in Nat
        BY <2>1, FrameParts
    <2> QED BY <2>1, <2>2 DEF FrameOK
<1> QED BY <1>1 DEF Calls

-----------------------------------------------------------------------------
(* Rows. *)

LEMMA RowsStay ==
    ASSUME RowsOK, UNCHANGED rows, next_sequence \in Nat, next_sequence' \in Nat,
           next_sequence' >= next_sequence,
           granted \in Nat, granted' \in Nat, granted' >= granted
    PROVE  RowsOK'
<1>1. ASSUME NEW id \in DOMAIN rows PROVE IsRow(rows[id])'
    <2>1. IsRow(rows[id]) /\ rows[id] \in Row
        BY DEF RowsOK
    <2> QED BY <2>1 DEF IsRow, Row
<1> QED BY <1>1 DEF RowsOK

LEMMA RowChanges ==
    ASSUME RowsOK, NEW id \in DOMAIN rows, NEW row \in Row, rows' = [rows EXCEPT ![id] = row],
           IsRow(row)', UNCHANGED next_sequence,
           granted \in Nat, granted' \in Nat, granted' >= granted
    PROVE  RowsOK'
<1>1. rows' \in [DOMAIN rows -> Row] /\ DOMAIN rows' = DOMAIN rows
    BY DEF RowsOK
<1>2. ASSUME NEW i \in DOMAIN rows PROVE IsRow(rows[i])'
    <2>1. CASE i = id
        BY <2>1 DEF RowsOK
    <2>2. CASE i # id
        <3>1. IsRow(rows[i]) /\ rows[i] \in Row /\ rows'[i] = rows[i]
            BY <2>2 DEF RowsOK
        <3> QED BY <3>1 DEF IsRow, Row
    <2> QED BY <2>1, <2>2
<1> QED BY <1>1, <1>2 DEF RowsOK

LEMMA ReturnedRow ==
    ASSUME NEW row \in Row, NEW state \in {"ready", "delayed"},
           NEW sequence \in 1 .. next_sequence, next_sequence \in Nat
    PROVE  /\ Returned(row, state, sequence) \in Row
           /\ IsRow(Returned(row, state, sequence))
           /\ Returned(row, state, sequence).state = state
<1>1. sequence \in Nat
    OBVIOUS
<1>2. Returned(row, state, sequence) \in Row
    BY <1>1 DEF Returned, Row, States
<1>3. LET r == Returned(row, state, sequence) IN
      r.state = state /\ r.sequence = sequence /\ r.worker = NoWorker /\ r.lease = 0
      /\ r.deadline = 0
    BY DEF Returned, Row
<1> QED BY <1>2, <1>3, SqliteAssumption DEF IsRow

LEMMA NewRows ==
    ASSUME NEW id \in Ids, NEW sequence \in 1 .. next_sequence, next_sequence \in Nat
    PROVE  /\ NewRow(id, sequence) \in Row
           /\ IsRow(NewRow(id, sequence))
           /\ NewRow(id, sequence).state # "inflight"
<1>1. StateFor(id) \in {"ready", "delayed"}
    BY DEF StateFor
<1>2. sequence \in Nat
    OBVIOUS
<1> QED BY <1>1, <1>2, SqliteAssumption DEF NewRow, Row, States, IsRow

-----------------------------------------------------------------------------
(* Steps of one process. *)

LEMMA CallOf ==
    ASSUME IInv, NEW w \in Workers
    PROVE  call[w] \in Frame /\ FrameOK(call[w])
BY DEF IInv, Calls

\* Process w is at another place of its call, and knows of no new lease.
Local(w, f) ==
    /\ call' = [call EXCEPT ![w] = f]
    /\ \A v \in Workers \ {w} : held'[v] = held[v]
    /\ held'[w] \subseteq Knows(w)
    /\ held' \in [Workers -> SUBSET (Ids \X Nat)]
    /\ f.at # "load"
    /\ \A v \in Workers \ {w} : call[v].op = "enqueue" => call[v].id \notin DOMAIN rows'
    /\ f.op = "enqueue" =>
          /\ f.id \notin DOMAIN rows'
          /\ \A v \in Workers \ {w} : call[v].op = "enqueue" => call[v].id # f.id
    /\ granted' = granted
    /\ next_sequence' \in Nat /\ next_sequence' >= next_sequence

LEMMA KnownTypes ==
    ASSUME IInv, NEW v \in Workers
    PROVE  Knows(v) \subseteq Ids \X (1 .. granted)
<1>1. v \in Taken => call[v].id \in Ids /\ call[v].lease \in 1 .. granted
    BY CallOf DEF FrameOK, Taken
<1> QED
    BY <1>1 DEF IInv, Leases, Knows

LEMMA HandedIs == \A pair : pair \in Handed <=> \E v \in Workers : pair \in Knows(v)
BY DEF Handed

LEMMA HandedShrinks ==
    ASSUME \A v \in Workers : Knows(v)' \subseteq Knows(v)
    PROVE  Handed' \subseteq Handed
<1>1. \A pair : pair \in Handed' <=> \E v \in Workers : pair \in Knows(v)'
    BY DEF Handed
<1> QED
    BY <1>1, HandedIs

LEMMA LocalStep ==
    ASSUME IInv, NEW w \in Workers, NEW f \in Frame, Local(w, f), FrameOK(f)', RowsOK', Counters'
    PROVE  IInv' /\ Handed' \subseteq Handed
<1>1. Calls'
    <2>1. granted \in Nat /\ granted' \in Nat /\ granted' >= granted /\ next_sequence \in Nat
        BY SqliteAssumption DEF IInv, Counters, Local
    <2> QED BY <2>1, CallMoves DEF IInv, Local
<1>2. /\ call'[w] = f /\ \A v \in Workers \ {w} : call'[v] = call[v]
      /\ DOMAIN call' = Workers
    BY DEF IInv, Calls, Local
<1>3. \A v \in Workers : Knows(v)' \subseteq Knows(v)
    <2>1. Knows(w)' = held'[w]
        BY <1>2 DEF Knows, Local, Taken
    <2>2. \A v \in Workers \ {w} : Knows(v)' = Knows(v)
        BY <1>2 DEF Knows, Local, Taken
    <2> QED BY <2>1, <2>2 DEF Local
<1>4. Leases'
    <2>1. \A v \in Workers : held'[v] \subseteq Knows(v)
        BY DEF Local, Knows
    <2> QED BY <2>1, KnownTypes DEF Leases, Local
<1>5. Arrivals'
    BY <1>2 DEF IInv, Arrivals, Local
<1>6. OneHolder'
    BY <1>3 DEF IInv, OneHolder
<1> QED BY <1>1, <1>3, <1>4, <1>5, <1>6, HandedShrinks DEF IInv

LEMMA Reported ==
    ASSUME Counters, NEW w \in Workers, NEW claimed \in Int, NEW ended \in Int,
           Report(w, claimed, ended)
    PROVE  events' \in [Workers -> Int] /\ reported' \in Int /\ exact' \in BOOLEAN
<1>1. events[w] \in Int /\ reported \in Int
    BY DEF Counters
<1> QED BY <1>1 DEF Counters, Report

LEMMA Escaped ==
    ASSUME Counters, NEW happens, Escapes(happens)
    PROVE  reported' \in Int /\ exact' \in BOOLEAN
BY DEF Counters, Escapes

LEMMA Numbers ==
    ASSUME IInv
    PROVE  next_sequence \in Nat /\ granted \in Nat /\ now \in Nat
BY SqliteAssumption DEF IInv, Counters

-----------------------------------------------------------------------------
(* Statements that leave the rows alone. *)

\* At most, leases are forgotten.
Forgets == UNCHANGED <<Waiting, Running, granted>> /\ Handed' \subseteq Handed

LEMMA SameRows ==
    ASSUME UNCHANGED rows
    PROVE  UNCHANGED <<Waiting, Running>>
BY DEF Waiting, Running, In

\* Where w goes next, when it takes nothing and gives up leases at most.
Quiet(w, f, pairs) ==
    /\ call' = [call EXCEPT ![w] = f]
    /\ held' = [held EXCEPT ![w] = pairs]
    /\ UNCHANGED <<rows, granted>>
    /\ f.at # "load"
    /\ f.op = "enqueue" => f.id \in Fresh \/ (call[w].op = "enqueue" /\ f.id = call[w].id)
    /\ next_sequence' \in {next_sequence, next_sequence + 1}

LEMMA QuietStep ==
    ASSUME IInv, NEW w \in Workers, NEW f \in Frame, NEW pairs \in SUBSET Knows(w),
           Quiet(w, f, pairs), FrameOK(f)', Counters'
    PROVE  IInv' /\ Forgets
<1>1. /\ next_sequence \in Nat /\ next_sequence' \in Nat /\ next_sequence' >= next_sequence
      /\ granted \in Nat /\ granted' \in Nat /\ granted' >= granted
    BY Numbers DEF Quiet
<1>2. RowsOK'
    BY <1>1, RowsStay DEF IInv, Quiet
<1>3. held' \in [Workers -> SUBSET (Ids \X Nat)]
    <2>1. pairs \in SUBSET (Ids \X Nat)
        BY KnownTypes, <1>1
    <2> QED
        BY <2>1 DEF IInv, Leases, Quiet
<1>4. held'[w] = pairs /\ \A v \in Workers \ {w} : held'[v] = held[v]
    BY DEF IInv, Leases, Quiet
<1>5. \A v \in Workers \ {w} : call[v].op = "enqueue" => call[v].id \notin DOMAIN rows'
    BY DEF IInv, Arrivals, Quiet
<1>6. f.op = "enqueue" =>
          /\ f.id \notin DOMAIN rows'
          /\ \A v \in Workers \ {w} : call[v].op = "enqueue" => call[v].id # f.id
    <2>1. CASE f.id \in Fresh
        BY <2>1 DEF Fresh, Quiet
    <2>2. CASE call[w].op = "enqueue" /\ f.id = call[w].id
        BY <2>2 DEF IInv, Arrivals, Quiet
    <2> QED
        BY <2>1, <2>2 DEF Quiet
<1>7. Local(w, f)
    BY <1>1, <1>3, <1>4, <1>5, <1>6 DEF Local, Quiet
<1> QED
    BY <1>2, <1>7, LocalStep, SameRows DEF Quiet, Forgets

LEMMA Known ==
    ASSUME IInv, NEW w \in Workers
    PROVE  /\ held[w] \subseteq Knows(w)
           /\ UNCHANGED held => held' = [held EXCEPT ![w] = held[w]]
<1>1. held \in [Workers -> SUBSET (Ids \X Nat)]
    BY DEF IInv, Leases
<1> QED
    BY <1>1 DEF Knows

\* Within a call.
Moves(w, f) ==
    /\ call' = [call EXCEPT ![w] = f]
    /\ UNCHANGED <<rows, is_paused, now, granted, up, held, reportVars>>
    /\ next_sequence' \in {next_sequence, next_sequence + 1}
    /\ f.at # "load"
    /\ f.op = "enqueue" => f.id \in Fresh \/ (call[w].op = "enqueue" /\ f.id = call[w].id)

LEMMA MoveStep ==
    ASSUME IInv, NEW w \in Workers, NEW f \in Frame, Moves(w, f), FrameOK(f)'
    PROVE  IInv' /\ Forgets
<1>1. Counters'
    <2>1. next_sequence' \in Nat
        BY Numbers DEF Moves
    <2> QED
        BY <2>1 DEF IInv, Counters, Moves, reportVars
<1>2. Quiet(w, f, held[w]) /\ held[w] \in SUBSET Knows(w)
    BY Known DEF Quiet, Moves
<1> QED
    BY <1>1, <1>2, QuietStep

\* The end of a call.
Answers(w, pairs) ==
    /\ call' = [call EXCEPT ![w] = Idle]
    /\ held' = [held EXCEPT ![w] = pairs]
    /\ UNCHANGED <<rows, next_sequence, now, granted>>
    /\ is_paused' \in BOOLEAN /\ up' \subseteq up
    /\ events' \in [Workers -> Int] /\ reported' \in Int /\ exact' \in BOOLEAN

LEMMA AnswerStep ==
    ASSUME IInv, NEW w \in Workers, NEW pairs \in SUBSET Knows(w), Answers(w, pairs)
    PROVE  IInv' /\ Forgets
<1>1. Counters'
    BY DEF IInv, Counters, Answers
<1>2. Quiet(w, Idle, pairs)
    BY IdleFrame DEF Quiet, Answers
<1>3. FrameOK(Idle)'
    BY IdleFrame DEF FrameOK
<1> QED
    BY <1>1, <1>2, <1>3, IdleFrame, QuietStep

LEMMA ReturnStep ==
    ASSUME IInv, NEW w \in Workers, NEW pairs \in SUBSET Knows(w),
           NEW claimed \in Int, NEW ended \in Int, Return(w, claimed, ended),
           held' = [held EXCEPT ![w] = pairs],
           UNCHANGED <<rows, next_sequence, now, granted, up>>, is_paused' \in BOOLEAN
    PROVE  IInv' /\ Forgets
<1>1. Counters /\ Report(w, claimed, ended)
    BY DEF IInv, Return
<1>2. events' \in [Workers -> Int] /\ reported' \in Int /\ exact' \in BOOLEAN
    BY <1>1, Reported
<1>3. Answers(w, pairs)
    BY <1>2 DEF Answers, Return
<1> QED
    BY <1>3, AnswerStep

LEMMA RefuseStep ==
    ASSUME IInv, NEW w \in Workers, NEW id, NEW lease, Refuse(w, id, lease),
           UNCHANGED <<rows, scopeVars, now, granted, up>>
    PROVE  IInv' /\ Forgets
<1> DEFINE pairs == held[w] \ {<<id, lease>>}
<1>1. pairs \in SUBSET Knows(w)
    BY Known
<1>2. held' = [held EXCEPT ![w] = pairs] /\ Return(w, 0, 0)
    BY DEF Refuse
<1> HIDE DEF pairs
<1>3. is_paused' \in BOOLEAN /\ UNCHANGED <<rows, next_sequence, now, granted, up>>
    BY DEF scopeVars, IInv, Counters
<1>4. 0 \in Int
    OBVIOUS
<1> QED
    BY <1>1, <1>2, <1>3, <1>4, ReturnStep, Zenon

-----------------------------------------------------------------------------
(* The steps of calls that leave the rows alone. *)

LEMMA BeginStep ==
    ASSUME IInv, NEW w \in Workers, NEW f \in Frame, Begin(w, f),
           UNCHANGED <<rows, is_paused, now, granted, up, held, reportVars>>,
           next_sequence' \in {next_sequence, next_sequence + 1},
           f.at \in {"loop", "reserved", "scope"},
           f.at = "reserved" => f.id \in Fresh \cap Ids /\ next_sequence' >= 1 /\ f.op = "enqueue",
           f.at # "reserved" => f.op # "enqueue"
    PROVE  IInv' /\ Forgets
<1>1. Moves(w, f)
    <2>1. f.at # "load" /\ (f.op = "enqueue" => f.id \in Fresh)
        OBVIOUS
    <2>2. call' = [call EXCEPT ![w] = f]
        BY DEF Begin
    <2>3. UNCHANGED <<rows, is_paused, now, granted, up, held, reportVars>>
        OBVIOUS
    <2>4. next_sequence' \in {next_sequence, next_sequence + 1}
        OBVIOUS
    <2>5. f.op = "enqueue" => f.id \in Fresh \/ (call[w].op = "enqueue" /\ f.id = call[w].id)
        BY <2>1
    <2> QED
        BY ONLY <2>1, <2>2, <2>3, <2>4, <2>5 DEF Moves
<1>2. FrameOK(f)'
    BY DEF FrameOK
<1> QED
    BY <1>1, <1>2, MoveStep

LEMMA EnqueueStep ==
    ASSUME IInv, NEW w \in Workers, NEW id \in Ids, Enqueue(w, id)
    PROVE  IInv' /\ Forgets
<1> DEFINE f == [Idle EXCEPT !.op = "enqueue", !.at = "reserved", !.id = id]
<1>1. f \in Frame /\ f.op = "enqueue" /\ f.at = "reserved" /\ f.id = id
    BY IdleFrame DEF Frame
<1>2. Begin(w, f) /\ id \in Fresh /\ next_sequence' = next_sequence + 1
      /\ UNCHANGED <<rows, is_paused, now, granted, up, held, reportVars>>
    BY DEF Enqueue
<1> HIDE DEF f
<1>3. next_sequence' >= 1
    BY <1>2, Numbers
<1> QED
    BY <1>1, <1>2, <1>3, BeginStep

LEMMA LoopStep ==
    ASSUME IInv, NEW w \in Workers, NEW ids \in SUBSET Ids,
           NEW op \in {"take", "release_inflight", "release_scope"} \cup Refreshing,
           Begin(w, Loop(op, ids)),
           UNCHANGED <<tableVars, now, granted, up, held, reportVars>>
    PROVE  IInv' /\ Forgets
<1> DEFINE f == Loop(op, ids)
<1>1. f \in Frame /\ f.op = op /\ f.at = "loop"
    BY LoopFrame, Numbers
<1>2. Begin(w, f) /\ op # "enqueue"
    BY DEF Refreshing
<1> HIDE DEF f
<1>3. UNCHANGED <<rows, is_paused, now, granted, up, held, reportVars>>
      /\ next_sequence' \in {next_sequence, next_sequence + 1}
    BY DEF tableVars, scopeVars
<1> QED
    BY <1>1, <1>2, <1>3, BeginStep

LEMMA BeginsStep ==
    ASSUME IInv, NEW w \in Workers,
           TakeReady(w) \/ (\E op \in Refreshing : Read(w, op)) \/ ReleaseInflight(w)
           \/ ReleaseScope(w)
    PROVE  IInv' /\ Forgets
<1>1. In("inflight") \subseteq Ids
    BY DEF IInv, RowsOK, In
<1>2. Expired \in SUBSET Ids
    BY <1>1 DEF Expired
<1> DEFINE mine == {id \in In("inflight") : Owns(w, id)}
<1>3. mine \in SUBSET Ids
    BY <1>1
<1>4. CASE TakeReady(w)
    BY <1>2, <1>4, LoopStep DEF TakeReady
<1>5. CASE \E op \in Refreshing : Read(w, op)
    BY <1>2, <1>5, LoopStep DEF Read
<1>6. CASE ReleaseInflight(w)
    <2>1. Begin(w, Loop("release_inflight", mine))
          /\ UNCHANGED <<tableVars, now, granted, up, held, reportVars>>
        BY <1>6 DEF ReleaseInflight
    <2> HIDE DEF mine
    <2> QED
        BY <1>3, <2>1, LoopStep
<1>7. CASE ReleaseScope(w)
    <2> DEFINE inflight == In("inflight")
    <2>1. Begin(w, Loop("release_scope", inflight)) /\ inflight \in SUBSET Ids
          /\ UNCHANGED <<tableVars, now, granted, up, held, reportVars>>
        BY <1>1, <1>7 DEF ReleaseScope
    <2> HIDE DEF inflight
    <2> QED
        BY <2>1, LoopStep
<1> QED
    BY <1>4, <1>5, <1>6, <1>7

LEMMA RequeueStep ==
    ASSUME IInv, NEW w \in Workers, NEW claim \in held[w], Requeue(w, claim[1], claim[2])
    PROVE  IInv' /\ Forgets
<1> DEFINE id == claim[1]
           lease == claim[2]
           f == [Loop("requeue", {id}) EXCEPT !.lease = lease]
<1>1. id \in Ids /\ lease \in Nat
    BY DEF IInv, Leases
<1>2. UNCHANGED <<tableVars, now, granted, up>> /\ Requeue(w, id, lease)
    BY DEF Requeue
<1> HIDE DEF id, lease
<1>3. CASE LeaseHolds(w, id, lease)
    <2>1. f \in Frame /\ f.op = "requeue" /\ f.at = "loop"
        BY <1>1, RequeueFrame, Numbers
    <2>2. Begin(w, f) /\ UNCHANGED <<held, reportVars>>
        BY <1>2, <1>3 DEF Requeue
    <2> HIDE DEF f
    <2>3. UNCHANGED <<rows, is_paused, now, granted, up, held, reportVars>>
          /\ next_sequence' \in {next_sequence, next_sequence + 1}
        BY <1>2, <2>2 DEF tableVars, scopeVars
    <2> QED
        BY <2>1, <2>2, <2>3, BeginStep
<1>4. CASE ~LeaseHolds(w, id, lease)
    <2>1. Refuse(w, id, lease) /\ UNCHANGED <<rows, scopeVars, now, granted, up>>
        BY <1>2, <1>4 DEF Requeue, tableVars
    <2> QED
        BY <2>1, RefuseStep
<1> QED
    BY <1>3, <1>4

LEMMA ReadSequenceStep ==
    ASSUME IInv, NEW w \in Workers, ReadSequence(w)
    PROVE  IInv' /\ Forgets
<1>1. call[w] \in Frame /\ FrameOK(call[w]) /\ call[w].at = "reserved"
    BY CallOf DEF ReadSequence, At
<1>2. PICK f \in Frame :
          /\ f.at = "write" /\ f.sequence = next_sequence /\ f.op = call[w].op
          /\ f.id = call[w].id /\ f.state = call[w].state
          /\ call' = [call EXCEPT ![w] = f]
    <2> DEFINE f == [call[w] EXCEPT !.at = "write", !.sequence = next_sequence]
    <2>1. f \in Frame /\ f.at = "write" /\ f.sequence = next_sequence /\ f.op = call[w].op
          /\ f.id = call[w].id /\ f.state = call[w].state
        BY <1>1, Numbers DEF Frame
    <2>2. call' = [call EXCEPT ![w] = f]
        BY DEF ReadSequence
    <2> HIDE DEF f
    <2> QED
        BY <2>1, <2>2
<1>4. UNCHANGED <<rows, next_sequence, is_paused, now, granted, up, held, reportVars>>
    BY DEF ReadSequence, tableVars, scopeVars
<1>5. FrameOK(f)'
    BY <1>1, <1>2, <1>4, Numbers DEF FrameOK
<1>6. Moves(w, f)
    BY <1>2, <1>4 DEF Moves
<1> QED
    BY <1>2, <1>5, <1>6, MoveStep

LEMMA NextRowStep ==
    ASSUME IInv, NEW w \in Workers, NEW id \in Ids, NextRow(w, id)
    PROVE  IInv' /\ Forgets
<1> DEFINE state == StateFor(id)
<1>1. call[w] \in Frame /\ FrameOK(call[w]) /\ call[w].at = "loop"
    BY CallOf DEF NextRow, At
<1>2. state \in {"ready", "delayed"}
    BY DEF StateFor
<1>4. PICK f \in Frame :
          /\ f.at = "reserved" /\ f.op = call[w].op /\ f.id = id
          /\ f.state \in {"ready", "delayed"}
          /\ call' = [call EXCEPT ![w] = f]
    <2> DEFINE f == [call[w] EXCEPT !.at = "reserved", !.id = id, !.todo = @ \ {id},
                                    !.state = state]
    <2>1. call' = [call EXCEPT ![w] = f]
        BY DEF NextRow
    <2> HIDE DEF state
    <2>2. f \in Frame /\ f.at = "reserved" /\ f.op = call[w].op /\ f.id = id /\ f.state = state
        BY <1>1, <1>2 DEF States, Frame
    <2> HIDE DEF f
    <2> QED
        BY <1>2, <2>1, <2>2
<1>5. UNCHANGED <<rows, is_paused, now, granted, up, held, reportVars>>
      /\ next_sequence' = next_sequence + 1
    BY DEF NextRow
<1>6. FrameOK(f)'
    BY <1>1, <1>4, <1>5, Numbers DEF FrameOK
<1>7. Moves(w, f)
    BY <1>1, <1>4, <1>5 DEF Moves, FrameOK
<1> QED
    BY <1>4, <1>6, <1>7, MoveStep

LEMMA EndReleaseStep ==
    ASSUME IInv, NEW w \in Workers, EndRelease(w)
    PROVE  IInv' /\ Forgets
<1>1. PICK pairs \in SUBSET Knows(w) : held' = [held EXCEPT ![w] = pairs]
    <2> DEFINE pairs == held[w] \ {<<call[w].id, call[w].lease>>}
    <2>1. held' = [held EXCEPT ![w] = pairs]
        BY DEF EndRelease
    <2>2. pairs \in SUBSET Knows(w)
        BY Known
    <2> HIDE DEF pairs
    <2> QED
        BY <2>1, <2>2
<1>2. PICK done \in Nat : Return(w, 0, done)
    BY CallOf, FrameParts DEF EndRelease
<1>3. is_paused' \in BOOLEAN /\ UNCHANGED <<rows, next_sequence, now, granted, up>>
    BY DEF EndRelease, tableVars, scopeVars, IInv, Counters
<1>4. 0 \in Int /\ done \in Int
    OBVIOUS
<1> QED
    BY <1>1, <1>2, <1>3, <1>4, ReturnStep, Zenon

\* Calls that end without an effect.
LEMMA NoEffectStep ==
    ASSUME IInv, NEW w \in Workers, Return(w, 0, 0), UNCHANGED held,
           UNCHANGED <<rows, next_sequence, now, granted, up>>, is_paused' \in BOOLEAN
    PROVE  IInv' /\ Forgets
<1>1. held' = [held EXCEPT ![w] = held[w]] /\ held[w] \in SUBSET Knows(w)
    BY Known
<1>2. PICK pairs \in SUBSET Knows(w) : held' = [held EXCEPT ![w] = pairs]
    BY <1>1
<1>3. 0 \in Int
    OBVIOUS
<1> QED
    BY <1>2, <1>3, ReturnStep, Zenon

LEMMA ReadPausedStep ==
    ASSUME IInv, NEW w \in Workers, ReadPaused(w)
    PROVE  IInv' /\ Forgets
<1>1. call[w] \in Frame /\ FrameOK(call[w]) /\ call[w].at = "paused"
    BY CallOf DEF ReadPaused, At
<1>2. UNCHANGED <<rows, next_sequence, is_paused, now, granted, up, held>>
    BY DEF ReadPaused, tableVars, scopeVars
<1>3. CASE is_paused
    <2>1. Return(w, 0, 0) /\ is_paused' \in BOOLEAN
        BY <1>2, <1>3 DEF ReadPaused, IInv, Counters
    <2> QED
        BY <1>2, <2>1, NoEffectStep
<1>4. CASE ~is_paused
    <2>1. PICK f \in Frame : /\ f.at = "claim" /\ f.op = call[w].op
                             /\ call' = [call EXCEPT ![w] = f]
        <3> DEFINE f == [call[w] EXCEPT !.at = "claim"]
        <3>1. call' = [call EXCEPT ![w] = f]
            BY <1>4 DEF ReadPaused
        <3>2. f \in Frame /\ f.at = "claim" /\ f.op = call[w].op
            BY <1>1 DEF Frame
        <3> HIDE DEF f
        <3> QED
            BY <3>1, <3>2
    <2>2. f.op # "enqueue"
        BY <1>1, <2>1 DEF FrameOK
    <2>3. UNCHANGED reportVars
        BY <1>4 DEF ReadPaused
    <2>4. Moves(w, f)
        BY <1>2, <2>1, <2>2, <2>3 DEF Moves
    <2>5. FrameOK(f)'
        BY <1>1, <2>1, <2>2 DEF FrameOK
    <2> QED
        BY <2>4, <2>5, MoveStep
<1> QED
    BY <1>3, <1>4

LEMMA ClaimNothingStep ==
    ASSUME IInv, NEW w \in Workers, ClaimNothing(w) \/ PurgeScope(w) \/ EndRead(w)
    PROVE  IInv' /\ Forgets
<1>1. Return(w, 0, 0) /\ UNCHANGED <<rows, next_sequence, now, granted, up, held>>
    BY DEF ClaimNothing, PurgeScope, EndRead, tableVars, scopeVars
<1>2. is_paused' \in BOOLEAN
    BY DEF ClaimNothing, PurgeScope, EndRead, tableVars, scopeVars, IInv, Counters
<1> QED
    BY <1>1, <1>2, NoEffectStep

\* The lease is read before it is known: the process takes it here, or forgets it.
LEMMA LoadClaimedStep ==
    ASSUME IInv, NEW w \in Workers, LoadClaimed(w)
    PROVE  IInv' /\ Forgets
<1>1. call[w] \in Frame /\ FrameOK(call[w]) /\ call[w].at = "load"
    BY CallOf DEF LoadClaimed, At
<1>2. UNCHANGED <<rows, next_sequence, is_paused, now, granted, up>>
    BY DEF LoadClaimed, tableVars, scopeVars
<1>3. w \in Taken /\ is_paused' \in BOOLEAN
    BY <1>1, <1>2 DEF FrameOK, Taken, IInv, Counters
<1>4. CASE LeaseHolds(w, call[w].id, call[w].lease)
    <2>1. Return(w, 1, 0) /\ held' = [held EXCEPT ![w] = Knows(w)]
        BY <1>3, <1>4 DEF LoadClaimed, Knows
    <2>2. PICK pairs \in SUBSET Knows(w) : held' = [held EXCEPT ![w] = pairs]
        BY <2>1
    <2>3. 0 \in Int /\ 1 \in Int
        OBVIOUS
    <2> QED
        BY <1>2, <1>3, <2>1, <2>2, <2>3, ReturnStep, Zenon
<1>5. CASE ~LeaseHolds(w, call[w].id, call[w].lease)
    <2>1. call' = [call EXCEPT ![w] = Idle] /\ Escapes(TRUE) /\ UNCHANGED <<held, events>>
        BY <1>5 DEF LoadClaimed
    <2>2. events' \in [Workers -> Int] /\ reported' \in Int /\ exact' \in BOOLEAN
        BY <2>1, Escaped DEF IInv, Counters
    <2>3. held' = [held EXCEPT ![w] = held[w]] /\ held[w] \in SUBSET Knows(w)
        BY <2>1, Known
    <2>4. Answers(w, held[w])
        BY <1>2, <1>3, <2>1, <2>2, <2>3 DEF Answers
    <2> QED
        BY <2>3, <2>4, AnswerStep
<1> QED
    BY <1>4, <1>5

LEMMA CrashStep ==
    ASSUME IInv, NEW w \in Workers, Crash(w)
    PROVE  IInv' /\ Forgets
<1>1. Escapes(call[w] # Idle \/ events[w] # 0) /\ Counters
    BY DEF Crash, IInv
<1>2. reported' \in Int /\ exact' \in BOOLEAN
    BY <1>1 DEF Escapes, Counters
<1>3. events' \in [Workers -> Int]
    BY <1>1 DEF Counters, Crash
<1> DEFINE pairs == {}
<1>4. held' = [held EXCEPT ![w] = pairs] /\ pairs \in SUBSET Knows(w)
    BY DEF Crash
<1>5. is_paused' \in BOOLEAN
    BY DEF Crash, tableVars, scopeVars, IInv, Counters
<1>6. Answers(w, pairs)
    BY <1>2, <1>3, <1>4, <1>5 DEF Answers, Crash, tableVars, scopeVars
<1> HIDE DEF pairs
<1> QED
    BY <1>4, <1>6, AnswerStep

LEMMA FailsStep ==
    ASSUME IInv, NEW w \in Workers, Fails(w)
    PROVE  IInv' /\ Forgets
<1>1. /\ call' = [call EXCEPT ![w] = Idle]
      /\ held' \in {held, [held EXCEPT ![w] = {}]}
      /\ UNCHANGED <<tableVars, now, granted, up>>
    BY DEF Fails
<1>2. events' \in [Workers -> Int]
    BY DEF Fails, IInv, Counters
<1>3. reported' \in Int /\ exact' \in BOOLEAN
    <2>1. events[w] \in Int /\ events'[w] \in Int /\ reported \in Int
        BY <1>2 DEF IInv, Counters
    <2>2. CASE exact'
        BY <2>1, <2>2 DEF Fails
    <2>3. CASE ~exact'
        BY <2>3 DEF Fails
    <2>4. exact' \in BOOLEAN
        BY Zenon DEF Fails
    <2> QED
        BY <2>2, <2>3, <2>4
<1>4. PICK pairs \in SUBSET Knows(w) : held' = [held EXCEPT ![w] = pairs]
    BY <1>1, Known
<1>5. is_paused' \in BOOLEAN /\ UNCHANGED <<rows, next_sequence, now, granted, up>>
    BY <1>1 DEF tableVars, scopeVars, IInv, Counters
<1>6. Answers(w, pairs)
    BY <1>1, <1>2, <1>3, <1>4, <1>5 DEF Answers
<1> QED
    BY <1>4, <1>6, AnswerStep

LEMMA ReadNextStep ==
    ASSUME IInv, NEW w \in Workers, ReadNext(w)
    PROVE  IInv' /\ Forgets
<1> DEFINE c == call[w]
           k == Len(c.found) + 1
           what == Select(Selects(c.op)[k])
<1>1. c \in Frame /\ FrameOK(c) /\ c.at = "read"
    BY CallOf DEF ReadNext, At
<1>2. what \in Reads
    <2>1. \A state : In(state) \in SUBSET Ids
        BY DEF In, IInv, RowsOK
    <2> DEFINE S == [state \in States |-> In(state)]
    <2>2. S \in [States -> SUBSET Ids] /\ \A state \in States : S[state] = In(state)
        BY <2>1
    <2>3. {<<state, Cardinality(In(state))>> : state \in States} =
              {<<state, Cardinality(S[state])>> : state \in States}
        BY <2>2
    <2> HIDE DEF S
    <2>4. CASE Selects(c.op)[k] = "counts"
        <3>1. what = {<<state, Cardinality(In(state))>> : state \in States}
            BY <2>4 DEF Select, States
        <3>2. Counted(S) \in Counts
            BY <2>2 DEF Counts
        <3> QED
            BY <2>3, <3>1, <3>2 DEF Counted, Reads
    <2>5. CASE Selects(c.op)[k] # "counts"
        BY <2>1, <2>5 DEF Select, Reads
    <2> QED
        BY <2>4, <2>5
<1>3. call' = [call EXCEPT ![w].found = Append(@, what)]
    BY DEF ReadNext
<1> HIDE DEF what
<1>4. PICK f \in Frame : f.at = "read" /\ f.op = c.op /\ call' = [call EXCEPT ![w] = f]
    <2> DEFINE f == [c EXCEPT !.found = Append(@, what)]
    <2>1. f \in Frame /\ f.at = c.at /\ f.op = c.op
        BY <1>1, <1>2, FoundFrame
    <2>2. call' = [call EXCEPT ![w] = f]
        BY <1>3
    <2> HIDE DEF f
    <2> QED
        BY <1>1, <2>1, <2>2
<1>5. f.op # "enqueue"
    BY <1>1, <1>4 DEF FrameOK
<1>6. Moves(w, f)
    BY <1>4, <1>5 DEF Moves, ReadNext, tableVars, scopeVars
<1>7. FrameOK(f)'
    BY <1>4, <1>5 DEF FrameOK
<1> QED
    BY <1>6, <1>7, MoveStep

-----------------------------------------------------------------------------
(* Statements that write rows. *)

Writes(w, f, pairs) ==
    /\ call' = [call EXCEPT ![w] = f]
    /\ held' = [held EXCEPT ![w] = pairs]
    /\ UNCHANGED <<now, granted, up>>
    /\ is_paused' \in BOOLEAN
    /\ next_sequence' \in Nat /\ next_sequence' >= next_sequence
    /\ events' \in [Workers -> Int] /\ reported' \in Int /\ exact' \in BOOLEAN
    /\ f.at # "load" /\ f.op # "enqueue"
    /\ \A v \in Workers \ {w} : call[v].op = "enqueue" => call[v].id \notin DOMAIN rows'

LEMMA WriteStep ==
    ASSUME IInv, NEW w \in Workers, NEW f \in Frame, NEW pairs \in SUBSET Knows(w),
           Writes(w, f, pairs), FrameOK(f)', RowsOK'
    PROVE  IInv' /\ Handed' \subseteq Handed
<1>1. Counters'
    BY DEF IInv, Counters, Writes
<1>2. held' \in [Workers -> SUBSET (Ids \X Nat)]
    <2>1. pairs \in SUBSET (Ids \X Nat)
        BY KnownTypes, Numbers
    <2> QED
        BY <2>1 DEF IInv, Leases, Writes
<1>3. held'[w] = pairs /\ \A v \in Workers \ {w} : held'[v] = held[v]
    BY DEF IInv, Leases, Writes
<1>4. Local(w, f)
    BY <1>2, <1>3 DEF Local, Writes
<1> QED
    BY <1>1, <1>4, LocalStep

\* The rows that are inflight stay so, under their leases.
LEMMA SameLeases ==
    ASSUME DOMAIN rows' = DOMAIN rows,
           \A id \in DOMAIN rows :
               /\ rows'[id].state = "inflight" <=> rows[id].state = "inflight"
               /\ rows'[id].lease = rows[id].lease
    PROVE  UNCHANGED <<Waiting, Running>>
<1>1. In("inflight")' = In("inflight")
    BY DEF In
<1>2. \A id \in In("inflight") : rows'[id].lease = rows[id].lease
    BY DEF In
<1> QED
    BY <1>1, <1>2 DEF Waiting, Running

LEMMA RowAdded ==
    ASSUME RowsOK, NEW id \in Ids, NEW row \in Row, rows' = Put(rows, Field(id, row)),
           IsRow(row)', UNCHANGED <<next_sequence, granted>>
    PROVE  /\ RowsOK'
           /\ DOMAIN rows' = DOMAIN rows \cup {id} /\ rows'[id] = row
           /\ \A i \in DOMAIN rows : i # id => rows'[i] = rows[i]
<1>1. /\ DOMAIN rows' = DOMAIN rows \cup {id} /\ rows'[id] = row
      /\ \A i \in DOMAIN rows : i # id => rows'[i] = rows[i]
      /\ rows' = [i \in DOMAIN rows \cup {id} |-> rows'[i]]
    BY DEF Put, Field
<1>2. ASSUME NEW i \in DOMAIN rows' PROVE IsRow(rows[i])' /\ rows'[i] \in Row
    <2>1. CASE i = id
        BY <1>1, <2>1
    <2>2. CASE i # id
        <3>1. IsRow(rows[i]) /\ rows[i] \in Row /\ rows'[i] = rows[i]
            BY <1>1, <2>2 DEF RowsOK
        <3> QED
            BY <3>1 DEF IsRow
    <2> QED
        BY <2>1, <2>2
<1> QED
    BY <1>1, <1>2 DEF RowsOK

LEMMA InsertTaskStep ==
    ASSUME IInv, NEW w \in Workers, InsertTask(w)
    PROVE  IInv' /\ TaskPool!Submit(call[w].id)
<1>1. /\ FrameOK(call[w]) /\ call[w].at = "write" /\ call[w].op = "enqueue"
      /\ call[w].id \in Ids /\ call[w].sequence \in 1 .. next_sequence
    BY CallOf DEF InsertTask, At, FrameOK
<1>2. PICK id \in Ids, row \in Row :
          /\ id = call[w].id /\ row.state # "inflight" /\ IsRow(row)
          /\ rows' = Put(rows, Field(id, row))
    <2> DEFINE row == NewRow(call[w].id, call[w].sequence)
    <2>1. row \in Row /\ row.state # "inflight" /\ IsRow(row)
        BY <1>1, NewRows, Numbers
    <2>2. rows' = Put(rows, Field(call[w].id, row))
        BY DEF InsertTask
    <2> HIDE DEF row
    <2> QED
        BY <1>1, <2>1, <2>2
<1>3. UNCHANGED <<next_sequence, is_paused, now, granted, up, held>> /\ Return(w, 0, 0)
    BY DEF InsertTask, scopeVars
<1>4. IsRow(row)'
    BY <1>2, <1>3 DEF IsRow
<1>5. /\ RowsOK'
      /\ DOMAIN rows' = DOMAIN rows \cup {id} /\ rows'[id] = row
      /\ \A i \in DOMAIN rows : i # id => rows'[i] = rows[i]
    BY <1>2, <1>3, <1>4, RowAdded DEF IInv
<1>6. id \notin DOMAIN rows /\ \A v \in Workers \ {w} : call[v].op = "enqueue" => call[v].id # id
    BY <1>1, <1>2 DEF IInv, Arrivals
<1>7. Writes(w, Idle, held[w])
    <2>1. events' \in [Workers -> Int] /\ reported' \in Int /\ exact' \in BOOLEAN
        BY <1>3, Reported DEF Return, IInv
    <2>2. \A v \in Workers \ {w} : call[v].op = "enqueue" => call[v].id \notin DOMAIN rows'
        BY <1>5, <1>6 DEF IInv, Arrivals
    <2>3. is_paused' \in BOOLEAN
        BY <1>3 DEF IInv, Counters
    <2> QED
        BY <1>3, <2>1, <2>2, <2>3, IdleFrame, Known, Numbers DEF Writes, Return
<1>8. FrameOK(Idle)' /\ held[w] \in SUBSET Knows(w)
    BY IdleFrame, Known DEF FrameOK
<1>9. IInv'
    BY <1>5, <1>7, <1>8, IdleFrame, WriteStep
<1>10. Handed' = Handed
    <2>1. \A v \in Workers : Knows(v)' = Knows(v)
        <3>1. call'[w] = Idle /\ \A v \in Workers \ {w} : call'[v] = call[v]
            BY <1>3 DEF Return, IInv, Calls
        <3> QED
            BY <1>1, <1>3, <3>1, IdleFrame DEF Knows, Taken
    <2> QED
        BY <2>1 DEF Handed
<1>11. Waiting' = Waiting \cup {id} /\ Running' = Running /\ id \notin Waiting \cup DOMAIN Running
    <2>1. In("inflight")' = In("inflight")
        BY <1>2, <1>5, <1>6 DEF In
    <2>2. \A i \in In("inflight") : rows'[i].lease = rows[i].lease
        BY <1>5, <1>6 DEF In
    <2>3. id \notin In("inflight")
        BY <1>6 DEF In
    <2> QED
        BY <1>5, <1>6, <2>1, <2>2, <2>3 DEF Waiting, Running
<1> QED
    BY <1>2, <1>3, <1>9, <1>10, <1>11 DEF TaskPool!Submit, TaskPool!Pool

\* The row is given back as it was read, if the UPDATE still finds it.
LEMMA GiveBackStep ==
    ASSUME IInv, NEW w \in Workers, call[w].at = "write", call[w].op # "enqueue",
           call[w].id \in In("inflight"),
           rows' = [rows EXCEPT ![call[w].id] = Returned(@, call[w].state, call[w].sequence)],
           call' = [call EXCEPT ![w] = NextOf(call[w], 1)],
           UNCHANGED <<held, reportVars, scopeVars, now, granted, up>>
    PROVE  IInv' /\ TaskPool!GiveBack({call[w].id})
<1>1. /\ call[w] \in Frame /\ call[w].id \in Ids /\ call[w].state \in {"ready", "delayed"}
      /\ call[w].sequence \in 1 .. next_sequence
    BY CallOf DEF FrameOK
<1>2. UNCHANGED <<next_sequence, is_paused, held, events, reported, exact, now, granted, up>>
    BY DEF scopeVars, reportVars
<1>3. PICK f \in Frame : f.at = "loop" /\ f.op = call[w].op /\ call' = [call EXCEPT ![w] = f]
    BY <1>1, NextOfFrame
<1>4. PICK id \in Ids, row \in Row :
          /\ id = call[w].id /\ id \in In("inflight") /\ id \in DOMAIN rows
          /\ row.state # "inflight" /\ IsRow(row)
          /\ rows' = [rows EXCEPT ![id] = row]
    <2> DEFINE id == call[w].id
               row == Returned(rows[id], call[w].state, call[w].sequence)
    <2>1. id \in DOMAIN rows /\ rows[id] \in Row
        BY DEF In, IInv, RowsOK
    <2>2. row \in Row /\ row.state # "inflight" /\ IsRow(row)
        BY <1>1, <2>1, ReturnedRow, Numbers
    <2>3. rows' = [rows EXCEPT ![id] = row] /\ id \in Ids /\ id \in In("inflight")
        BY <1>1
    <2> HIDE DEF id, row
    <2>4. id = call[w].id
        BY DEF id
    <2> QED
        BY <2>1, <2>2, <2>3, <2>4
<1>5. IsRow(row)'
    BY <1>2, <1>4 DEF IsRow
<1>6. RowsOK'
    <2>1. granted \in Nat /\ granted' \in Nat /\ granted' >= granted /\ UNCHANGED next_sequence
        BY <1>2, Numbers
    <2>2. RowsOK /\ id \in DOMAIN rows /\ rows' = [rows EXCEPT ![id] = row]
        BY <1>4 DEF IInv
    <2> QED
        BY <1>5, <2>1, <2>2, RowChanges
<1>7. DOMAIN rows' = DOMAIN rows /\ rows'[id] = row /\ \A i \in DOMAIN rows \ {id} : rows'[i] = rows[i]
    BY <1>4 DEF IInv, RowsOK
<1>8. Writes(w, f, held[w]) /\ held[w] \in SUBSET Knows(w)
    <2>1. \A v \in Workers \ {w} : call[v].op = "enqueue" => call[v].id \notin DOMAIN rows'
        BY <1>7 DEF IInv, Arrivals
    <2>2. /\ is_paused' \in BOOLEAN /\ events' \in [Workers -> Int] /\ reported' \in Int
          /\ exact' \in BOOLEAN
        BY <1>2 DEF IInv, Counters
    <2> QED
        <3>1. next_sequence' \in Nat /\ next_sequence' >= next_sequence
            BY <1>2, Numbers
        <3>2. held' = [held EXCEPT ![w] = held[w]] /\ held[w] \in SUBSET Knows(w)
            BY <1>2, Known
        <3>3. f.at # "load" /\ f.op # "enqueue" /\ UNCHANGED <<now, granted, up>>
            BY <1>2, <1>3
        <3> QED
            BY <1>3, <2>1, <2>2, <3>1, <3>2, <3>3 DEF Writes
<1>9. FrameOK(f)'
    BY <1>3 DEF FrameOK
<1>10. IInv' /\ Handed' \subseteq Handed
    BY <1>6, <1>8, <1>9, WriteStep
<1>11. In("inflight")' = In("inflight") \ {id}
    BY <1>4, <1>7 DEF In
<1>12. \A i \in In("inflight") \ {id} : rows'[i].lease = rows[i].lease
    BY <1>7 DEF In
<1>13. Waiting' = Waiting \cup {id}
    BY <1>4, <1>7, <1>11 DEF Waiting
<1>14. Running' = [i \in DOMAIN Running \ {id} |-> Running[i]] /\ id \in DOMAIN Running
    BY <1>4, <1>11, <1>12 DEF Running
<1> QED
    BY <1>2, <1>4, <1>10, <1>13, <1>14 DEF TaskPool!GiveBack, TaskPool!Without

LEMMA WriteRowStep ==
    ASSUME IInv, NEW w \in Workers, WriteRow(w)
    PROVE  IInv' /\ (Forgets \/ TaskPool!GiveBack({call[w].id}))
<1>1. /\ call[w] \in Frame /\ FrameOK(call[w]) /\ call[w].at = "write" /\ call[w].op # "enqueue"
      /\ UNCHANGED <<scopeVars, now, granted, up>>
    BY CallOf DEF WriteRow, At
<1>2. CASE /\ MayReturn(w, call[w].id)
           /\ rows' = [rows EXCEPT ![call[w].id] = Returned(@, call[w].state, call[w].sequence)]
           /\ call' = [call EXCEPT ![w] = NextOf(call[w], 1)]
           /\ UNCHANGED <<held, reportVars>>
    <2>1. call[w].id \in In("inflight")
        BY <1>2 DEF MayReturn, LeaseHolds, Owns
    <2> QED
        BY <1>1, <1>2, <2>1, GiveBackStep
<1>3. CASE /\ call' = [call EXCEPT ![w] = NextOf(call[w], 0)]
           /\ UNCHANGED <<rows, held, reportVars>>
    <2>1. PICK f \in Frame : f.at = "loop" /\ f.op = call[w].op /\ call' = [call EXCEPT ![w] = f]
        BY <1>1, <1>3, NextOfFrame
    <2>2. Moves(w, f)
        BY <1>1, <1>3, <2>1 DEF Moves, scopeVars
    <2>3. FrameOK(f)'
        BY <1>1, <2>1 DEF FrameOK
    <2> QED
        BY <2>2, <2>3, MoveStep
<1>4. CASE Refuse(w, call[w].id, call[w].lease) /\ UNCHANGED rows
    BY <1>1, <1>4, RefuseStep
<1> QED
    BY <1>2, <1>3, <1>4 DEF WriteRow

\* Promoted rows keep their leases, for they have none.
LEMMA PromoteDelayedStep ==
    ASSUME IInv, NEW w \in Workers, PromoteDelayed(w)
    PROVE  IInv' /\ Forgets
<1>1. /\ call[w] \in Frame /\ call[w].at = "loop"
      /\ UNCHANGED <<next_sequence, is_paused, now, granted, up, held, reported, exact>>
    BY CallOf DEF PromoteDelayed, At, scopeVars
<1>2. /\ DOMAIN rows' = DOMAIN rows /\ rows' \in [DOMAIN rows -> Row]
      /\ \A id \in DOMAIN rows :
            \/ rows'[id] = rows[id]
            \/ id \in In("delayed") /\ rows'[id] = [rows[id] EXCEPT !.state = "ready"]
    <2>1. \A id \in DOMAIN rows : rows[id] \in Row /\ [rows[id] EXCEPT !.state = "ready"] \in Row
        BY DEF IInv, RowsOK, Row, States
    <2> QED
        BY <2>1 DEF PromoteDelayed
<1>3. \A id \in DOMAIN rows :
          /\ rows'[id].state = "inflight" <=> rows[id].state = "inflight"
          /\ rows'[id].lease = rows[id].lease
          /\ IsRow(rows[id])'
    <2> SUFFICES ASSUME NEW id \in DOMAIN rows
                 PROVE  /\ rows'[id].state = "inflight" <=> rows[id].state = "inflight"
                        /\ rows'[id].lease = rows[id].lease
                        /\ IsRow(rows[id])'
        OBVIOUS
    <2>1. rows[id] \in Row /\ IsRow(rows[id])
        BY DEF IInv, RowsOK
    <2>2. CASE rows'[id] = rows[id]
        BY <1>1, <2>1, <2>2 DEF IsRow
    <2>3. CASE id \in In("delayed") /\ rows'[id] = [rows[id] EXCEPT !.state = "ready"]
        <3>1. rows[id].state = "delayed"
            BY <2>3 DEF In
        <3>2. /\ rows'[id].state = "ready" /\ rows'[id].sequence = rows[id].sequence
              /\ rows'[id].lease = rows[id].lease /\ rows'[id].worker = rows[id].worker
              /\ rows'[id].deadline = rows[id].deadline
            BY <2>1, <2>3 DEF Row
        <3> QED
            BY <1>1, <2>1, <3>1, <3>2 DEF IsRow
    <2> QED
        BY <1>2, <2>2, <2>3
<1>4. RowsOK'
    BY <1>2, <1>3 DEF IInv, RowsOK
<1>5. PICK f \in Frame :
          /\ \/ f.at = "paused" /\ f.op = "take"
             \/ f.at = "read" /\ f.op # "enqueue"
          /\ call' = [call EXCEPT ![w] = f]
    <2>1. CASE call[w].op = "take"
        <3> DEFINE f == [Idle EXCEPT !.op = call[w].op, !.at = "paused"]
        <3>1. call' = [call EXCEPT ![w] = f]
            BY <2>1 DEF PromoteDelayed
        <3>2. f \in Frame /\ f.op = call[w].op /\ f.at = "paused"
            BY <2>1, IdleFrame DEF Frame
        <3> HIDE DEF f
        <3> QED
            BY <2>1, <3>1, <3>2
    <2>2. CASE call[w].op # "take"
        <3> DEFINE seen == Places(rows')
                   S == DOMAIN rows
                   op == call[w].op
                   f == [Idle EXCEPT !.op = op, !.at = "read", !.seen = seen]
        <3>1. call' = [call EXCEPT ![w] = f] /\ op \in Refreshing
            BY <2>2 DEF PromoteDelayed, Reclaiming
        <3>2. seen \in [S -> States \X Nat] /\ S \in SUBSET Ids
            BY <1>2 DEF Places, Row, IInv, RowsOK
        <3> HIDE DEF seen, op, S
        <3>3. f \in Frame /\ f.op = op /\ f.at = "read"
            BY <3>1, <3>2, ReadFrame
        <3>4. op # "enqueue"
            BY <3>1 DEF Refreshing
        <3> HIDE DEF f
        <3> QED
            BY <3>1, <3>3, <3>4
    <2> QED
        BY <2>1, <2>2
<1>6. Writes(w, f, held[w]) /\ held[w] \in SUBSET Knows(w)
    <2>1. \A v \in Workers \ {w} : call[v].op = "enqueue" => call[v].id \notin DOMAIN rows'
        BY <1>2 DEF IInv, Arrivals
    <2>2. events' \in [Workers -> Int]
        <3>1. call[w].done \in Int /\ events[w] \in Int
            BY <1>1, FrameParts DEF IInv, Counters
        <3> QED
            BY <3>1 DEF PromoteDelayed, IInv, Counters
    <2>3. is_paused' \in BOOLEAN /\ reported' \in Int /\ exact' \in BOOLEAN
        BY <1>1 DEF IInv, Counters
    <2> QED
        BY <1>1, <1>5, <2>1, <2>2, <2>3, Known, Numbers DEF Writes
<1>7. FrameOK(f)'
    BY <1>5 DEF FrameOK
<1>8. IInv' /\ Handed' \subseteq Handed
    BY <1>4, <1>6, <1>7, WriteStep
<1>9. UNCHANGED <<Waiting, Running>>
    BY <1>2, <1>3, SameLeases
<1> QED
    BY <1>1, <1>8, <1>9 DEF Forgets

\* Two frames that differ in seen at most.
Alike(c, f) ==
    /\ f.op = c.op /\ f.at = c.at /\ f.todo = c.todo /\ f.done = c.done /\ f.id = c.id
    /\ f.lease = c.lease /\ f.state = c.state /\ f.sequence = c.sequence /\ f.since = c.since
    /\ f.found = c.found

LEMMA TouchedFrame ==
    ASSUME NEW c \in Frame, NEW id
    PROVE  /\ Touched(c, id) \in Frame
           /\ Touched(c, id).seen = Del(c.seen, {id})
           /\ Alike(c, Touched(c, id))
<1>1. PICK S \in SUBSET Ids : c.seen \in [S -> States \X Nat]
    BY DEF Frame
<1>2. Del(c.seen, {id}) \in [S \ {id} -> States \X Nat] /\ S \ {id} \in SUBSET Ids
    BY <1>1 DEF Del
<1> DEFINE seen == Del(c.seen, {id})
           f == [c EXCEPT !.seen = seen]
<1>3. seen \in UNION {[T -> States \X Nat] : T \in SUBSET Ids} /\ Touched(c, id) = f
    BY <1>2 DEF Touched, Frame
<1> HIDE DEF seen
<1>4. f \in Frame /\ f.seen = seen /\ Alike(c, f)
    BY <1>3 DEF Frame, Alike
<1> QED
    BY <1>3, <1>4 DEF seen

LEMMA ClaimReadyStep ==
    ASSUME IInv, NEW w \in Workers, NEW id \in Ids, ClaimReady(w, id)
    PROVE  IInv' /\ TaskPool!Claim(id, {})
<1>1. /\ call[w] \in Frame /\ FrameOK(call[w]) /\ call[w].at = "claim" /\ call[w].op = "take"
      /\ id \in DOMAIN rows /\ rows[id] \in Row /\ rows[id].state = "ready" /\ IsRow(rows[id])
    BY CallOf DEF ClaimReady, At, FrameOK, FirstReady, In, IInv, RowsOK
<1>2. /\ granted \in Nat /\ granted' = granted + 1 /\ granted' \in 0 .. MaxLease
      /\ now + LeaseTimeout \in 0 .. Horizon
      /\ UNCHANGED <<next_sequence, is_paused, now, up, held, events, reported, exact>>
    BY Numbers, SqliteAssumption DEF ClaimReady, scopeVars, reportVars, IInv, Counters
<1>3. PICK row \in Row :
          /\ row.state = "inflight" /\ row.lease = granted' /\ IsRow(row)'
          /\ rows' = [rows EXCEPT ![id] = row]
    <2> DEFINE row == [rows[id] EXCEPT !.state = "inflight", !.worker = w, !.lease = granted',
                                       !.deadline = now + LeaseTimeout]
    <2>1. rows' = [rows EXCEPT ![id] = row]
        BY <1>1 DEF ClaimReady
    <2>2. now + LeaseTimeout \in Nat /\ granted' \in Nat
        BY <1>2
    <2>3. row \in Row
        BY <1>1, <2>2 DEF Row, States
    <2>4. /\ row.state = "inflight" /\ row.worker = w /\ row.lease = granted'
          /\ row.deadline = now + LeaseTimeout /\ row.sequence = rows[id].sequence
        BY <1>1 DEF Row
    <2> HIDE DEF row
    <2>5. PICK r \in Row : r = row
        BY <2>3
    <2>6. IsRow(r)'
        BY <1>1, <1>2, <2>4, <2>5 DEF IsRow
    <2> QED
        BY <2>1, <2>4, <2>5, <2>6
<1>4. RowsOK'
    <2>1. granted' \in Nat /\ granted' >= granted /\ UNCHANGED next_sequence
        BY <1>2
    <2> QED
        BY <1>1, <1>2, <1>3, <2>1, RowChanges DEF IInv
<1>5. DOMAIN rows' = DOMAIN rows /\ rows'[id] = row /\ \A i \in DOMAIN rows \ {id} : rows'[i] = rows[i]
    BY <1>1, <1>3 DEF IInv, RowsOK
<1>6. Counters'
    BY <1>2 DEF IInv, Counters
<1>7. PICK f \in Frame : /\ f.at = "load" /\ f.id = id /\ f.lease = granted' /\ f.op = "take"
                         /\ call' = [v \in Workers |->
                                       IF v = w THEN f ELSE Touched(call[v], id)]
    <2> DEFINE f == [call[w] EXCEPT !.at = "load", !.id = id, !.lease = granted']
    <2>1. call' = [v \in Workers |-> IF v = w THEN f ELSE Touched(call[v], id)]
        BY DEF ClaimReady
    <2>2. f \in Frame /\ f.at = "load" /\ f.id = id /\ f.lease = granted' /\ f.op = "take"
        <3> DEFINE lease == granted'
        <3>1. lease \in Nat
            BY <1>2
        <3> HIDE DEF lease
        <3>2. f = [call[w] EXCEPT !.at = "load", !.id = id, !.lease = lease]
            BY DEF lease
        <3> HIDE DEF f
        <3> QED
            BY <1>1, <3>1, <3>2 DEF Frame, lease
    <2> HIDE DEF f
    <2> QED
        BY <2>1, <2>2
<1>9. /\ call'[w] = f
      /\ \A v \in Workers \ {w} :
            /\ call'[v] \in Frame
            /\ call'[v].op = call[v].op /\ call'[v].at = call[v].at /\ call'[v].id = call[v].id
            /\ call'[v].lease = call[v].lease /\ call'[v].state = call[v].state
            /\ call'[v].sequence = call[v].sequence
    <2>1. ASSUME NEW v \in Workers \ {w}
          PROVE  /\ call'[v] \in Frame
                 /\ call'[v].op = call[v].op /\ call'[v].at = call[v].at
                 /\ call'[v].id = call[v].id /\ call'[v].lease = call[v].lease
                 /\ call'[v].state = call[v].state /\ call'[v].sequence = call[v].sequence
        <3>1. PICK c, d : c \in Frame /\ c = call[v] /\ d = call'[v]
            BY CallOf
        <3>2. d = Touched(c, id)
            <4>1. call'[v] = Touched(call[v], id)
                BY <1>7 DEF Touched
            <4> QED
                BY <3>1, <4>1 DEF Touched
        <3>3. d \in Frame /\ Alike(c, d)
            BY <3>1, <3>2, TouchedFrame
        <3> QED
            BY <3>1, <3>3 DEF Alike
    <2>2. call'[w] = f
        BY <1>7
    <2> QED
        BY <2>1, <2>2
<1>8. Calls'
    <2>1. FrameOK(f)'
        BY <1>2, <1>7 DEF FrameOK
    <2>2. granted' \in Nat /\ granted' >= granted /\ granted \in Nat
        BY <1>2
    <2>3. ASSUME NEW v \in Workers \ {w} PROVE FrameOK(call[v])'
        <3>1. FrameOK(call[v]) /\ call[v].lease \in Nat
            BY CallOf, FrameParts
        <3>2. PICK c, d : c = call[v] /\ d = call'[v]
            OBVIOUS
        <3>3. /\ d.op = c.op /\ d.at = c.at /\ d.id = c.id /\ d.lease = c.lease
              /\ d.state = c.state /\ d.sequence = c.sequence
            BY <1>9, <3>2
        <3>4. FrameOK(c) /\ next_sequence' = next_sequence /\ c.lease \in Nat
            BY <1>2, <3>1, <3>2
        <3>5. FrameOK(d)'
            BY <2>2, <3>3, <3>4 DEF FrameOK
        <3> QED
            BY <3>2, <3>5 DEF FrameOK
    <2>4. call' \in [Workers -> Frame]
        BY <1>7, <1>9
    <2>5. ASSUME NEW v \in Workers PROVE FrameOK(call[v])'
        <3>1. CASE v = w
            BY <1>9, <2>1, <3>1 DEF FrameOK
        <3> QED
            BY <2>3, <3>1
    <2> QED
        BY <2>4, <2>5 DEF Calls
<1>10. Leases'
    BY <1>2 DEF IInv, Leases
<1>11. Arrivals'
    BY <1>5, <1>7, <1>9 DEF IInv, Arrivals
<1> DEFINE pair == <<id, granted'>>
<1>12. /\ Knows(w)' = Knows(w) \cup {pair}
       /\ \A v \in Workers \ {w} : Knows(v)' = Knows(v)
    <2>1. w \notin Taken /\ w \in Taken'
        BY <1>1, <1>7, <1>9 DEF Taken
    <2>2. \A v \in Workers \ {w} : v \in Taken' <=> v \in Taken
        BY <1>9 DEF Taken
    <2> QED
        BY <1>2, <1>7, <1>9, <2>1, <2>2 DEF Knows
<1>13. \A v \in Workers : pair \notin Knows(v)
    BY <1>2, KnownTypes
<1> HIDE DEF pair
<1>14. OneHolder'
    BY <1>12, <1>13 DEF IInv, OneHolder
<1>15. Handed' = Handed \cup {pair}
    <2>1. \A p : p \in Handed' <=> \E v \in Workers : p \in Knows(v)'
        BY DEF Handed
    <2> QED
        BY <1>12, <2>1, HandedIs
<1>16. id \in Waiting /\ Waiting' = (Waiting \cup {}) \ {id}
    <2>1. In("inflight")' = In("inflight") \cup {id} /\ id \notin In("inflight")
        BY <1>1, <1>3, <1>5 DEF In
    <2> QED
        BY <1>1, <1>5, <2>1 DEF Waiting
<1>17. Running' = [j \in (DOMAIN Running \ {}) \cup {id} |-> IF j = id THEN granted' ELSE Running[j]]
    <2>1. In("inflight")' = In("inflight") \cup {id} /\ id \notin In("inflight")
        BY <1>1, <1>3, <1>5 DEF In
    <2>2. \A i \in In("inflight") \ {id} : rows'[i].lease = rows[i].lease
        BY <1>5 DEF In
    <2>3. rows'[id].lease = granted'
        BY <1>3, <1>5
    <2> QED
        BY <2>1, <2>2, <2>3 DEF Running
<1> QED
    <2>1. IInv'
        BY <1>4, <1>6, <1>8, <1>10, <1>11, <1>14 DEF IInv
    <2>2. TaskPool!Claim(id, {})
        BY <1>2, <1>15, <1>16, <1>17 DEF TaskPool!Claim, pair
    <2> QED
        BY <2>1, <2>2

LEMMA HeartbeatStep ==
    ASSUME IInv, NEW w \in Workers, NEW id, NEW lease, Heartbeat(w, id, lease)
    PROVE  IInv' /\ Forgets
<1>1. UNCHANGED <<scopeVars, now, granted, up>> /\ now + LeaseTimeout <= Horizon
    BY DEF Heartbeat
<1>2. UNCHANGED <<next_sequence, is_paused, now, granted, up>>
    BY <1>1 DEF scopeVars
<1>3. CASE LeaseHolds(w, id, lease)
    <2>1. /\ id \in DOMAIN rows /\ rows[id] \in Row /\ IsRow(rows[id])
          /\ rows[id].state = "inflight"
        BY <1>3 DEF LeaseHolds, Owns, In, IInv, RowsOK
    <2>2. now + LeaseTimeout \in 0 .. Horizon
        BY <1>1, SqliteAssumption DEF IInv, Counters
    <2>3. PICK row \in Row :
              /\ row.state = "inflight" /\ row.lease = rows[id].lease /\ IsRow(row)
              /\ rows' = [rows EXCEPT ![id] = row]
        <3> DEFINE deadline == now + LeaseTimeout
                   row == [rows[id] EXCEPT !.deadline = deadline]
        <3>1. rows' = [rows EXCEPT ![id] = row]
            BY <1>3, <2>1 DEF Heartbeat
        <3>2. deadline \in 0 .. Horizon
            BY <2>2
        <3> HIDE DEF deadline
        <3>3. row \in Row /\ row.deadline = deadline /\ row.state = "inflight"
              /\ row.lease = rows[id].lease /\ row.worker = rows[id].worker
              /\ row.sequence = rows[id].sequence
            BY <2>1, <3>2, SqliteAssumption DEF Row
        <3> HIDE DEF row
        <3>4. IsRow(row)
            BY <2>1, <3>2, <3>3 DEF IsRow
        <3> QED
            BY <3>1, <3>3, <3>4
    <2>4. IsRow(row)'
        BY <1>2, <2>3 DEF IsRow
    <2>5. RowsOK'
        <3>1. granted \in Nat /\ granted' \in Nat /\ granted' >= granted /\ UNCHANGED next_sequence
            BY <1>2, Numbers
        <3> QED
            BY <2>1, <2>3, <2>4, <3>1, RowChanges DEF IInv
    <2>6. /\ DOMAIN rows' = DOMAIN rows /\ rows'[id] = row
          /\ \A i \in DOMAIN rows \ {id} : rows'[i] = rows[i]
        BY <2>1, <2>3 DEF IInv, RowsOK
    <2>7. Return(w, 0, 0) /\ held' = [held EXCEPT ![w] = held[w]] /\ held[w] \in SUBSET Knows(w)
        BY <1>3, Known DEF Heartbeat
    <2>8. events' \in [Workers -> Int] /\ reported' \in Int /\ exact' \in BOOLEAN
        BY <2>7, Reported DEF Return, IInv
    <2>9. Writes(w, Idle, held[w])
        <3>1. \A v \in Workers \ {w} : call[v].op = "enqueue" => call[v].id \notin DOMAIN rows'
            BY <2>6 DEF IInv, Arrivals
        <3>2. is_paused' \in BOOLEAN
            BY <1>2 DEF IInv, Counters
        <3>3. next_sequence' \in Nat /\ next_sequence' >= next_sequence
            BY <1>2, Numbers
        <3> QED
            BY <1>2, <2>7, <2>8, <3>1, <3>2, <3>3, IdleFrame DEF Writes, Return
    <2>10. FrameOK(Idle)'
        BY IdleFrame DEF FrameOK
    <2>11. IInv' /\ Handed' \subseteq Handed
        BY <2>5, <2>7, <2>9, <2>10, IdleFrame, WriteStep
    <2>12. UNCHANGED <<Waiting, Running>>
        <3>1. \A i \in DOMAIN rows :
                  /\ rows'[i].state = "inflight" <=> rows[i].state = "inflight"
                  /\ rows'[i].lease = rows[i].lease
            BY <2>1, <2>3, <2>6
        <3> QED
            BY <2>6, <3>1, SameLeases
    <2> QED
        BY <1>2, <2>11, <2>12 DEF Forgets
<1>4. CASE ~LeaseHolds(w, id, lease)
    <2>1. Refuse(w, id, lease) /\ UNCHANGED rows
        BY <1>4 DEF Heartbeat
    <2> QED
        BY <1>1, <2>1, RefuseStep
<1> QED
    BY <1>3, <1>4

\* A call is left where it is.
LEMMA SetPausedStep ==
    ASSUME IInv, NEW w \in Workers, NEW paused \in BOOLEAN, SetPaused(w, paused)
    PROVE  IInv' /\ Forgets
<1>1. /\ UNCHANGED <<rows, next_sequence, now, granted, up, call, held>> /\ is_paused' = paused
      /\ Report(w, 0, 0)
    BY DEF SetPaused
<1>2. events' \in [Workers -> Int] /\ reported' \in Int /\ exact' \in BOOLEAN
    BY <1>1, Reported DEF IInv
<1>3. Counters'
    BY <1>1, <1>2 DEF IInv, Counters
<1>4. RowsOK' /\ Calls'
    <2>1. granted' \in Nat /\ granted' >= granted /\ next_sequence' \in Nat
          /\ next_sequence' >= next_sequence /\ granted \in Nat /\ next_sequence \in Nat
        BY <1>1, Numbers
    <2> QED
        BY <1>1, <2>1, RowsStay, CallsStay DEF IInv
<1>5. \A v \in Workers : Knows(v)' = Knows(v)
    BY <1>1 DEF Knows, Taken
<1>6. Leases' /\ Arrivals' /\ OneHolder'
    BY <1>1, <1>5 DEF IInv, Leases, Arrivals, OneHolder
<1>7. Handed' = Handed
    BY <1>5 DEF Handed
<1> QED
    BY <1>1, <1>3, <1>4, <1>6, <1>7, SameRows DEF IInv, Forgets

LEMMA TickStep ==
    ASSUME IInv, Tick
    PROVE  IInv' /\ Forgets
<1>1. /\ UNCHANGED <<rows, next_sequence, is_paused, granted, up, call, held, events, reported, exact>>
      /\ now' = now + 1 /\ now < Horizon
    BY DEF Tick, tableVars, scopeVars, reportVars
<1>2. Counters'
    BY <1>1, SqliteAssumption DEF IInv, Counters
<1>3. RowsOK' /\ Calls'
    <2>1. granted' \in Nat /\ granted' >= granted /\ next_sequence' \in Nat
          /\ next_sequence' >= next_sequence /\ granted \in Nat /\ next_sequence \in Nat
        BY <1>1, Numbers
    <2> QED
        BY <1>1, <2>1, RowsStay, CallsStay DEF IInv
<1>4. \A v \in Workers : Knows(v)' = Knows(v)
    BY <1>1 DEF Knows, Taken
<1>5. Leases' /\ Arrivals' /\ OneHolder'
    BY <1>1, <1>4 DEF IInv, Leases, Arrivals, OneHolder
<1>6. Handed' = Handed
    BY <1>4 DEF Handed
<1> QED
    BY <1>1, <1>2, <1>3, <1>5, <1>6, SameRows DEF IInv, Forgets

LEMMA PurgeTasksStep ==
    ASSUME IInv, NEW w \in Workers, PurgeTasks(w)
    PROVE  IInv' /\ TaskPool!Purge
<1> DEFINE f == [Idle EXCEPT !.op = "purge", !.at = "scope"]
<1>1. f \in Frame /\ f.op = "purge" /\ f.at = "scope"
    BY IdleFrame DEF Frame
<1>2. call[w].at = "idle" /\ call' = [call EXCEPT ![w] = f]
    BY DEF PurgeTasks, Begin, At
<1> HIDE DEF f
<1>3. UNCHANGED <<next_sequence, is_paused, now, granted, up, held, events>>
      /\ Escapes(In("inflight") # {}) /\ rows' = Empty
    BY DEF PurgeTasks, scopeVars
<1>4. RowsOK' /\ DOMAIN rows' = {}
    BY <1>3 DEF RowsOK, Empty
<1>5. Writes(w, f, held[w]) /\ held[w] \in SUBSET Knows(w)
    <2>1. reported' \in Int /\ exact' \in BOOLEAN
        BY <1>3 DEF Escapes, IInv, Counters
    <2>2. is_paused' \in BOOLEAN /\ events' \in [Workers -> Int]
        BY <1>3 DEF IInv, Counters
    <2>3. next_sequence' \in Nat /\ next_sequence' >= next_sequence
        BY <1>3, Numbers
    <2>4. held' = [held EXCEPT ![w] = held[w]] /\ held[w] \in SUBSET Knows(w)
        BY <1>3, Known
    <2> QED
        BY <1>1, <1>2, <1>3, <1>4, <2>1, <2>2, <2>3, <2>4 DEF Writes
<1>6. FrameOK(f)'
    BY <1>1 DEF FrameOK
<1>7. IInv'
    BY <1>1, <1>4, <1>5, <1>6, WriteStep
<1>8. Handed' = Handed
    <2>1. call'[w] = f /\ \A v \in Workers \ {w} : call'[v] = call[v]
        BY <1>2 DEF IInv, Calls
    <2>2. \A v \in Workers : Knows(v)' = Knows(v)
        BY <1>1, <1>2, <1>3, <2>1 DEF Knows, Taken
    <2> QED
        BY <2>2 DEF Handed
<1>9. Waiting' = {} /\ Running' = [i \in {} |-> Running[i]]
    BY <1>4 DEF Waiting, Running, In
<1> QED
    BY <1>3, <1>7, <1>8, <1>9 DEF TaskPool!Purge, TaskPool!Without

\* The follow-ups take the place of the task, and nobody else knew of its lease.
LEMMA CompletedStep ==
    ASSUME IInv, NEW w \in Workers, NEW claim \in held[w],
           NEW follow \in {{}} \cup {{f} : f \in Ids},
           NEW pairs \in SUBSET (held[w] \ {claim}),
           LeaseHolds(w, claim[1], claim[2]), Replace(claim[1], follow),
           call' = [call EXCEPT ![w] = Idle], held' = [held EXCEPT ![w] = pairs],
           events' \in [Workers -> Int], reported' \in Int, exact' \in BOOLEAN,
           UNCHANGED <<is_paused, now, granted, up>>
    PROVE  IInv' /\ TaskPool!Finish(claim[1], follow)
<1> DEFINE id == claim[1]
           lease == claim[2]
<1>1. /\ follow \subseteq Fresh /\ follow \subseteq Ids
      /\ next_sequence' = next_sequence + Cardinality(follow)
      /\ rows' = Put(Del(rows, {id}), [f \in follow |-> NewRow(f, next_sequence')])
      /\ UNCHANGED <<is_paused, now, granted, up>>
    BY DEF Replace
<1>2. claim = <<id, lease>> /\ id \in Ids /\ lease \in Nat
    BY DEF IInv, Leases
<1>3. id \in In("inflight") /\ id \in DOMAIN rows /\ rows[id].lease = lease
    BY DEF LeaseHolds, Owns, In
<1> HIDE DEF id, lease
<1>4. /\ next_sequence' \in Nat /\ next_sequence' >= next_sequence
      /\ \A f \in follow : next_sequence' >= 1
    <2>1. CASE follow = {}
        BY <1>1, <2>1, Numbers, FS_EmptySet
    <2>2. CASE \E f \in Ids : follow = {f}
        <3>1. PICK f \in Ids : follow = {f}
            BY <2>2
        <3>2. Cardinality(follow) = 1
            BY <3>1, FS_Singleton
        <3> QED
            BY <1>1, <3>2, Numbers
    <2> QED
        BY <2>1, <2>2
<1>5. PICK added :
          /\ DOMAIN added = follow
          /\ \A f \in follow : added[f] \in Row /\ IsRow(added[f])' /\ added[f].state # "inflight"
          /\ rows' = Put(Del(rows, {id}), added)
    <2>1. PICK added : added = [f \in follow |-> NewRow(f, next_sequence')]
        OBVIOUS
    <2>2. ASSUME NEW f \in follow
          PROVE  added[f] \in Row /\ IsRow(added[f])' /\ added[f].state # "inflight"
        <3>1. added[f] = NewRow(f, next_sequence')
            BY <2>1
        <3>2. /\ added[f].state \in {"ready", "delayed"} /\ added[f].sequence = next_sequence'
              /\ added[f].worker = NoWorker /\ added[f].lease = 0 /\ added[f].deadline = 0
              /\ added[f] \in Row
            BY <1>1, <1>4, <3>1, SqliteAssumption DEF NewRow, StateFor, Row, States
        <3> QED
            BY <1>4, <3>2, SqliteAssumption DEF IsRow
    <2> QED
        BY <1>1, <2>1, <2>2
<1>6. /\ id \notin follow
      /\ DOMAIN rows' = (DOMAIN rows \ {id}) \cup follow
      /\ \A i \in DOMAIN rows' : rows'[i] = IF i \in follow THEN added[i] ELSE rows[i]
      /\ rows' = [i \in DOMAIN rows' |-> rows'[i]]
    BY <1>1, <1>3, <1>5 DEF Put, Del, Fresh
<1>7. RowsOK'
    <2>1. ASSUME NEW i \in DOMAIN rows' PROVE rows'[i] \in Row /\ IsRow(rows[i])'
        <3>1. CASE i \in follow
            BY <1>5, <1>6, <3>1
        <3>2. CASE i \notin follow
            <4>1. rows'[i] = rows[i] /\ rows[i] \in Row /\ IsRow(rows[i])
                BY <1>6, <3>2 DEF IInv, RowsOK
            <4> QED
                BY <1>1, <1>4, <4>1, Numbers DEF IsRow, Row
        <3> QED
            BY <3>1, <3>2
    <2> QED
        BY <1>1, <1>6, <2>1 DEF IInv, RowsOK
<1>8. pairs \in SUBSET Knows(w) /\ claim \notin pairs
    BY Known
<1>9. events' \in [Workers -> Int] /\ reported' \in Int /\ exact' \in BOOLEAN
    OBVIOUS
<1>10. Writes(w, Idle, pairs)
    <2>1. \A v \in Workers \ {w} : call[v].op = "enqueue" => call[v].id \notin DOMAIN rows'
        <3>1. \A v \in Workers : call[v].op = "enqueue" =>
                  call[v].id \notin DOMAIN rows /\ call[v].id \notin Fresh
            BY DEF IInv, Arrivals, Fresh
        <3> QED
            BY ONLY <1>1, <1>6, <3>1
    <2>2. is_paused' \in BOOLEAN
        BY <1>1 DEF IInv, Counters
    <2>3. call' = [call EXCEPT ![w] = Idle] /\ held' = [held EXCEPT ![w] = pairs]
        OBVIOUS
    <2>4. UNCHANGED <<now, granted, up>>
        BY <1>1
    <2> QED
        BY ONLY <1>4, <1>9, <2>1, <2>2, <2>3, <2>4, IdleFrame DEF Writes
<1>11. FrameOK(Idle)'
    BY IdleFrame DEF FrameOK
<1>12. IInv' /\ Handed' \subseteq Handed
    <2>1. Idle \in Frame /\ IInv
        BY IdleFrame
    <2> QED
        BY ONLY w \in Workers, <1>7, <1>8, <1>10, <1>11, <2>1, WriteStep
<1>13. claim \in Handed /\ claim \notin Handed'
    <2>1. claim \in Knows(w)
        BY Known
    <2>2. \A v \in Workers \ {w} : claim \notin Knows(v) /\ Knows(v)' = Knows(v)
        BY <1>1, <2>1 DEF IInv, OneHolder, Knows, Taken, Calls, Leases
    <2>3. Knows(w)' = pairs
        BY <1>1, <1>8, IdleFrame DEF IInv, Knows, Taken, Calls, Leases
    <2>4. \A v \in Workers : claim \notin Knows(v)'
        BY <1>8, <2>2, <2>3
    <2> QED
        BY <2>1, <2>4, HandedIs DEF Handed
<1>14. In("inflight")' = In("inflight") \ {id} /\ follow \cap DOMAIN rows = {}
    <2>1. follow \cap DOMAIN rows = {}
        BY <1>1 DEF Fresh
    <2>2. \A i \in DOMAIN rows' : rows'[i].state = "inflight" <=>
                                      i \in DOMAIN rows \ {id} /\ rows[i].state = "inflight"
        BY <1>5, <1>6, <2>1
    <2>3. DOMAIN rows \ {id} \subseteq DOMAIN rows'
        BY <1>6
    <2> QED
        BY <2>1, <2>2, <2>3 DEF In
<1>15. Waiting' = Waiting \cup follow
    <2>1. In("inflight") \subseteq DOMAIN rows
        BY DEF In
    <2> QED
        BY <1>3, <1>6, <1>14, <2>1 DEF Waiting
<1>16. Running' = [i \in DOMAIN Running \ {id} |-> Running[i]] /\ id \in DOMAIN Running
       /\ Running[id] = lease
    <2>1. \A i \in In("inflight") \ {id} : rows'[i].lease = rows[i].lease
        BY <1>1, <1>6 DEF In, Fresh
    <2> QED
        BY <1>3, <1>14, <2>1 DEF Running
<1>17. follow \subseteq Ids \ ((Waiting \cup DOMAIN Running) \ {id})
    BY <1>1 DEF Fresh, Waiting, Running, In
<1>18. TaskPool!Finish(id, follow)
    BY <1>1, <1>2, <1>12, <1>13, <1>15, <1>16, <1>17
       DEF TaskPool!Finish, TaskPool!Without, TaskPool!Pool
<1> QED
    BY <1>12, <1>18 DEF id

LEMMA CompleteStep ==
    ASSUME IInv, NEW w \in Workers, NEW claim \in held[w],
           NEW follow \in {{}} \cup {{f} : f \in Ids}, Complete(w, claim[1], claim[2], follow)
    PROVE  IInv' /\ (Forgets \/ TaskPool!Finish(claim[1], follow))
<1>1. CASE LeaseHolds(w, claim[1], claim[2])
    <2>1. PICK pairs \in SUBSET (held[w] \ {claim}) : held' = [held EXCEPT ![w] = pairs]
        <3>1. claim = <<claim[1], claim[2]>>
            BY DEF IInv, Leases
        <3>2. held' = [held EXCEPT ![w] = @ \ {claim}]
            BY <1>1, <3>1 DEF Complete
        <3> QED
            BY <3>2
    <2>2. Return(w, 0, 1) /\ Replace(claim[1], follow) /\ UNCHANGED <<is_paused, now, granted, up>>
        BY <1>1 DEF Complete
    <2>3. events' \in [Workers -> Int] /\ reported' \in Int /\ exact' \in BOOLEAN
        BY <2>2, Reported DEF Return, IInv
    <2> QED
        BY <1>1, <2>1, <2>2, <2>3, CompletedStep DEF Return
<1>2. CASE ~LeaseHolds(w, claim[1], claim[2])
    <2>1. Refuse(w, claim[1], claim[2]) /\ UNCHANGED <<rows, scopeVars, now, granted, up>>
        BY <1>2 DEF Complete, scopeVars
    <2> DEFINE id == claim[1]
               lease == claim[2]
    <2> HIDE DEF id, lease
    <2>2. Refuse(w, id, lease)
        BY <2>1 DEF id, lease
    <2> QED
        BY <2>1, <2>2, RefuseStep
<1> QED
    BY <1>1, <1>2

\* The same when the process gets an error and forgets its leases.
LEMMA UnansweredStep ==
    ASSUME IInv, NEW w \in Workers, NEW claim \in held[w],
           NEW follow \in {{}} \cup {{f} : f \in Ids},
           CompleteUnanswered(w, claim[1], claim[2], follow)
    PROVE  IInv' /\ TaskPool!Finish(claim[1], follow)
<1>1. PICK pairs \in SUBSET (held[w] \ {claim}) : held' = [held EXCEPT ![w] = pairs]
    BY DEF CompleteUnanswered
<1>2. /\ LeaseHolds(w, claim[1], claim[2]) /\ Replace(claim[1], follow)
      /\ call' = [call EXCEPT ![w] = Idle] /\ UNCHANGED <<is_paused, now, granted, up>>
    BY DEF CompleteUnanswered
<1>3. events' \in [Workers -> Int] /\ reported' \in Int /\ exact' \in BOOLEAN
    <2>1. Escapes(TRUE) /\ events' = [events EXCEPT ![w] = 0] /\ Counters
        BY DEF CompleteUnanswered, IInv
    <2>2. reported' \in Int /\ exact' \in BOOLEAN
        BY ONLY <2>1 DEF Escapes, Counters
    <2> QED
        BY <2>1, <2>2 DEF Counters
<1> QED
    BY ONLY IInv, w \in Workers, claim \in held[w], follow \in {{}} \cup {{f} : f \in Ids},
       pairs \in SUBSET (held[w] \ {claim}), <1>1, <1>2, <1>3, CompletedStep

-----------------------------------------------------------------------------
(* The specification. *)

\* What a step does to the pool: at most one thing.
PoolStep ==
    \/ Forgets
    \/ \E id \in Ids : TaskPool!Submit(id) \/ TaskPool!GiveBack({id}) \/ TaskPool!Claim(id, {})
    \/ \E id \in Ids, follow \in {{}} \cup {{f} : f \in Ids} : TaskPool!Finish(id, follow)
    \/ TaskPool!Purge

LEMMA StartSteps ==
    ASSUME IInv, NEW w \in Workers, Start(w)
    PROVE  IInv' /\ PoolStep
<1>1. CASE \E id \in Ids : Enqueue(w, id)
    BY <1>1, EnqueueStep DEF PoolStep
<1>2. CASE TakeReady(w) \/ ReleaseInflight(w) \/ (\E op \in Refreshing : Read(w, op))
           \/ ReleaseScope(w)
    BY <1>2, BeginsStep DEF PoolStep
<1>3. CASE \E claim \in held[w] : Requeue(w, claim[1], claim[2])
    BY <1>3, RequeueStep DEF PoolStep
<1>4. CASE \E claim \in held[w] : Heartbeat(w, claim[1], claim[2])
    BY <1>4, HeartbeatStep DEF PoolStep
<1>5. CASE \E claim \in held[w], follow \in {{}} \cup {{f} : f \in Ids} :
               Complete(w, claim[1], claim[2], follow)
    <2>1. PICK claim \in held[w], follow \in {{}} \cup {{f} : f \in Ids} :
              Complete(w, claim[1], claim[2], follow)
        BY <1>5
    <2>2. claim[1] \in Ids
        BY DEF IInv, Leases
    <2> QED
        BY <2>1, <2>2, CompleteStep DEF PoolStep
<1>8. CASE \E claim \in held[w], follow \in {{}} \cup {{f} : f \in Ids} :
               CompleteUnanswered(w, claim[1], claim[2], follow)
    <2>1. PICK claim \in held[w], follow \in {{}} \cup {{f} : f \in Ids} :
              CompleteUnanswered(w, claim[1], claim[2], follow)
        BY <1>8
    <2>2. claim[1] \in Ids
        BY DEF IInv, Leases
    <2> QED
        BY <2>1, <2>2, UnansweredStep DEF PoolStep
<1>6. CASE PurgeTasks(w)
    BY <1>6, PurgeTasksStep DEF PoolStep
<1>7. CASE \E paused \in BOOLEAN : SetPaused(w, paused)
    BY <1>7, SetPausedStep DEF PoolStep
<1> QED
    BY <1>1, <1>2, <1>3, <1>4, <1>5, <1>6, <1>7, <1>8 DEF Start

LEMMA ProceedSteps ==
    ASSUME IInv, NEW w \in Workers, Proceed(w)
    PROVE  IInv' /\ PoolStep
<1>1. CASE InsertTask(w)
    <2>1. call[w].id \in Ids
        BY <1>1, CallOf DEF InsertTask, At, FrameOK
    <2> QED
        BY <1>1, <2>1, InsertTaskStep DEF PoolStep
<1>2. CASE WriteRow(w)
    <2>1. call[w].id \in Ids
        BY <1>2, CallOf DEF WriteRow, At, FrameOK
    <2> QED
        BY <1>2, <2>1, WriteRowStep DEF PoolStep
<1>3. CASE \E id \in Ids : NextRow(w, id)
    BY <1>3, NextRowStep DEF PoolStep
<1>4. CASE \E id \in Ids : ClaimReady(w, id)
    BY <1>4, ClaimReadyStep DEF PoolStep
<1>5. CASE ReadSequence(w) \/ EndRelease(w) \/ PromoteDelayed(w) \/ ReadPaused(w)
           \/ LoadClaimed(w) \/ ReadNext(w)
    BY <1>5, ReadSequenceStep, EndReleaseStep, PromoteDelayedStep, ReadPausedStep,
       LoadClaimedStep, ReadNextStep DEF PoolStep
<1>6. CASE ClaimNothing(w) \/ PurgeScope(w) \/ EndRead(w)
    BY <1>6, ClaimNothingStep DEF PoolStep
<1> QED
    BY <1>1, <1>2, <1>3, <1>4, <1>5, <1>6 DEF Proceed

LEMMA Initial == Init => IInv
<1> SUFFICES ASSUME Init PROVE IInv
    OBVIOUS
<1>1. RowsOK
    BY DEF Init, RowsOK, Empty
<1>2. Counters
    <2>1. next_sequence \in Nat /\ now \in 0 .. Horizon /\ granted \in 0 .. MaxLease
          /\ up \subseteq Workers /\ events \in [Workers -> Int] /\ reported \in Int
        BY SqliteAssumption DEF Init
    <2>2. is_paused \in BOOLEAN /\ exact \in BOOLEAN
        BY DEF Init
    <2> QED
        BY <2>1, <2>2 DEF Counters
<1>3. Calls
    BY IdleFrame DEF Init, Calls, FrameOK
<1>4. Leases
    BY DEF Init, Leases
<1>5. Arrivals
    BY IdleFrame DEF Init, Arrivals
<1>6. OneHolder
    BY IdleFrame DEF Init, OneHolder, Knows, Taken
<1> QED
    BY <1>1, <1>2, <1>3, <1>4, <1>5, <1>6 DEF IInv

LEMMA Steps ==
    ASSUME IInv, Next
    PROVE  IInv' /\ PoolStep
<1>1. CASE \E w \in Workers : Start(w)
    BY <1>1, StartSteps
<1>2. CASE \E w \in Workers : Proceed(w)
    BY <1>2, ProceedSteps
<1>3. CASE \E w \in Workers : Crash(w)
    BY <1>3, CrashStep DEF PoolStep
<1>4. CASE Tick
    BY <1>4, TickStep DEF PoolStep
<1>5. CASE \E w \in Workers : Fails(w)
    BY <1>5, FailsStep DEF PoolStep
<1> QED
    BY <1>1, <1>2, <1>3, <1>4, <1>5 DEF Next

LEMMA Stutters ==
    ASSUME IInv, UNCHANGED vars
    PROVE  IInv' /\ UNCHANGED TaskPool!vars
<1>1. UNCHANGED <<rows, next_sequence, is_paused, now, granted, up, call, held, events, reported,
                  exact>>
    BY DEF vars, tableVars, scopeVars, reportVars
<1>2. \A v \in Workers : Knows(v)' = Knows(v)
    BY <1>1 DEF Knows, Taken
<1>3. RowsOK' /\ Calls'
    <2>1. granted' \in Nat /\ granted' >= granted /\ next_sequence' \in Nat
          /\ next_sequence' >= next_sequence /\ granted \in Nat /\ next_sequence \in Nat
        BY <1>1, Numbers
    <2> QED
        BY <1>1, <2>1, RowsStay, CallsStay DEF IInv
<1>4. Counters' /\ Leases' /\ Arrivals' /\ OneHolder'
    BY <1>1, <1>2 DEF IInv, Counters, Leases, Arrivals, OneHolder
<1>5. Handed' = Handed
    BY <1>2 DEF Handed
<1> QED
    BY <1>1, <1>3, <1>4, <1>5, SameRows DEF IInv, TaskPool!vars

\* The invariant is inductive: what every statement of every process keeps, with the
\* others anywhere in their calls.
THEOREM Inductive == Spec => []IInv
<1>1. IInv /\ [Next]_vars => IInv'
    BY Steps, Stutters
<1> QED
    BY <1>1, Initial, PTL DEF Spec

\* The rows are well formed whatever statements interleave: a row has a worker and a
\* lease exactly while it is inflight, and no process works under a lease never granted.
THEOREM TypeCorrect == Spec => []TypeOK
<1>1. IInv => TypeOK
    BY DEF IInv, RowsOK, Counters, Leases, TypeOK
<1> QED
    BY <1>1, Inductive, PTL

LEMMA RefinesNext == IInv /\ [Next]_vars => [TaskPool!Next]_(TaskPool!vars)
<1> SUFFICES ASSUME IInv, [Next]_vars PROVE TaskPool!Next \/ UNCHANGED TaskPool!vars
    OBVIOUS
<1>1. CASE PoolStep
    <2>1. CASE Forgets
        BY <2>1 DEF Forgets, TaskPool!Next, TaskPool!Forget
    <2>2. CASE \E id \in Ids : TaskPool!Submit(id) \/ TaskPool!GiveBack({id})
                               \/ TaskPool!Claim(id, {})
        BY <2>2 DEF TaskPool!Next
    <2>3. CASE \E id \in Ids, follow \in {{}} \cup {{f} : f \in Ids} : TaskPool!Finish(id, follow)
        BY <2>3 DEF TaskPool!Next
    <2>4. CASE TaskPool!Purge
        BY <2>4 DEF TaskPool!Next
    <2> QED
        BY <1>1, <2>1, <2>2, <2>3, <2>4 DEF PoolStep
<1>2. CASE UNCHANGED vars
    BY <1>2, Stutters
<1> QED
    BY <1>1, <1>2, Steps

\* Every statement of every process is one step the contract of the scheduler allows, or
\* changes nothing of it, for any processes, tasks and operations: no process completes
\* or gives back a task under a lease that is not in force.
THEOREM Implements == Spec => ImplementsTaskPool
<1>1. Init => TaskPool!Init
    <2> SUFFICES ASSUME Init PROVE TaskPool!Init
        OBVIOUS
    <2>1. DOMAIN rows = {} /\ granted = 0
        BY DEF Init, Empty
    <2>2. Waiting = {} /\ Running = [i \in {} |-> 0]
        BY <2>1 DEF Waiting, Running, In
    <2>3. \A v \in Workers : Knows(v) = {}
        BY IdleFrame DEF Init, Knows, Taken
    <2>4. Handed = {}
        BY <2>3 DEF Handed
    <2> QED
        BY <2>1, <2>2, <2>4 DEF TaskPool!Init
<1> QED
    BY <1>1, RefinesNext, Inductive, PTL DEF Spec, ImplementsTaskPool, TaskPool!Spec

-----------------------------------------------------------------------------
(* Reads in several statements. *)

\* What stays true of a task that a reader saw in state st with the sequence s, while
\* nobody claims it: a row that is back at that place never left it.
SeenOK(w, id, st, s) ==
    /\ st \in States /\ s \in Nat /\ s <= next_sequence
    /\ \A v \in Workers : call[v].op = "enqueue" /\ call[v].id = id =>
          /\ call[v].at = "reserved" => next_sequence > s
          /\ call[v].at = "write" => call[v].sequence > s
    /\ id \in DOMAIN rows =>
          /\ st = "inflight" /\ rows[id].state = "inflight" => rows[id].sequence = s
          /\ st # "inflight" => rows[id].state # "inflight" /\ rows[id].sequence >= s
          /\ st = "ready" /\ rows[id].sequence = s => rows[id].state = "ready"
          /\ rows[id].state = st /\ rows[id].sequence = s =>
                \A k \in DOMAIN call[w].found :
                    Selects(call[w].op)[k] \in States =>
                        (id \in call[w].found[k] <=> st = Selects(call[w].op)[k])

ReadsOK ==
    \A w \in Workers : call[w].at = "read" =>
        \A id \in DOMAIN call[w].seen : SeenOK(w, id, call[w].seen[id][1], call[w].seen[id][2])

\* What a statement does to the row of a task, claims apart.
Drifts(id) ==
    /\ id \in DOMAIN rows
    /\ \/ /\ rows'[id].state = rows[id].state
          /\ rows'[id].sequence = rows[id].sequence
       \/ /\ rows[id].state = "delayed" /\ rows'[id].state = "ready"
          /\ rows'[id].sequence = rows[id].sequence
       \/ rows[id].state = "inflight" /\ rows'[id].state # "inflight"

Appears(id) ==
    /\ id \notin DOMAIN rows
    /\ rows'[id].state # "inflight"
    /\ \/ rows'[id].sequence > next_sequence
       \/ \E v \in Workers :
             /\ call[v].op = "enqueue" /\ call[v].id = id /\ call[v].at = "write"
             /\ rows'[id].sequence = call[v].sequence

\* What an enqueue that is under way does next.
Arrives(c, f) ==
    \/ f.at = "reserved" /\ next_sequence' > next_sequence
    \/ /\ c.op = "enqueue" /\ f.id = c.id
       /\ \/ f.at = c.at /\ f.sequence = c.sequence
          \/ c.at = "reserved" /\ f.at = "write" /\ f.sequence = next_sequence

LEMMA SeenStays ==
    ASSUME IInv, IInv', NEW w \in Workers, NEW id, NEW st, NEW s, SeenOK(w, id, st, s),
           call'[w].op = call[w].op, call'[w].found = call[w].found,
           next_sequence' >= next_sequence,
           \A v \in Workers : call'[v].op = "enqueue" => Arrives(call[v], call'[v]),
           id \in DOMAIN rows' => Drifts(id) \/ Appears(id)
    PROVE  SeenOK(w, id, st, s)'
<1>1. /\ next_sequence \in Nat /\ next_sequence' \in Nat
      /\ st \in States /\ s \in Nat /\ s <= next_sequence /\ s <= next_sequence'
    BY Numbers DEF SeenOK, IInv, Counters
<1>2. ASSUME NEW v \in Workers, call'[v].op = "enqueue", call'[v].id = id
      PROVE  /\ call'[v].at = "reserved" => next_sequence' > s
             /\ call'[v].at = "write" => call'[v].sequence > s
    <2>1. CASE call'[v].at = "reserved" /\ next_sequence' > next_sequence
        BY <1>1, <2>1
    <2>2. CASE call[v].op = "enqueue" /\ call'[v].id = call[v].id
               /\ call'[v].at = call[v].at /\ call'[v].sequence = call[v].sequence
        BY <1>1, <1>2, <2>2 DEF SeenOK
    <2>3. CASE call[v].op = "enqueue" /\ call'[v].id = call[v].id
               /\ call[v].at = "reserved" /\ call'[v].at = "write"
               /\ call'[v].sequence = next_sequence
        BY <1>1, <1>2, <2>3 DEF SeenOK
    <2> QED
        BY <1>2, <2>1, <2>2, <2>3 DEF Arrives
<1>3. ASSUME id \in DOMAIN rows'
      PROVE  /\ st = "inflight" /\ rows'[id].state = "inflight" => rows'[id].sequence = s
             /\ st # "inflight" => rows'[id].state # "inflight" /\ rows'[id].sequence >= s
             /\ st = "ready" /\ rows'[id].sequence = s => rows'[id].state = "ready"
             /\ rows'[id].state = st /\ rows'[id].sequence = s =>
                   \A k \in DOMAIN call[w].found :
                       Selects(call[w].op)[k] \in States =>
                           (id \in call[w].found[k] <=> st = Selects(call[w].op)[k])
    <2>1. rows'[id] \in Row /\ rows'[id].sequence \in Nat /\ IsRow(rows[id])'
        BY <1>3 DEF IInv, RowsOK, Row
    <2>2. CASE Drifts(id)
        <3>1. rows[id] \in Row /\ rows[id].sequence \in Nat /\ rows[id].state \in States
            BY <2>2 DEF Drifts, IInv, RowsOK, Row
        <3>2. rows'[id].state \in States
            BY <2>1 DEF Row
        <3>3. CASE /\ rows'[id].state = rows[id].state
                   /\ rows'[id].sequence = rows[id].sequence
            BY <2>2, <3>3 DEF SeenOK, Drifts
        <3>4. CASE /\ rows[id].state = "delayed" /\ rows'[id].state = "ready"
                   /\ rows'[id].sequence = rows[id].sequence
            BY <2>2, <3>4 DEF SeenOK, Drifts
        <3>5. CASE rows[id].state = "inflight" /\ rows'[id].state # "inflight"
            <4>1. st = "inflight"
                BY <2>2, <3>5 DEF SeenOK, Drifts
            <4> QED
                BY <3>5, <4>1
        <3> QED
            BY <2>2, <3>3, <3>4, <3>5 DEF Drifts
    <2>3. CASE Appears(id)
        <3>1. rows'[id].sequence > s
            <4>1. CASE rows'[id].sequence > next_sequence
                BY <1>1, <2>1, <4>1
            <4>2. CASE \E v \in Workers :
                           /\ call[v].op = "enqueue" /\ call[v].id = id /\ call[v].at = "write"
                           /\ rows'[id].sequence = call[v].sequence
                BY <4>2 DEF SeenOK
            <4> QED
                BY <2>3, <4>1, <4>2 DEF Appears
        <3>2. rows'[id].state # "inflight" /\ rows'[id].sequence # s /\ rows'[id].sequence >= s
            BY <1>1, <2>1, <2>3, <3>1 DEF Appears
        <3> QED
            BY <3>2
    <2> QED
        BY <1>3, <2>2, <2>3
<1> QED
    BY <1>1, <1>2, <1>3 DEF SeenOK

\* A reader goes on, with less to vouch for at most.
ReadsOn(c, f) ==
    /\ c.at = "read" /\ f.op = c.op /\ f.found = c.found
    /\ \A id \in DOMAIN f.seen : id \in DOMAIN c.seen /\ f.seen[id] = c.seen[id]

LEMMA ReadersStay ==
    ASSUME IInv, IInv', ReadsOK, next_sequence' >= next_sequence,
           \A v \in Workers : call'[v].op = "enqueue" => Arrives(call[v], call'[v]),
           \A v \in Workers : call'[v].at = "read" => ReadsOn(call[v], call'[v]),
           \A v \in Workers : \A id \in DOMAIN call'[v].seen \cap DOMAIN rows' :
               call'[v].at = "read" => Drifts(id) \/ Appears(id)
    PROVE  ReadsOK'
<1> SUFFICES ASSUME NEW w \in Workers, call'[w].at = "read", NEW id \in DOMAIN call'[w].seen
             PROVE  SeenOK(w, id, call[w].seen[id][1], call[w].seen[id][2])'
    BY DEF ReadsOK
<1>1. ReadsOn(call[w], call'[w])
    OBVIOUS
<1>2. PICK st, s : st = call[w].seen[id][1] /\ s = call[w].seen[id][2]
    OBVIOUS
<1>3. id \in DOMAIN call[w].seen /\ call'[w].seen[id] = call[w].seen[id]
    BY <1>1 DEF ReadsOn
<1>4. SeenOK(w, id, st, s)
    BY <1>1, <1>2, <1>3 DEF ReadsOK, ReadsOn
<1>5. id \in DOMAIN rows' => Drifts(id) \/ Appears(id)
    OBVIOUS
<1>6. call'[w].op = call[w].op /\ call'[w].found = call[w].found
    BY <1>1 DEF ReadsOn
<1>7. SeenOK(w, id, st, s)'
    BY <1>4, <1>5, <1>6, SeenStays
<1> QED
    BY <1>2, <1>3, <1>7 DEF SeenOK

\* Process w is elsewhere in a call other than a read, or in none.
LEMMA OtherCall ==
    ASSUME IInv, IInv', ReadsOK, NEW w \in Workers, NEW f, call' = [call EXCEPT ![w] = f],
           f.at # "read", f.op = "enqueue" => Arrives(call[w], f),
           next_sequence' >= next_sequence,
           \A id \in DOMAIN rows' : Drifts(id) \/ Appears(id)
    PROVE  ReadsOK'
<1>1. /\ call'[w] = f /\ \A v \in Workers \ {w} : call'[v] = call[v]
    BY DEF IInv, Calls
<1>2. ASSUME NEW v \in Workers, call'[v].op = "enqueue" PROVE Arrives(call[v], call'[v])
    <2>1. CASE v = w
        BY <1>1, <1>2, <2>1 DEF Arrives
    <2>2. CASE v # w
        BY <1>1, <1>2, <2>2 DEF Arrives
    <2> QED
        BY <2>1, <2>2
<1>3. ASSUME NEW v \in Workers, call'[v].at = "read" PROVE ReadsOn(call[v], call'[v])
    <2>1. v # w
        BY <1>1, <1>3
    <2> QED
        BY <1>1, <1>3, <2>1 DEF ReadsOn
<1> QED
    BY <1>2, <1>3, ReadersStay

LEMMA RowsDrift == ASSUME UNCHANGED rows PROVE \A id \in DOMAIN rows' : Drifts(id)
BY DEF Drifts

LEMMA EnqueuesAt ==
    ASSUME IInv, NEW w \in Workers, call[w].at \notin {"reserved", "write"}
    PROVE  call[w].op # "enqueue"
BY CallOf DEF FrameOK

-----------------------------------------------------------------------------
(* Statement by statement. *)

\* A call that begins or is over, or goes on without a row changing.
LEMMA BeginsReads ==
    ASSUME IInv, IInv', ReadsOK, NEW w \in Workers,
           \/ TakeReady(w) \/ ReleaseInflight(w) \/ ReleaseScope(w)
           \/ \E op \in Refreshing : Read(w, op)
    PROVE  ReadsOK'
<1>1. UNCHANGED <<rows, next_sequence>>
    BY DEF TakeReady, ReleaseInflight, ReleaseScope, Read, tableVars, scopeVars
<1>2. PICK op \in {"take", "release_inflight", "release_scope", "requeue"} \cup Refreshing,
           ids \in SUBSET Ids : call' = [call EXCEPT ![w] = Loop(op, ids)]
    <2>1. Expired \in SUBSET Ids /\ {id \in In("inflight") : Owns(w, id)} \in SUBSET Ids
          /\ In("inflight") \in SUBSET Ids
        BY DEF Expired, In, IInv, RowsOK
    <2> QED
        BY <2>1 DEF TakeReady, ReleaseInflight, ReleaseScope, Read, Begin
<1>3. Loop(op, ids).at = "loop" /\ Loop(op, ids).op = op /\ op # "enqueue"
    BY LoopFrame, Numbers DEF Refreshing
<1>4. next_sequence' >= next_sequence
    BY <1>1, Numbers
<1> QED
    BY <1>1, <1>2, <1>3, <1>4, OtherCall, RowsDrift

LEMMA IdleReads ==
    ASSUME IInv, IInv', ReadsOK, NEW w \in Workers, call' = [call EXCEPT ![w] = Idle],
           next_sequence' >= next_sequence, \A id \in DOMAIN rows' : Drifts(id) \/ Appears(id)
    PROVE  ReadsOK'
<1>1. Idle.at # "read" /\ Idle.op # "enqueue"
    BY IdleFrame
<1> QED
    BY <1>1, OtherCall

LEMMA QuietIdleReads ==
    ASSUME IInv, IInv', ReadsOK, NEW w \in Workers, call' = [call EXCEPT ![w] = Idle],
           UNCHANGED <<rows, next_sequence>>
    PROVE  ReadsOK'
<1>1. next_sequence' >= next_sequence
    BY Numbers
<1> QED
    BY <1>1, IdleReads, RowsDrift

LEMMA EnqueueReads ==
    ASSUME IInv, IInv', ReadsOK, NEW w \in Workers, NEW id \in Ids, Enqueue(w, id)
    PROVE  ReadsOK'
<1> DEFINE f == [Idle EXCEPT !.op = "enqueue", !.at = "reserved", !.id = id]
<1>1. f.at = "reserved" /\ call' = [call EXCEPT ![w] = f]
    <2>1. f.at = "reserved"
        BY IdleFrame DEF Frame
    <2>2. call' = [call EXCEPT ![w] = f]
        BY DEF Enqueue, Begin
    <2> QED
        BY <2>1, <2>2
<1> HIDE DEF f
<1>2. UNCHANGED rows /\ next_sequence' > next_sequence /\ next_sequence' >= next_sequence
    BY Numbers DEF Enqueue
<1>3. Arrives(call[w], f)
    BY <1>1, <1>2 DEF Arrives
<1> QED
    BY <1>1, <1>2, <1>3, OtherCall, RowsDrift

LEMMA RequeueReads ==
    ASSUME IInv, IInv', ReadsOK, NEW w \in Workers, NEW claim \in held[w],
           Requeue(w, claim[1], claim[2])
    PROVE  ReadsOK'
<1>1. claim[1] \in Ids /\ claim[2] \in Nat
    BY DEF IInv, Leases
<1>2. UNCHANGED <<rows, next_sequence>> /\ next_sequence' >= next_sequence
    BY Numbers DEF Requeue, tableVars, scopeVars
<1>3. CASE call' = [call EXCEPT ![w] = Idle]
    BY <1>2, <1>3, QuietIdleReads
<1>4. CASE call' = [call EXCEPT ![w] = [Loop("requeue", {claim[1]}) EXCEPT !.lease = claim[2]]]
    <2> DEFINE f == [Loop("requeue", {claim[1]}) EXCEPT !.lease = claim[2]]
    <2>1. f.at = "loop" /\ f.op = "requeue" /\ call' = [call EXCEPT ![w] = f]
        BY <1>1, <1>4, RequeueFrame, Numbers
    <2> HIDE DEF f
    <2> QED
        BY <1>2, <2>1, OtherCall, RowsDrift
<1> QED
    BY <1>3, <1>4 DEF Requeue, Begin, Refuse, Return

LEMMA ReadSequenceReads ==
    ASSUME IInv, IInv', ReadsOK, NEW w \in Workers, ReadSequence(w)
    PROVE  ReadsOK'
<1>1. UNCHANGED <<rows, next_sequence>> /\ next_sequence' >= next_sequence
    BY Numbers DEF ReadSequence, tableVars, scopeVars
<1> DEFINE f == [call[w] EXCEPT !.at = "write", !.sequence = next_sequence]
<1>2. call' = [call EXCEPT ![w] = f] /\ call[w].at = "reserved"
    BY CallOf DEF ReadSequence, At
<1>3. /\ f.at = "write" /\ f.sequence = next_sequence /\ f.op = call[w].op
      /\ f.id = call[w].id
    BY CallOf DEF Frame
<1> HIDE DEF f
<1>4. f.op = "enqueue" => Arrives(call[w], f)
    BY <1>2, <1>3 DEF Arrives
<1> QED
    BY <1>1, <1>2, <1>3, <1>4, OtherCall, RowsDrift

LEMMA NextRowReads ==
    ASSUME IInv, IInv', ReadsOK, NEW w \in Workers, NEW id \in Ids, NextRow(w, id)
    PROVE  ReadsOK'
<1>1. UNCHANGED rows /\ next_sequence' >= next_sequence
    BY Numbers DEF NextRow
<1> DEFINE f == [call[w] EXCEPT !.at = "reserved", !.id = id, !.todo = @ \ {id},
                                !.state = StateFor(id)]
<1>2. call' = [call EXCEPT ![w] = f] /\ call[w].at = "loop"
    BY DEF NextRow, At
<1>3. f.at = "reserved" /\ f.op = call[w].op
    BY CallOf DEF Frame
<1> HIDE DEF f
<1>4. f.op # "enqueue"
    BY <1>2, <1>3, EnqueuesAt
<1> QED
    BY <1>1, <1>2, <1>3, <1>4, OtherCall, RowsDrift

LEMMA ReadPausedReads ==
    ASSUME IInv, IInv', ReadsOK, NEW w \in Workers, ReadPaused(w)
    PROVE  ReadsOK'
<1>1. UNCHANGED <<rows, next_sequence>> /\ next_sequence' >= next_sequence
    BY Numbers DEF ReadPaused, tableVars, scopeVars
<1>2. CASE call' = [call EXCEPT ![w] = Idle]
    BY <1>1, <1>2, QuietIdleReads
<1>3. CASE call' = [call EXCEPT ![w].at = "claim"]
    <2> DEFINE f == [call[w] EXCEPT !.at = "claim"]
    <2>1. call' = [call EXCEPT ![w] = f] /\ call[w].at = "paused"
        BY <1>3 DEF ReadPaused, At
    <2>2. f.at = "claim" /\ f.op = call[w].op
        BY CallOf DEF Frame
    <2> HIDE DEF f
    <2>3. f.op # "enqueue"
        BY <2>1, <2>2, EnqueuesAt
    <2> QED
        BY <1>1, <2>1, <2>2, <2>3, OtherCall, RowsDrift
<1> QED
    BY <1>2, <1>3 DEF ReadPaused, Return

LEMMA AnswersReads ==
    ASSUME IInv, IInv', ReadsOK, NEW w \in Workers,
           EndRelease(w) \/ ClaimNothing(w) \/ LoadClaimed(w) \/ PurgeScope(w) \/ EndRead(w)
           \/ Crash(w) \/ Fails(w)
    PROVE  ReadsOK'
<1>1. UNCHANGED <<rows, next_sequence>>
    BY DEF EndRelease, ClaimNothing, LoadClaimed, PurgeScope, EndRead, Crash, Fails, tableVars,
           scopeVars
<1>2. call' = [call EXCEPT ![w] = Idle]
    BY DEF EndRelease, ClaimNothing, LoadClaimed, PurgeScope, EndRead, Crash, Fails, Return
<1> QED
    BY <1>1, <1>2, QuietIdleReads

LEMMA ElsewhereReads ==
    ASSUME IInv, IInv', ReadsOK,
           \/ Tick \/ UNCHANGED vars
           \/ \E w \in Workers, paused \in BOOLEAN : SetPaused(w, paused)
    PROVE  ReadsOK'
<1>1. UNCHANGED <<rows, next_sequence, call>>
    BY DEF Tick, vars, SetPaused, tableVars, scopeVars
<1> QED
    BY <1>1 DEF ReadsOK, SeenOK

LEMMA InsertTaskReads ==
    ASSUME IInv, IInv', ReadsOK, NEW w \in Workers, InsertTask(w)
    PROVE  ReadsOK'
<1>1. /\ UNCHANGED next_sequence /\ next_sequence' >= next_sequence
      /\ call' = [call EXCEPT ![w] = Idle]
      /\ call[w].op = "enqueue" /\ call[w].at = "write"
    BY Numbers DEF InsertTask, scopeVars, Return, At
<1>2. PICK id, row : /\ id = call[w].id /\ row = NewRow(id, call[w].sequence)
                     /\ rows' = Put(rows, Field(id, row))
    BY DEF InsertTask
<1>3. id \in Ids /\ id \notin DOMAIN rows
    BY <1>1, <1>2, CallOf DEF FrameOK, IInv, Arrivals
<1>4. row.state # "inflight" /\ row.sequence = call[w].sequence
    BY <1>2 DEF NewRow, StateFor
<1>5. /\ DOMAIN rows' = DOMAIN rows \cup {id} /\ rows'[id] = row
      /\ \A i \in DOMAIN rows : rows'[i] = rows[i]
    BY <1>2, <1>3 DEF Put, Field
<1>6. ASSUME NEW i \in DOMAIN rows' PROVE Drifts(i) \/ Appears(i)
    <2>1. CASE i = id
        BY <1>1, <1>2, <1>3, <1>4, <1>5, <2>1 DEF Appears
    <2>2. CASE i # id
        BY <1>5, <2>2 DEF Drifts
    <2> QED
        BY <2>1, <2>2
<1> QED
    BY <1>1, <1>6, IdleReads

LEMMA WriteRowReads ==
    ASSUME IInv, IInv', ReadsOK, NEW w \in Workers, WriteRow(w)
    PROVE  ReadsOK'
<1>1. /\ UNCHANGED next_sequence /\ next_sequence' >= next_sequence
      /\ call[w].op # "enqueue" /\ call[w].at = "write"
    BY Numbers DEF WriteRow, scopeVars, At
<1>2. CASE UNCHANGED rows
    <2>1. CASE call' = [call EXCEPT ![w] = Idle]
        BY <1>1, <1>2, <2>1, QuietIdleReads
    <2>2. CASE \E n \in {0, 1} : call' = [call EXCEPT ![w] = NextOf(call[w], n)]
        <3>1. PICK n \in {0, 1} : call' = [call EXCEPT ![w] = NextOf(call[w], n)]
            BY <2>2
        <3>2. NextOf(call[w], n).at = "loop" /\ NextOf(call[w], n).op # "enqueue"
            BY <1>1, CallOf, NextOfFrame
        <3> QED
            BY <1>1, <1>2, <3>1, <3>2, OtherCall, RowsDrift
    <2> QED
        BY <2>1, <2>2 DEF WriteRow, Refuse, Return
<1>3. CASE /\ MayReturn(w, call[w].id)
           /\ rows' = [rows EXCEPT ![call[w].id] = Returned(@, call[w].state, call[w].sequence)]
           /\ call' = [call EXCEPT ![w] = NextOf(call[w], 1)]
    <2>1. PICK id, state, sequence :
              id = call[w].id /\ state = call[w].state /\ sequence = call[w].sequence
        OBVIOUS
    <2>2. id \in In("inflight") /\ state \in {"ready", "delayed"}
        BY <1>1, <1>3, <2>1, CallOf DEF MayReturn, LeaseHolds, Owns, FrameOK
    <2>3. id \in DOMAIN rows /\ rows[id] \in Row /\ rows[id].state = "inflight"
        BY <2>2 DEF In, IInv, RowsOK
    <2>4. /\ DOMAIN rows' = DOMAIN rows
          /\ rows'[id].state = state
          /\ \A i \in DOMAIN rows \ {id} : rows'[i] = rows[i]
        BY <1>3, <2>1, <2>3 DEF Returned, Row, IInv, RowsOK
    <2>5. \A i \in DOMAIN rows' : Drifts(i)
        BY <2>2, <2>3, <2>4 DEF Drifts
    <2>6. NextOf(call[w], 1).at = "loop" /\ NextOf(call[w], 1).op # "enqueue"
        BY <1>1, CallOf, NextOfFrame
    <2> QED
        BY <1>1, <1>3, <2>5, <2>6, OtherCall
<1> QED
    BY <1>2, <1>3 DEF WriteRow

LEMMA HeartbeatReads ==
    ASSUME IInv, IInv', ReadsOK, NEW w \in Workers, NEW id, NEW lease, Heartbeat(w, id, lease)
    PROVE  ReadsOK'
<1>1. UNCHANGED next_sequence /\ next_sequence' >= next_sequence
      /\ call' = [call EXCEPT ![w] = Idle]
    BY Numbers DEF Heartbeat, scopeVars, Refuse, Return
<1>2. CASE UNCHANGED rows
    BY <1>1, <1>2, QuietIdleReads
<1>3. CASE /\ LeaseHolds(w, id, lease)
           /\ rows' = [rows EXCEPT ![id].deadline = now + LeaseTimeout]
    <2>1. id \in DOMAIN rows /\ rows[id] \in Row
        BY <1>3 DEF LeaseHolds, Owns, In, IInv, RowsOK
    <2>2. PICK deadline : rows' = [rows EXCEPT ![id] = [rows[id] EXCEPT !.deadline = deadline]]
        BY <1>3
    <2>3. /\ DOMAIN rows' = DOMAIN rows
          /\ rows'[id].state = rows[id].state /\ rows'[id].sequence = rows[id].sequence
          /\ \A i \in DOMAIN rows \ {id} : rows'[i] = rows[i]
        BY <2>1, <2>2 DEF Row, IInv, RowsOK
    <2>4. \A i \in DOMAIN rows' : Drifts(i)
        BY <2>3 DEF Drifts
    <2> QED
        BY <1>1, <2>4, IdleReads
<1> QED
    BY <1>2, <1>3 DEF Heartbeat

LEMMA PurgeTasksReads ==
    ASSUME IInv, IInv', ReadsOK, NEW w \in Workers, PurgeTasks(w)
    PROVE  ReadsOK'
<1> DEFINE f == [Idle EXCEPT !.op = "purge", !.at = "scope"]
<1>1. f.op = "purge" /\ f.at = "scope"
    BY IdleFrame DEF Frame
<1>2. call' = [call EXCEPT ![w] = f]
    BY DEF PurgeTasks, Begin
<1> HIDE DEF f
<1>3. DOMAIN rows' = {} /\ next_sequence' >= next_sequence
    BY Numbers DEF PurgeTasks, Empty, scopeVars
<1> QED
    BY <1>1, <1>2, <1>3, OtherCall

LEMMA CompleteReads ==
    ASSUME IInv, IInv', ReadsOK, NEW w \in Workers, NEW claim \in held[w],
           NEW follow \in {{}} \cup {{f} : f \in Ids},
           \/ Complete(w, claim[1], claim[2], follow)
           \/ CompleteUnanswered(w, claim[1], claim[2], follow)
    PROVE  ReadsOK'
<1>1. call' = [call EXCEPT ![w] = Idle]
    BY DEF Complete, CompleteUnanswered, Refuse, Return
<1>2. CASE UNCHANGED <<rows, next_sequence>>
    BY <1>1, <1>2, QuietIdleReads
<1>3. CASE /\ follow \subseteq Fresh
           /\ next_sequence' = next_sequence + Cardinality(follow)
           /\ rows' = Put(Del(rows, {claim[1]}), [f \in follow |-> NewRow(f, next_sequence')])
    <2>1. PICK id, n : id = claim[1] /\ n = next_sequence'
        OBVIOUS
    <2>2. follow \cap DOMAIN rows = {}
        BY <1>3 DEF Fresh
    <2>3. n >= next_sequence /\ (follow # {} => n > next_sequence)
        <3>1. CASE follow = {}
            BY <1>3, <2>1, <3>1, Numbers, FS_EmptySet
        <3>2. CASE \E f \in Ids : follow = {f}
            <4>1. Cardinality(follow) = 1
                BY <3>2, FS_Singleton
            <4> QED
                BY <1>3, <2>1, <4>1, Numbers
        <3> QED
            BY <3>1, <3>2
    <2>4. /\ DOMAIN rows' = (DOMAIN rows \ {id}) \cup follow
          /\ \A i \in DOMAIN rows' : rows'[i] = IF i \in follow THEN NewRow(i, n) ELSE rows[i]
        BY <1>3, <2>1 DEF Put, Del
    <2>5. ASSUME NEW i \in DOMAIN rows' PROVE Drifts(i) \/ Appears(i)
        <3>1. CASE i \in follow
            <4>1. rows'[i] = NewRow(i, n) /\ i \notin DOMAIN rows
                BY <2>2, <2>4, <3>1
            <4>2. rows'[i].state # "inflight" /\ rows'[i].sequence = n
                BY <4>1 DEF NewRow, StateFor
            <4> QED
                BY <2>3, <3>1, <4>1, <4>2 DEF Appears
        <3>2. CASE i \notin follow
            BY <2>4, <3>2 DEF Drifts
        <3> QED
            BY <3>1, <3>2
    <2> QED
        BY <1>1, <2>1, <2>3, <2>5, IdleReads
<1> QED
    BY <1>2, <1>3 DEF Complete, CompleteUnanswered, Replace, Refuse

\* A reader that begins to read has nothing to answer yet.
LEMMA PromoteDelayedReads ==
    ASSUME IInv, IInv', ReadsOK, NEW w \in Workers, PromoteDelayed(w)
    PROVE  ReadsOK'
<1>1. /\ UNCHANGED next_sequence /\ next_sequence' >= next_sequence
      /\ call[w].at = "loop" /\ call[w].op # "enqueue"
    BY Numbers, EnqueuesAt DEF PromoteDelayed, scopeVars, At
<1>2. /\ DOMAIN rows' = DOMAIN rows
      /\ \A id \in DOMAIN rows : rows'[id] \in {rows[id], [rows[id] EXCEPT !.state = "ready"]}
      /\ \A id \in DOMAIN rows : rows'[id] # rows[id] => rows[id].state = "delayed"
    BY DEF PromoteDelayed, In
<1>3. \A id \in DOMAIN rows' : Drifts(id)
    <2>1. \A id \in DOMAIN rows : rows[id] \in Row
        BY DEF IInv, RowsOK
    <2> QED
        BY <1>2, <2>1 DEF Drifts, Row
<1>4. CASE call[w].op = "take"
    <2> DEFINE f == [Idle EXCEPT !.op = "take", !.at = "paused"]
    <2>1. f.at = "paused" /\ f.op = "take"
        BY StartFrame
    <2>2. call' = [call EXCEPT ![w] = f]
        BY <1>4 DEF PromoteDelayed
    <2> HIDE DEF f
    <2> QED
        BY <1>1, <1>3, <2>1, <2>2, OtherCall
<1>5. CASE call[w].op # "take"
    <2> DEFINE seen == Places(rows')
               f == [Idle EXCEPT !.op = call[w].op, !.at = "read", !.seen = seen]
    <2>1. call' = [call EXCEPT ![w] = f] /\ call[w].op \in Refreshing
        BY <1>5 DEF PromoteDelayed, Reclaiming
    <2>2. f.at = "read" /\ f.op # "enqueue" /\ f.found = <<>> /\ f.seen = seen
        BY <2>1 DEF Idle, Refreshing
    <2>3. /\ DOMAIN seen = DOMAIN rows'
          /\ \A id \in DOMAIN rows' : seen[id][1] = rows'[id].state /\ seen[id][2] = rows'[id].sequence
        BY DEF Places
    <2> HIDE DEF f, seen
    <2>4. call'[w] = f /\ \A v \in Workers \ {w} : call'[v] = call[v]
        BY <2>1 DEF IInv, Calls
    <2>5. ASSUME NEW v \in Workers \ {w}, call'[v].at = "read", NEW id \in DOMAIN call'[v].seen
          PROVE  SeenOK(v, id, call[v].seen[id][1], call[v].seen[id][2])'
        <3>1. PICK st, s : st = call[v].seen[id][1] /\ s = call[v].seen[id][2]
            OBVIOUS
        <3>2. SeenOK(v, id, st, s)
            BY <2>4, <2>5, <3>1 DEF ReadsOK
        <3>3. \A u \in Workers : call'[u].op = "enqueue" => Arrives(call[u], call'[u])
            BY <2>2, <2>4 DEF Arrives
        <3>4. call'[v].op = call[v].op /\ call'[v].found = call[v].found
            BY <2>4
        <3>5. SeenOK(v, id, st, s)'
            BY <1>1, <1>3, <3>2, <3>3, <3>4, SeenStays
        <3> QED
            BY <2>4, <3>1, <3>5 DEF SeenOK
    <2>6. ASSUME NEW id \in DOMAIN call'[w].seen
          PROVE  SeenOK(w, id, call[w].seen[id][1], call[w].seen[id][2])'
        <3>1. PICK st, s : st = call'[w].seen[id][1] /\ s = call'[w].seen[id][2]
            OBVIOUS
        <3>2. id \in DOMAIN rows' /\ rows'[id].state = st /\ rows'[id].sequence = s
            BY <2>2, <2>3, <2>4, <3>1
        <3>3. rows'[id] \in Row /\ IsRow(rows[id])' /\ next_sequence' \in Nat
            BY <3>2 DEF IInv, RowsOK, Counters
        <3>4. st \in States /\ s \in Nat /\ s <= next_sequence'
            BY <3>2, <3>3 DEF Row, IsRow
        <3>5. \A v \in Workers : call'[v].op = "enqueue" => call'[v].id # id
            BY <3>2 DEF IInv, Arrivals
        <3>6. DOMAIN call'[w].found = {}
            BY <2>2, <2>4
        <3> QED
            BY <3>1, <3>2, <3>4, <3>5, <3>6 DEF SeenOK
    <2> QED
        BY <2>5, <2>6 DEF ReadsOK
<1> QED
    BY <1>4, <1>5

\* A claim is the end of what readers vouch for.
LEMMA ClaimReadyReads ==
    ASSUME IInv, IInv', ReadsOK, NEW w \in Workers, NEW id \in Ids, ClaimReady(w, id)
    PROVE  ReadsOK'
<1>1. UNCHANGED next_sequence /\ next_sequence' >= next_sequence
      /\ call[w].at = "claim" /\ call[w].op # "enqueue"
    BY Numbers, EnqueuesAt DEF ClaimReady, scopeVars, At
<1>2. DOMAIN rows' = DOMAIN rows /\ \A i \in DOMAIN rows \ {id} : rows'[i] = rows[i]
    BY DEF ClaimReady, IInv, RowsOK
<1>3. call'[w].at = "load" /\ call'[w].op = call[w].op
    <2> DEFINE f == [call[w] EXCEPT !.at = "load", !.id = id, !.lease = granted']
    <2>1. call'[w] = f
        BY DEF ClaimReady
    <2>2. f.at = "load" /\ f.op = call[w].op
        BY CallOf DEF Frame
    <2> HIDE DEF f
    <2> QED
        BY <2>1, <2>2
<1>4. ASSUME NEW v \in Workers \ {w}
      PROVE  Alike(call[v], call'[v]) /\ call'[v].seen = Del(call[v].seen, {id})
    <2>1. PICK c, d : c \in Frame /\ c = call[v] /\ d = call'[v]
        BY CallOf
    <2>2. d = Touched(c, id)
        <3>1. call'[v] = Touched(call[v], id)
            BY DEF ClaimReady, Touched
        <3> QED
            BY <2>1, <3>1 DEF Touched
    <2>3. Alike(c, d) /\ d.seen = Del(c.seen, {id})
        BY <2>1, <2>2, TouchedFrame
    <2> QED
        BY <2>1, <2>3 DEF Alike
<1>5. ASSUME NEW v \in Workers, call'[v].op = "enqueue" PROVE Arrives(call[v], call'[v])
    <2>1. v # w
        BY <1>1, <1>3, <1>5
    <2>2. Alike(call[v], call'[v])
        BY <1>4, <2>1
    <2> QED
        BY <1>5, <2>2 DEF Arrives, Alike
<1>6. ASSUME NEW v \in Workers, call'[v].at = "read"
      PROVE  ReadsOn(call[v], call'[v]) /\ id \notin DOMAIN call'[v].seen
    <2>1. v # w
        BY <1>3, <1>6
    <2>2. Alike(call[v], call'[v]) /\ call'[v].seen = Del(call[v].seen, {id})
        BY <1>4, <2>1
    <2>3. call[v].at = "read" /\ call'[v].op = call[v].op /\ call'[v].found = call[v].found
        BY <1>6, <2>2 DEF Alike
    <2>4. /\ \A i \in DOMAIN call'[v].seen :
                i \in DOMAIN call[v].seen /\ call'[v].seen[i] = call[v].seen[i]
          /\ id \notin DOMAIN call'[v].seen
        BY <2>2 DEF Del
    <2> QED
        BY <2>3, <2>4 DEF ReadsOn
<1>7. \A i \in DOMAIN rows' \ {id} : Drifts(i)
    BY <1>2 DEF Drifts
<1> QED
    BY <1>1, <1>5, <1>6, <1>7, ReadersStay

\* A reader gets one more answer, true of what is there now.
LEMMA ReadNextReads ==
    ASSUME IInv, IInv', ReadsOK, NEW w \in Workers, ReadNext(w)
    PROVE  ReadsOK'
<1>1. UNCHANGED <<rows, next_sequence>> /\ call[w].at = "read"
    BY DEF ReadNext, tableVars, scopeVars, At
<1>2. PICK c, f, what :
          /\ c \in Frame
          /\ c = call[w] /\ f = [c EXCEPT !.found = Append(c.found, Select(what))]
          /\ what = Selects(c.op)[Len(c.found) + 1]
          /\ call' = [call EXCEPT ![w] = f]
    BY CallOf DEF ReadNext
<1>3. /\ f.op = c.op /\ f.at = c.at /\ f.seen = c.seen /\ f.id = c.id /\ f.sequence = c.sequence
      /\ f.found = Append(c.found, Select(what)) /\ c.found \in Seq(Reads)
    BY <1>2 DEF Frame
<1>4. call'[w] = f /\ \A v \in Workers \ {w} : call'[v] = call[v]
    BY <1>2 DEF IInv, Calls
<1>5. /\ DOMAIN f.found = DOMAIN c.found \cup {Len(c.found) + 1}
      /\ \A k \in DOMAIN c.found : f.found[k] = c.found[k]
      /\ f.found[Len(c.found) + 1] = Select(what)
    BY <1>3
<1>6. ASSUME NEW v \in Workers, call'[v].at = "read", NEW id \in DOMAIN call'[v].seen
      PROVE  SeenOK(v, id, call[v].seen[id][1], call[v].seen[id][2])'
    <2>1. PICK st, s : st = call[v].seen[id][1] /\ s = call[v].seen[id][2]
        OBVIOUS
    <2>2. call'[v].seen = call[v].seen /\ call[v].at = "read"
        BY <1>2, <1>3, <1>4, <1>6
    <2>3. SeenOK(v, id, st, s)
        BY <1>6, <2>1, <2>2 DEF ReadsOK
    <2>4. \A u \in Workers : call'[u].op = call[u].op /\ call'[u].id = call[u].id
              /\ call'[u].at = call[u].at /\ call'[u].sequence = call[u].sequence
        BY <1>2, <1>3, <1>4
    <2>5. CASE v # w
        <3>1. call'[v] = call[v]
            BY <1>4, <2>5
        <3>2. SeenOK(v, id, st, s)'
            BY <1>1, <2>3, <2>4, <3>1 DEF SeenOK
        <3> QED
            BY <2>1, <2>2, <3>2 DEF SeenOK
    <2>6. CASE v = w
        <3>1. ASSUME id \in DOMAIN rows, rows[id].state = st, rows[id].sequence = s,
                     NEW k \in DOMAIN f.found, Selects(c.op)[k] \in States
              PROVE  id \in f.found[k] <=> st = Selects(c.op)[k]
            <4>1. CASE k \in DOMAIN c.found
                BY <1>2, <1>5, <2>3, <2>6, <3>1, <4>1 DEF SeenOK
            <4>2. CASE k = Len(c.found) + 1
                <5>1. f.found[k] = In(what) /\ what = Selects(c.op)[k] /\ what \in States
                    BY <1>2, <1>5, <3>1, <4>2 DEF Select, States
                <5> QED
                    BY <3>1, <5>1 DEF In
            <4> QED
                BY <1>5, <3>1, <4>1, <4>2
        <3>2. SeenOK(v, id, st, s)'
            BY <1>1, <1>2, <1>3, <1>4, <2>3, <2>4, <2>6, <3>1 DEF SeenOK
        <3> QED
            BY <2>1, <2>2, <3>2 DEF SeenOK
    <2> QED
        BY <2>5, <2>6
<1> QED
    BY <1>6 DEF ReadsOK

LEMMA ReadsStep ==
    ASSUME IInv, IInv', ReadsOK, [Next]_vars
    PROVE  ReadsOK'
<1>1. ASSUME NEW w \in Workers, Start(w) PROVE ReadsOK'
    <2>1. CASE \E id \in Ids : Enqueue(w, id)
        BY <2>1, EnqueueReads
    <2>2. CASE TakeReady(w) \/ ReleaseInflight(w) \/ (\E op \in Refreshing : Read(w, op))
               \/ ReleaseScope(w)
        BY <2>2, BeginsReads
    <2>3. CASE \E claim \in held[w] : Requeue(w, claim[1], claim[2])
        BY <2>3, RequeueReads
    <2>4. CASE \E claim \in held[w] : Heartbeat(w, claim[1], claim[2])
        BY <2>4, HeartbeatReads
    <2>5. CASE \E claim \in held[w], follow \in {{}} \cup {{f} : f \in Ids} :
                   \/ Complete(w, claim[1], claim[2], follow)
                   \/ CompleteUnanswered(w, claim[1], claim[2], follow)
        BY <2>5, CompleteReads
    <2>6. CASE PurgeTasks(w)
        BY <2>6, PurgeTasksReads
    <2>7. CASE \E paused \in BOOLEAN : SetPaused(w, paused)
        BY <2>7, ElsewhereReads
    <2> QED
        BY <1>1, <2>1, <2>2, <2>3, <2>4, <2>5, <2>6, <2>7 DEF Start
<1>2. ASSUME NEW w \in Workers, Proceed(w) PROVE ReadsOK'
    <2>1. CASE ReadSequence(w) \/ InsertTask(w) \/ WriteRow(w) \/ PromoteDelayed(w)
               \/ ReadPaused(w) \/ ReadNext(w)
        BY <2>1, ReadSequenceReads, InsertTaskReads, WriteRowReads, PromoteDelayedReads,
           ReadPausedReads, ReadNextReads
    <2>2. CASE EndRelease(w) \/ ClaimNothing(w) \/ LoadClaimed(w) \/ PurgeScope(w) \/ EndRead(w)
        BY <2>2, AnswersReads
    <2>3. CASE \E id \in Ids : NextRow(w, id)
        BY <2>3, NextRowReads
    <2>4. CASE \E id \in Ids : ClaimReady(w, id)
        BY <2>4, ClaimReadyReads
    <2> QED
        BY <1>2, <2>1, <2>2, <2>3, <2>4 DEF Proceed
<1>3. CASE \E w \in Workers : Crash(w) \/ Fails(w)
    BY <1>3, AnswersReads
<1>4. CASE Tick \/ UNCHANGED vars
    BY <1>4, ElsewhereReads
<1> QED
    BY <1>1, <1>2, <1>3, <1>4 DEF Next

\* A checkpoint or a snapshot is exact for the tasks nobody touches while it is read, with
\* any number of processes between its statements.
THEOREM ReadsAreExact == Spec => []ReadsAreExactForTheUntouched
<1>1. Init => ReadsOK
    BY IdleFrame DEF Init, ReadsOK
<1>2. IInv /\ IInv' /\ ReadsOK /\ [Next]_vars => ReadsOK'
    BY ReadsStep
<1>3. IInv /\ ReadsOK => ReadsAreExactForTheUntouched
    <2> SUFFICES ASSUME IInv, ReadsOK, NEW w \in Workers, Answered(w),
                        NEW id \in DOMAIN call[w].seen \cap DOMAIN rows,
                        Places(rows)[id] = call[w].seen[id],
                        NEW k \in DOMAIN call[w].found, Selects(call[w].op)[k] \in States
                 PROVE  id \in call[w].found[k] <=> rows[id].state = Selects(call[w].op)[k]
        BY DEF ReadsAreExactForTheUntouched, States
    <2>1. PICK st, s : st = call[w].seen[id][1] /\ s = call[w].seen[id][2]
        OBVIOUS
    <2>2. SeenOK(w, id, st, s)
        BY <2>1 DEF ReadsOK, Answered
    <2>3. rows[id].state = st /\ rows[id].sequence = s
        BY <2>1 DEF Places
    <2> QED
        BY <2>2, <2>3 DEF SeenOK
<1> QED
    BY <1>1, <1>2, <1>3, Inductive, PTL DEF Spec


-----------------------------------------------------------------------------
(* Who ends a lease before its time. *)

Looping == {"loop", "reserved", "write"}

\* Task id is one a reclaim has read and not yet written.
Watches(c, id) ==
    /\ c.op \in Reclaiming /\ c.at \in Looping
    /\ id \in c.todo \/ (c.at # "loop" /\ id = c.id)

\* A lease a reclaim is about to end was due when it read, or is younger than that.
WatchOK(c, id) ==
    \/ rows[id].deadline <= c.since
    \/ rows[id].deadline >= c.since + LeaseTimeout

Placed(c) ==
    c.at \in Looping =>
        c.op \in Reclaiming \cup {"release_inflight", "release_scope", "requeue", "enqueue"}

AgeInv ==
    \A w \in Workers :
        /\ Placed(call[w]) /\ call[w].since <= now
        /\ \A id \in In("inflight") : Watches(call[w], id) => WatchOK(call[w], id)

\* A row that is inflight stays as old as it was, or is of this moment.
RowsAge ==
    \A id \in In("inflight")' :
        \/ id \in In("inflight") /\ rows'[id].deadline = rows[id].deadline
        \/ rows'[id].deadline >= now + LeaseTimeout

\* A call watches nothing new, or begins to.
Tame(c, d) ==
    /\ Placed(c) => Placed(d)
    /\ d.since \in {c.since, 0}
    /\ \A id : Watches(d, id) => Watches(c, id) /\ d.since = c.since

Begun(d) ==
    /\ d.op \in Reclaiming /\ d.since = now
    /\ \A id : Watches(d, id) => id \in Expired

LEMMA AgeStep ==
    ASSUME IInv, IInv', AgeInv, now' \in Nat, now' >= now,
           RowsAge,
           \A w \in Workers : Tame(call[w], call'[w]) \/ (Begun(call'[w]) /\ UNCHANGED <<rows, now>>)
    PROVE  AgeInv'
<1> SUFFICES ASSUME NEW w \in Workers
             PROVE  /\ Placed(call'[w]) /\ call'[w].since <= now'
                    /\ \A id \in In("inflight")' : Watches(call'[w], id) => WatchOK(call[w], id)'
    BY DEF AgeInv, Placed, Watches
<1>1. /\ Placed(call[w]) /\ call[w].since <= now
      /\ \A id \in In("inflight") : Watches(call[w], id) => WatchOK(call[w], id)
    BY DEF AgeInv
<1>2. Placed(call'[w])
    BY <1>1 DEF Tame, Begun, Placed
<1>4. call'[w].since <= now'
    <2>1. now \in Nat /\ call[w].since \in Nat
        BY Numbers, FrameParts DEF IInv, Calls
    <2> QED
        BY <1>1, <2>1 DEF Tame, Begun
<1>3. ASSUME NEW id \in In("inflight")', Watches(call'[w], id) PROVE WatchOK(call[w], id)'
    <2>1. /\ now \in Nat /\ call[w].since \in Nat /\ call'[w].since \in Nat
          /\ rows'[id].deadline \in Nat /\ LeaseTimeout \in Nat
        <3>1. call[w] \in Frame /\ call'[w] \in Frame
            BY DEF IInv, Calls
        <3>2. rows'[id] \in Row
            BY DEF IInv, RowsOK, In
        <3> QED
            BY <3>1, <3>2, FrameParts, Numbers, SqliteAssumption DEF Row
    <2>2. PICK n \in Nat, m \in Nat, s \in Nat, d \in Nat, t \in Nat :
              n = now /\ m = now' /\ s = call'[w].since /\ d = rows'[id].deadline /\ t = LeaseTimeout
        BY <2>1
    <2>3. m >= n
        BY <2>2
    <2>4. s <= m /\ (d <= s \/ d >= s + t)
        <3>1. CASE Tame(call[w], call'[w])
            <4>1. Watches(call[w], id) /\ call[w].since = s
                BY <1>3, <2>2, <3>1 DEF Tame
            <4>2. CASE id \in In("inflight") /\ rows'[id].deadline = rows[id].deadline
                BY <1>1, <2>2, <2>3, <4>1, <4>2 DEF WatchOK
            <4>3. CASE d >= n + t
                <5>1. s <= n
                    BY <1>1, <2>2, <4>1
                <5> QED
                    BY <2>3, <4>3, <5>1
            <4> QED
                BY <2>2, <4>2, <4>3 DEF RowsAge
        <3>2. CASE Begun(call'[w]) /\ UNCHANGED <<rows, now>>
            <4>1. id \in Expired /\ s = n /\ m = n
                BY <1>3, <2>2, <3>2 DEF Begun
            <4>2. d <= n
                BY <2>2, <3>2, <4>1 DEF Expired
            <4> QED
                BY <4>1, <4>2
        <3> QED
            BY <3>1, <3>2
    <2> QED
        BY <2>2, <2>4 DEF WatchOK
<1> QED
    BY <1>2, <1>3, <1>4

LEMMA RowsMove ==
    ASSUME IInv, IInv', AgeInv, NEW w \in Workers, NEW f, call' = [call EXCEPT ![w] = f],
           Tame(call[w], f) \/ (Begun(f) /\ UNCHANGED rows), UNCHANGED now, RowsAge
    PROVE  AgeInv'
<1>1. call'[w] = f /\ \A v \in Workers \ {w} : call'[v] = call[v]
    BY DEF IInv, Calls
<1>2. ASSUME NEW v \in Workers
      PROVE  Tame(call[v], call'[v]) \/ (Begun(call'[v]) /\ UNCHANGED <<rows, now>>)
    <2>1. CASE v = w
        BY <1>1, <2>1 DEF Tame, Begun, Placed, Watches
    <2>2. CASE v # w
        BY <1>1, <2>2 DEF Tame, Placed, Watches
    <2> QED
        BY <2>1, <2>2
<1>3. now' \in Nat /\ now' >= now
    BY Numbers
<1> QED
    BY ONLY IInv, IInv', AgeInv, RowsAge, <1>2, <1>3, AgeStep

LEMMA NothingEnds ==
    ASSUME \A id \in In("inflight") : ~Ends(id)
    PROVE  EarlyEndIsStale
BY DEF EarlyEndIsStale

\* The rows are left alone.
LEMMA QuietAge ==
    ASSUME IInv, IInv', AgeInv, NEW w \in Workers, NEW f, call' = [call EXCEPT ![w] = f],
           Tame(call[w], f) \/ Begun(f), UNCHANGED <<rows, now>>
    PROVE  AgeInv' /\ EarlyEndIsStale
<1>1. RowsAge /\ \A id \in In("inflight") : ~Ends(id)
    BY DEF RowsAge, In, Ends
<1> QED
    BY <1>1, RowsMove, NothingEnds

\* A call is not in its loop any more, or not yet.
LEMMA AtRest ==
    ASSUME NEW c, NEW f, f.at \notin Looping, f.since = 0
    PROVE  Tame(c, f)
BY DEF Tame, Placed, Watches, Looping

LEMMA IdleRests == \A c : Tame(c, Idle)
<1>1. Idle.at = "idle" /\ Idle.since = 0
    BY DEF Idle
<1> QED
    BY <1>1, AtRest DEF Looping

\* A call that gives back what it may without reclaiming.
LEMMA Gives ==
    ASSUME NEW c, NEW f, f.since = 0,
           f.op \in {"release_inflight", "release_scope", "requeue", "enqueue"}
    PROVE  Tame(c, f)
BY DEF Tame, Placed, Watches, Reclaiming, Refreshing

LEMMA LoopBegins ==
    ASSUME NEW w \in Workers, NEW op, NEW ids
    PROVE  LET f == Loop(op, ids) IN
           /\ f.op = op /\ f.at = "loop" /\ f.todo = ids
           /\ f.since = IF op \in Reclaiming THEN now ELSE 0
BY DEF Loop, Idle

LEMMA BeginsAge ==
    ASSUME IInv, IInv', AgeInv, NEW w \in Workers,
           \/ TakeReady(w) \/ ReleaseInflight(w) \/ ReleaseScope(w)
           \/ \E op \in Refreshing : Read(w, op)
    PROVE  AgeInv' /\ EarlyEndIsStale
<1>1. UNCHANGED <<rows, now>>
    BY DEF TakeReady, ReleaseInflight, ReleaseScope, Read, tableVars
<1>2. CASE \E op \in Reclaiming : call' = [call EXCEPT ![w] = Loop(op, Expired)]
    <2>1. PICK op \in Reclaiming : call' = [call EXCEPT ![w] = Loop(op, Expired)]
        BY <1>2
    <2>2. PICK f : f = Loop(op, Expired)
        OBVIOUS
    <2>3. f.op = op /\ f.at = "loop" /\ f.todo = Expired /\ f.since = now
        BY <2>2, LoopBegins
    <2>4. Begun(f)
        BY <2>3 DEF Begun, Watches
    <2> QED
        BY <1>1, <2>1, <2>2, <2>4, QuietAge
<1>3. CASE \E op \in {"release_inflight", "release_scope"} : \E ids :
               call' = [call EXCEPT ![w] = Loop(op, ids)]
    <2>1. PICK op \in {"release_inflight", "release_scope"} : \E ids :
              call' = [call EXCEPT ![w] = Loop(op, ids)]
        BY <1>3
    <2>6. PICK ids : call' = [call EXCEPT ![w] = Loop(op, ids)]
        BY <2>1
    <2>2. PICK f : f = Loop(op, ids)
        OBVIOUS
    <2>3. op \notin Reclaiming
        BY DEF Reclaiming, Refreshing
    <2>4. f.op = op /\ f.since = 0
        BY <2>2, <2>3, LoopBegins
    <2>5. Tame(call[w], f)
        BY <2>4, Gives
    <2> QED
        BY <1>1, <2>6, <2>2, <2>5, QuietAge
<1> QED
    BY <1>2, <1>3 DEF TakeReady, ReleaseInflight, ReleaseScope, Read, Begin, Reclaiming

LEMMA EnqueueAge ==
    ASSUME IInv, IInv', AgeInv, NEW w \in Workers, NEW id \in Ids, Enqueue(w, id)
    PROVE  AgeInv' /\ EarlyEndIsStale
<1> DEFINE f == [Idle EXCEPT !.op = "enqueue", !.at = "reserved", !.id = id]
<1>1. call' = [call EXCEPT ![w] = f] /\ UNCHANGED <<rows, now>>
    BY DEF Enqueue, Begin
<1>2. f.op = "enqueue" /\ f.since = 0
    BY DEF Idle
<1> HIDE DEF f
<1> QED
    BY <1>1, <1>2, Gives, QuietAge

LEMMA RequeueAge ==
    ASSUME IInv, IInv', AgeInv, NEW w \in Workers, NEW id, NEW lease, Requeue(w, id, lease)
    PROVE  AgeInv' /\ EarlyEndIsStale
<1>1. UNCHANGED <<rows, now>>
    BY DEF Requeue, tableVars
<1>2. CASE call' = [call EXCEPT ![w] = Idle]
    BY <1>1, <1>2, IdleRests, QuietAge
<1>3. CASE call' = [call EXCEPT ![w] = [Loop("requeue", {id}) EXCEPT !.lease = lease]]
    <2> DEFINE f == [Loop("requeue", {id}) EXCEPT !.lease = lease]
    <2>1. f.op = "requeue" /\ f.since = 0
        BY DEF Loop, Idle, Reclaiming, Refreshing
    <2> HIDE DEF f
    <2>2. call' = [call EXCEPT ![w] = f]
        BY <1>3 DEF f
    <2> QED
        BY <1>1, <2>1, <2>2, Gives, QuietAge
<1> QED
    BY <1>2, <1>3 DEF Requeue, Begin, Refuse, Return

\* A call is over, or its process is.
LEMMA AnswersAge ==
    ASSUME IInv, IInv', AgeInv, NEW w \in Workers,
           EndRelease(w) \/ ClaimNothing(w) \/ LoadClaimed(w) \/ PurgeScope(w) \/ EndRead(w)
           \/ Crash(w) \/ Fails(w)
    PROVE  AgeInv' /\ EarlyEndIsStale
<1>1. UNCHANGED <<rows, now>>
    BY DEF EndRelease, ClaimNothing, LoadClaimed, PurgeScope, EndRead, Crash, Fails, tableVars
<1>2. call' = [call EXCEPT ![w] = Idle]
    BY DEF EndRelease, ClaimNothing, LoadClaimed, PurgeScope, EndRead, Crash, Fails, Return
<1> QED
    BY <1>1, <1>2, IdleRests, QuietAge

LEMMA ReadSequenceAge ==
    ASSUME IInv, IInv', AgeInv, NEW w \in Workers, ReadSequence(w)
    PROVE  AgeInv' /\ EarlyEndIsStale
<1> DEFINE f == [call[w] EXCEPT !.at = "write", !.sequence = next_sequence]
<1>1. call' = [call EXCEPT ![w] = f] /\ UNCHANGED <<rows, now>> /\ call[w].at = "reserved"
    BY DEF ReadSequence, tableVars, At
<1>2. f.op = call[w].op /\ f.at = "write" /\ f.todo = call[w].todo /\ f.id = call[w].id
      /\ f.since = call[w].since
    BY CallOf DEF Frame
<1> HIDE DEF f
<1>3. Tame(call[w], f)
    BY <1>1, <1>2 DEF Tame, Placed, Watches, Looping
<1> QED
    BY <1>1, <1>3, QuietAge

LEMMA NextRowAge ==
    ASSUME IInv, IInv', AgeInv, NEW w \in Workers, NEW id \in Ids, NextRow(w, id)
    PROVE  AgeInv' /\ EarlyEndIsStale
<1> DEFINE f == [call[w] EXCEPT !.at = "reserved", !.id = id, !.todo = @ \ {id},
                                !.state = StateFor(id)]
<1>1. call' = [call EXCEPT ![w] = f] /\ UNCHANGED <<rows, now>> /\ call[w].at = "loop"
      /\ id \in call[w].todo
    BY DEF NextRow, At
<1>2. f.op = call[w].op /\ f.at = "reserved" /\ f.todo = call[w].todo \ {id} /\ f.id = id
      /\ f.since = call[w].since
    BY CallOf DEF Frame
<1> HIDE DEF f
<1>3. Tame(call[w], f)
    BY <1>1, <1>2 DEF Tame, Placed, Watches, Looping
<1> QED
    BY <1>1, <1>3, QuietAge

LEMMA ReadNextAge ==
    ASSUME IInv, IInv', AgeInv, NEW w \in Workers, ReadNext(w)
    PROVE  AgeInv' /\ EarlyEndIsStale
<1> PICK what : call' = [call EXCEPT ![w].found = Append(@, what)]
    BY DEF ReadNext
<1> DEFINE f == [call[w] EXCEPT !.found = Append(@, what)]
<1>1. call' = [call EXCEPT ![w] = f] /\ UNCHANGED <<rows, now>> /\ call[w].at = "read"
    BY DEF ReadNext, tableVars, At
<1>2. f.op = call[w].op /\ f.at = call[w].at /\ f.since = call[w].since
    BY CallOf DEF Frame
<1> HIDE DEF f
<1>3. Tame(call[w], f)
    BY <1>1, <1>2 DEF Tame, Placed, Watches, Looping
<1> QED
    BY <1>1, <1>3, QuietAge

LEMMA ReadPausedAge ==
    ASSUME IInv, IInv', AgeInv, NEW w \in Workers, ReadPaused(w)
    PROVE  AgeInv' /\ EarlyEndIsStale
<1>1. UNCHANGED <<rows, now>> /\ call[w].at = "paused"
    BY DEF ReadPaused, tableVars, At
<1>2. CASE call' = [call EXCEPT ![w] = Idle]
    BY <1>1, <1>2, IdleRests, QuietAge
<1>3. CASE call' = [call EXCEPT ![w].at = "claim"]
    <2> DEFINE f == [call[w] EXCEPT !.at = "claim"]
    <2>1. f.at = "claim" /\ f.since = call[w].since
        BY CallOf DEF Frame
    <2>2. call' = [call EXCEPT ![w] = f]
        BY <1>3
    <2> HIDE DEF f
    <2>3. Tame(call[w], f)
        BY <2>1 DEF Tame, Placed, Watches, Looping
    <2> QED
        BY <1>1, <2>2, <2>3, QuietAge
<1> QED
    BY <1>2, <1>3 DEF ReadPaused, Return

LEMMA ElsewhereAge ==
    ASSUME IInv, IInv', AgeInv,
           Tick \/ UNCHANGED vars \/ \E w \in Workers, paused \in BOOLEAN : SetPaused(w, paused)
    PROVE  AgeInv' /\ EarlyEndIsStale
<1>1. UNCHANGED <<rows, call>>
    BY DEF Tick, vars, SetPaused, tableVars
<1>2. now' \in Nat /\ now' >= now
    BY Numbers DEF Tick, vars, SetPaused
<1>3. \A w \in Workers : Tame(call[w], call'[w])
    BY <1>1 DEF Tame, Placed, Watches
<1>4. RowsAge /\ \A id \in In("inflight") : ~Ends(id)
    BY <1>1 DEF RowsAge, In, Ends
<1> QED
    BY ONLY IInv, IInv', AgeInv, <1>2, <1>3, <1>4, AgeStep, NothingEnds

\* Tasks are added, promoted, claimed or renewed: no lease ends.
LEMMA InsertTaskAge ==
    ASSUME IInv, IInv', AgeInv, NEW w \in Workers, InsertTask(w)
    PROVE  AgeInv' /\ EarlyEndIsStale
<1>1. /\ call' = [call EXCEPT ![w] = Idle] /\ UNCHANGED now
      /\ call[w].id \notin DOMAIN rows
      /\ rows' = Put(rows, Field(call[w].id, NewRow(call[w].id, call[w].sequence)))
    BY DEF InsertTask, Return, IInv, Arrivals
<1>2. PICK id, row : /\ id \notin DOMAIN rows /\ row.state # "inflight"
                     /\ DOMAIN rows' = DOMAIN rows \cup {id} /\ rows'[id] = row
                     /\ \A i \in DOMAIN rows : rows'[i] = rows[i]
    <2>1. PICK id, s : id = call[w].id /\ s = call[w].sequence
        OBVIOUS
    <2>2. NewRow(id, s).state # "inflight"
        BY DEF NewRow, StateFor
    <2> QED
        BY <1>1, <2>1, <2>2 DEF Put, Field
<1>3. RowsAge /\ \A i \in In("inflight") : ~Ends(i)
    <2>1. \A i \in In("inflight")' : i \in In("inflight") /\ rows'[i] = rows[i]
        BY <1>2 DEF In
    <2>2. \A i \in In("inflight") : i \in In("inflight")' /\ rows'[i] = rows[i]
        BY <1>2 DEF In
    <2> QED
        BY <2>1, <2>2 DEF RowsAge, Ends
<1> QED
    BY <1>1, <1>3, IdleRests, RowsMove, NothingEnds

LEMMA PromoteDelayedAge ==
    ASSUME IInv, IInv', AgeInv, NEW w \in Workers, PromoteDelayed(w)
    PROVE  AgeInv' /\ EarlyEndIsStale
<1>1. PICK f : call' = [call EXCEPT ![w] = f] /\ f.at \notin Looping /\ f.since = 0
    <2>1. CASE call[w].op = "take"
        <3> DEFINE f == [Idle EXCEPT !.op = call[w].op, !.at = "paused"]
        <3>1. call' = [call EXCEPT ![w] = f]
            BY <2>1 DEF PromoteDelayed
        <3>2. f.at = "paused" /\ f.since = 0
            BY DEF Idle
        <3> HIDE DEF f
        <3> QED
            BY <3>1, <3>2 DEF Looping
    <2>2. CASE call[w].op # "take"
        <3> DEFINE seen == Places(rows')
                   f == [Idle EXCEPT !.op = call[w].op, !.at = "read", !.seen = seen]
        <3>1. call' = [call EXCEPT ![w] = f]
            BY <2>2 DEF PromoteDelayed
        <3> HIDE DEF seen
        <3>2. f.at = "read" /\ f.since = 0
            BY DEF Idle
        <3> HIDE DEF f
        <3> QED
            BY <3>1, <3>2 DEF Looping
    <2> QED
        BY <2>1, <2>2
<1>2. /\ DOMAIN rows' = DOMAIN rows
      /\ \A id \in DOMAIN rows :
            \/ rows'[id] = rows[id]
            \/ rows[id].state = "delayed" /\ rows'[id] = [rows[id] EXCEPT !.state = "ready"]
    BY DEF PromoteDelayed, In
<1>3. ASSUME NEW id \in DOMAIN rows, rows[id].state = "inflight" \/ rows'[id].state = "inflight"
      PROVE  rows'[id] = rows[id]
    <2>1. rows[id] \in Row
        BY DEF IInv, RowsOK
    <2>2. [rows[id] EXCEPT !.state = "ready"].state = "ready"
        BY <2>1 DEF Row
    <2> QED
        BY <1>2, <1>3, <2>2
<1>4. RowsAge /\ \A i \in In("inflight") : ~Ends(i)
    <2>1. \A i \in In("inflight")' : i \in In("inflight") /\ rows'[i] = rows[i]
        BY <1>2, <1>3 DEF In
    <2>2. \A i \in In("inflight") : i \in In("inflight")' /\ rows'[i] = rows[i]
        BY <1>2, <1>3 DEF In
    <2> QED
        BY <2>1, <2>2 DEF RowsAge, Ends
<1>5. UNCHANGED now
    BY DEF PromoteDelayed
<1> QED
    BY <1>1, <1>4, <1>5, AtRest, RowsMove, NothingEnds

LEMMA HeartbeatAge ==
    ASSUME IInv, IInv', AgeInv, NEW w \in Workers, NEW id, NEW lease, Heartbeat(w, id, lease)
    PROVE  AgeInv' /\ EarlyEndIsStale
<1>1. call' = [call EXCEPT ![w] = Idle] /\ UNCHANGED now
    BY DEF Heartbeat, Refuse, Return
<1>2. CASE LeaseHolds(w, id, lease)
    <2>1. id \in In("inflight") /\ id \in DOMAIN rows /\ rows[id] \in Row
        BY <1>2 DEF LeaseHolds, Owns, In, IInv, RowsOK
    <2>2. rows' = [rows EXCEPT ![id].deadline = now + LeaseTimeout]
        BY <1>2 DEF Heartbeat
    <2>3. /\ DOMAIN rows' = DOMAIN rows /\ \A i \in DOMAIN rows \ {id} : rows'[i] = rows[i]
          /\ rows'[id].deadline = now + LeaseTimeout /\ rows'[id].state = rows[id].state
          /\ rows'[id].lease = rows[id].lease
        BY <2>1, <2>2 DEF Row, IInv, RowsOK
    <2>4. now + LeaseTimeout \in Nat
        BY Numbers, SqliteAssumption
    <2>5. RowsAge
        <3>1. ASSUME NEW i \in In("inflight")', i # id
              PROVE  i \in In("inflight") /\ rows'[i].deadline = rows[i].deadline
            BY <2>3, <3>1 DEF In
        <3>2. rows'[id].deadline >= now + LeaseTimeout
            BY <2>3, <2>4
        <3> QED
            BY <3>1, <3>2 DEF RowsAge
    <2>6. \A i \in In("inflight") : ~Ends(i)
        BY <2>1, <2>3 DEF In, Ends
    <2> QED
        BY <1>1, <2>5, <2>6, IdleRests, RowsMove, NothingEnds
<1>3. CASE UNCHANGED rows
    BY <1>1, <1>3, IdleRests, QuietAge
<1> QED
    BY <1>2, <1>3 DEF Heartbeat

LEMMA ClaimReadyAge ==
    ASSUME IInv, IInv', AgeInv, NEW w \in Workers, NEW id \in Ids, ClaimReady(w, id)
    PROVE  AgeInv' /\ EarlyEndIsStale
<1>1. ASSUME NEW v \in Workers PROVE Tame(call[v], call'[v])
    <2>1. CASE v = w
        <3> DEFINE f == [call[w] EXCEPT !.at = "load", !.id = id, !.lease = granted']
        <3>1. call'[v] = f
            BY <2>1 DEF ClaimReady
        <3>2. f.at = "load" /\ f.since = call[w].since
            BY CallOf DEF Frame
        <3> HIDE DEF f
        <3> QED
            BY <2>1, <3>1, <3>2 DEF Tame, Placed, Watches, Looping
    <2>2. CASE v # w
        <3>1. PICK c, d : c \in Frame /\ c = call[v] /\ d = call'[v]
            BY CallOf
        <3>2. d = Touched(c, id)
            <4>1. call'[v] = Touched(call[v], id)
                BY <2>2 DEF ClaimReady, Touched
            <4> QED
                BY <3>1, <4>1 DEF Touched
        <3>3. Alike(c, d)
            BY <3>1, <3>2, TouchedFrame
        <3>4. Tame(c, d)
            BY <3>3 DEF Alike, Tame, Placed, Watches
        <3> QED
            BY <3>1, <3>4 DEF Tame, Placed, Watches
    <2> QED
        BY <2>1, <2>2
<1>2. /\ id \in DOMAIN rows /\ id \notin In("inflight") /\ UNCHANGED now
      /\ DOMAIN rows' = DOMAIN rows /\ \A i \in DOMAIN rows \ {id} : rows'[i] = rows[i]
      /\ rows'[id].deadline = now + LeaseTimeout
    <2>1. id \in DOMAIN rows /\ rows[id].state = "ready" /\ rows[id] \in Row
        BY DEF ClaimReady, FirstReady, In, IInv, RowsOK
    <2> QED
        BY <2>1 DEF ClaimReady, In, Row, IInv, RowsOK
<1>3. now + LeaseTimeout \in Nat
    BY Numbers, SqliteAssumption
<1>4. RowsAge
    <2>1. ASSUME NEW i \in In("inflight")', i # id
          PROVE  i \in In("inflight") /\ rows'[i].deadline = rows[i].deadline
        BY <1>2, <2>1 DEF In
    <2>2. rows'[id].deadline >= now + LeaseTimeout
        BY <1>2, <1>3
    <2> QED
        BY <2>1, <2>2 DEF RowsAge
<1>5. \A i \in In("inflight") : ~Ends(i)
    BY <1>2 DEF In, Ends
<1>6. now' \in Nat /\ now' >= now
    BY <1>2, Numbers
<1> QED
    BY ONLY IInv, IInv', AgeInv, <1>1, <1>4, <1>5, <1>6, AgeStep, NothingEnds

\* A lease ends with its task.
LEMMA GoneAge ==
    ASSUME IInv, IInv', AgeInv, NEW w \in Workers, NEW claim \in held[w],
           NEW follow \in {{}} \cup {{f} : f \in Ids},
           LeaseHolds(w, claim[1], claim[2]), Replace(claim[1], follow), UNCHANGED now,
           call' = [call EXCEPT ![w] = Idle], claim \notin held'[w]
    PROVE  AgeInv' /\ EarlyEndIsStale
<1>1. PICK id, lease : /\ claim = <<id, lease>> /\ id = claim[1] /\ lease = claim[2]
                       /\ id \in In("inflight") /\ rows[id].lease = lease /\ rows[id].worker = w
    <2>1. claim = <<claim[1], claim[2]>>
        BY DEF IInv, Leases
    <2> QED
        BY <2>1 DEF LeaseHolds, Owns
<1>2. \A i \in follow : i \notin DOMAIN rows
    BY DEF Replace, Fresh
<1>3. /\ DOMAIN rows' = (DOMAIN rows \ {id}) \cup follow
      /\ \A i \in DOMAIN rows' : i \notin follow => rows'[i] = rows[i]
      /\ \A i \in follow : rows'[i].state # "inflight"
    <2>1. PICK n : rows' = Put(Del(rows, {id}), [f \in follow |-> NewRow(f, n)])
        BY <1>1 DEF Replace
    <2>2. \A i : NewRow(i, n).state # "inflight"
        BY DEF NewRow, StateFor
    <2> QED
        BY <2>1, <2>2 DEF Put, Del
<1>4. RowsAge
    <2>1. \A i \in In("inflight")' : i \in In("inflight") /\ rows'[i] = rows[i]
        BY <1>3 DEF In
    <2> QED
        BY <2>1 DEF RowsAge
<1>5. ASSUME NEW i \in In("inflight"), Ends(i) PROVE Acts(w) /\ GivesUp(w, i)
    <2>1. i = id
        <3>1. CASE i # id
            <4>1. i \in DOMAIN rows' /\ i \notin follow
                BY <1>2, <1>3, <3>1 DEF In
            <4> QED
                BY <1>3, <1>5, <4>1 DEF In, Ends
        <3> QED
            BY <3>1
    <2>2. <<i, rows[i].lease>> \in held[w] \ held'[w]
        BY <1>1, <2>1
    <2> QED
        BY <1>1, <2>1, <2>2 DEF Acts, GivesUp
<1>6. AgeInv'
    BY <1>4, IdleRests, RowsMove
<1> QED
    BY <1>5, <1>6 DEF EarlyEndIsStale

LEMMA CompleteAge ==
    ASSUME IInv, IInv', AgeInv, NEW w \in Workers, NEW claim \in held[w],
           NEW follow \in {{}} \cup {{f} : f \in Ids},
           \/ Complete(w, claim[1], claim[2], follow)
           \/ CompleteUnanswered(w, claim[1], claim[2], follow)
    PROVE  AgeInv' /\ EarlyEndIsStale
<1>1. call' = [call EXCEPT ![w] = Idle] /\ UNCHANGED now
    BY DEF Complete, CompleteUnanswered, Refuse, Return
<1>2. CASE UNCHANGED rows
    BY <1>1, <1>2, IdleRests, QuietAge
<1>3. CASE /\ LeaseHolds(w, claim[1], claim[2]) /\ Replace(claim[1], follow)
           /\ held' \in {[held EXCEPT ![w] = {}], [held EXCEPT ![w] = @ \ {<<claim[1], claim[2]>>}]}
    <2>1. claim \notin held'[w]
        <3>1. claim = <<claim[1], claim[2]>> /\ held \in [Workers -> SUBSET (Ids \X Nat)]
            BY DEF IInv, Leases
        <3> QED
            BY <1>3, <3>1
    <2> QED
        BY <1>1, <1>3, <2>1, GoneAge
<1> QED
    BY <1>2, <1>3 DEF Complete, CompleteUnanswered

LEMMA PurgeTasksAge ==
    ASSUME IInv, IInv', AgeInv, NEW w \in Workers, PurgeTasks(w)
    PROVE  AgeInv' /\ EarlyEndIsStale
<1> DEFINE f == [Idle EXCEPT !.op = "purge", !.at = "scope"]
<1>1. call' = [call EXCEPT ![w] = f] /\ UNCHANGED now /\ rows' = Empty /\ call[w].at = "idle"
    BY DEF PurgeTasks, Begin, At
<1>2. f.at = "scope" /\ f.op = "purge" /\ f.since = 0
    BY DEF Idle
<1> HIDE DEF f
<1>3. RowsAge
    BY <1>1 DEF RowsAge, In, Empty
<1>4. AgeInv'
    BY <1>1, <1>2, <1>3, AtRest, RowsMove DEF Looping
<1>5. call'[w] = f
    BY <1>1 DEF IInv, Calls
<1>6. Acts(w) /\ \A i : Operates(w, i)
    BY <1>1, <1>2, <1>5 DEF Acts, Operates
<1> QED
    BY <1>4, <1>6 DEF EarlyEndIsStale

\* One round of a loop is written: the lease of its row ends, whoever holds it.
LEMMA WriteRowAge ==
    ASSUME IInv, IInv', AgeInv, NEW w \in Workers, WriteRow(w)
    PROVE  AgeInv' /\ EarlyEndIsStale
<1>1. call[w].at = "write" /\ call[w].op # "enqueue" /\ UNCHANGED now /\ call[w] \in Frame
    BY CallOf DEF WriteRow, At
<1>2. ASSUME NEW n \in {0, 1} PROVE Tame(call[w], NextOf(call[w], n)) /\ NextOf(call[w], n).at = "loop"
    <2>1. PICK c, f : c = call[w] /\ f = NextOf(c, n)
        OBVIOUS
    <2>2. f.op = c.op /\ f.at = "loop" /\ f.todo = c.todo /\ f.since = c.since
        BY <2>1 DEF NextOf, Idle
    <2>3. c.at = "write"
        BY <1>1, <2>1
    <2>4. Tame(c, f)
        BY <2>2, <2>3 DEF Tame, Placed, Watches, Looping
    <2> QED
        BY <2>1, <2>2, <2>4
<1>3. CASE UNCHANGED rows /\ call' = [call EXCEPT ![w] = NextOf(call[w], 0)]
    BY <1>1, <1>2, <1>3, QuietAge
<1>4. CASE UNCHANGED rows /\ call' = [call EXCEPT ![w] = Idle]
    BY <1>1, <1>4, IdleRests, QuietAge
<1>5. CASE /\ MayReturn(w, call[w].id)
           /\ rows' = [rows EXCEPT ![call[w].id] = Returned(@, call[w].state, call[w].sequence)]
           /\ call' = [call EXCEPT ![w] = NextOf(call[w], 1)]
    <2>1. PICK id, state, sequence :
              id = call[w].id /\ state = call[w].state /\ sequence = call[w].sequence
        OBVIOUS
    <2>2. id \in In("inflight") /\ state \in {"ready", "delayed"}
        BY <1>1, <1>5, <2>1, CallOf DEF MayReturn, LeaseHolds, Owns, FrameOK
    <2>3. id \in DOMAIN rows /\ rows[id] \in Row
        BY <2>2 DEF In, IInv, RowsOK
    <2>4. /\ DOMAIN rows' = DOMAIN rows /\ rows'[id].state = state
          /\ \A i \in DOMAIN rows \ {id} : rows'[i] = rows[i]
        BY <1>5, <2>1, <2>3 DEF Returned, Row, IInv, RowsOK
    <2>5. RowsAge
        <3>1. \A i \in In("inflight")' : i \in In("inflight") /\ rows'[i] = rows[i]
            BY <2>2, <2>4 DEF In
        <3> QED
            BY <3>1 DEF RowsAge
    <2>6. AgeInv'
        BY <1>1, <1>2, <1>5, <2>5, RowsMove
    <2>7. Acts(w)
        <3>1. call'[w] = NextOf(call[w], 1)
            BY <1>5 DEF IInv, Calls
        <3>2. call'[w].at # call[w].at
            BY <1>1, <1>2, <3>1
        <3> QED
            BY <3>2 DEF Acts
    <2>8. ASSUME NEW i \in In("inflight"), Ends(i), rows[i].deadline > now
          PROVE  GivesUp(w, i) \/ Operates(w, i) \/ Stale(w, i)
        <3>1. i = id
            BY <2>4, <2>8 DEF In, Ends
        <3>2. call[w].op \in Reclaiming \cup {"release_inflight", "release_scope", "requeue"}
            BY <1>1 DEF AgeInv, Placed, Looping
        <3>3. CASE call[w].op = "requeue"
            BY <1>5, <2>1, <3>1, <3>3 DEF MayReturn, LeaseHolds, Owns, GivesUp
        <3>4. CASE call[w].op = "release_inflight"
            BY <1>5, <2>1, <3>1, <3>4 DEF MayReturn, Owns, GivesUp
        <3>5. CASE call[w].op = "release_scope"
            BY <2>1, <3>1, <3>5 DEF Operates
        <3>6. CASE call[w].op \in Reclaiming
            <4>1. Watches(call[w], i)
                BY <1>1, <2>1, <3>1, <3>6 DEF Watches, Looping
            <4>2. WatchOK(call[w], i) /\ call[w].since <= now
                BY <4>1 DEF AgeInv
            <4>3. now \in Nat /\ call[w].since \in Nat /\ rows[i].deadline \in Nat
                BY <1>1, <2>3, <3>1, FrameParts, Numbers DEF Row
            <4>4. rows[i].deadline >= call[w].since + LeaseTimeout
                <5>1. PICK d \in Nat, s \in Nat, n \in Nat :
                          d = rows[i].deadline /\ s = call[w].since /\ n = now
                    BY <4>3
                <5>2. s <= n /\ d > n /\ (d <= s \/ d >= s + LeaseTimeout)
                    BY <2>8, <4>2, <5>1 DEF WatchOK
                <5>3. ~(d <= s)
                    BY ONLY d \in Nat, s \in Nat, n \in Nat, <5>2
                <5> QED
                    BY <5>1, <5>2, <5>3
            <4> QED
                BY <1>1, <2>1, <3>1, <3>6, <4>4 DEF Stale
        <3> QED
            BY <3>2, <3>3, <3>4, <3>5, <3>6
    <2> QED
        BY <2>6, <2>7, <2>8 DEF EarlyEndIsStale
<1> QED
    BY <1>3, <1>4, <1>5 DEF WriteRow, Refuse, Return

LEMMA AgeSteps ==
    ASSUME IInv, IInv', AgeInv, [Next]_vars
    PROVE  AgeInv' /\ EarlyEndIsStale
<1>1. ASSUME NEW w \in Workers, Start(w) PROVE AgeInv' /\ EarlyEndIsStale
    <2>1. CASE \E id \in Ids : Enqueue(w, id)
        BY <2>1, EnqueueAge
    <2>2. CASE TakeReady(w) \/ ReleaseInflight(w) \/ (\E op \in Refreshing : Read(w, op))
               \/ ReleaseScope(w)
        BY <2>2, BeginsAge
    <2>3. CASE \E claim \in held[w] : Requeue(w, claim[1], claim[2])
        BY <2>3, RequeueAge
    <2>4. CASE \E claim \in held[w] : Heartbeat(w, claim[1], claim[2])
        BY <2>4, HeartbeatAge
    <2>5. CASE \E claim \in held[w], follow \in {{}} \cup {{f} : f \in Ids} :
                   \/ Complete(w, claim[1], claim[2], follow)
                   \/ CompleteUnanswered(w, claim[1], claim[2], follow)
        BY <2>5, CompleteAge
    <2>6. CASE PurgeTasks(w)
        BY <2>6, PurgeTasksAge
    <2>7. CASE \E paused \in BOOLEAN : SetPaused(w, paused)
        BY <2>7, ElsewhereAge
    <2> QED
        BY <1>1, <2>1, <2>2, <2>3, <2>4, <2>5, <2>6, <2>7 DEF Start
<1>2. ASSUME NEW w \in Workers, Proceed(w) PROVE AgeInv' /\ EarlyEndIsStale
    <2>1. CASE ReadSequence(w) \/ InsertTask(w) \/ WriteRow(w) \/ PromoteDelayed(w)
               \/ ReadPaused(w) \/ ReadNext(w)
        BY <2>1, ReadSequenceAge, InsertTaskAge, WriteRowAge, PromoteDelayedAge, ReadPausedAge,
           ReadNextAge
    <2>2. CASE EndRelease(w) \/ ClaimNothing(w) \/ LoadClaimed(w) \/ PurgeScope(w) \/ EndRead(w)
        BY <2>2, AnswersAge
    <2>3. CASE \E id \in Ids : NextRow(w, id)
        BY <2>3, NextRowAge
    <2>4. CASE \E id \in Ids : ClaimReady(w, id)
        BY <2>4, ClaimReadyAge
    <2> QED
        BY <1>2, <2>1, <2>2, <2>3, <2>4 DEF Proceed
<1>3. CASE \E w \in Workers : Crash(w) \/ Fails(w)
    BY <1>3, AnswersAge
<1>4. CASE Tick \/ UNCHANGED vars
    BY <1>4, ElsewhereAge
<1> QED
    BY <1>1, <1>2, <1>3, <1>4 DEF Next

\* For any processes, tasks and lease_timeout, and whatever statements interleave, die or
\* fail: a lease with time left ends by its holder or by an operator, or it was granted or
\* renewed after a reclaim had read the row, which then writes without asking again.
THEOREM OnlyStaleReclaimsAreEarly == Spec => EarlyEndsAreStale
<1>1. Init => AgeInv
    <2> SUFFICES ASSUME Init PROVE AgeInv
        OBVIOUS
    <2>1. \A w \in Workers : call[w] = Idle
        BY DEF Init
    <2>2. Idle.at = "idle" /\ Idle.since = 0
        BY DEF Idle
    <2>3. now = 0
        BY DEF Init
    <2> QED
        BY <2>1, <2>2, <2>3 DEF AgeInv, Placed, Watches, Looping
<1>2. IInv /\ IInv' /\ AgeInv /\ [Next]_vars => AgeInv'
    BY AgeSteps
<1>3. IInv /\ IInv' /\ AgeInv /\ [Next]_vars => [EarlyEndIsStale]_vars
    BY AgeSteps
<1> QED
    BY <1>1, <1>2, <1>3, Inductive, PTL DEF Spec, EarlyEndsAreStale

-----------------------------------------------------------------------------
(* Sums over the processes. *)

First(s) == CHOOSE x \in s : TRUE

\* f is the sum of e over every set of processes, made up as MapThenSumSet does.
Sums(f, e) ==
    f = [s \in SUBSET Workers |->
            IF s = {} THEN 0 ELSE e[First(s)] + f[s \ {First(s)}]]

\* What that says of one set.
Adds(f, e, s) == f[s] = e[First(s)] + f[s \ {First(s)}]

\* The same for the sets of at most n processes.
SumsUpTo(n, f, e) ==
    f = [s \in {t \in SUBSET Workers : Cardinality(t) <= n} |->
            IF s = {} THEN 0 ELSE e[First(s)] + f[s \ {First(s)}]]

LEMMA LeastOf ==
    ASSUME NEW N, N = Nat, NEW R, IsWellFoundedOn(R, N),
           \A x, y \in N : <<x, y>> \in R <=> x < y,
           NEW T, T \subseteq N, T # {}
    PROVE  \E n \in T : \A m \in T : n <= m
<1>1. \E n \in T : \A m \in T : ~(<<m, n>> \in R)
    BY ONLY IsWellFoundedOn(R, N), T \subseteq N, T # {}, WFMin
<1>2. \A n, m \in Nat : ~(m < n) => n <= m
    OBVIOUS
<1> QED
    BY <1>1, <1>2

LEMMA LeastNumber ==
    ASSUME NEW T, T \subseteq Nat, T # {}
    PROVE  \E n \in T : \A m \in T : n <= m
<1>1. IsWellFoundedOn(OpToRel(<, Nat), Nat)
    BY NatLessThanWellFounded, Zenon
<1>2. \A x, y \in Nat : <<x, y>> \in OpToRel(<, Nat) <=> x < y
    BY DEF OpToRel
<1> QED
    BY <1>1, <1>2, LeastOf, Zenon

\* A set with 0 and the successor of each of its numbers up to k has k.
LEMMA UpTo ==
    ASSUME NEW S, NEW k \in Nat, 0 \in S,
           \A n \in 1 .. k : n - 1 \in S => n \in S
    PROVE  k \in S
<1> DEFINE T == {n \in 0 .. k : n \notin S}
<1> SUFFICES ASSUME T # {} PROVE FALSE
    OBVIOUS
<1>0. T \subseteq Nat
    OBVIOUS
<1>1. PICK n \in T : \A m \in T : n <= m
  <2> HIDE DEF T
  <2> QED BY <1>0, LeastNumber
<1>2. n # 0 /\ n - 1 \in 0 .. k /\ n - 1 \notin T
    BY <1>1
<1> QED
    BY <1>2

\* One process less.
LEMMA Fewer ==
    ASSUME IsFiniteSet(Workers), NEW s \in SUBSET Workers, s # {},
           NEW n \in Nat, Cardinality(s) <= n
    PROVE  LET x == First(s) IN
           /\ x \in s /\ x \in Workers
           /\ s \ {x} \in SUBSET Workers /\ Cardinality(s \ {x}) <= n - 1
<1> DEFINE x == First(s)
<1>1. x \in s
    BY DEF First
<1> HIDE DEF x
<1>2. IsFiniteSet(s) /\ Cardinality(s) \in Nat
    BY FS_Subset, FS_CardinalityType
<1>3. Cardinality(s \ {x}) = Cardinality(s) - 1
    BY <1>1, <1>2, FS_RemoveElement
<1> QED
    BY <1>1, <1>2, <1>3 DEF x

LEMMA NoProcess ==
    ASSUME IsFiniteSet(Workers), NEW s \in SUBSET Workers
    PROVE  Cardinality(s) \in Nat /\ (Cardinality(s) <= 0 <=> s = {})
<1>1. IsFiniteSet(s)
    BY FS_Subset
<1> QED
    BY <1>1, FS_CardinalityType, FS_EmptySet

LEMMA SumUpToOf ==
    ASSUME NEW e, NEW n, NEW f, SumsUpTo(n, f, e),
           NEW s \in SUBSET Workers, Cardinality(s) <= n
    PROVE  f[s] = IF s = {} THEN 0 ELSE e[First(s)] + f[s \ {First(s)}]
BY Zenon DEF SumsUpTo

LEMMA SumOf ==
    ASSUME NEW e, NEW f, Sums(f, e)
    PROVE  /\ f[{}] = 0
           /\ \A s \in SUBSET Workers : s # {} => Adds(f, e, s)
BY Zenon DEF Sums, Adds

LEMMA SumExtends ==
    ASSUME IsFiniteSet(Workers), NEW e, NEW n \in Nat \ {0}, NEW g, SumsUpTo(n - 1, g, e)
    PROVE  \E f : SumsUpTo(n, f, e)
<1> DEFINE D(k) == {t \in SUBSET Workers : Cardinality(t) <= k}
           f == [s \in D(n) |-> IF s = {} THEN 0 ELSE e[First(s)] + g[s \ {First(s)}]]
<1>1. ASSUME NEW s \in D(n - 1) PROVE s \in D(n) /\ f[s] = g[s]
    <2>1. s \in D(n)
        BY NoProcess
    <2>2. g[s] = IF s = {} THEN 0 ELSE e[First(s)] + g[s \ {First(s)}]
        BY SumUpToOf
    <2> QED
        BY <2>1, <2>2
<1>2. ASSUME NEW s \in D(n), s # {}
      PROVE  f[s] = e[First(s)] + f[s \ {First(s)}]
    <2>1. s \ {First(s)} \in D(n - 1)
        BY <1>2, Fewer
    <2>2. f[s] = e[First(s)] + g[s \ {First(s)}]
        BY <1>2
    <2> HIDE DEF f, D
    <2> QED
        BY <1>1, <2>1, <2>2
<1>3. ASSUME {} \in D(n) PROVE f[{}] = 0
    BY <1>3
<1>4. f = [s \in D(n) |-> f[s]]
    OBVIOUS
<1>5. f = [s \in D(n) |-> IF s = {} THEN 0 ELSE e[First(s)] + f[s \ {First(s)}]]
    <2> HIDE DEF f, D
    <2> QED
        BY <1>2, <1>3, <1>4, Zenon
<1> QED
    BY <1>5 DEF SumsUpTo

LEMMA SumExists ==
    ASSUME IsFiniteSet(Workers), NEW e
    PROVE  \E f : Sums(f, e)
<1> DEFINE S == {n \in Nat : \E f : SumsUpTo(n, f, e)}
           k == Cardinality(Workers)
<1>1. k \in Nat
    BY FS_CardinalityType
<1>2. 0 \in S
    <2> DEFINE f == [s \in {{}} |-> 0]
    <2>1. {t \in SUBSET Workers : Cardinality(t) <= 0} = {{}}
        BY NoProcess
    <2>2. SumsUpTo(0, f, e)
        BY <2>1 DEF SumsUpTo
    <2> HIDE DEF f
    <2> QED
        BY <2>2
<1>3. \A n \in 1 .. k : n - 1 \in S => n \in S
    BY SumExtends
<1> HIDE DEF S
<1>4. k \in S
    BY <1>1, <1>2, <1>3, UpTo
<1>5. {t \in SUBSET Workers : Cardinality(t) <= k} = SUBSET Workers
    <2>1. \A t \in SUBSET Workers : Cardinality(t) <= k
        BY FS_Subset
    <2> QED
        BY <2>1
<1>6. PICK f : SumsUpTo(k, f, e)
    BY <1>4 DEF S
<1> HIDE DEF k
<1>7. Sums(f, e)
    BY <1>5, <1>6 DEF SumsUpTo, Sums
<1> QED
    BY <1>7

\* One process has more, or less.
LEMMA SumChanges ==
    ASSUME IsFiniteSet(Workers), NEW e \in [Workers -> Int], NEW d \in [Workers -> Int],
           NEW w \in Workers, \A x \in Workers \ {w} : d[x] = e[x],
           NEW f, NEW g, Sums(f, e), Sums(g, d)
    PROVE  f[Workers] \in Int /\ g[Workers] = f[Workers] + (d[w] - e[w])
<1> DEFINE k == d[w] - e[w]
           Grows(s) == f[s] \in Int /\ g[s] = f[s] + IF w \in s THEN k ELSE 0
           S == {n \in Nat : \A s \in SUBSET Workers : Cardinality(s) <= n => Grows(s)}
           c == Cardinality(Workers)
<1>1. c \in Nat
    BY FS_CardinalityType
<1>2. /\ f[{}] = 0
      /\ \A s \in SUBSET Workers : s # {} => Adds(f, e, s)
    BY SumOf
<1>3. /\ g[{}] = 0
      /\ \A s \in SUBSET Workers : s # {} => Adds(g, d, s)
    BY SumOf
<1>4. k \in Int /\ \A x \in Workers : e[x] \in Int /\ d[x] = e[x] + IF x = w THEN k ELSE 0
    OBVIOUS
<1> HIDE DEF k
<1>5. ASSUME NEW s \in SUBSET Workers, s # {}, Grows(s \ {First(s)}) PROVE Grows(s)
    <2> DEFINE x == First(s)
    <2>1. x \in s
        BY <1>5 DEF First
    <2> HIDE DEF x
    <2>2. f[s] = e[x] + f[s \ {x}] /\ g[s] = d[x] + g[s \ {x}]
        <3>1. Adds(f, e, s) /\ Adds(g, d, s)
            BY <1>2, <1>3, <1>5
        <3> QED
            BY <3>1 DEF x, Adds
    <2>3. f[s \ {x}] \in Int /\ g[s \ {x}] = f[s \ {x}] + IF w \in s \ {x} THEN k ELSE 0
        BY <1>5 DEF x
    <2> QED
        BY <1>4, <2>1, <2>2, <2>3
<1>6. Grows({})
    BY <1>2, <1>3
<1> HIDE DEF Grows
<1>7. 0 \in S
    BY <1>6, NoProcess
<1>8. ASSUME NEW n \in 1 .. c, n - 1 \in S PROVE n \in S
    <2>1. ASSUME NEW s \in SUBSET Workers, Cardinality(s) <= n, s # {} PROVE Grows(s)
        <3>1. s \ {First(s)} \in SUBSET Workers /\ Cardinality(s \ {First(s)}) <= n - 1
            BY <2>1, Fewer
        <3>2. Grows(s \ {First(s)})
            BY <1>8, <3>1
        <3> QED
            BY <1>5, <2>1, <3>2
    <2> QED
        BY <1>6, <2>1
<1> HIDE DEF S
<1>9. c \in S
    BY <1>1, <1>7, <1>8, UpTo
<1> QED
    BY <1>1, <1>9 DEF S, Grows, k

LEMMA SumOfNone ==
    ASSUME IsFiniteSet(Workers), NEW e, \A w \in Workers : e[w] = 0, NEW f, Sums(f, e)
    PROVE  f[Workers] = 0
<1> DEFINE S == {n \in Nat : \A s \in SUBSET Workers : Cardinality(s) <= n => f[s] = 0}
           c == Cardinality(Workers)
<1>1. c \in Nat
    BY FS_CardinalityType
<1>2. f[{}] = 0
    BY SumOf
<1>3. 0 \in S
    BY <1>2, NoProcess
<1>4. ASSUME NEW s \in SUBSET Workers, s # {}, f[s \ {First(s)}] = 0 PROVE f[s] = 0
    <2>1. First(s) \in s
        BY <1>4 DEF First
    <2>2. Adds(f, e, s)
        BY <1>4, SumOf
    <2> QED
        BY <1>4, <2>1, <2>2 DEF Adds
<1>5. ASSUME NEW n \in 1 .. c, n - 1 \in S PROVE n \in S
    <2>1. ASSUME NEW s \in SUBSET Workers, Cardinality(s) <= n, s # {} PROVE f[s] = 0
        <3>1. s \ {First(s)} \in SUBSET Workers /\ Cardinality(s \ {First(s)}) <= n - 1
            BY <2>1, Fewer
        <3>2. f[s \ {First(s)}] = 0
            BY <1>5, <3>1
        <3> QED
            BY <1>4, <2>1, <3>2
    <2> QED
        BY <1>2, <2>1
<1> HIDE DEF S
<1>6. c \in S
    BY <1>1, <1>3, <1>5, UpTo
<1> QED
    BY <1>1, <1>6 DEF S

-----------------------------------------------------------------------------
(* The metrics. *)

\* What each process has given back or reclaimed and not reported yet, and their sum.
Unreported == [w \in Workers |-> events[w] + call[w].done]
Total == (CHOOSE f : Sums(f, Unreported))[Workers]

LEMMA TotalIs == Total = MapThenSumSet(LAMBDA w : events[w] + call[w].done, Workers)
BY Zenon DEF Total, MapThenSumSet, MapThenFoldSet, Sums, First, Unreported

LEMMA MetricsAre ==
    MetricsAddUp <=> (exact => Cardinality(In("inflight")) + Total = reported + Cardinality(Taken))
BY TotalIs, Zenon DEF MetricsAddUp

LEMMA MetricsAreNext ==
    MetricsAddUp' <=>
        (exact' => Cardinality(In("inflight")') + Total' = reported' + Cardinality(Taken'))
<1>1. (MetricsAddUp <=>
          (exact => Cardinality(In("inflight")) + Total = reported + Cardinality(Taken)))'
    BY MetricsAre, PTL
<1> QED
    BY <1>1

LEMMA TotalChanges ==
    ASSUME IsFiniteSet(Workers), Unreported \in [Workers -> Int], NEW w \in Workers,
           NEW k \in Int, Unreported' = [Unreported EXCEPT ![w] = @ + k]
    PROVE  Total \in Int /\ Total' = Total + k
<1> DEFINE f == CHOOSE f : Sums(f, Unreported)
           g == CHOOSE g : Sums(g, Unreported')
<1>1. Sums(f, Unreported) /\ Sums(g, Unreported')
    BY SumExists
<1>2. Total = f[Workers] /\ Total' = g[Workers]
    BY DEF Total
<1> HIDE DEF f, g
<1>3. PICK e, d : e = Unreported /\ d = Unreported'
    OBVIOUS
<1>4. /\ e \in [Workers -> Int] /\ d \in [Workers -> Int] /\ d[w] - e[w] = k
      /\ \A x \in Workers \ {w} : d[x] = e[x]
    BY <1>3
<1>5. f[Workers] \in Int /\ g[Workers] = f[Workers] + (d[w] - e[w])
    <2>1. Sums(f, e) /\ Sums(g, d)
        BY <1>1, <1>3
    <2> QED
        BY ONLY <1>4, <2>1, IsFiniteSet(Workers), w \in Workers, SumChanges
<1> QED
    BY <1>2, <1>4, <1>5

LEMMA TotalStays == UNCHANGED Unreported => UNCHANGED Total
BY DEF Total

\* What a call has given back is none but in the loop, and for a requeue at most its task.
Pending(c) ==
    /\ c.at \in {"idle", "paused", "claim", "load", "scope", "read"} \/ c.op = "enqueue" =>
          c.done = 0
    /\ c.op = "requeue" =>
          /\ c.at # "loop" => c.todo = {}
          /\ c.at # "loop" \/ c.todo # {} => c.done = 0
          /\ \A i, j \in c.todo : i = j

AllPending == \A w \in Workers : Pending(call[w])

MInv == IsFiniteSet(DOMAIN rows) /\ AllPending /\ MetricsAddUp

LEMMA Sizes ==
    ASSUME IInv, IsFiniteSet(Workers), IsFiniteSet(DOMAIN rows)
    PROVE  /\ IsFiniteSet(In("inflight")) /\ IsFiniteSet(Taken)
           /\ Cardinality(In("inflight")) \in Nat /\ Cardinality(Taken) \in Nat
           /\ Unreported \in [Workers -> Int] /\ reported \in Int
<1>1. IsFiniteSet(In("inflight")) /\ IsFiniteSet(Taken)
    BY FS_Subset DEF In, Taken
<1>2. ASSUME NEW w \in Workers PROVE events[w] + call[w].done \in Int
    <2>1. call[w].done \in Nat /\ events[w] \in Int
        BY CallOf, FrameParts DEF IInv, Counters
    <2> QED
        BY <2>1
<1> QED
    BY <1>1, <1>2, FS_CardinalityType DEF IInv, Counters, Unreported

LEMMA PendingMoves ==
    ASSUME IInv, AllPending, NEW w \in Workers, NEW f, call' = [call EXCEPT ![w] = f], Pending(f)
    PROVE  AllPending'
<1>1. \A v \in Workers : call'[v] = IF v = w THEN f ELSE call[v]
    BY DEF IInv, Calls
<1>2. \A v \in Workers : Pending(call'[v])
    BY <1>1, Zenon DEF AllPending
<1> QED
    BY <1>2 DEF AllPending, Pending

LEMMA TakenMoves ==
    ASSUME IInv, NEW w \in Workers, NEW f, call' = [call EXCEPT ![w] = f], f.at # "load"
    PROVE  Taken' = Taken \ {w}
<1>1. \A v \in Workers : call'[v] = IF v = w THEN f ELSE call[v]
    BY DEF IInv, Calls
<1> QED
    BY <1>1 DEF Taken

\* A statement that reports nothing and gives nothing back.
LEMMA Silent ==
    ASSUME IInv, MInv, NEW w \in Workers, NEW f, call' = [call EXCEPT ![w] = f], Pending(f),
           f.done = call[w].done, call[w].at # "load", f.at # "load",
           In("inflight")' = In("inflight"), IsFiniteSet(DOMAIN rows'),
           UNCHANGED <<events, reported, exact>>
    PROVE  MInv'
<1>1. AllPending'
    BY PendingMoves DEF MInv
<1>2. Taken' = Taken
    <2>1. w \notin Taken
        BY DEF Taken
    <2> QED
        BY <2>1, TakenMoves
<1>3. UNCHANGED Unreported
    <2>1. \A v \in Workers : call'[v] = IF v = w THEN f ELSE call[v]
        BY DEF IInv, Calls
    <2>2. \A v \in Workers : call'[v].done = call[v].done
        BY <2>1
    <2> QED
        BY <2>2 DEF Unreported
<1>4. MetricsAddUp'
    BY <1>2, <1>3, TotalStays, MetricsAre, MetricsAreNext DEF MInv
<1> QED
    BY <1>1, <1>4 DEF MInv

\* A statement of w after which k more are to be reported.
LEMMA Balance ==
    ASSUME IInv, MInv, IsFiniteSet(Workers), NEW w \in Workers, NEW k \in Int,
           Unreported' = [Unreported EXCEPT ![w] = @ + k],
           exact' => /\ exact
                     /\ Cardinality(In("inflight")') + k - reported' - Cardinality(Taken')
                          = Cardinality(In("inflight")) - reported - Cardinality(Taken),
           reported' \in Int, Cardinality(In("inflight")') \in Int, Cardinality(Taken') \in Int
    PROVE  MetricsAddUp'
<1>1. /\ Cardinality(In("inflight")) \in Nat /\ Cardinality(Taken) \in Nat
      /\ Unreported \in [Workers -> Int] /\ reported \in Int
    BY Sizes DEF MInv
<1>2. Total \in Int /\ Total' = Total + k
    BY <1>1, TotalChanges
<1>3. exact => Cardinality(In("inflight")) + Total = reported + Cardinality(Taken)
    BY MetricsAre DEF MInv
<1>4. PICK n \in Int, m \in Int, t \in Int, u \in Int, r \in Int, q \in Int, s \in Int :
          /\ n = Cardinality(In("inflight")) /\ m = Cardinality(In("inflight")')
          /\ t = Cardinality(Taken) /\ u = Cardinality(Taken')
          /\ r = reported /\ q = reported' /\ s = Total
    BY <1>1, <1>2
<1>5. ASSUME exact' PROVE m + (s + k) = q + u
    <2>1. m + k - q - u = n - r - t
        BY <1>4, <1>5
    <2>2. n + s = r + t
        BY <1>3, <1>4, <1>5
    <2> QED
        BY <2>1, <2>2
<1> QED
    BY <1>2, <1>4, <1>5, MetricsAreNext

LEMMA UnreportedMoves ==
    ASSUME IInv, NEW w \in Workers, NEW f, f.done \in Int, call' = [call EXCEPT ![w] = f],
           NEW n \in Int, events' = [events EXCEPT ![w] = n],
           NEW k \in Int, k = n + f.done - events[w] - call[w].done
    PROVE  Unreported' = [Unreported EXCEPT ![w] = @ + k]
<1>1. /\ \A v \in Workers : call'[v] = IF v = w THEN f ELSE call[v]
      /\ \A v \in Workers : events'[v] = IF v = w THEN n ELSE events[v]
    BY DEF IInv, Calls, Counters
<1>2. events[w] \in Int /\ call[w].done \in Int
    BY CallOf, FrameParts DEF IInv, Counters
<1>3. Unreported[w] = events[w] + call[w].done /\ Unreported'[w] = n + f.done
    BY <1>1 DEF Unreported
<1>4. \A v \in Workers \ {w} : Unreported'[v] = Unreported[v]
    BY <1>1 DEF Unreported
<1>5. Unreported'[w] = Unreported[w] + k
    BY <1>2, <1>3
<1>6. Unreported' = [v \in Workers |-> Unreported'[v]]
      /\ Unreported = [v \in Workers |-> Unreported[v]]
    BY DEF Unreported
<1> QED
    BY <1>4, <1>5, <1>6

\* A call returns, having claimed and ended what it reports.
LEMMA AnswerMetrics ==
    ASSUME IInv, MInv, IsFiniteSet(Workers), NEW w \in Workers, NEW claimed \in Int,
           NEW ended \in Int, Return(w, claimed, ended), IsFiniteSet(DOMAIN rows'),
           NEW gone \in Int,
           Cardinality(In("inflight")') = Cardinality(In("inflight")) - gone,
           claimed + gone + call[w].done = ended + IF w \in Taken THEN 1 ELSE 0
    PROVE  MInv'
<1>1. /\ call' = [call EXCEPT ![w] = Idle] /\ events' = [events EXCEPT ![w] = 0]
      /\ UNCHANGED exact
      /\ exact => reported' = reported + claimed - ended - events[w]
      /\ Idle.done = 0 /\ Idle.at = "idle"
    BY IdleFrame DEF Return, Report
<1>2. AllPending'
    <2>1. Pending(Idle)
        BY IdleFrame DEF Pending
    <2> QED
        BY <1>1, <2>1, PendingMoves DEF MInv
<1>3. PICK d \in Int, e \in Int : d = call[w].done /\ e = events[w]
    BY CallOf, FrameParts DEF IInv, Counters
<1> DEFINE k == 0 - e - d
<1>4. Unreported' = [Unreported EXCEPT ![w] = @ + k]
    <2>1. /\ Idle.done \in Int /\ k \in Int /\ 0 \in Int
          /\ k = 0 + Idle.done - events[w] - call[w].done
        BY <1>1, <1>3
    <2>2. call' = [call EXCEPT ![w] = Idle] /\ events' = [events EXCEPT ![w] = 0]
        BY <1>1
    <2> HIDE DEF k
    <2> QED
        BY ONLY IInv, w \in Workers, <2>1, <2>2, UnreportedMoves, Zenon
<1>5. PICK n \in Int, t \in Int, r \in Int, q \in Int, m \in Int, u \in Int :
          /\ n = Cardinality(In("inflight")) /\ t = Cardinality(Taken)
          /\ r = reported /\ q = reported'
          /\ m = Cardinality(In("inflight")') /\ u = Cardinality(Taken')
          /\ m = n - gone /\ u = t - (IF w \in Taken THEN 1 ELSE 0)
    <2>1. Taken' = Taken \ {w}
        BY <1>1, TakenMoves
    <2>2. /\ IsFiniteSet(Taken) /\ Cardinality(Taken) \in Nat
          /\ Cardinality(In("inflight")) \in Nat /\ reported \in Int
        BY Sizes DEF MInv
    <2>3. Cardinality(Taken') = Cardinality(Taken) - (IF w \in Taken THEN 1 ELSE 0)
        <3>1. CASE w \in Taken
            BY <2>1, <2>2, <3>1, FS_RemoveElement
        <3>2. CASE w \notin Taken
            <4>1. Taken' = Taken
                BY <2>1, <3>2
            <4> QED
                BY <2>2, <3>2, <4>1
        <3> QED
            BY <3>1, <3>2
    <2>4. reported' \in Int
        BY Reported DEF Return, IInv
    <2> QED
        BY <2>2, <2>3, <2>4
<1>6. exact' => exact /\ m + k - q - u = n - r - t
    <2> SUFFICES ASSUME exact' PROVE exact /\ m + k - q - u = n - r - t
        OBVIOUS
    <2>1. exact /\ q = r + claimed - ended - e
        BY <1>1, <1>3, <1>5
    <2>2. claimed + gone + d = ended + (t - u)
        BY <1>3, <1>5
    <2> QED
        BY <1>5, <2>1, <2>2
<1>7. k \in Int
    OBVIOUS
<1>8. MetricsAddUp'
    <2>1. exact' =>
              /\ exact
              /\ Cardinality(In("inflight")') + k - reported' - Cardinality(Taken')
                   = Cardinality(In("inflight")) - reported - Cardinality(Taken)
        BY <1>5, <1>6
    <2>2. /\ reported' \in Int /\ Cardinality(In("inflight")') \in Int
          /\ Cardinality(Taken') \in Int
        BY <1>5
    <2> HIDE DEF k
    <2> QED
        BY ONLY IInv, MInv, IsFiniteSet(Workers), w \in Workers, <1>4, <1>7, <2>1, <2>2, Balance,
           Zenon
<1> QED
    BY <1>2, <1>8 DEF MInv

LEMMA InflightStays ==
    ASSUME UNCHANGED rows
    PROVE  In("inflight")' = In("inflight") /\ DOMAIN rows' = DOMAIN rows
BY DEF In

LEMMA RefusalMetrics ==
    ASSUME IInv, MInv, IsFiniteSet(Workers), NEW w \in Workers, Return(w, 0, 0), UNCHANGED rows,
           call[w].done = 0, w \notin Taken
    PROVE  MInv'
<1>1. /\ 0 \in Int /\ Return(w, 0, 0) /\ IsFiniteSet(DOMAIN rows')
      /\ Cardinality(In("inflight")') = Cardinality(In("inflight")) - 0
    BY InflightStays, Sizes DEF MInv
<1>2. 0 + 0 + call[w].done = 0 + IF w \in Taken THEN 1 ELSE 0
    OBVIOUS
<1> QED
    BY ONLY IInv, MInv, IsFiniteSet(Workers), w \in Workers, <1>1, <1>2, AnswerMetrics, Zenon

\* Where nothing is pending.
LEMMA NonePending ==
    ASSUME MInv, NEW w \in Workers,
           call[w].at \in {"idle", "paused", "claim", "load", "scope", "read"}
           \/ call[w].op = "enqueue"
    PROVE  call[w].done = 0
BY DEF MInv, AllPending, Pending

LEMMA BeginMetrics ==
    ASSUME IInv, MInv, NEW w \in Workers, NEW f, Begin(w, f), Pending(f), f.done = 0,
           f.at # "load", UNCHANGED <<rows, events, reported, exact>>
    PROVE  MInv'
<1>1. call[w].at = "idle" /\ call' = [call EXCEPT ![w] = f]
    BY DEF Begin, At
<1>2. call[w].done = 0
    BY <1>1, NonePending
<1>3. In("inflight")' = In("inflight") /\ IsFiniteSet(DOMAIN rows')
    BY InflightStays DEF MInv
<1> QED
    BY <1>1, <1>2, <1>3, Silent

LEMMA LoopPending ==
    ASSUME NEW op, NEW ids
    PROVE  LET f == Loop(op, ids) IN
           /\ f.op = op /\ f.at = "loop" /\ f.todo = ids /\ f.done = 0
           /\ op \notin {"requeue", "enqueue"} => Pending(f)
<1>1. LET f == Loop(op, ids) IN f.op = op /\ f.at = "loop" /\ f.todo = ids /\ f.done = 0
    BY DEF Loop, Idle
<1> DEFINE f == Loop(op, ids)
<1> HIDE DEF f
<1>2. ASSUME f.op = op, f.at = "loop", op \notin {"requeue", "enqueue"} PROVE Pending(f)
    BY <1>2 DEF Pending
<1> QED
    BY <1>1, <1>2 DEF f

LEMMA BeginsMetrics ==
    ASSUME IInv, MInv, NEW w \in Workers,
           \/ TakeReady(w) \/ ReleaseInflight(w) \/ ReleaseScope(w)
           \/ \E op \in Refreshing : Read(w, op)
    PROVE  MInv'
<1>1. UNCHANGED <<rows, events, reported, exact>>
    BY DEF TakeReady, ReleaseInflight, ReleaseScope, Read, tableVars, reportVars
<1>2. PICK op, ids :
          /\ op \in {"take", "release_inflight", "release_scope"} \cup Refreshing
          /\ Begin(w, Loop(op, ids))
    BY DEF TakeReady, ReleaseInflight, ReleaseScope, Read
<1>3. op \notin {"requeue", "enqueue"}
    BY <1>2 DEF Refreshing
<1>4. LET f == Loop(op, ids) IN Pending(f) /\ f.at # "load" /\ f.done = 0
    BY <1>3, LoopPending
<1> QED
    BY <1>1, <1>2, <1>4, BeginMetrics

LEMMA EnqueueMetrics ==
    ASSUME IInv, MInv, NEW w \in Workers, NEW id \in Ids, Enqueue(w, id)
    PROVE  MInv'
<1> DEFINE f == [Idle EXCEPT !.op = "enqueue", !.at = "reserved", !.id = id]
<1>1. f.done = 0 /\ f.op = "enqueue" /\ f.at = "reserved"
    BY DEF Idle
<1>2. Begin(w, f) /\ UNCHANGED <<rows, events, reported, exact>>
    BY DEF Enqueue, reportVars
<1> HIDE DEF f
<1>3. Pending(f)
    BY <1>1 DEF Pending
<1> QED
    BY <1>1, <1>2, <1>3, BeginMetrics

LEMMA RequeueMetrics ==
    ASSUME IInv, MInv, IsFiniteSet(Workers), NEW w \in Workers, NEW claim \in held[w],
           Requeue(w, claim[1], claim[2])
    PROVE  MInv'
<1>1. UNCHANGED rows /\ call[w].at = "idle"
    BY DEF Requeue, tableVars, Begin, At
<1>2. CASE Refuse(w, claim[1], claim[2])
    <2>1. call[w].done = 0 /\ w \notin Taken
        BY <1>1, NonePending DEF Taken
    <2> QED
        BY <1>1, <1>2, <2>1, RefusalMetrics DEF Refuse
<1>3. CASE /\ Begin(w, [Loop("requeue", {claim[1]}) EXCEPT !.lease = claim[2]])
           /\ UNCHANGED <<held, reportVars>>
    <2> DEFINE g == Loop("requeue", {claim[1]})
               f == [g EXCEPT !.lease = claim[2]]
    <2>1. g.op = "requeue" /\ g.at = "loop" /\ g.todo = {claim[1]} /\ g.done = 0
        BY LoopPending
    <2>2. f.op = "requeue" /\ f.at = "loop" /\ f.todo = {claim[1]} /\ f.done = 0
        BY <2>1 DEF Loop, Idle
    <2>3. Begin(w, f) /\ UNCHANGED <<rows, events, reported, exact>>
        BY <1>1, <1>3 DEF reportVars
    <2> HIDE DEF f
    <2>4. Pending(f)
        BY <2>2 DEF Pending
    <2> QED
        BY <2>2, <2>3, <2>4, BeginMetrics
<1> QED
    BY <1>2, <1>3 DEF Requeue

LEMMA PendingOf ==
    ASSUME IInv, MInv, NEW w \in Workers
    PROVE  Pending(call[w]) /\ call[w] \in Frame /\ FrameOK(call[w])
BY CallOf DEF MInv, AllPending

\* A call goes on to its next statement, with the rows as they are.
LEMMA OnMetrics ==
    ASSUME IInv, MInv, NEW w \in Workers, NEW f, call' = [call EXCEPT ![w] = f], Pending(f),
           f.done = call[w].done, call[w].at # "load", f.at # "load",
           UNCHANGED <<rows, events, reported, exact>>
    PROVE  MInv'
<1>1. In("inflight")' = In("inflight") /\ IsFiniteSet(DOMAIN rows')
    BY InflightStays DEF MInv
<1> QED
    BY <1>1, Silent

LEMMA ReadSequenceMetrics ==
    ASSUME IInv, MInv, NEW w \in Workers, ReadSequence(w)
    PROVE  MInv'
<1> DEFINE f == [call[w] EXCEPT !.at = "write", !.sequence = next_sequence]
<1>1. call' = [call EXCEPT ![w] = f] /\ call[w].at = "reserved"
    BY CallOf DEF ReadSequence, At
<1>2. /\ f.at = "write" /\ f.op = call[w].op /\ f.todo = call[w].todo
      /\ f.done = call[w].done
    BY CallOf DEF Frame
<1> HIDE DEF f
<1>3. Pending(f)
    BY <1>1, <1>2, PendingOf DEF Pending
<1>4. UNCHANGED <<rows, events, reported, exact>>
    BY DEF ReadSequence, tableVars, reportVars
<1> QED
    BY <1>1, <1>2, <1>3, <1>4, OnMetrics

LEMMA NextRowMetrics ==
    ASSUME IInv, MInv, NEW w \in Workers, NEW id \in Ids, NextRow(w, id)
    PROVE  MInv'
<1> DEFINE f == [call[w] EXCEPT !.at = "reserved", !.id = id, !.todo = @ \ {id},
                                !.state = StateFor(id)]
<1>1. call' = [call EXCEPT ![w] = f] /\ call[w].at = "loop" /\ id \in call[w].todo
    BY DEF NextRow, At
<1>2. /\ f.at = "reserved" /\ f.op = call[w].op /\ f.todo = call[w].todo \ {id}
      /\ f.done = call[w].done
    BY CallOf DEF Frame
<1> HIDE DEF f
<1>3. Pending(f)
    <2>1. Pending(call[w]) /\ call[w].op # "enqueue"
        BY <1>1, PendingOf DEF FrameOK
    <2>2. call[w].op = "requeue" => call[w].done = 0 /\ call[w].todo \ {id} = {}
        BY <1>1, <2>1 DEF Pending
    <2> QED
        BY <1>2, <2>1, <2>2 DEF Pending
<1>4. UNCHANGED <<rows, events, reported, exact>>
    BY DEF NextRow, reportVars
<1> QED
    BY <1>1, <1>2, <1>3, <1>4, OnMetrics

LEMMA ReadNextMetrics ==
    ASSUME IInv, MInv, NEW w \in Workers, ReadNext(w)
    PROVE  MInv'
<1> DEFINE what == Append(call[w].found, Select(Selects(call[w].op)[Len(call[w].found) + 1]))
           f == [call[w] EXCEPT !.found = what]
<1>1. call' = [call EXCEPT ![w] = f] /\ call[w].at = "read"
    BY DEF ReadNext, At
<1> HIDE DEF what
<1>2. f.at = "read" /\ f.op = call[w].op /\ f.todo = call[w].todo /\ f.done = call[w].done
    BY <1>1, CallOf DEF Frame
<1> HIDE DEF f
<1>3. Pending(f)
    BY <1>1, <1>2, PendingOf DEF Pending
<1>4. UNCHANGED <<rows, events, reported, exact>>
    BY DEF ReadNext, tableVars, reportVars
<1> QED
    BY <1>1, <1>2, <1>3, <1>4, OnMetrics

LEMMA ReadPausedMetrics ==
    ASSUME IInv, MInv, IsFiniteSet(Workers), NEW w \in Workers, ReadPaused(w)
    PROVE  MInv'
<1>1. UNCHANGED rows /\ call[w].at = "paused"
    BY DEF ReadPaused, tableVars, At
<1>2. CASE Return(w, 0, 0)
    <2>1. call[w].done = 0 /\ w \notin Taken
        BY <1>1, NonePending DEF Taken
    <2> QED
        BY <1>1, <1>2, <2>1, RefusalMetrics
<1>3. CASE call' = [call EXCEPT ![w].at = "claim"] /\ UNCHANGED reportVars
    <2> DEFINE f == [call[w] EXCEPT !.at = "claim"]
    <2>1. call' = [call EXCEPT ![w] = f]
        BY <1>3
    <2>2. f.at = "claim" /\ f.op = call[w].op /\ f.todo = call[w].todo /\ f.done = call[w].done
        BY CallOf DEF Frame
    <2> HIDE DEF f
    <2>3. Pending(f)
        BY <1>1, <2>2, PendingOf DEF Pending
    <2>4. UNCHANGED <<rows, events, reported, exact>>
        BY <1>1, <1>3 DEF reportVars
    <2> QED
        BY <1>1, <2>1, <2>2, <2>3, <2>4, OnMetrics
<1> QED
    BY <1>2, <1>3 DEF ReadPaused

\* Calls that return and have nothing to report.
LEMMA ReturnsMetrics ==
    ASSUME IInv, MInv, IsFiniteSet(Workers), NEW w \in Workers,
           ClaimNothing(w) \/ PurgeScope(w) \/ EndRead(w)
    PROVE  MInv'
<1>1. UNCHANGED rows /\ Return(w, 0, 0) /\ call[w].at \in {"claim", "scope", "read"}
    BY DEF ClaimNothing, PurgeScope, EndRead, At, Answered, tableVars
<1>2. call[w].done = 0 /\ w \notin Taken
    BY <1>1, NonePending DEF Taken
<1> QED
    BY <1>1, <1>2, RefusalMetrics

\* What a release or a requeue gave back is reported when it returns.
LEMMA EndReleaseMetrics ==
    ASSUME IInv, MInv, IsFiniteSet(Workers), NEW w \in Workers, EndRelease(w)
    PROVE  MInv'
<1>1. UNCHANGED rows /\ Return(w, 0, call[w].done) /\ call[w].at = "loop"
    BY DEF EndRelease, At, tableVars
<1>2. call[w].done \in Nat
    BY CallOf, FrameParts
<1>3. /\ IsFiniteSet(DOMAIN rows') /\ Cardinality(In("inflight")) \in Nat
      /\ Cardinality(In("inflight")') = Cardinality(In("inflight")) - 0
    BY <1>1, InflightStays, Sizes DEF MInv
<1>4. 0 + 0 + call[w].done = call[w].done + IF w \in Taken THEN 1 ELSE 0
    BY <1>1, <1>2 DEF Taken
<1>5. PICK d \in Int : d = call[w].done
    BY <1>2
<1>6. Return(w, 0, d) /\ 0 \in Int /\ 0 + 0 + call[w].done = d + IF w \in Taken THEN 1 ELSE 0
    BY <1>1, <1>4, <1>5 DEF Return, Report
<1> QED
    BY ONLY IInv, MInv, IsFiniteSet(Workers), w \in Workers, d \in Int, <1>3, <1>6, AnswerMetrics,
       Zenon

\* A claim is reported when its task has been read; if there is none, the metrics are
\* no longer exact.
LEMMA LoadClaimedMetrics ==
    ASSUME IInv, MInv, IsFiniteSet(Workers), NEW w \in Workers, LoadClaimed(w)
    PROVE  MInv'
<1>1. UNCHANGED rows /\ call[w].at = "load" /\ call[w].op = "take"
    BY CallOf DEF LoadClaimed, At, tableVars, FrameOK
<1>2. call[w].done = 0 /\ w \in Taken
    BY <1>1, NonePending DEF Taken
<1>3. /\ IsFiniteSet(DOMAIN rows') /\ Cardinality(In("inflight")) \in Nat
      /\ Cardinality(In("inflight")') = Cardinality(In("inflight")) - 0
    BY <1>1, InflightStays, Sizes DEF MInv
<1>4. CASE Return(w, 1, 0)
    <2>1. /\ 0 \in Int /\ 1 \in Int
          /\ 1 + 0 + call[w].done = 0 + IF w \in Taken THEN 1 ELSE 0
        BY <1>2
    <2> QED
        BY ONLY IInv, MInv, IsFiniteSet(Workers), w \in Workers, <1>3, <1>4, <2>1, AnswerMetrics,
           Zenon
<1>5. CASE call' = [call EXCEPT ![w] = Idle] /\ Escapes(TRUE)
    <2>1. AllPending'
        <3>1. Pending(Idle)
            BY IdleFrame DEF Pending
        <3> QED
            BY <1>5, <3>1, PendingMoves DEF MInv
    <2>2. ~exact'
        BY <1>5 DEF Escapes
    <2>3. MetricsAddUp'
        BY <2>2, Zenon DEF MetricsAddUp
    <2> QED
        BY <1>3, <2>1, <2>3 DEF MInv
<1> QED
    BY <1>4, <1>5 DEF LoadClaimed

LEMMA InsertTaskMetrics ==
    ASSUME IInv, MInv, IsFiniteSet(Workers), NEW w \in Workers, InsertTask(w)
    PROVE  MInv'
<1>1. /\ call[w].op = "enqueue" /\ call[w].at = "write" /\ Return(w, 0, 0)
      /\ rows' = Put(rows, Field(call[w].id, NewRow(call[w].id, call[w].sequence)))
    BY DEF InsertTask, At
<1>2. PICK id, row : id = call[w].id /\ row = NewRow(id, call[w].sequence)
    OBVIOUS
<1>3. /\ DOMAIN rows' = DOMAIN rows \cup {id} /\ rows'[id] = row
      /\ \A i \in DOMAIN rows : i # id => rows'[i] = rows[i]
    BY <1>1, <1>2 DEF Put, Field
<1>4. row.state # "inflight" /\ id \notin DOMAIN rows
    BY <1>1, <1>2 DEF NewRow, StateFor, IInv, Arrivals
<1>5. In("inflight")' = In("inflight")
    BY <1>3, <1>4 DEF In
<1>6. IsFiniteSet(DOMAIN rows')
    BY <1>3, FS_AddElement DEF MInv
<1>7. call[w].done = 0 /\ w \notin Taken
    BY <1>1, NonePending DEF Taken
<1>8. Cardinality(In("inflight")') = Cardinality(In("inflight")) - 0
    BY <1>5, Sizes DEF MInv
<1>9. 0 \in Int /\ Return(w, 0, 0) /\ 0 + 0 + call[w].done = 0 + IF w \in Taken THEN 1 ELSE 0
    BY <1>1, <1>7
<1> QED
    BY ONLY IInv, MInv, IsFiniteSet(Workers), w \in Workers, <1>6, <1>8, <1>9, AnswerMetrics, Zenon

\* The row at hand is given back: one lease less, one more to report.
LEMMA GiveBackMetrics ==
    ASSUME IInv, MInv, IsFiniteSet(Workers), NEW w \in Workers,
           call[w].at = "write", call[w].op # "enqueue", call[w].id \in In("inflight"),
           rows' = [rows EXCEPT ![call[w].id] = Returned(@, call[w].state, call[w].sequence)],
           call' = [call EXCEPT ![w] = NextOf(call[w], 1)],
           UNCHANGED <<events, reported, exact>>
    PROVE  MInv'
<1>1. call[w] \in Frame /\ call[w].state \in {"ready", "delayed"} /\ call[w].done \in Nat
    BY CallOf, FrameParts DEF FrameOK
<1>2. PICK id : id = call[w].id /\ id \in In("inflight") /\ id \in DOMAIN rows
    BY DEF In
<1>3. /\ DOMAIN rows' = DOMAIN rows /\ rows'[id].state # "inflight"
      /\ \A i \in DOMAIN rows \ {id} : rows'[i] = rows[i]
    <2>1. rows[id] \in Row
        BY <1>2 DEF IInv, RowsOK
    <2>2. PICK row : row = Returned(rows[id], call[w].state, call[w].sequence)
        OBVIOUS
    <2>3. row.state # "inflight"
        BY <1>1, <2>1, <2>2 DEF Returned, Row
    <2>4. rows' = [rows EXCEPT ![id] = row]
        BY <1>2, <2>2
    <2> QED
        BY <1>2, <2>3, <2>4
<1>4. In("inflight")' = In("inflight") \ {id}
    BY <1>2, <1>3 DEF In
<1>5. /\ Cardinality(In("inflight")) \in Nat /\ Cardinality(Taken) \in Nat /\ reported \in Int
      /\ Cardinality(In("inflight")') = Cardinality(In("inflight")) - 1
    <2>1. /\ IsFiniteSet(In("inflight")) /\ Cardinality(In("inflight")) \in Nat
          /\ Cardinality(Taken) \in Nat /\ reported \in Int
        BY Sizes DEF MInv
    <2> QED
        BY <1>2, <1>4, <2>1, FS_RemoveElement
<1> DEFINE f == NextOf(call[w], 1)
<1>6. f.op = call[w].op /\ f.at = "loop" /\ f.todo = call[w].todo /\ f.done = call[w].done + 1
    BY DEF NextOf, Idle
<1> HIDE DEF f
<1>7. AllPending'
    <2>1. Pending(f)
        <3>1. Pending(call[w])
            BY PendingOf
        <3>2. call[w].op = "requeue" => call[w].todo = {}
            BY <3>1 DEF Pending
        <3> QED
            BY <1>6, <3>2 DEF Pending
    <2>2. call' = [call EXCEPT ![w] = f]
        BY DEF f
    <2> QED
        BY <2>1, <2>2, PendingMoves DEF MInv
<1>8. Taken' = Taken
    <2>1. w \notin Taken
        BY DEF Taken
    <2>2. call' = [call EXCEPT ![w] = f]
        BY DEF f
    <2>3. Taken' = Taken \ {w}
        <3>1. f.at # "load"
            BY <1>6
        <3> QED
            BY ONLY IInv, w \in Workers, <2>2, <3>1, TakenMoves
    <2> QED
        BY <2>1, <2>3
<1>9. Unreported' = [Unreported EXCEPT ![w] = @ + 1]
    <2>1. events[w] \in Int /\ events' = [events EXCEPT ![w] = events[w]]
        BY DEF IInv, Counters
    <2>2. f.done \in Int /\ 1 \in Int /\ 1 = events[w] + f.done - events[w] - call[w].done
        BY <1>1, <1>6, <2>1
    <2>3. call' = [call EXCEPT ![w] = f]
        BY DEF f
    <2> QED
        BY ONLY IInv, w \in Workers, <2>1, <2>2, <2>3, UnreportedMoves, Zenon
<1>10. exact' => /\ exact
                 /\ Cardinality(In("inflight")') + 1 - reported' - Cardinality(Taken')
                      = Cardinality(In("inflight")) - reported - Cardinality(Taken)
    <2>1. PICK n \in Int, t \in Int, r \in Int :
              n = Cardinality(In("inflight")) /\ t = Cardinality(Taken) /\ r = reported
        BY <1>5
    <2>2. (n - 1) + 1 - r - t = n - r - t
        OBVIOUS
    <2> QED
        BY <1>5, <1>8, <2>1, <2>2
<1>11. MetricsAddUp'
    <2>1. /\ 1 \in Int /\ reported' \in Int /\ Cardinality(In("inflight")') \in Int
          /\ Cardinality(Taken') \in Int
        BY <1>5, <1>8
    <2> QED
        BY ONLY IInv, MInv, IsFiniteSet(Workers), w \in Workers, <1>9, <1>10, <2>1, Balance, Zenon
<1>12. IsFiniteSet(DOMAIN rows')
    BY <1>3 DEF MInv
<1> QED
    BY <1>7, <1>11, <1>12 DEF MInv

LEMMA WriteRowMetrics ==
    ASSUME IInv, MInv, IsFiniteSet(Workers), NEW w \in Workers, WriteRow(w)
    PROVE  MInv'
<1>1. /\ call[w] \in Frame /\ Pending(call[w]) /\ call[w].at = "write"
      /\ call[w].op # "enqueue"
    BY PendingOf DEF WriteRow, At
<1>2. CASE /\ MayReturn(w, call[w].id)
           /\ rows' = [rows EXCEPT ![call[w].id] = Returned(@, call[w].state, call[w].sequence)]
           /\ call' = [call EXCEPT ![w] = NextOf(call[w], 1)]
           /\ UNCHANGED <<held, reportVars>>
    <2>1. call[w].id \in In("inflight")
        BY <1>2 DEF MayReturn, LeaseHolds, Owns
    <2>2. UNCHANGED <<events, reported, exact>>
        BY <1>2 DEF reportVars
    <2> QED
        BY <1>1, <1>2, <2>1, <2>2, GiveBackMetrics
<1>3. CASE /\ call' = [call EXCEPT ![w] = NextOf(call[w], 0)] /\ call[w].op # "requeue"
           /\ UNCHANGED <<rows, held, reportVars>>
    <2> DEFINE f == NextOf(call[w], 0)
    <2>1. call[w].done \in Nat
        BY <1>1, FrameParts
    <2>2. f.op = call[w].op /\ f.at = "loop" /\ f.done = call[w].done
        BY <2>1 DEF NextOf, Idle
    <2>3. call' = [call EXCEPT ![w] = f] /\ UNCHANGED <<rows, events, reported, exact>>
        BY <1>3 DEF reportVars
    <2> HIDE DEF f
    <2>4. Pending(f)
        BY <1>1, <1>3, <2>2 DEF Pending
    <2> QED
        BY <1>1, <2>2, <2>3, <2>4, OnMetrics
<1>4. CASE Refuse(w, call[w].id, call[w].lease) /\ UNCHANGED rows /\ call[w].op = "requeue"
    <2>1. call[w].done = 0 /\ w \notin Taken
        BY <1>1, <1>4 DEF Pending, Taken
    <2> QED
        BY <1>4, <2>1, RefusalMetrics DEF Refuse
<1> QED
    BY <1>2, <1>3, <1>4 DEF WriteRow

LEMMA EvenMetrics ==
    ASSUME MInv, AllPending', IsFiniteSet(DOMAIN rows'), UNCHANGED Unreported,
           exact' => /\ exact /\ In("inflight")' = In("inflight")
                     /\ Taken' = Taken /\ reported' = reported
    PROVE  MInv'
<1>1. MetricsAddUp'
    BY TotalStays, MetricsAre, MetricsAreNext DEF MInv
<1> QED
    BY <1>1 DEF MInv

\* What was reclaimed becomes an event, and promoted rows have no lease.
LEMMA PromoteDelayedMetrics ==
    ASSUME IInv, MInv, NEW w \in Workers, PromoteDelayed(w)
    PROVE  MInv'
<1>1. /\ call[w].at = "loop" /\ events' = [events EXCEPT ![w] = @ + call[w].done]
      /\ UNCHANGED <<reported, exact>>
    BY DEF PromoteDelayed, At
<1>2. /\ DOMAIN rows' = DOMAIN rows
      /\ \A id \in DOMAIN rows :
            \/ rows'[id] = rows[id]
            \/ rows[id].state = "delayed" /\ rows'[id] = [rows[id] EXCEPT !.state = "ready"]
    BY DEF PromoteDelayed, In
<1>3. In("inflight")' = In("inflight")
    <2>1. ASSUME NEW id \in DOMAIN rows
          PROVE  rows'[id].state = "inflight" <=> rows[id].state = "inflight"
        <3>1. rows[id] \in Row
            BY DEF IInv, RowsOK
        <3>2. [rows[id] EXCEPT !.state = "ready"].state = "ready"
            BY <3>1 DEF Row
        <3> QED
            BY <1>2, <3>2
    <2> QED
        BY <1>2, <2>1 DEF In
<1>4. PICK f : /\ f.at \in {"paused", "read"} /\ f.op = call[w].op /\ f.done = 0
               /\ call' = [call EXCEPT ![w] = f]
    <2>1. CASE call[w].op = "take"
        <3> DEFINE f == [Idle EXCEPT !.op = call[w].op, !.at = "paused"]
        <3>1. f.at = "paused" /\ f.op = call[w].op /\ f.done = 0
            BY DEF Idle
        <3>2. call' = [call EXCEPT ![w] = f]
            BY <2>1 DEF PromoteDelayed
        <3> HIDE DEF f
        <3> QED
            BY <3>1, <3>2
    <2>2. CASE call[w].op # "take"
        <3> DEFINE seen == Places(rows')
                   f == [Idle EXCEPT !.op = call[w].op, !.at = "read", !.seen = seen]
        <3>1. call' = [call EXCEPT ![w] = f]
            BY <2>2 DEF PromoteDelayed
        <3> HIDE DEF seen
        <3>2. f.at = "read" /\ f.op = call[w].op /\ f.done = 0
            BY DEF Idle
        <3> HIDE DEF f
        <3> QED
            BY <3>1, <3>2
    <2> QED
        BY <2>1, <2>2
<1>5. AllPending'
    <2>1. f.op \in Refreshing \cup {"take"}
        BY <1>4 DEF PromoteDelayed, Reclaiming
    <2>2. Pending(f)
        BY <1>4, <2>1 DEF Pending, Refreshing
    <2> QED
        BY <1>4, <2>2, PendingMoves DEF MInv
<1>6. Taken' = Taken
    <2>1. w \notin Taken
        BY <1>1 DEF Taken
    <2>2. Taken' = Taken \ {w}
        BY <1>4, TakenMoves
    <2> QED
        BY <2>1, <2>2
<1>7. UNCHANGED Unreported
    <2>1. /\ \A v \in Workers : call'[v] = IF v = w THEN f ELSE call[v]
          /\ \A v \in Workers : events'[v] = IF v = w THEN events[w] + call[w].done ELSE events[v]
        BY <1>1, <1>4 DEF IInv, Calls, Counters
    <2>2. events[w] \in Int /\ call[w].done \in Int
        BY CallOf, FrameParts DEF IInv, Counters
    <2>3. \A v \in Workers : events'[v] + call'[v].done = events[v] + call[v].done
        BY <1>4, <2>1, <2>2
    <2> QED
        BY <2>3 DEF Unreported
<1>8. IsFiniteSet(DOMAIN rows')
    BY <1>2 DEF MInv
<1> QED
    BY <1>1, <1>3, <1>5, <1>6, <1>7, <1>8, EvenMetrics

\* A claim: one lease more, of a process that has yet to read its task.
LEMMA ClaimReadyMetrics ==
    ASSUME IInv, MInv, IsFiniteSet(Workers), NEW w \in Workers, NEW id \in Ids, ClaimReady(w, id)
    PROVE  MInv'
<1>1. /\ call[w] \in Frame /\ FrameOK(call[w]) /\ call[w].at = "claim" /\ call[w].op = "take"
      /\ id \in DOMAIN rows /\ rows[id] \in Row /\ rows[id].state = "ready"
      /\ UNCHANGED <<events, reported, exact>>
    BY CallOf DEF ClaimReady, At, FrameOK, FirstReady, In, IInv, RowsOK, reportVars
<1>2. /\ DOMAIN rows' = DOMAIN rows /\ rows'[id].state = "inflight"
      /\ \A i \in DOMAIN rows \ {id} : rows'[i] = rows[i]
    <2> DEFINE row == [rows[id] EXCEPT !.state = "inflight", !.worker = w, !.lease = granted',
                                       !.deadline = now + LeaseTimeout]
    <2>1. rows' = [rows EXCEPT ![id] = row]
        BY <1>1 DEF ClaimReady
    <2>2. row.state = "inflight"
        BY <1>1 DEF Row
    <2> HIDE DEF row
    <2> QED
        BY <1>1, <2>1, <2>2 DEF IInv, RowsOK
<1>3. In("inflight")' = In("inflight") \cup {id} /\ id \notin In("inflight")
    BY <1>1, <1>2 DEF In
<1>4. /\ call'[w].at = "load" /\ call'[w].op = "take" /\ call'[w].todo = call[w].todo
      /\ call'[w].done = call[w].done
      /\ \A v \in Workers \ {w} : Alike(call[v], call'[v])
    <2> DEFINE f == [call[w] EXCEPT !.at = "load", !.id = id, !.lease = granted']
    <2>1. call' = [v \in Workers |-> IF v = w THEN f ELSE Touched(call[v], id)]
        BY DEF ClaimReady
    <2>2. f.at = "load" /\ f.op = "take" /\ f.todo = call[w].todo /\ f.done = call[w].done
        BY <1>1 DEF Frame
    <2> HIDE DEF f
    <2>3. ASSUME NEW v \in Workers \ {w} PROVE Alike(call[v], call'[v])
        <3>1. PICK c \in Frame : c = call[v]
            BY CallOf
        <3>2. Alike(c, Touched(c, id))
            BY TouchedFrame
        <3>3. call'[v] = Touched(c, id)
            BY <2>1, <3>1 DEF Touched
        <3> QED
            BY <3>1, <3>2, <3>3 DEF Alike
    <2>4. call'[w] = f
        BY <2>1
    <2> QED
        BY <2>2, <2>3, <2>4
<1>5. AllPending'
    <2>1. call[w].done = 0
        BY <1>1, NonePending
    <2>2. ASSUME NEW v \in Workers PROVE Pending(call'[v])
        <3>1. CASE v = w
            BY <1>4, <2>1, <3>1 DEF Pending
        <3>2. CASE v # w
            <4>1. Pending(call[v])
                BY PendingOf
            <4>2. PICK c, d : c = call[v] /\ d = call'[v]
                OBVIOUS
            <4>3. Alike(c, d) /\ Pending(c)
                BY <1>4, <3>2, <4>1, <4>2
            <4>4. Pending(d)
                BY <4>3 DEF Alike, Pending
            <4> QED
                BY <4>2, <4>4
        <3> QED
            BY <3>1, <3>2
    <2> QED
        BY <2>2 DEF AllPending, Pending
<1>6. Taken' = Taken \cup {w} /\ w \notin Taken
    BY <1>1, <1>4 DEF Taken, Alike
<1>7. UNCHANGED Unreported
    <2>1. \A v \in Workers : call'[v].done = call[v].done
        BY <1>4 DEF Alike
    <2> QED
        BY <1>1, <2>1 DEF Unreported
<1>8. /\ IsFiniteSet(In("inflight")) /\ IsFiniteSet(Taken)
      /\ Cardinality(In("inflight")) \in Nat /\ Cardinality(Taken) \in Nat
      /\ Unreported \in [Workers -> Int] /\ reported \in Int
    BY Sizes DEF MInv
<1>9. /\ Cardinality(In("inflight")') = Cardinality(In("inflight")) + 1
      /\ Cardinality(Taken') = Cardinality(Taken) + 1
    BY <1>3, <1>6, <1>8, FS_AddElement
<1>10. MetricsAddUp'
    <2>1. Unreported' = [Unreported EXCEPT ![w] = @ + 0]
        <3>1. Unreported[w] + 0 = Unreported[w]
            BY <1>8
        <3> QED
            BY <1>7, <1>8, <3>1
    <2>2. PICK n \in Int, t \in Int, r \in Int :
              n = Cardinality(In("inflight")) /\ t = Cardinality(Taken) /\ r = reported
        BY <1>8
    <2>3. (n + 1) + 0 - r - (t + 1) = n - r - t
        OBVIOUS
    <2>4. exact' => /\ exact
                    /\ Cardinality(In("inflight")') + 0 - reported' - Cardinality(Taken')
                         = Cardinality(In("inflight")) - reported - Cardinality(Taken)
        BY <1>1, <1>9, <2>2, <2>3
    <2>5. /\ 0 \in Int /\ reported' \in Int /\ Cardinality(In("inflight")') \in Int
          /\ Cardinality(Taken') \in Int
        BY <1>1, <1>8, <1>9
    <2> QED
        BY ONLY IInv, MInv, IsFiniteSet(Workers), w \in Workers, <2>1, <2>4, <2>5, Balance, Zenon
<1>11. IsFiniteSet(DOMAIN rows')
    BY <1>2 DEF MInv
<1> QED
    BY <1>5, <1>10, <1>11 DEF MInv

\* A completed task is reported as one lease less.
LEMMA CompleteMetrics ==
    ASSUME IInv, MInv, IsFiniteSet(Workers), NEW w \in Workers, NEW claim \in held[w],
           NEW follow \in {{}} \cup {{f} : f \in Ids}, Complete(w, claim[1], claim[2], follow)
    PROVE  MInv'
<1>1. call[w].at = "idle" /\ call[w].done = 0 /\ w \notin Taken
    <2>1. call[w].at = "idle"
        BY DEF Complete, At
    <2> QED
        BY <2>1, NonePending DEF Taken
<1>2. CASE LeaseHolds(w, claim[1], claim[2])
    <2>1. PICK id : id = claim[1] /\ id \in In("inflight") /\ id \in DOMAIN rows
        BY <1>2 DEF LeaseHolds, Owns, In
    <2>2. PICK added :
              /\ DOMAIN added = follow /\ \A f \in follow : added[f].state # "inflight"
              /\ rows' = Put(Del(rows, {id}), added)
        <3>1. PICK added : added = [f \in follow |-> NewRow(f, next_sequence')]
            OBVIOUS
        <3>2. rows' = Put(Del(rows, {id}), added)
            BY <1>2, <2>1, <3>1 DEF Complete, Replace
        <3>3. \A f \in follow : added[f].state # "inflight"
            BY <3>1 DEF NewRow, StateFor
        <3> QED
            BY <3>1, <3>2, <3>3
    <2>3. follow \cap DOMAIN rows = {} /\ Return(w, 0, 1)
        BY <1>2 DEF Complete, Replace, Fresh
    <2>4. /\ DOMAIN rows' = (DOMAIN rows \ {id}) \cup follow
          /\ \A i \in DOMAIN rows' : rows'[i] = IF i \in follow THEN added[i] ELSE rows[i]
        BY <2>2 DEF Put, Del
    <2>5. In("inflight")' = In("inflight") \ {id}
        <3>1. ASSUME NEW i \in DOMAIN rows'
              PROVE  rows'[i].state = "inflight" <=>
                         i \in DOMAIN rows \ {id} /\ rows[i].state = "inflight"
            <4>1. CASE i \in follow
                BY <2>2, <2>3, <2>4, <4>1
            <4>2. CASE i \notin follow
                BY <2>4, <4>2
            <4> QED
                BY <4>1, <4>2
        <3>2. DOMAIN rows \ {id} \subseteq DOMAIN rows'
            BY <2>4
        <3> QED
            BY <3>1, <3>2 DEF In
    <2>6. Cardinality(In("inflight")') = Cardinality(In("inflight")) - 1
        <3>1. IsFiniteSet(In("inflight"))
            BY Sizes DEF MInv
        <3> QED
            BY <2>1, <2>5, <3>1, FS_RemoveElement
    <2>7. IsFiniteSet(DOMAIN rows')
        <3>1. IsFiniteSet(DOMAIN rows \ {id})
            BY FS_Subset DEF MInv
        <3>2. CASE follow = {}
            BY <2>4, <3>1, <3>2
        <3>3. CASE \E f \in Ids : follow = {f}
            BY <2>4, <3>1, <3>3, FS_AddElement
        <3> QED
            BY <3>2, <3>3
    <2>8. 0 + 1 + call[w].done = 1 + IF w \in Taken THEN 1 ELSE 0
        BY <1>1
    <2>9. Return(w, 0, 1) /\ 0 \in Int /\ 1 \in Int
        BY <2>3
    <2> QED
        BY ONLY IInv, MInv, IsFiniteSet(Workers), w \in Workers, <2>6, <2>7, <2>8, <2>9,
           AnswerMetrics, Zenon
<1>3. CASE ~LeaseHolds(w, claim[1], claim[2])
    <2>1. Return(w, 0, 0) /\ UNCHANGED rows
        BY <1>3 DEF Complete, Refuse
    <2> QED
        BY <1>1, <2>1, RefusalMetrics
<1> QED
    BY <1>2, <1>3

\* An error that loses the report of a completed task leaves nothing to add up.
LEMMA UnansweredMetrics ==
    ASSUME IInv, MInv, NEW w \in Workers, NEW claim \in held[w],
           NEW follow \in {{}} \cup {{f} : f \in Ids},
           CompleteUnanswered(w, claim[1], claim[2], follow)
    PROVE  MInv'
<1>1. /\ call' = [call EXCEPT ![w] = Idle] /\ Escapes(TRUE)
      /\ rows' = Put(Del(rows, {claim[1]}), [f \in follow |-> NewRow(f, next_sequence')])
    BY DEF CompleteUnanswered, Replace
<1>2. AllPending'
    <2>1. Pending(Idle)
        BY IdleFrame DEF Pending
    <2> QED
        BY <1>1, <2>1, PendingMoves DEF MInv
<1>3. IsFiniteSet(DOMAIN rows')
    <2>1. DOMAIN rows' = (DOMAIN rows \ {claim[1]}) \cup follow
        BY <1>1 DEF Put, Del
    <2>2. IsFiniteSet(DOMAIN rows \ {claim[1]})
        BY FS_Subset DEF MInv
    <2>3. CASE follow = {}
        BY <2>1, <2>2, <2>3
    <2>4. CASE \E f \in Ids : follow = {f}
        BY <2>1, <2>2, <2>4, FS_AddElement
    <2> QED
        BY <2>3, <2>4
<1>4. MetricsAddUp'
    <2>1. ~exact'
        BY <1>1, Zenon DEF Escapes
    <2> QED
        BY <2>1, Zenon DEF MetricsAddUp
<1> QED
    BY <1>2, <1>3, <1>4 DEF MInv

LEMMA HeartbeatMetrics ==
    ASSUME IInv, MInv, IsFiniteSet(Workers), NEW w \in Workers, NEW id, NEW lease,
           Heartbeat(w, id, lease)
    PROVE  MInv'
<1>1. call[w].at = "idle" /\ call[w].done = 0 /\ w \notin Taken /\ Return(w, 0, 0)
    <2>1. call[w].at = "idle" /\ Return(w, 0, 0)
        BY DEF Heartbeat, At, Refuse
    <2> QED
        BY <2>1, NonePending DEF Taken
<1>2. DOMAIN rows' = DOMAIN rows /\ In("inflight")' = In("inflight")
    <2>1. CASE LeaseHolds(w, id, lease)
        <3>1. id \in DOMAIN rows /\ rows[id] \in Row /\ rows[id].state = "inflight"
            BY <2>1 DEF LeaseHolds, Owns, In, IInv, RowsOK
        <3> DEFINE row == [rows[id] EXCEPT !.deadline = now + LeaseTimeout]
        <3>2. rows' = [rows EXCEPT ![id] = row]
            BY <2>1, <3>1 DEF Heartbeat
        <3>3. row.state = "inflight"
            BY <3>1 DEF Row
        <3> HIDE DEF row
        <3> QED
            BY <3>1, <3>2, <3>3 DEF In
    <2>2. CASE ~LeaseHolds(w, id, lease)
        BY <2>2, InflightStays DEF Heartbeat
    <2> QED
        BY <2>1, <2>2
<1>3. /\ IsFiniteSet(DOMAIN rows')
      /\ Cardinality(In("inflight")') = Cardinality(In("inflight")) - 0
    BY <1>2, Sizes DEF MInv
<1>4. 0 + 0 + call[w].done = 0 + IF w \in Taken THEN 1 ELSE 0
    BY <1>1
<1>5. Return(w, 0, 0) /\ 0 \in Int
    BY <1>1
<1> QED
    BY ONLY IInv, MInv, IsFiniteSet(Workers), w \in Workers, <1>3, <1>4, <1>5, AnswerMetrics, Zenon

LEMMA SetPausedMetrics ==
    ASSUME IInv, MInv, IsFiniteSet(Workers), NEW w \in Workers, NEW paused \in BOOLEAN,
           SetPaused(w, paused)
    PROVE  MInv'
<1>1. /\ UNCHANGED <<rows, call, exact>> /\ events' = [events EXCEPT ![w] = 0]
      /\ exact => reported' = reported + 0 - 0 - events[w]
    BY DEF SetPaused, Report
<1>2. AllPending' /\ Taken' = Taken /\ In("inflight")' = In("inflight") /\ IsFiniteSet(DOMAIN rows')
    BY <1>1, InflightStays DEF MInv, AllPending, Pending, Taken
<1>3. /\ Cardinality(In("inflight")) \in Nat /\ Cardinality(Taken) \in Nat /\ reported \in Int
    BY Sizes DEF MInv
<1>4. PICK k \in Int : k = 0 - events[w]
    BY DEF IInv, Counters
<1>5. Unreported' = [Unreported EXCEPT ![w] = @ + k]
    <2>1. call[w].done \in Int /\ call' = [call EXCEPT ![w] = call[w]] /\ events[w] \in Int
        BY <1>1, CallOf, FrameParts DEF IInv, Calls, Counters
    <2>2. 0 \in Int /\ k = 0 + call[w].done - events[w] - call[w].done
        BY <1>4, <2>1
    <2>3. events' = [events EXCEPT ![w] = 0]
        BY <1>1
    <2> QED
        BY ONLY IInv, w \in Workers, k \in Int, <2>1, <2>2, <2>3, UnreportedMoves, Zenon
<1>6. PICK n \in Int, t \in Int, r \in Int, e \in Int :
          n = Cardinality(In("inflight")) /\ t = Cardinality(Taken) /\ r = reported /\ e = events[w]
    BY <1>3 DEF IInv, Counters
<1>7. n + (0 - e) - (r + 0 - 0 - e) - t = n - r - t
    OBVIOUS
<1>8. exact' => /\ exact
                /\ Cardinality(In("inflight")') + k - reported' - Cardinality(Taken')
                     = Cardinality(In("inflight")) - reported - Cardinality(Taken)
    BY <1>1, <1>2, <1>4, <1>6, <1>7
<1>9. /\ reported' \in Int /\ Cardinality(In("inflight")') \in Int /\ Cardinality(Taken') \in Int
    <2>1. reported' \in Int
        BY Reported DEF SetPaused, IInv
    <2> QED
        BY <1>2, <1>3, <2>1
<1>10. MetricsAddUp'
    BY ONLY IInv, MInv, IsFiniteSet(Workers), w \in Workers, k \in Int, <1>5, <1>8, <1>9, Balance,
       Zenon
<1> QED
    BY <1>2, <1>10 DEF MInv

\* A purge takes no lease, or the metrics are no longer exact.
LEMMA PurgeTasksMetrics ==
    ASSUME IInv, MInv, NEW w \in Workers, PurgeTasks(w)
    PROVE  MInv'
<1> DEFINE f == [Idle EXCEPT !.op = "purge", !.at = "scope"]
<1>1. f.at = "scope" /\ f.op = "purge" /\ f.done = 0
    BY DEF Idle
<1>2. /\ call[w].at = "idle" /\ call' = [call EXCEPT ![w] = f] /\ UNCHANGED events
      /\ rows' = Empty /\ Escapes(In("inflight") # {})
    BY DEF PurgeTasks, Begin, At
<1> HIDE DEF f
<1>3. AllPending'
    <2>1. Pending(f)
        BY <1>1 DEF Pending
    <2> QED
        BY <1>2, <2>1, PendingMoves DEF MInv
<1>4. Taken' = Taken
    <2>1. w \notin Taken
        BY <1>2 DEF Taken
    <2>2. Taken' = Taken \ {w}
        BY <1>1, <1>2, TakenMoves
    <2> QED
        BY <2>1, <2>2
<1>5. DOMAIN rows' = {} /\ In("inflight")' = {}
    BY <1>2 DEF Empty, In
<1>6. UNCHANGED Unreported
    <2>1. call[w].done = 0
        BY <1>2, NonePending
    <2>2. \A v \in Workers : call'[v] = IF v = w THEN f ELSE call[v]
        BY <1>2 DEF IInv, Calls
    <2>3. \A v \in Workers : call'[v].done = call[v].done
        BY <1>1, <2>1, <2>2
    <2> QED
        BY <1>2, <2>3 DEF Unreported
<1>7. exact' => exact /\ In("inflight")' = In("inflight") /\ reported' = reported
    BY <1>2, <1>5 DEF Escapes
<1> QED
    BY <1>3, <1>4, <1>5, <1>6, <1>7, FS_EmptySet, EvenMetrics

\* The same of a process that dies in a call or with an event.
LEMMA CrashMetrics ==
    ASSUME IInv, MInv, NEW w \in Workers, Crash(w)
    PROVE  MInv'
<1>1. /\ call' = [call EXCEPT ![w] = Idle] /\ events' = [events EXCEPT ![w] = 0]
      /\ Escapes(call[w] # Idle \/ events[w] # 0) /\ UNCHANGED rows
    BY DEF Crash, tableVars
<1>2. AllPending'
    <2>1. Pending(Idle)
        BY IdleFrame DEF Pending
    <2> QED
        BY <1>1, <2>1, PendingMoves DEF MInv
<1>3. IsFiniteSet(DOMAIN rows') /\ In("inflight")' = In("inflight")
    BY <1>1, InflightStays DEF MInv
<1>4. CASE ~exact'
    <2>1. MetricsAddUp'
        BY <1>4, Zenon DEF MetricsAddUp
    <2> QED
        BY <1>2, <1>3, <2>1 DEF MInv
<1>5. CASE exact'
    <2>1. exact /\ call[w] = Idle /\ events[w] = 0 /\ reported' = reported
        BY <1>1, <1>5 DEF Escapes
    <2>2. UNCHANGED <<call, events>>
        BY <1>1, <2>1 DEF IInv, Calls, Counters
    <2>3. UNCHANGED Unreported /\ Taken' = Taken
        BY <2>2 DEF Unreported, Taken
    <2> QED
        BY <1>2, <1>3, <2>1, <2>3, EvenMetrics
<1> QED
    BY <1>4, <1>5

\* A call that fails may report the reclaims before it; what it did itself it does not.
LEMMA FailsMetrics ==
    ASSUME IInv, MInv, IsFiniteSet(Workers), NEW w \in Workers, Fails(w)
    PROVE  MInv'
<1>1. /\ call' = [call EXCEPT ![w] = Idle] /\ UNCHANGED rows
      /\ events' \in {events, [events EXCEPT ![w] = 0]}
    BY DEF Fails, tableVars, IInv, Counters
<1>2. AllPending'
    <2>1. Pending(Idle)
        BY IdleFrame DEF Pending
    <2> QED
        BY <1>1, <2>1, PendingMoves DEF MInv
<1>3. IsFiniteSet(DOMAIN rows') /\ In("inflight")' = In("inflight")
    BY <1>1, InflightStays DEF MInv
<1>4. CASE ~exact'
    <2>1. MetricsAddUp'
        BY <1>4, Zenon DEF MetricsAddUp
    <2> QED
        BY <1>2, <1>3, <2>1 DEF MInv
<1>5. CASE exact'
    <2>1. /\ exact /\ call[w].done = 0 /\ call[w].at # "load"
          /\ reported' = reported - (events[w] - events'[w])
        BY <1>5 DEF Fails
    <2>2. events[w] \in Int /\ events'[w] \in Int /\ events \in [Workers -> Int]
          /\ reported \in Int
        BY <1>1 DEF IInv, Counters
    <2>3. PICK k \in Int : k = events'[w] - events[w]
        BY <2>2
    <2>4. Taken' = Taken
        <3>1. w \notin Taken
            BY <2>1 DEF Taken
        <3>2. Taken' = Taken \ {w}
            BY <1>1, IdleFrame, TakenMoves
        <3> QED
            BY <3>1, <3>2
    <2>5. Unreported' = [Unreported EXCEPT ![w] = @ + k]
        <3>1. events' = [events EXCEPT ![w] = events'[w]]
            BY <1>1, <2>2
        <3>2. k = events'[w] + Idle.done - events[w] - call[w].done
            BY <2>1, <2>2, <2>3, IdleFrame
        <3>3. call' = [call EXCEPT ![w] = Idle] /\ Idle.done \in Int
            BY <1>1, IdleFrame
        <3> QED
            BY ONLY IInv, w \in Workers, k \in Int, <2>2, <3>1, <3>2, <3>3, UnreportedMoves, Zenon
    <2>6. Cardinality(In("inflight")) \in Nat /\ Cardinality(Taken) \in Nat
        BY Sizes DEF MInv
    <2>7. /\ exact
          /\ Cardinality(In("inflight")') + k - reported' - Cardinality(Taken')
               = Cardinality(In("inflight")) - reported - Cardinality(Taken)
        <3>1. PICK n \in Int, t \in Int, r \in Int, e \in Int, d \in Int :
                  /\ n = Cardinality(In("inflight")) /\ t = Cardinality(Taken) /\ r = reported
                  /\ e = events[w] /\ d = events'[w]
            BY <2>2, <2>6
        <3>2. n + (d - e) - (r - (e - d)) - t = n - r - t
            OBVIOUS
        <3> QED
            BY <1>3, <2>1, <2>3, <2>4, <3>1, <3>2
    <2>8. /\ reported' \in Int /\ Cardinality(In("inflight")') \in Int /\ Cardinality(Taken') \in Int
        BY <1>3, <2>1, <2>2, <2>4, <2>6
    <2>9. MetricsAddUp'
        BY ONLY IInv, MInv, IsFiniteSet(Workers), w \in Workers, k \in Int, <2>5, <2>7, <2>8,
           Balance, Zenon
    <2> QED
        BY <1>2, <1>3, <2>9 DEF MInv
<1> QED
    BY <1>4, <1>5

LEMMA ElsewhereMetrics ==
    ASSUME MInv, Tick \/ UNCHANGED vars
    PROVE  MInv'
<1>1. UNCHANGED <<rows, call, events, reported, exact>>
    BY DEF Tick, vars, tableVars, reportVars
<1>2. /\ UNCHANGED Unreported /\ Taken' = Taken /\ In("inflight")' = In("inflight") /\ AllPending'
      /\ IsFiniteSet(DOMAIN rows')
    BY <1>1, InflightStays DEF Unreported, Taken, MInv, AllPending, Pending
<1>3. MetricsAddUp'
    BY <1>1, <1>2, TotalStays, MetricsAre, MetricsAreNext DEF MInv
<1> QED
    BY <1>2, <1>3 DEF MInv

LEMMA MetricsStep ==
    ASSUME IInv, MInv, IsFiniteSet(Workers), [Next]_vars
    PROVE  MInv'
<1>1. ASSUME NEW w \in Workers, Start(w) PROVE MInv'
    <2>1. CASE \E id \in Ids : Enqueue(w, id)
        BY <2>1, EnqueueMetrics
    <2>2. CASE TakeReady(w) \/ ReleaseInflight(w) \/ (\E op \in Refreshing : Read(w, op))
               \/ ReleaseScope(w)
        BY <2>2, BeginsMetrics
    <2>3. CASE \E claim \in held[w] : Requeue(w, claim[1], claim[2])
        BY <2>3, RequeueMetrics
    <2>4. CASE \E claim \in held[w] : Heartbeat(w, claim[1], claim[2])
        BY <2>4, HeartbeatMetrics
    <2>5. CASE \E claim \in held[w], follow \in {{}} \cup {{f} : f \in Ids} :
                   Complete(w, claim[1], claim[2], follow)
        BY <2>5, CompleteMetrics
    <2>8. CASE \E claim \in held[w], follow \in {{}} \cup {{f} : f \in Ids} :
                   CompleteUnanswered(w, claim[1], claim[2], follow)
        BY <2>8, UnansweredMetrics
    <2>6. CASE PurgeTasks(w)
        BY <2>6, PurgeTasksMetrics
    <2>7. CASE \E paused \in BOOLEAN : SetPaused(w, paused)
        BY <2>7, SetPausedMetrics
    <2> QED
        BY <1>1, <2>1, <2>2, <2>3, <2>4, <2>5, <2>6, <2>7, <2>8 DEF Start
<1>2. ASSUME NEW w \in Workers, Proceed(w) PROVE MInv'
    <2>1. CASE ReadSequence(w) \/ InsertTask(w) \/ WriteRow(w) \/ EndRelease(w)
               \/ PromoteDelayed(w)
        BY <2>1, ReadSequenceMetrics, InsertTaskMetrics, WriteRowMetrics, EndReleaseMetrics,
           PromoteDelayedMetrics
    <2>2. CASE ReadPaused(w) \/ ClaimNothing(w) \/ LoadClaimed(w) \/ PurgeScope(w)
               \/ ReadNext(w) \/ EndRead(w)
        BY <2>2, ReadPausedMetrics, ReturnsMetrics, LoadClaimedMetrics, ReadNextMetrics
    <2>3. CASE \E id \in Ids : NextRow(w, id)
        BY <2>3, NextRowMetrics
    <2>4. CASE \E id \in Ids : ClaimReady(w, id)
        BY <2>4, ClaimReadyMetrics
    <2> QED
        BY <1>2, <2>1, <2>2, <2>3, <2>4 DEF Proceed
<1>3. CASE \E w \in Workers : Crash(w)
    BY <1>3, CrashMetrics
<1>4. CASE Tick \/ UNCHANGED vars
    BY <1>4, ElsewhereMetrics
<1>5. CASE \E w \in Workers : Fails(w)
    BY <1>5, FailsMetrics
<1> QED
    BY <1>1, <1>2, <1>3, <1>4, <1>5 DEF Next

LEMMA MetricsBegin ==
    ASSUME Init, IsFiniteSet(Workers)
    PROVE  MInv
<1>1. DOMAIN rows = {} /\ In("inflight") = {} /\ Taken = {}
    BY IdleFrame DEF Init, Empty, In, Taken
<1>2. AllPending
    BY IdleFrame DEF Init, AllPending, Pending
<1>3. \A w \in Workers : Unreported[w] = 0
    BY IdleFrame DEF Init, Unreported
<1>4. Total = 0
    <2> DEFINE f == CHOOSE f : Sums(f, Unreported)
    <2>1. Sums(f, Unreported)
        BY SumExists
    <2>2. Total = f[Workers]
        BY DEF Total
    <2> HIDE DEF f
    <2>3. f[Workers] = 0
        BY <1>3, <2>1, SumOfNone
    <2> QED
        BY <2>2, <2>3
<1>5. Cardinality(In("inflight")) = 0 /\ Cardinality(Taken) = 0 /\ reported = 0
    BY <1>1, FS_EmptySet DEF Init
<1>6. MetricsAddUp
    BY <1>4, <1>5, MetricsAre
<1> QED
    BY <1>1, <1>2, <1>6, FS_EmptySet DEF MInv

\* What Observed has counted as claimed and not as ended, over all processes, is the
\* leases in force, with what the calls under way have yet to report: for any finite set
\* of processes, and as long as nothing has happened that no process reports.
THEOREM MetricsAreExact ==
    ASSUME IsFiniteSet(Workers)
    PROVE  Spec => []MetricsAddUp
<1>1. Init => MInv
    BY MetricsBegin
<1>2. IInv /\ MInv /\ [Next]_vars => MInv'
    BY MetricsStep
<1>3. MInv => MetricsAddUp
    BY DEF MInv
<1> QED
    BY <1>1, <1>2, <1>3, Inductive, PTL DEF Spec

=============================================================================
