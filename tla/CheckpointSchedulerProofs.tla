---------------------- MODULE CheckpointSchedulerProofs ----------------------
(***************************************************************************)
(* Theorems about CheckpointScheduler, for every value of its constants,   *)
(* after what the operators of MemoryState do to the buckets, for any      *)
(* tasks. The loops of the code are recursive functions there. That such a *)
(* function exists, and what holds of each of its values, follows from the *)
(* least number for which it would not (LeastNumber): an induction that    *)
(* needs no theorem with an operator as a parameter.                       *)
(***************************************************************************)
EXTENDS CheckpointScheduler, FiniteSetTheorems, SequenceTheorems, WellFoundedInduction, TLAPS

-----------------------------------------------------------------------------
(* Induction. *)

LEMMA LeastOf ==
    ASSUME NEW N, N = Nat, NEW R, IsWellFoundedOn(R, N),
           \A x, y \in N : <<x, y>> \in R <=> x < y,
           NEW T, T \subseteq N, T # {}
    PROVE  \E n \in T : \A m \in T : n <= m
<1>1. \E n \in T : \A m \in T : ~(<<m, n>> \in R)
    BY ONLY IsWellFoundedOn(R, N), T \subseteq N, T # {}, WFMin
<1>2. \A n, m \in Nat : ~(m < n) => n <= m
    OBVIOUS
<1> QED
    BY <1>1, <1>2

LEMMA LeastNumber ==
    ASSUME NEW T, T \subseteq Nat, T # {}
    PROVE  \E n \in T : \A m \in T : n <= m
<1>1. IsWellFoundedOn(OpToRel(<, Nat), Nat)
    BY NatLessThanWellFounded, Zenon
<1>2. \A x, y \in Nat : <<x, y>> \in OpToRel(<, Nat) <=> x < y
    BY DEF OpToRel
<1> QED
    BY <1>1, <1>2, LeastOf, Zenon

\* A set with 0 and the successor of each of its numbers up to k has them all up to k.
LEMMA UpTo ==
    ASSUME NEW S, NEW k \in Nat, 0 \in S,
           \A n \in 1 .. k : n - 1 \in S => n \in S
    PROVE  k \in S
<1> DEFINE T == {n \in 0 .. k : n \notin S}
<1> SUFFICES ASSUME T # {} PROVE FALSE
    OBVIOUS
<1>0. T \subseteq Nat
    OBVIOUS
<1>1. PICK n \in T : \A m \in T : n <= m
  <2> HIDE DEF T
  <2> QED BY <1>0, LeastNumber
<1>2. n # 0 /\ n - 1 \in 0 .. k /\ n - 1 \notin T
    BY <1>1
<1> QED
    BY <1>2

-----------------------------------------------------------------------------
(* Buckets and their order. *)

Ranked(T) ==
    \A t \in T : t.priority \in Int /\ t.depth \in Nat /\ t.ready_at \in Nat

EntriesOf(T) == [task : T, lease : Nat]

States(T) ==
    [ready : Seq(T), delayed : Seq(T), inflight : Seq(EntriesOf(T)), paused : BOOLEAN]

Distinct(tasks) == \A i, j \in DOMAIN tasks : tasks[i].id = tasks[j].id => i = j

\* Three buckets have no task twice.
Separate(ready, delayed, running) ==
    /\ Distinct(ready) /\ Distinct(delayed) /\ Distinct(running)
    /\ IdsOf(ready) \cap IdsOf(delayed) = {}
    /\ IdsOf(ready) \cap IdsOf(running) = {}
    /\ IdsOf(delayed) \cap IdsOf(running) = {}

Sorted(queue) == \A i, j \in DOMAIN queue : i < j => ~Before(queue[j], queue[i])

\* What every state of the scheduler has, with tasks T.
WellFormed(T, s) ==
    /\ s \in States(T)
    /\ Separate(s.ready, s.delayed, TasksOf(s.inflight))
    /\ Sorted(s.ready)
    /\ \A i \in DOMAIN s.delayed : s.delayed[i].ready_at > 0

\* A task passes one of the tasks in before only if it is of a better rank.
Passing(queue, before) ==
    \A i, j \in DOMAIN queue :
        i < j => \/ queue[i].id \in before
                 \/ queue[j].id \notin before
                 \/ Before(queue[i], queue[j])

LEMMA SequenceParts ==
    ASSUME NEW T, NEW q \in Seq(T)
    PROVE  /\ Len(q) \in Nat /\ DOMAIN q = 1 .. Len(q)
           /\ \A i \in DOMAIN q : q[i] \in T
           /\ IdsOf(q) = {q[i].id : i \in 1 .. Len(q)}
BY DEF IdsOf

LEMMA NothingIn ==
    /\ IdsOf(<<>>) = {} /\ Distinct(<<>>) /\ Sorted(<<>>)
    /\ \A before : Passing(<<>>, before)
BY DEF IdsOf, Distinct, Sorted, Passing

LEMMA Inserted ==
    ASSUME NEW T, NEW q \in Seq(T), NEW t \in T, NEW k \in 1 .. Len(q) + 1
    PROVE  /\ InsertAt(q, k, t) \in Seq(T)
           /\ Len(InsertAt(q, k, t)) = Len(q) + 1
           /\ \A i \in 1 .. Len(q) + 1 :
                 InsertAt(q, k, t)[i] = IF i < k THEN q[i] ELSE IF i = k THEN t ELSE q[i - 1]
<1> DEFINE a == SubSeq(q, 1, k - 1)
           b == SubSeq(q, k, Len(q))
<1>1. Len(q) \in Nat /\ k \in Int
    OBVIOUS
<1>2. a \in Seq(T) /\ Len(a) = k - 1 /\ \A i \in 1 .. k - 1 : a[i] = q[i]
    <2>1. \A i \in 1 .. k - 1 : q[i] \in T
        BY <1>1
    <2> QED BY <1>1, <2>1, SubSeqProperties
<1>3. b \in Seq(T) /\ Len(b) = Len(q) - k + 1 /\ \A i \in 1 .. Len(q) - k + 1 : b[i] = q[k + i - 1]
    <2>1. \A i \in k .. Len(q) : q[i] \in T
        BY <1>1
    <2> QED BY <1>1, <2>1, SubSeqProperties
<1> HIDE DEF a, b
<1> DEFINE c == a \o <<t>>
<1>4. c \in Seq(T) /\ Len(c) = k /\ \A i \in 1 .. k : c[i] = IF i < k THEN a[i] ELSE t
    BY <1>1, <1>2
<1> HIDE DEF c
<1>5. /\ c \o b \in Seq(T) /\ Len(c \o b) = Len(c) + Len(b)
      /\ \A i \in 1 .. Len(c) + Len(b) : (c \o b)[i] = IF i <= Len(c) THEN c[i] ELSE b[i - Len(c)]
    BY <1>3, <1>4, ConcatProperties
<1>6. InsertAt(q, k, t) = c \o b
    BY DEF InsertAt, a, b, c
<1>7. \A i \in 1 .. Len(q) + 1 : (c \o b)[i] = IF i < k THEN q[i] ELSE IF i = k THEN t ELSE q[i - 1]
    <2> TAKE i \in 1 .. Len(q) + 1
    <2>1. (c \o b)[i] = IF i <= k THEN c[i] ELSE b[i - k]
        BY <1>1, <1>3, <1>4, <1>5
    <2>2. CASE i <= k
        BY <1>1, <1>2, <1>4, <2>1, <2>2
    <2>3. CASE ~(i <= k)
        <3>1. i - k \in 1 .. Len(q) - k + 1 /\ k + (i - k) - 1 = i - 1
            BY <1>1, <2>3
        <3> QED BY <1>1, <1>3, <2>1, <2>3, <3>1
    <2> QED BY <2>2, <2>3
<1> QED
    BY <1>1, <1>3, <1>4, <1>5, <1>6, <1>7

LEMMA PlaceIn ==
    ASSUME NEW T, Ranked(T), NEW q \in Seq(T), Sorted(q), NEW t \in T
    PROVE  /\ Place(q, t) \in 1 .. Len(q) + 1
           /\ \A i \in 1 .. Len(q) : i < Place(q, t) => ~Before(t, q[i])
           /\ \A i \in 1 .. Len(q) : i >= Place(q, t) => Before(t, q[i])
<1> DEFINE worse == {i \in DOMAIN q : Before(t, q[i])}
<1>1. Len(q) \in Nat /\ DOMAIN q = 1 .. Len(q) /\ \A i \in 1 .. Len(q) : q[i] \in T
    OBVIOUS
<1>2. CASE worse = {}
    BY <1>1, <1>2 DEF Place
<1>3. CASE worse # {}
    <2>1. worse \subseteq Nat
        BY <1>1
    <2> DEFINE m == Min(worse)
    <2>2. m \in worse /\ \A n \in worse : m <= n
        BY <1>3, <2>1, LeastNumber DEF Min
    <2>3. Place(q, t) = m
        BY <1>3 DEF Place
    <2> HIDE DEF m
    <2>4. \A i \in 1 .. Len(q) : i > m => Before(t, q[i])
        <3> SUFFICES ASSUME NEW i \in 1 .. Len(q), i > m PROVE Before(t, q[i])
            OBVIOUS
        <3>1. ~Before(q[i], q[m]) /\ Before(t, q[m]) /\ q[i] \in T /\ q[m] \in T
            BY <1>1, <2>2 DEF Sorted
        <3> QED BY <3>1 DEF Ranked, Before
    <2> QED
        BY <1>1, <2>1, <2>2, <2>3, <2>4
<1> QED
    BY <1>2, <1>3

-----------------------------------------------------------------------------
(* A task is pushed. *)

LEMMA PushReadyTaskFacts ==
    ASSUME NEW T, Ranked(T), NEW q \in Seq(T), Sorted(q), Distinct(q),
           NEW t \in T, t.id \notin IdsOf(q)
    PROVE  LET p == PushReadyTask(q, t)
           IN  /\ p \in Seq(T)
               /\ IdsOf(p) = IdsOf(q) \cup {t.id}
               /\ Distinct(p)
               /\ Sorted(p)
               /\ \A before : t.id \notin before /\ Passing(q, before) => Passing(p, before)
<1> DEFINE k == Place(q, t)
           p == PushReadyTask(q, t)
<1>1. /\ k \in 1 .. Len(q) + 1
      /\ \A i \in 1 .. Len(q) : i < k => ~Before(t, q[i])
      /\ \A i \in 1 .. Len(q) : i >= k => Before(t, q[i])
    BY PlaceIn
<1>2. p = InsertAt(q, k, t)
    BY DEF PushReadyTask
<1> HIDE DEF k, p
<1>3. /\ Len(q) \in Nat /\ DOMAIN q = 1 .. Len(q)
      /\ \A i \in 1 .. Len(q) : q[i] \in T /\ q[i].id # t.id
    BY DEF IdsOf
<1>4. /\ p \in Seq(T) /\ Len(p) = Len(q) + 1
      /\ \A i \in 1 .. Len(q) + 1 :
            p[i] = IF i < k THEN q[i] ELSE IF i = k THEN t ELSE q[i - 1]
    <2>1. /\ InsertAt(q, k, t) \in Seq(T) /\ Len(InsertAt(q, k, t)) = Len(q) + 1
          /\ \A i \in 1 .. Len(q) + 1 :
                InsertAt(q, k, t)[i] = IF i < k THEN q[i] ELSE IF i = k THEN t ELSE q[i - 1]
        <3>1. k \in 1 .. Len(q) + 1
            BY <1>1
        <3> QED BY <3>1, Inserted
    <2> QED BY <1>2, <2>1, Zenon
<1>5. DOMAIN p = 1 .. Len(q) + 1
    BY <1>3, <1>4
<1>6. IdsOf(p) = IdsOf(q) \cup {t.id}
    <2>1. \A i \in 1 .. Len(q) + 1 : p[i].id \in IdsOf(q) \cup {t.id}
        BY <1>1, <1>3, <1>4, SMTT(30) DEF IdsOf
    <2>2. \A i \in 1 .. Len(q) : q[i].id \in IdsOf(p)
        <3> TAKE i \in 1 .. Len(q)
        <3>1. CASE i < k
            <4>1. i \in DOMAIN p /\ p[i] = q[i]
                BY ONLY <1>1, <1>3, <1>4, <1>5, <3>1, i \in 1 .. Len(q)
            <4> QED BY <4>1 DEF IdsOf
        <3>2. CASE i >= k
            <4>1. i + 1 \in DOMAIN p /\ p[i + 1] = q[i]
                BY ONLY <1>1, <1>3, <1>4, <1>5, <3>2, i \in 1 .. Len(q)
            <4> QED BY <4>1 DEF IdsOf
        <3> QED BY <1>1, <1>3, <3>1, <3>2
    <2>3. t.id \in IdsOf(p)
        <3>1. k \in DOMAIN p /\ p[k] = t
            BY <1>1, <1>4, <1>5
        <3> QED BY <3>1 DEF IdsOf
    <2> QED BY <1>3, <1>5, <2>1, <2>2, <2>3 DEF IdsOf
\* Where two of the tasks were before, if they were there.
<1> DEFINE old(i) == IF i < k THEN i ELSE i - 1
<1>7. \A i \in DOMAIN p : i # k => old(i) \in DOMAIN q /\ p[i] = q[old(i)]
    BY <1>1, <1>3, <1>4, <1>5
<1>8. \A i, j \in DOMAIN p : i # k /\ j # k => ((i < j) <=> (old(i) < old(j))) /\ (old(i) = old(j) => i = j)
    BY <1>1, <1>3, <1>5
<1>9. p[k] = t
    BY <1>1, <1>4
<1>10. \A i \in DOMAIN p :
          /\ i < k => ~Before(t, p[i])
          /\ i > k => Before(t, p[i])
    BY <1>1, <1>3, <1>4, <1>5
<1> HIDE DEF old
<1>11. Distinct(p)
    <2> SUFFICES ASSUME NEW i \in DOMAIN p, NEW j \in DOMAIN p, p[i].id = p[j].id
                 PROVE  i = j
        BY DEF Distinct
    <2>1. CASE i # k /\ j # k
        BY <1>7, <1>8, <2>1 DEF Distinct
    <2>2. CASE i = k \/ j = k
        BY <1>3, <1>7, <1>9, <2>2
    <2> QED BY <2>1, <2>2
<1>12. Sorted(p)
    <2> SUFFICES ASSUME NEW i \in DOMAIN p, NEW j \in DOMAIN p, i < j
                 PROVE  ~Before(p[j], p[i])
        BY DEF Sorted
    <2>1. CASE i # k /\ j # k
        BY <1>7, <1>8, <2>1 DEF Sorted
    <2>2. CASE i = k
        <3>1. Before(t, p[j]) /\ p[j] \in T
            BY <1>4, <1>5, <1>10, <2>2
        <3> QED BY <1>9, <2>2, <3>1 DEF Ranked, Before
    <2>3. CASE j = k
        <3>1. p[j] = t /\ ~Before(t, p[i])
            BY <1>9, <1>10, <2>3
        <3> QED BY <3>1
    <2> QED BY <2>1, <2>2, <2>3
<1>13. ASSUME NEW before, t.id \notin before, Passing(q, before)
       PROVE  Passing(p, before)
    <2> SUFFICES ASSUME NEW i \in DOMAIN p, NEW j \in DOMAIN p, i < j,
                        p[i].id \notin before, p[j].id \in before
                 PROVE  Before(p[i], p[j])
        BY DEF Passing
    <2>1. CASE i # k /\ j # k
        BY <1>7, <1>8, <1>13, <2>1 DEF Passing
    <2>2. CASE i = k
        BY <1>9, <1>10, <2>2
    <2>3. CASE j = k
        BY <1>9, <1>13, <2>3
    <2> QED BY <2>1, <2>2, <2>3
<1> QED
    BY <1>4, <1>6, <1>11, <1>12, <1>13 DEF p

LEMMA Appended ==
    ASSUME NEW T, NEW q \in Seq(T), NEW t \in T
    PROVE  /\ Append(q, t) \in Seq(T)
           /\ IdsOf(Append(q, t)) = IdsOf(q) \cup {t.id}
           /\ Distinct(q) /\ t.id \notin IdsOf(q) => Distinct(Append(q, t))
           /\ \A i \in DOMAIN Append(q, t) :
                 \/ i \in DOMAIN q /\ Append(q, t)[i] = q[i]
                 \/ i = Len(q) + 1 /\ Append(q, t)[i] = t
<1> DEFINE p == Append(q, t)
<1>1. /\ p \in Seq(T) /\ Len(p) = Len(q) + 1 /\ Len(q) \in Nat
      /\ DOMAIN q = 1 .. Len(q) /\ DOMAIN p = 1 .. Len(q) + 1
      /\ \A i \in 1 .. Len(q) : p[i] = q[i]
      /\ p[Len(q) + 1] = t
    OBVIOUS
<1> HIDE DEF p
<1>2. IdsOf(p) = IdsOf(q) \cup {t.id}
    <2>1. \A i \in DOMAIN p : p[i].id \in IdsOf(q) \cup {t.id}
        BY <1>1 DEF IdsOf
    <2>2. \A i \in DOMAIN q : i \in DOMAIN p /\ p[i] = q[i]
        BY <1>1
    <2>3. Len(q) + 1 \in DOMAIN p
        BY <1>1
    <2> QED BY <1>1, <2>1, <2>2, <2>3 DEF IdsOf
<1>3. ASSUME Distinct(q), t.id \notin IdsOf(q) PROVE Distinct(p)
    BY <1>1, <1>3 DEF Distinct, IdsOf
<1> QED
    BY <1>1, <1>2, <1>3 DEF p

LEMMA PushTaskFacts ==
    ASSUME NEW T, Ranked(T), NEW s, WellFormed(T, s),
           NEW t \in T, t.id \notin Waiting(s) \cup Inflight(s), NEW time \in Nat
    PROVE  LET r == PushTask(s, t, time)
           IN  /\ WellFormed(T, r)
               /\ r.inflight = s.inflight /\ r.paused = s.paused
               /\ Waiting(r) = Waiting(s) \cup {t.id}
               /\ \A before : t.id \notin before /\ Passing(s.ready, before)
                              => Passing(r.ready, before)
<1> DEFINE r == PushTask(s, t, time)
<1>1. /\ s \in States(T) /\ s.ready \in Seq(T) /\ s.delayed \in Seq(T)
      /\ Distinct(s.ready) /\ Sorted(s.ready)
      /\ t.id \notin IdsOf(s.ready) /\ t.id \notin IdsOf(s.delayed)
      /\ t.id \notin IdsOf(TasksOf(s.inflight))
      /\ t.ready_at \in Nat
    BY DEF WellFormed, Separate, Waiting, Inflight, States, Ranked
<1>2. CASE IsReady(t, time)
    <2> DEFINE p == PushReadyTask(s.ready, t)
    <2>1. r = [s EXCEPT !.ready = p]
        BY <1>2 DEF PushTask
    <2>2. /\ p \in Seq(T) /\ IdsOf(p) = IdsOf(s.ready) \cup {t.id}
          /\ Distinct(p) /\ Sorted(p)
          /\ \A before : t.id \notin before /\ Passing(s.ready, before) => Passing(p, before)
        BY <1>1, PushReadyTaskFacts
    <2> HIDE DEF p, r
    <2>3. /\ r \in States(T) /\ r.ready = p /\ r.delayed = s.delayed
          /\ r.inflight = s.inflight /\ r.paused = s.paused
        BY <1>1, <2>1, <2>2 DEF States
    <2>4. Separate(r.ready, r.delayed, TasksOf(r.inflight))
        BY <1>1, <2>2, <2>3 DEF WellFormed, Separate
    <2>5. Waiting(r) = Waiting(s) \cup {t.id}
        BY <2>2, <2>3 DEF Waiting
    <2>6. WellFormed(T, r)
        BY <2>2, <2>3, <2>4 DEF WellFormed
    <2> QED
        BY <2>2, <2>3, <2>5, <2>6 DEF r
<1>3. CASE ~IsReady(t, time)
    <2> DEFINE p == Append(s.delayed, t)
    <2>1. r = [s EXCEPT !.delayed = p]
        BY <1>3 DEF PushTask
    <2>2. /\ p \in Seq(T) /\ IdsOf(p) = IdsOf(s.delayed) \cup {t.id}
          /\ Distinct(s.delayed) => Distinct(p)
          /\ \A i \in DOMAIN p :
                \/ i \in DOMAIN s.delayed /\ p[i] = s.delayed[i]
                \/ i = Len(s.delayed) + 1 /\ p[i] = t
        BY <1>1, Appended
    <2>3. t.ready_at > 0
        BY <1>1, <1>3 DEF IsReady
    <2> HIDE DEF p, r
    <2>4. /\ r \in States(T) /\ r.ready = s.ready /\ r.delayed = p
          /\ r.inflight = s.inflight /\ r.paused = s.paused
        BY <1>1, <2>1, <2>2 DEF States
    <2>5. Separate(r.ready, r.delayed, TasksOf(r.inflight))
        BY <1>1, <2>2, <2>4 DEF WellFormed, Separate
    <2>6. \A i \in DOMAIN r.delayed : r.delayed[i].ready_at > 0
        BY <2>2, <2>3, <2>4 DEF WellFormed
    <2>7. Waiting(r) = Waiting(s) \cup {t.id}
        BY <2>2, <2>4 DEF Waiting
    <2>8. WellFormed(T, r)
        BY <1>1, <2>4, <2>5, <2>6 DEF WellFormed
    <2> QED
        BY <2>4, <2>7, <2>8 DEF r
<1> QED
    BY <1>2, <1>3

-----------------------------------------------------------------------------
(* Tasks are pushed one after the other. *)

\* The values of the recursive function of PushTasks, up to k.
IsPushed(s, tasks, time, k, f) ==
    f = [n \in 0 .. k |-> IF n = 0 THEN s ELSE PushTask(f[n - 1], tasks[n], time)]

LEMMA PushedExists ==
    ASSUME NEW s, NEW tasks, NEW time, NEW k \in Nat
    PROVE  \E f : IsPushed(s, tasks, time, k, f)
<1> DEFINE S == {n \in Nat : \E f : IsPushed(s, tasks, time, n, f)}
<1>1. 0 \in S
    <2> DEFINE g == [n \in 0 .. 0 |-> s]
    <2>1. IsPushed(s, tasks, time, 0, g)
        BY DEF IsPushed
    <2> QED BY <2>1
<1>2. ASSUME NEW n \in 1 .. k, n - 1 \in S PROVE n \in S
    <2>1. PICK f : IsPushed(s, tasks, time, n - 1, f)
        BY <1>2
    <2> DEFINE g == [i \in 0 .. n |->
                        IF i = n THEN PushTask(f[n - 1], tasks[n], time) ELSE f[i]]
    <2>2. IsPushed(s, tasks, time, n, g)
        BY <2>1 DEF IsPushed
    <2> QED BY <2>2
<1> HIDE DEF S
<1>3. k \in S
    BY <1>1, <1>2, UpTo
<1> QED
    BY <1>3 DEF S

LEMMA PushTasksIs ==
    ASSUME NEW s, NEW tasks, NEW time, Len(tasks) \in Nat
    PROVE  \E f : /\ IsPushed(s, tasks, time, Len(tasks), f)
                  /\ PushTasks(s, tasks, time) = f[Len(tasks)]
<1> DEFINE h == CHOOSE f : f = [n \in 0 .. Len(tasks) |->
                                  IF n = 0 THEN s ELSE PushTask(f[n - 1], tasks[n], time)]
<1>1. IsPushed(s, tasks, time, Len(tasks), h)
    <2>1. \E f : IsPushed(s, tasks, time, Len(tasks), f)
        BY PushedExists
    <2> QED BY <2>1 DEF IsPushed
<1>2. PushTasks(s, tasks, time) = h[Len(tasks)]
    BY DEF PushTasks
<1> HIDE DEF h
<1> QED
    BY <1>1, <1>2

LEMMA PushTasksFacts ==
    ASSUME NEW T, Ranked(T), NEW s, WellFormed(T, s), NEW tasks \in Seq(T), Distinct(tasks),
           IdsOf(tasks) \cap (Waiting(s) \cup Inflight(s)) = {}, NEW time \in Nat
    PROVE  LET r == PushTasks(s, tasks, time)
           IN  /\ WellFormed(T, r)
               /\ r.inflight = s.inflight /\ r.paused = s.paused
               /\ Waiting(r) = Waiting(s) \cup IdsOf(tasks)
               /\ \A before : IdsOf(tasks) \cap before = {} /\ Passing(s.ready, before)
                              => Passing(r.ready, before)
<1>1. /\ Len(tasks) \in Nat /\ DOMAIN tasks = 1 .. Len(tasks)
      /\ \A i \in 1 .. Len(tasks) : tasks[i] \in T
    OBVIOUS
<1>a. PICK f : /\ IsPushed(s, tasks, time, Len(tasks), f)
               /\ PushTasks(s, tasks, time) = f[Len(tasks)]
    BY <1>1, PushTasksIs
<1>2. /\ f[0] = s
      /\ \A n \in 1 .. Len(tasks) : f[n] = PushTask(f[n - 1], tasks[n], time)
      /\ PushTasks(s, tasks, time) = f[Len(tasks)]
    BY <1>1, <1>a DEF IsPushed
<1> DEFINE IdsUpTo(n) == {tasks[i].id : i \in 1 .. n}
           Good(n) == /\ WellFormed(T, f[n])
                      /\ f[n].inflight = s.inflight /\ f[n].paused = s.paused
                      /\ Waiting(f[n]) = Waiting(s) \cup IdsUpTo(n)
                      /\ \A before : IdsOf(tasks) \cap before = {} /\ Passing(s.ready, before)
                                     => Passing(f[n].ready, before)
           S == {n \in Nat : Good(n)}
<1>3. IdsUpTo(0) = {} /\ IdsUpTo(Len(tasks)) = IdsOf(tasks)
    BY <1>1 DEF IdsOf
<1>4. \A n \in 1 .. Len(tasks) : IdsUpTo(n) = IdsUpTo(n - 1) \cup {tasks[n].id}
    <2> TAKE n \in 1 .. Len(tasks)
    <2>1. 1 .. n = (1 .. n - 1) \cup {n}
        BY <1>1
    <2> QED BY <2>1
<1>5. \A n \in 1 .. Len(tasks) :
         /\ tasks[n].id \in IdsOf(tasks)
         /\ tasks[n].id \notin IdsUpTo(n - 1)
    <2> TAKE n \in 1 .. Len(tasks)
    <2>1. \A i \in 1 .. n - 1 : i \in DOMAIN tasks /\ n \in DOMAIN tasks /\ i # n
        BY <1>1
    <2> QED BY <1>1, <2>1 DEF IdsOf, Distinct
<1> HIDE DEF IdsUpTo
<1>6. Good(0)
    BY <1>2, <1>3
<1>7. ASSUME NEW n \in 1 .. Len(tasks), Good(n - 1) PROVE Good(n)
    <2>1. WellFormed(T, f[n - 1])
        BY <1>7
    <2>2. tasks[n] \in T /\ tasks[n].id \notin Waiting(f[n - 1]) \cup Inflight(f[n - 1])
        BY <1>1, <1>5, <1>7 DEF Inflight
    <2>3. f[n] = PushTask(f[n - 1], tasks[n], time)
        BY <1>2
    <2>4. /\ WellFormed(T, f[n])
          /\ f[n].inflight = f[n - 1].inflight /\ f[n].paused = f[n - 1].paused
          /\ Waiting(f[n]) = Waiting(f[n - 1]) \cup {tasks[n].id}
          /\ \A before : tasks[n].id \notin before /\ Passing(f[n - 1].ready, before)
                         => Passing(f[n].ready, before)
        BY <2>1, <2>2, <2>3, PushTaskFacts
    <2>5. Waiting(f[n]) = Waiting(s) \cup IdsUpTo(n)
        BY <1>4, <1>7, <2>4
    <2>6. ASSUME NEW before, IdsOf(tasks) \cap before = {}, Passing(s.ready, before)
          PROVE  Passing(f[n].ready, before)
        BY <1>5, <1>7, <2>4, <2>6
    <2> QED
        BY <1>7, <2>4, <2>5, <2>6
<1>8. 0 \in S /\ \A n \in 1 .. Len(tasks) : n - 1 \in S => n \in S
    BY <1>6, <1>7
<1> HIDE DEF S
<1>9. Len(tasks) \in S
    BY <1>1, <1>8, UpTo
<1>10. Good(Len(tasks))
    BY <1>9 DEF S
<1> QED
    BY <1>2, <1>3, <1>10

-----------------------------------------------------------------------------
(* Entries are taken out of inflight. *)

\* The values of the recursive function of Entries, up to k.
IsKept(entries, ids, k, f) ==
    f = [n \in 0 .. k |-> IF n = 0 THEN <<>> ELSE KeptWith(f[n - 1], entries[n], ids)]

LEMMA KeptExists ==
    ASSUME NEW entries, NEW ids, NEW k \in Nat
    PROVE  \E f : IsKept(entries, ids, k, f)
<1> DEFINE S == {n \in Nat : \E f : IsKept(entries, ids, n, f)}
<1>1. 0 \in S
    <2> DEFINE g == [n \in 0 .. 0 |-> <<>>]
    <2>1. IsKept(entries, ids, 0, g)
        BY DEF IsKept
    <2> QED BY <2>1
<1>2. ASSUME NEW n \in 1 .. k, n - 1 \in S PROVE n \in S
    <2>1. PICK f : IsKept(entries, ids, n - 1, f)
        BY <1>2
    <2> DEFINE g == [i \in 0 .. n |->
                        IF i = n THEN KeptWith(f[n - 1], entries[n], ids) ELSE f[i]]
    <2>2. IsKept(entries, ids, n, g)
        BY <2>1 DEF IsKept
    <2> QED BY <2>2
<1> HIDE DEF S
<1>3. k \in S
    BY <1>1, <1>2, UpTo
<1> QED
    BY <1>3 DEF S

LEMMA EntriesIs ==
    ASSUME NEW entries, NEW ids, Len(entries) \in Nat
    PROVE  \E f : /\ f[0] = <<>>
                  /\ \A n \in 1 .. Len(entries) : f[n] = KeptWith(f[n - 1], entries[n], ids)
                  /\ Entries(entries, ids) = f[Len(entries)]
<1> DEFINE h == CHOOSE f : f = [n \in 0 .. Len(entries) |->
                                  IF n = 0 THEN <<>> ELSE KeptWith(f[n - 1], entries[n], ids)]
<1>1. IsKept(entries, ids, Len(entries), h)
    <2>1. \E f : IsKept(entries, ids, Len(entries), f)
        BY KeptExists
    <2> QED BY <2>1 DEF IsKept
<1>2. Entries(entries, ids) = h[Len(entries)]
    BY DEF Entries
<1> HIDE DEF h
<1>3. /\ h[0] = <<>>
      /\ \A n \in 1 .. Len(entries) : h[n] = KeptWith(h[n - 1], entries[n], ids)
    BY <1>1 DEF IsKept
<1> QED
    BY <1>2, <1>3

\* The set of the entries.
LEMMA EntrySet ==
    ASSUME NEW T, NEW entries \in Seq(EntriesOf(T))
    PROVE  /\ TasksOf(entries) \in Seq(T)
           /\ IdsOf(TasksOf(entries)) = {e.task.id : e \in ToSet(entries)}
           /\ \A e \in ToSet(entries) : e.task \in T /\ e.lease \in Nat
           /\ Distinct(TasksOf(entries)) <=>
                 \A i, j \in 1 .. Len(entries) :
                    entries[i].task.id = entries[j].task.id => i = j
<1>1. /\ Len(entries) \in Nat /\ DOMAIN entries = 1 .. Len(entries)
      /\ \A i \in 1 .. Len(entries) : entries[i] \in EntriesOf(T)
    BY SequenceParts
<1>2. /\ DOMAIN TasksOf(entries) = 1 .. Len(entries)
      /\ \A i \in 1 .. Len(entries) : TasksOf(entries)[i] = entries[i].task
    BY <1>1 DEF TasksOf
<1>3. TasksOf(entries) \in Seq(T)
    <2>1. TasksOf(entries) \in [1 .. Len(entries) -> T]
        BY <1>1 DEF TasksOf, EntriesOf
    <2> QED BY <1>1, <2>1, SeqDef
<1>4. IdsOf(TasksOf(entries)) = {e.task.id : e \in ToSet(entries)}
    BY <1>1, <1>2 DEF IdsOf, ToSet
<1>5. \A e \in ToSet(entries) : e.task \in T /\ e.lease \in Nat
    BY <1>1 DEF ToSet, EntriesOf
<1>6. Distinct(TasksOf(entries)) <=>
         \A i, j \in 1 .. Len(entries) : entries[i].task.id = entries[j].task.id => i = j
    BY <1>2 DEF Distinct
<1> QED
    BY <1>3, <1>4, <1>5, <1>6

LEMMA EntriesFacts ==
    ASSUME NEW T, NEW entries \in Seq(EntriesOf(T)), NEW ids,
           Distinct(TasksOf(entries))
    PROVE  LET kept == Entries(entries, ids)
           IN  /\ kept \in Seq(EntriesOf(T))
               /\ Distinct(TasksOf(kept))
               /\ ToSet(kept) = {e \in ToSet(entries) : e.task.id \in ids}
<1> DEFINE E == EntriesOf(T)
<1>1. /\ Len(entries) \in Nat /\ DOMAIN entries = 1 .. Len(entries)
      /\ \A i \in 1 .. Len(entries) : entries[i] \in E
    <2> HIDE DEF E
    <2>1. entries \in Seq(E)
        BY DEF E
    <2> QED BY <2>1, SequenceParts
<1>2. PICK f : /\ f[0] = <<>>
               /\ \A n \in 1 .. Len(entries) : f[n] = KeptWith(f[n - 1], entries[n], ids)
               /\ Entries(entries, ids) = f[Len(entries)]
    BY <1>1, EntriesIs
<1>3. \A i, j \in 1 .. Len(entries) : entries[i].task.id = entries[j].task.id => i = j
    BY EntrySet
<1> DEFINE Until(n) == {entries[i] : i \in 1 .. n}
           Good(n) == /\ f[n] \in Seq(E)
                      /\ \A i, j \in 1 .. Len(f[n]) : f[n][i].task.id = f[n][j].task.id => i = j
                      /\ ToSet(f[n]) = {e \in Until(n) : e.task.id \in ids}
           S == {n \in Nat : Good(n)}
<1>4. Until(0) = {} /\ Until(Len(entries)) = ToSet(entries)
    BY <1>1 DEF ToSet
<1>5. \A n \in 1 .. Len(entries) : Until(n) = Until(n - 1) \cup {entries[n]}
    <2> TAKE n \in 1 .. Len(entries)
    <2>1. 1 .. n = (1 .. n - 1) \cup {n}
        BY <1>1
    <2> QED BY <2>1
<1>6. \A n \in 1 .. Len(entries) : \A e \in Until(n - 1) : e.task.id # entries[n].task.id
    <2> TAKE n \in 1 .. Len(entries)
    <2>1. \A i \in 1 .. n - 1 : i \in 1 .. Len(entries) /\ i # n
        BY <1>1
    <2> QED BY <1>3, <2>1
<1> HIDE DEF Until, E
<1>7. Good(0)
    <2>1. f[0] \in Seq(E) /\ Len(f[0]) = 0 /\ ToSet(f[0]) = {}
        BY <1>2 DEF ToSet
    <2> QED BY <1>4, <2>1
<1>8. ASSUME NEW n \in 1 .. Len(entries), Good(n - 1) PROVE Good(n)
    <2>1. CASE entries[n].task.id \notin ids
        <3>1. f[n] = f[n - 1]
            BY <1>2, <2>1 DEF KeptWith
        <3> QED BY <1>5, <1>8, <2>1, <3>1
    <2>2. CASE entries[n].task.id \in ids
        <3> DEFINE q == f[n - 1]
                   e == entries[n]
                   p == Append(q, e)
        <3>1. f[n] = p
            BY <1>2, <2>2 DEF KeptWith
        <3>2. q \in Seq(E) /\ e \in E
            BY <1>1, <1>8
        <3>3. /\ p \in Seq(E) /\ Len(p) = Len(q) + 1 /\ Len(q) \in Nat
              /\ \A i \in 1 .. Len(q) : p[i] = q[i]
              /\ p[Len(q) + 1] = e
              /\ ToSet(p) = ToSet(q) \cup {e}
            <4> HIDE DEF q, e
            <4>1. /\ p \in Seq(E) /\ Len(p) = Len(q) + 1 /\ Len(q) \in Nat
                  /\ \A i \in 1 .. Len(q) : p[i] = q[i]
                  /\ p[Len(q) + 1] = e
                  /\ DOMAIN p = 1 .. Len(q) + 1 /\ DOMAIN q = 1 .. Len(q)
                BY <3>2
            <4> HIDE DEF p
            <4>2. 1 .. Len(q) + 1 = (1 .. Len(q)) \cup {Len(q) + 1}
                BY <4>1
            <4>3. ToSet(p) = ToSet(q) \cup {e}
                BY <4>1, <4>2 DEF ToSet
            <4> QED BY <4>1, <4>3
        <3>4. \A i \in 1 .. Len(q) : q[i].task.id # e.task.id
            <4>1. \A i \in 1 .. Len(q) : q[i] \in ToSet(q)
                BY <3>2 DEF ToSet
            <4> QED BY <1>6, <1>8, <4>1
        <3>5. ToSet(q) = {x \in Until(n - 1) : x.task.id \in ids}
            BY <1>8
        <3>6. \A i, j \in 1 .. Len(q) : q[i].task.id = q[j].task.id => i = j
            BY <1>8
        <3>7. Until(n) = Until(n - 1) \cup {e}
            BY <1>5
        <3> HIDE DEF p, q
        <3>8. ToSet(p) = {x \in Until(n) : x.task.id \in ids}
            BY <2>2, <3>3, <3>5, <3>7
        <3>9. \A i, j \in 1 .. Len(p) : p[i].task.id = p[j].task.id => i = j
            BY <3>3, <3>4, <3>6
        <3> QED BY <3>1, <3>3, <3>8, <3>9
    <2> QED BY <2>1, <2>2
<1> HIDE DEF Good
<1>9. 0 \in S /\ \A n \in 1 .. Len(entries) : n - 1 \in S => n \in S
    BY <1>7, <1>8
<1> HIDE DEF S
<1>10. Len(entries) \in S
    BY <1>1, <1>9, UpTo
<1>11. Good(Len(entries))
    BY <1>10 DEF S
<1> DEFINE kept == Entries(entries, ids)
<1>12. /\ kept \in Seq(E)
       /\ \A i, j \in 1 .. Len(kept) : kept[i].task.id = kept[j].task.id => i = j
       /\ ToSet(kept) = {e \in ToSet(entries) : e.task.id \in ids}
    BY <1>2, <1>4, <1>11 DEF Good
<1>13. Distinct(TasksOf(kept))
    BY <1>12, EntrySet DEF E
<1> QED
    BY <1>12, <1>13 DEF E

-----------------------------------------------------------------------------
(* The calls. *)

LEMMA StateParts ==
    ASSUME NEW T, NEW s, WellFormed(T, s)
    PROVE  /\ s.ready \in Seq(T) /\ s.delayed \in Seq(T)
           /\ s.inflight \in Seq(EntriesOf(T))
           /\ s.paused \in BOOLEAN
           /\ TasksOf(s.inflight) \in Seq(T)
           /\ Distinct(s.ready) /\ Distinct(s.delayed) /\ Distinct(TasksOf(s.inflight))
           /\ Inflight(s) = {e.task.id : e \in ToSet(s.inflight)}
           /\ Waiting(s) \cap Inflight(s) = {}
<1>1. /\ s.ready \in Seq(T) /\ s.delayed \in Seq(T)
      /\ s.inflight \in Seq(EntriesOf(T))
      /\ s.paused \in BOOLEAN
    BY DEF WellFormed, States
<1>2. /\ TasksOf(s.inflight) \in Seq(T)
      /\ IdsOf(TasksOf(s.inflight)) = {e.task.id : e \in ToSet(s.inflight)}
    BY <1>1, EntrySet
<1>3. /\ Distinct(s.ready) /\ Distinct(s.delayed) /\ Distinct(TasksOf(s.inflight))
      /\ Waiting(s) \cap Inflight(s) = {}
    BY DEF WellFormed, Separate, Waiting, Inflight
<1> QED
    BY <1>1, <1>2, <1>3 DEF Inflight

\* A state whose ready tasks are those of before.
LEMMA NobodyPasses ==
    ASSUME NEW q
    PROVE  Passing(q, IdsOf(q))
BY DEF Passing, IdsOf

LEMMA PromoteFacts ==
    ASSUME NEW T, Ranked(T), NEW s, WellFormed(T, s), NEW time \in Nat
    PROVE  LET r == PromoteDelayed(s, time)
           IN  /\ WellFormed(T, r)
               /\ r.inflight = s.inflight /\ r.paused = s.paused
               /\ Waiting(r) = Waiting(s)
               /\ Passing(r.ready, IdsOf(s.ready))
<1> DEFINE s0 == [s EXCEPT !.delayed = <<>>]
<1>1. /\ s.ready \in Seq(T) /\ s.delayed \in Seq(T) /\ Distinct(s.delayed)
      /\ IdsOf(s.delayed) \cap IdsOf(s.ready) = {}
      /\ IdsOf(s.delayed) \cap IdsOf(TasksOf(s.inflight)) = {}
    BY StateParts DEF WellFormed, Separate
<1>2. /\ s0 \in States(T) /\ s0.ready = s.ready /\ s0.delayed = <<>>
      /\ s0.inflight = s.inflight /\ s0.paused = s.paused
    <2> DEFINE d == <<>>
    <2>1. s \in States(T) /\ d \in Seq(T)
        BY DEF WellFormed
    <2> HIDE DEF d
    <2>2. LET x == [s EXCEPT !.delayed = d]
          IN  /\ x \in States(T) /\ x.ready = s.ready /\ x.delayed = d
              /\ x.inflight = s.inflight /\ x.paused = s.paused
        BY <2>1 DEF States
    <2> QED BY <2>2 DEF d
<1>3. PromoteDelayed(s, time) = PushTasks(s0, s.delayed, time)
    BY DEF PromoteDelayed
<1> HIDE DEF s0
<1>4. WellFormed(T, s0)
    BY <1>2, NothingIn DEF WellFormed, Separate
<1>5. Waiting(s0) = IdsOf(s.ready) /\ Inflight(s0) = IdsOf(TasksOf(s.inflight))
    BY <1>2, NothingIn DEF Waiting, Inflight
<1>6. IdsOf(s.delayed) \cap (Waiting(s0) \cup Inflight(s0)) = {}
    BY <1>1, <1>5
<1> DEFINE r == PushTasks(s0, s.delayed, time)
<1>7. /\ WellFormed(T, r)
      /\ r.inflight = s0.inflight /\ r.paused = s0.paused
      /\ Waiting(r) = Waiting(s0) \cup IdsOf(s.delayed)
      /\ \A before : IdsOf(s.delayed) \cap before = {} /\ Passing(s0.ready, before)
                     => Passing(r.ready, before)
    BY <1>1, <1>4, <1>6, PushTasksFacts
<1> HIDE DEF r
<1>8. Passing(r.ready, IdsOf(s.ready))
    BY <1>1, <1>2, <1>7, NobodyPasses
<1>9. Waiting(r) = Waiting(s)
    BY <1>5, <1>7 DEF Waiting
<1> QED
    BY <1>2, <1>3, <1>7, <1>8, <1>9 DEF r

LEMMA HeadTaken ==
    ASSUME NEW T, NEW q \in Seq(T), q # <<>>, Distinct(q), Sorted(q)
    PROVE  /\ Head(q) \in T /\ Head(q).id \in IdsOf(q)
           /\ Tail(q) \in Seq(T)
           /\ IdsOf(Tail(q)) = IdsOf(q) \ {Head(q).id}
           /\ Distinct(Tail(q)) /\ Sorted(Tail(q))
           /\ \A before : Passing(q, before) => Passing(Tail(q), before)
<1> DEFINE p == Tail(q)
<1>1. /\ Len(q) \in Nat /\ DOMAIN q = 1 .. Len(q) /\ 1 \in DOMAIN q
      /\ Head(q) = q[1] /\ q[1] \in T
      /\ p \in Seq(T) /\ DOMAIN p = 1 .. Len(q) - 1
      /\ \A i \in 1 .. Len(q) - 1 : p[i] = q[i + 1]
    OBVIOUS
<1> HIDE DEF p
<1>2. \A i \in DOMAIN p : i + 1 \in DOMAIN q /\ i + 1 # 1 /\ p[i] = q[i + 1]
    BY <1>1
<1>3. \A i \in DOMAIN q : i = 1 \/ (i - 1 \in DOMAIN p /\ p[i - 1] = q[i])
    BY <1>1
<1>4. \A i, j \in DOMAIN p : /\ (i < j) => (i + 1 < j + 1)
                             /\ (i + 1 = j + 1) => (i = j)
    BY <1>1
<1>5. IdsOf(p) = IdsOf(q) \ {q[1].id}
    <2>1. \A i \in DOMAIN p : p[i].id \in IdsOf(q) \ {q[1].id}
        BY <1>1, <1>2 DEF IdsOf, Distinct
    <2>2. \A i \in DOMAIN q : q[i].id # q[1].id => q[i].id \in IdsOf(p)
        BY <1>3 DEF IdsOf
    <2> QED BY <2>1, <2>2 DEF IdsOf
<1>6. q[1].id \in IdsOf(q)
    BY <1>1 DEF IdsOf
<1>7. Distinct(p)
    BY <1>2, <1>4 DEF Distinct
<1>8. Sorted(p)
    BY <1>2, <1>4 DEF Sorted
<1>9. ASSUME NEW before, Passing(q, before) PROVE Passing(p, before)
    BY <1>2, <1>4, <1>9 DEF Passing
<1> QED
    BY <1>1, <1>5, <1>6, <1>7, <1>8, <1>9 DEF p

LEMMA EntryAppended ==
    ASSUME NEW T, NEW q \in Seq(EntriesOf(T)), NEW e \in EntriesOf(T),
           Distinct(TasksOf(q)), e.task.id \notin IdsOf(TasksOf(q))
    PROVE  /\ Append(q, e) \in Seq(EntriesOf(T))
           /\ Distinct(TasksOf(Append(q, e)))
           /\ ToSet(Append(q, e)) = ToSet(q) \cup {e}
<1> DEFINE E == EntriesOf(T)
           p == Append(q, e)
<1>1. e \in E /\ q \in Seq(E)
    OBVIOUS
<1>2. /\ \A i, j \in 1 .. Len(q) : q[i].task.id = q[j].task.id => i = j
      /\ IdsOf(TasksOf(q)) = {x.task.id : x \in ToSet(q)}
    BY EntrySet
<1> HIDE DEF E
<1>4. /\ p \in Seq(E) /\ Len(p) = Len(q) + 1 /\ Len(q) \in Nat
      /\ \A i \in 1 .. Len(q) : p[i] = q[i]
      /\ p[Len(q) + 1] = e
      /\ DOMAIN p = 1 .. Len(q) + 1 /\ DOMAIN q = 1 .. Len(q)
    BY <1>1
<1> HIDE DEF p
<1>5. 1 .. Len(q) + 1 = (1 .. Len(q)) \cup {Len(q) + 1}
    BY <1>4
<1>6. ToSet(p) = ToSet(q) \cup {e}
    BY <1>4, <1>5 DEF ToSet
<1>7. \A i \in 1 .. Len(q) : q[i].task.id # e.task.id
    <2>1. \A i \in 1 .. Len(q) : q[i] \in ToSet(q)
        BY <1>4 DEF ToSet
    <2>2. e.task.id \notin {x.task.id : x \in ToSet(q)}
        BY <1>2
    <2> QED BY <2>1, <2>2, Zenon
<1>8. \A i, j \in 1 .. Len(p) : p[i].task.id = p[j].task.id => i = j
    BY <1>2, <1>4, <1>7
<1>9. Distinct(TasksOf(p))
    BY <1>4, <1>8, EntrySet DEF E
<1> QED
    BY <1>4, <1>6, <1>9 DEF E, p

LEMMA TakeFacts ==
    ASSUME NEW T, Ranked(T), NEW s, WellFormed(T, s), NEW time \in Nat, NEW lease \in Nat,
           PromoteDelayed(s, time).ready # <<>>
    PROVE  LET r == Take(s, lease, time)
               t == Head(PromoteDelayed(s, time).ready)
           IN  /\ WellFormed(T, r)
               /\ r.paused = s.paused
               /\ t \in T /\ t.id \in Waiting(s)
               /\ Waiting(r) = Waiting(s) \ {t.id}
               /\ ToSet(r.inflight) = ToSet(s.inflight) \cup {[task |-> t, lease |-> lease]}
               /\ Passing(r.ready, IdsOf(s.ready))
<1> DEFINE m == PromoteDelayed(s, time)
           t == Head(m.ready)
           e == [task |-> t, lease |-> lease]
           r == Take(s, lease, time)
           left == Tail(m.ready)
           running == Append(m.inflight, e)
<1>1. /\ WellFormed(T, m)
      /\ m.inflight = s.inflight /\ m.paused = s.paused
      /\ Waiting(m) = Waiting(s)
      /\ Passing(m.ready, IdsOf(s.ready))
    BY PromoteFacts
<1>2. r = [m EXCEPT !.ready = left, !.inflight = running]
    BY DEF Take
<1>3. m.ready # <<>>
    OBVIOUS
<1> HIDE DEF m
<1>4. /\ m.ready \in Seq(T) /\ m.delayed \in Seq(T)
      /\ m.inflight \in Seq(EntriesOf(T))
      /\ Distinct(m.ready) /\ Distinct(TasksOf(m.inflight)) /\ Sorted(m.ready)
      /\ Waiting(m) \cap Inflight(m) = {}
    BY <1>1, StateParts DEF WellFormed
<1>5. /\ t \in T /\ t.id \in IdsOf(m.ready)
      /\ left \in Seq(T)
      /\ IdsOf(left) = IdsOf(m.ready) \ {t.id}
      /\ Distinct(left) /\ Sorted(left)
      /\ \A before : Passing(m.ready, before) => Passing(left, before)
    BY <1>3, <1>4, HeadTaken
<1>6. t.id \in Waiting(m) /\ t.id \notin IdsOf(m.delayed) /\ t.id \notin IdsOf(TasksOf(m.inflight))
    BY <1>1, <1>4, <1>5 DEF Waiting, Inflight, WellFormed, Separate
<1> HIDE DEF left, t
<1>13. e \in EntriesOf(T) /\ e.task = t
    BY <1>5 DEF EntriesOf
<1> HIDE DEF e
<1>7. /\ running \in Seq(EntriesOf(T))
      /\ Distinct(TasksOf(running))
      /\ ToSet(running) = ToSet(m.inflight) \cup {e}
    <2>1. e.task.id \notin IdsOf(TasksOf(m.inflight))
        BY <1>6, <1>13
    <2> QED BY <1>4, <1>13, <2>1, EntryAppended, ZenonT(60)
<1>8. IdsOf(TasksOf(running)) = IdsOf(TasksOf(m.inflight)) \cup {t.id}
    <2>1. /\ IdsOf(TasksOf(running)) = {x.task.id : x \in ToSet(running)}
          /\ IdsOf(TasksOf(m.inflight)) = {x.task.id : x \in ToSet(m.inflight)}
        BY <1>4, <1>7, EntrySet
    <2> HIDE DEF running
    <2> QED BY <1>7, <1>13, <2>1
<1> HIDE DEF running
<1>9. /\ r \in States(T) /\ r.ready = left /\ r.inflight = running
      /\ r.delayed = m.delayed /\ r.paused = m.paused
    BY <1>1, <1>2, <1>5, <1>7 DEF WellFormed, States
<1> HIDE DEF r
<1>10. Separate(r.ready, r.delayed, TasksOf(r.inflight))
    <2>1. /\ Distinct(m.delayed)
          /\ IdsOf(m.ready) \cap IdsOf(m.delayed) = {}
          /\ IdsOf(m.ready) \cap IdsOf(TasksOf(m.inflight)) = {}
          /\ IdsOf(m.delayed) \cap IdsOf(TasksOf(m.inflight)) = {}
        BY <1>1 DEF WellFormed, Separate
    <2> QED BY <1>5, <1>6, <1>7, <1>8, <1>9, <2>1 DEF Separate
<1>11. WellFormed(T, r)
    BY <1>1, <1>5, <1>9, <1>10 DEF WellFormed
<1>12. Waiting(r) = Waiting(s) \ {t.id}
    BY <1>1, <1>5, <1>6, <1>9 DEF Waiting
<1> QED
    BY <1>1, <1>5, <1>6, <1>7, <1>9, <1>11, <1>12 DEF t, m, r, e

\* Inflight entries are given up, and tasks pushed: the tasks given back, follow-ups, or
\* a task that came while it was inflight.
LEMMA MoveFacts ==
    ASSUME NEW T, Ranked(T), NEW s, WellFormed(T, s), NEW time \in Nat,
           NEW keep \in SUBSET Inflight(s), NEW tasks \in Seq(T), Distinct(tasks),
           IdsOf(tasks) \cap (Waiting(s) \cup keep) = {}
    PROVE  LET r == PushTasks([s EXCEPT !.inflight = Entries(@, keep)], tasks, time)
           IN  /\ WellFormed(T, r)
               /\ r.paused = s.paused
               /\ Waiting(r) = Waiting(s) \cup IdsOf(tasks)
               /\ ToSet(r.inflight) = {e \in ToSet(s.inflight) : e.task.id \in keep}
               /\ Passing(r.ready, IdsOf(s.ready))
<1> DEFINE kept == Entries(s.inflight, keep)
           s0 == [s EXCEPT !.inflight = Entries(@, keep)]
           r == PushTasks(s0, tasks, time)
<1>1. /\ s.ready \in Seq(T) /\ s.delayed \in Seq(T)
      /\ s.inflight \in Seq(EntriesOf(T))
      /\ Distinct(TasksOf(s.inflight))
      /\ Inflight(s) = {e.task.id : e \in ToSet(s.inflight)}
    BY StateParts
<1>2. /\ kept \in Seq(EntriesOf(T))
      /\ Distinct(TasksOf(kept))
      /\ ToSet(kept) = {e \in ToSet(s.inflight) : e.task.id \in keep}
    BY <1>1, EntriesFacts
<1>3. s0 = [s EXCEPT !.inflight = kept]
    <2> HIDE DEF kept
    <2> QED BY DEF WellFormed, States, kept
<1>4. IdsOf(TasksOf(kept)) = keep
    <2>1. IdsOf(TasksOf(kept)) = {e.task.id : e \in ToSet(kept)}
        BY <1>2, EntrySet
    <2>2. \A i \in keep : \E e \in ToSet(s.inflight) : e.task.id = i
        BY <1>1
    <2> HIDE DEF kept
    <2> QED BY <1>2, <2>1, <2>2
<1> HIDE DEF kept, s0
<1>5. /\ s0 \in States(T) /\ s0.ready = s.ready /\ s0.delayed = s.delayed
      /\ s0.inflight = kept /\ s0.paused = s.paused
    <2>1. s \in States(T)
        BY DEF WellFormed
    <2> QED BY <1>2, <1>3, <2>1 DEF States
<1>6. Separate(s0.ready, s0.delayed, TasksOf(s0.inflight))
    BY <1>2, <1>4, <1>5 DEF WellFormed, Separate, Inflight
<1>7. WellFormed(T, s0)
    BY <1>5, <1>6 DEF WellFormed
<1>8. Waiting(s0) = Waiting(s) /\ Inflight(s0) = keep
    BY <1>4, <1>5 DEF Waiting, Inflight
<1>9. IdsOf(tasks) \cap (Waiting(s0) \cup Inflight(s0)) = {}
    BY <1>8
<1>10. /\ WellFormed(T, r)
       /\ r.inflight = s0.inflight /\ r.paused = s0.paused
       /\ Waiting(r) = Waiting(s0) \cup IdsOf(tasks)
       /\ \A before : IdsOf(tasks) \cap before = {} /\ Passing(s0.ready, before)
                      => Passing(r.ready, before)
    BY <1>7, <1>9, PushTasksFacts
<1> HIDE DEF r
<1>11. Passing(r.ready, IdsOf(s.ready))
    <2>1. IdsOf(tasks) \cap IdsOf(s.ready) = {}
        BY DEF Waiting
    <2> QED BY <1>5, <1>10, <2>1, NobodyPasses
<1> QED
    BY <1>2, <1>5, <1>8, <1>10, <1>11 DEF r, s0

LEMMA CompleteFacts ==
    ASSUME NEW T, Ranked(T), NEW s, WellFormed(T, s), NEW time \in Nat, NEW id,
           NEW tasks \in Seq(T), Distinct(tasks),
           IdsOf(tasks) \cap (Waiting(s) \cup (Inflight(s) \ {id})) = {}
    PROVE  LET r == CompleteAndEnqueue(s, id, tasks, time)
           IN  /\ WellFormed(T, r)
               /\ r.paused = s.paused
               /\ Waiting(r) = Waiting(s) \cup IdsOf(tasks)
               /\ ToSet(r.inflight) = {e \in ToSet(s.inflight) : e.task.id # id}
               /\ Passing(r.ready, IdsOf(s.ready))
<1> DEFINE keep == Inflight(s) \ {id}
           r == PushTasks([s EXCEPT !.inflight = Entries(@, keep)], tasks, time)
<1>1. keep \in SUBSET Inflight(s) /\ IdsOf(tasks) \cap (Waiting(s) \cup keep) = {}
    OBVIOUS
<1>2. CompleteAndEnqueue(s, id, tasks, time) = r
    BY DEF CompleteAndEnqueue, Resolved
<1>3. \A e \in ToSet(s.inflight) : e.task.id \in keep <=> e.task.id # id
    <2>1. Inflight(s) = {e.task.id : e \in ToSet(s.inflight)}
        BY StateParts
    <2> QED BY <2>1
<1> HIDE DEF keep
<1>4. /\ WellFormed(T, r)
      /\ r.paused = s.paused
      /\ Waiting(r) = Waiting(s) \cup IdsOf(tasks)
      /\ ToSet(r.inflight) = {e \in ToSet(s.inflight) : e.task.id \in keep}
      /\ Passing(r.ready, IdsOf(s.ready))
    BY <1>1, MoveFacts
<1> HIDE DEF r
<1> QED
    BY <1>2, <1>3, <1>4

LEMMA ReleasedFacts ==
    ASSUME NEW T, Ranked(T), NEW s, WellFormed(T, s), NEW time \in Nat, NEW ids
    PROVE  LET r == Released(s, ids, time)
           IN  /\ WellFormed(T, r)
               /\ r.paused = s.paused
               /\ Waiting(r) = Waiting(s) \cup (Inflight(s) \cap ids)
               /\ ToSet(r.inflight) = {e \in ToSet(s.inflight) : e.task.id \notin ids}
               /\ Passing(r.ready, IdsOf(s.ready))
<1> DEFINE keep == Inflight(s) \ ids
           back == TasksOf(Entries(s.inflight, ids))
           r == PushTasks([s EXCEPT !.inflight = Entries(@, keep)], back, time)
<1>1. /\ s.inflight \in Seq(EntriesOf(T))
      /\ Distinct(TasksOf(s.inflight))
      /\ Inflight(s) = {e.task.id : e \in ToSet(s.inflight)}
      /\ Waiting(s) \cap Inflight(s) = {}
    BY StateParts
<1>2. Released(s, ids, time) = r
    BY DEF Released
<1>3. back \in Seq(T) /\ Distinct(back) /\ IdsOf(back) = Inflight(s) \cap ids
    <2> DEFINE out == Entries(s.inflight, ids)
    <2>1. /\ out \in Seq(EntriesOf(T))
          /\ Distinct(TasksOf(out))
          /\ ToSet(out) = {e \in ToSet(s.inflight) : e.task.id \in ids}
        BY <1>1, EntriesFacts
    <2> HIDE DEF out
    <2>2. TasksOf(out) \in Seq(T) /\ IdsOf(TasksOf(out)) = {e.task.id : e \in ToSet(out)}
        BY <2>1, EntrySet
    <2>3. IdsOf(TasksOf(out)) = Inflight(s) \cap ids
        BY <1>1, <2>1, <2>2
    <2> QED BY <2>1, <2>2, <2>3 DEF out
<1>4. \A e \in ToSet(s.inflight) : e.task.id \in keep <=> e.task.id \notin ids
    BY <1>1
<1> HIDE DEF back
<1>5. keep \in SUBSET Inflight(s) /\ IdsOf(back) \cap (Waiting(s) \cup keep) = {}
    BY <1>1, <1>3
<1> HIDE DEF keep
<1>6. /\ WellFormed(T, r)
      /\ r.paused = s.paused
      /\ Waiting(r) = Waiting(s) \cup IdsOf(back)
      /\ ToSet(r.inflight) = {e \in ToSet(s.inflight) : e.task.id \in keep}
      /\ Passing(r.ready, IdsOf(s.ready))
    BY <1>3, <1>5, MoveFacts
<1> HIDE DEF r
<1> QED
    BY <1>2, <1>3, <1>4, <1>6

LEMMA PushOneFacts ==
    ASSUME NEW T, Ranked(T), NEW s, WellFormed(T, s), NEW time \in Nat,
           NEW t \in T, t.id \notin Waiting(s) \cup Inflight(s)
    PROVE  LET r == PushTask(s, t, time)
           IN  /\ WellFormed(T, r)
               /\ r.inflight = s.inflight /\ r.paused = s.paused
               /\ Waiting(r) = Waiting(s) \cup {t.id}
               /\ Passing(r.ready, IdsOf(s.ready))
<1>1. t.id \notin IdsOf(s.ready)
    BY DEF Waiting
<1> QED
    BY <1>1, PushTaskFacts, NobodyPasses

-----------------------------------------------------------------------------
(* Checkpoints. *)

Checkpoints(T) == [ready : Seq(T), delayed : Seq(T), inflight : Seq(T)]

\* What every checkpoint has, with tasks T.
WellSaved(T, c) ==
    /\ c \in Checkpoints(T)
    /\ Separate(c.ready, c.delayed, c.inflight)
    /\ Sorted(c.ready)
    /\ \A i \in DOMAIN c.delayed : c.delayed[i].ready_at > 0

SavedIds(c) == IdsOf(c.ready) \cup IdsOf(c.delayed) \cup IdsOf(c.inflight)

LEMMA CheckpointFacts ==
    ASSUME NEW T, NEW s, WellFormed(T, s)
    PROVE  /\ WellSaved(T, CheckpointOf(s))
           /\ SavedIds(CheckpointOf(s)) = Waiting(s) \cup Inflight(s)
<1> DEFINE i == TasksOf(s.inflight)
<1>1. s.ready \in Seq(T) /\ s.delayed \in Seq(T) /\ i \in Seq(T)
    BY StateParts
<1>2. CheckpointOf(s) = [ready |-> s.ready, delayed |-> s.delayed, inflight |-> i]
    BY DEF CheckpointOf
<1>3. Separate(s.ready, s.delayed, i)
    BY DEF WellFormed
<1>4. SavedIds(CheckpointOf(s)) = Waiting(s) \cup Inflight(s)
    BY <1>2 DEF SavedIds, Waiting, Inflight
<1> HIDE DEF i
<1>5. WellSaved(T, CheckpointOf(s))
    BY <1>1, <1>2, <1>3 DEF WellSaved, Checkpoints, WellFormed
<1> QED
    BY <1>4, <1>5

\* What is restored has the tasks of the checkpoint under no lease, and is saved as the
\* same checkpoint.
LEMMA RestoreFacts ==
    ASSUME NEW T, NEW c, WellSaved(T, c)
    PROVE  /\ WellFormed(T, FromCheckpoint(c))
           /\ CheckpointOf(FromCheckpoint(c)) = c
           /\ \A e \in ToSet(FromCheckpoint(c).inflight) : e.lease = 0
<1> DEFINE r == FromCheckpoint(c)
           entries == [i \in DOMAIN c.inflight |-> [task |-> c.inflight[i], lease |-> 0]]
<1>1. /\ c \in Checkpoints(T) /\ Len(c.inflight) \in Nat
      /\ c.ready \in Seq(T) /\ c.delayed \in Seq(T) /\ c.inflight \in Seq(T)
      /\ DOMAIN c.inflight = 1 .. Len(c.inflight)
      /\ \A i \in 1 .. Len(c.inflight) : c.inflight[i] \in T
    BY DEF WellSaved, Checkpoints
<1>2. entries \in Seq(EntriesOf(T))
    <2>1. entries \in [1 .. Len(c.inflight) -> EntriesOf(T)]
        BY <1>1 DEF EntriesOf
    <2> HIDE DEF entries
    <2> QED BY <1>1, <2>1, SeqDef
<1>3. TasksOf(entries) = c.inflight
    <2>1. /\ DOMAIN entries = 1 .. Len(c.inflight)
          /\ \A i \in 1 .. Len(c.inflight) : entries[i].task = c.inflight[i]
        BY <1>1
    <2>2. c.inflight = [i \in 1 .. Len(c.inflight) |-> c.inflight[i]]
        <3>1. c.inflight \in [1 .. Len(c.inflight) -> T]
            BY <1>1, LenProperties
        <3> QED BY <3>1
    <2> HIDE DEF entries
    <2>3. TasksOf(entries) = [i \in 1 .. Len(c.inflight) |-> c.inflight[i]]
        BY <2>1 DEF TasksOf
    <2> QED BY <2>2, <2>3
<1>4. \A e \in ToSet(entries) : e.lease = 0
    <2>1. \A i \in DOMAIN entries : entries[i].lease = 0
        OBVIOUS
    <2> HIDE DEF entries
    <2> QED BY <2>1 DEF ToSet
<1>5. r = [ready |-> c.ready, delayed |-> c.delayed, paused |-> FALSE, inflight |-> entries]
    BY DEF FromCheckpoint
<1> HIDE DEF entries
<1>6. /\ r \in States(T) /\ r.ready = c.ready /\ r.delayed = c.delayed /\ r.inflight = entries
    BY <1>1, <1>2, <1>5 DEF States
<1> HIDE DEF r
<1>7. WellFormed(T, r)
    BY <1>3, <1>6 DEF WellFormed, WellSaved
<1>8. CheckpointOf(r) = c
    <2>1. CheckpointOf(r) = [ready |-> c.ready, delayed |-> c.delayed, inflight |-> c.inflight]
        BY <1>3, <1>6 DEF CheckpointOf
    <2> QED BY <1>1, <2>1 DEF Checkpoints
<1> QED
    BY <1>4, <1>6, <1>7, <1>8 DEF r

\* The state without tasks, paused or not.
LEMMA NothingFacts ==
    ASSUME NEW T, NEW paused \in BOOLEAN, NEW s,
           s = [ready |-> <<>>, delayed |-> <<>>, inflight |-> <<>>, paused |-> paused]
    PROVE  /\ WellFormed(T, s)
           /\ s.ready = <<>>
           /\ Waiting(s) = {} /\ Inflight(s) = {} /\ ToSet(s.inflight) = {}
<1>1. TasksOf(<<>>) = <<>> /\ ToSet(<<>>) = {}
    BY DEF TasksOf, ToSet
<1>2. <<>> \in Seq(T) /\ <<>> \in Seq(EntriesOf(T))
    BY EmptySeq
<1>3. s \in States(T)
    BY <1>2 DEF States
<1>4. WellFormed(T, s)
    BY <1>1, <1>3, NothingIn DEF WellFormed, Separate
<1> QED
    BY <1>1, <1>4, NothingIn DEF Waiting, Inflight

LEMMA Concatenated ==
    ASSUME NEW T, NEW a \in Seq(T), NEW b \in Seq(T), Distinct(a), Distinct(b),
           IdsOf(a) \cap IdsOf(b) = {}
    PROVE  /\ a \o b \in Seq(T)
           /\ Distinct(a \o b)
           /\ IdsOf(a \o b) = IdsOf(a) \cup IdsOf(b)
<1> DEFINE c == a \o b
<1>1. /\ Len(a) \in Nat /\ Len(b) \in Nat
      /\ DOMAIN a = 1 .. Len(a) /\ DOMAIN b = 1 .. Len(b)
    OBVIOUS
<1>2. /\ c \in Seq(T) /\ Len(c) = Len(a) + Len(b)
      /\ \A i \in 1 .. Len(a) + Len(b) : c[i] = IF i <= Len(a) THEN a[i] ELSE b[i - Len(a)]
    BY ConcatProperties
<1>3. DOMAIN c = 1 .. Len(a) + Len(b)
    BY <1>1, <1>2
<1> HIDE DEF c
<1>4. \A i \in DOMAIN c :
         \/ i <= Len(a) /\ i \in DOMAIN a /\ c[i] = a[i]
         \/ i > Len(a) /\ i - Len(a) \in DOMAIN b /\ c[i] = b[i - Len(a)]
    BY <1>1, <1>2, <1>3
<1>5. /\ \A i \in DOMAIN a : i \in DOMAIN c /\ c[i] = a[i]
      /\ \A i \in DOMAIN b : i + Len(a) \in DOMAIN c /\ c[i + Len(a)] = b[i]
    BY <1>1, <1>2, <1>3
<1>6. Distinct(c)
    <2> SUFFICES ASSUME NEW i \in DOMAIN c, NEW j \in DOMAIN c, c[i].id = c[j].id
                 PROVE  i = j
        BY DEF Distinct
    <2>1. \A k \in DOMAIN a : a[k].id \in IdsOf(a)
        BY DEF IdsOf
    <2>2. \A k \in DOMAIN b : b[k].id \in IdsOf(b)
        BY DEF IdsOf
    <2>3. CASE i <= Len(a) /\ j <= Len(a)
        BY <1>1, <1>3, <1>4, <2>3 DEF Distinct
    <2>4. CASE i > Len(a) /\ j > Len(a)
        <3>1. i - Len(a) = j - Len(a)
            BY <1>1, <1>3, <1>4, <2>4 DEF Distinct
        <3> QED BY <1>1, <1>3, <3>1
    <2>5. CASE i <= Len(a) /\ j > Len(a)
        BY <1>1, <1>3, <1>4, <2>1, <2>2, <2>5
    <2>6. CASE i > Len(a) /\ j <= Len(a)
        BY <1>1, <1>3, <1>4, <2>1, <2>2, <2>6
    <2> QED BY <1>1, <1>3, <2>3, <2>4, <2>5, <2>6
<1>7. IdsOf(c) = IdsOf(a) \cup IdsOf(b)
    BY <1>4, <1>5 DEF IdsOf
<1> QED
    BY <1>2, <1>6, <1>7 DEF c

LEMMA SavedOnce ==
    ASSUME NEW T, NEW c, WellSaved(T, c)
    PROVE  Distinct(c.ready \o c.delayed \o c.inflight)
<1>1. /\ c.ready \in Seq(T) /\ c.delayed \in Seq(T) /\ c.inflight \in Seq(T)
    BY DEF WellSaved, Checkpoints
<1> DEFINE queues == c.ready \o c.delayed
<1>2. /\ queues \in Seq(T) /\ Distinct(queues)
      /\ IdsOf(queues) = IdsOf(c.ready) \cup IdsOf(c.delayed)
    BY <1>1, Concatenated DEF WellSaved, Separate
<1> HIDE DEF queues
<1>3. Distinct(queues \o c.inflight)
    BY <1>1, <1>2, Concatenated DEF WellSaved, Separate
<1> QED
    BY <1>3 DEF queues

-----------------------------------------------------------------------------
(* What is inflight, by task. *)

RunningOf(s) ==
    [id \in Inflight(s) |-> (CHOOSE entry \in ToSet(s.inflight) : entry.task.id = id).lease]

LEMMA RunningFacts ==
    ASSUME NEW T, NEW s, WellFormed(T, s)
    PROVE  /\ DOMAIN RunningOf(s) = Inflight(s)
           /\ \A e \in ToSet(s.inflight) : RunningOf(s)[e.task.id] = e.lease
           /\ \A id \in Inflight(s) :
                 \E e \in ToSet(s.inflight) : e.task.id = id /\ RunningOf(s)[id] = e.lease
<1>1. /\ s.inflight \in Seq(EntriesOf(T)) /\ Distinct(TasksOf(s.inflight))
      /\ Inflight(s) = {e.task.id : e \in ToSet(s.inflight)}
    BY StateParts
<1>2. \A i, j \in 1 .. Len(s.inflight) :
         s.inflight[i].task.id = s.inflight[j].task.id => i = j
    BY <1>1, EntrySet
<1>3. DOMAIN s.inflight = 1 .. Len(s.inflight)
    BY <1>1, LenProperties
<1>4. \A e, f \in ToSet(s.inflight) : e.task.id = f.task.id => e = f
    BY <1>2, <1>3 DEF ToSet
<1>5. ASSUME NEW e \in ToSet(s.inflight)
      PROVE  e.task.id \in Inflight(s) /\ RunningOf(s)[e.task.id] = e.lease
    <2>1. e.task.id \in Inflight(s)
        BY <1>1
    <2> DEFINE f == CHOOSE entry \in ToSet(s.inflight) : entry.task.id = e.task.id
    <2>2. f \in ToSet(s.inflight) /\ f.task.id = e.task.id
        OBVIOUS
    <2>3. RunningOf(s)[e.task.id] = f.lease
        BY <2>1 DEF RunningOf
    <2> HIDE DEF f
    <2>4. f = e
        BY <1>4, <2>2
    <2> QED BY <2>1, <2>3, <2>4
<1>6. DOMAIN RunningOf(s) = Inflight(s)
    BY DEF RunningOf
<1>7. \A id \in Inflight(s) : \E e \in ToSet(s.inflight) : e.task.id = id
    BY <1>1
<1> QED
    BY <1>5, <1>6, <1>7

\* r has the entries of s but those of ids.
GivenUp(s, r, ids) ==
    \A e : e \in ToSet(r.inflight) <=> e \in ToSet(s.inflight) /\ e.task.id \notin ids

\* The leases that are left when those of some tasks end.
LEMMA LeaseKept ==
    ASSUME NEW T, NEW s, WellFormed(T, s), NEW r, WellFormed(T, r), NEW ids,
           GivenUp(s, r, ids), NEW id \in Inflight(s), id \notin ids
    PROVE  id \in Inflight(r) /\ RunningOf(r)[id] = RunningOf(s)[id]
<1>1. PICK e \in ToSet(s.inflight) : e.task.id = id /\ RunningOf(s)[id] = e.lease
    BY RunningFacts
<1>2. e \in ToSet(r.inflight)
    BY <1>1 DEF GivenUp
<1>3. RunningOf(r)[e.task.id] = e.lease
    BY <1>2, RunningFacts
<1>4. Inflight(r) = {x.task.id : x \in ToSet(r.inflight)}
    BY StateParts
<1> QED
    BY <1>1, <1>2, <1>3, <1>4

LEMMA RunningWithout ==
    ASSUME NEW T, NEW s, WellFormed(T, s), NEW r, WellFormed(T, r), NEW ids,
           GivenUp(s, r, ids)
    PROVE  DOMAIN RunningOf(r) = Inflight(s) \ ids
<1>1. /\ Inflight(s) = {e.task.id : e \in ToSet(s.inflight)}
      /\ Inflight(r) = {e.task.id : e \in ToSet(r.inflight)}
    BY StateParts
<1>2. Inflight(r) = Inflight(s) \ ids
    BY <1>1 DEF GivenUp
<1> QED
    BY <1>2 DEF RunningOf

\* The leases with a new one.
LEMMA RunningWith ==
    ASSUME NEW T, NEW s, WellFormed(T, s), NEW r, WellFormed(T, r), NEW e,
           e.task.id \notin Inflight(s),
           ToSet(r.inflight) = ToSet(s.inflight) \cup {e}
    PROVE  /\ Inflight(r) = Inflight(s) \cup {e.task.id}
           /\ RunningOf(r) = [id \in DOMAIN RunningOf(s) \cup {e.task.id} |->
                                 IF id = e.task.id THEN e.lease ELSE RunningOf(s)[id]]
<1>1. /\ Inflight(s) = {x.task.id : x \in ToSet(s.inflight)}
      /\ Inflight(r) = {x.task.id : x \in ToSet(r.inflight)}
    BY StateParts
<1>2. Inflight(r) = Inflight(s) \cup {e.task.id}
    BY <1>1
<1>3. RunningOf(r)[e.task.id] = e.lease
    BY RunningFacts
<1>4. \A id \in Inflight(s) : RunningOf(r)[id] = RunningOf(s)[id]
    <2> TAKE id \in Inflight(s)
    <2>1. PICK x \in ToSet(s.inflight) : x.task.id = id /\ RunningOf(s)[id] = x.lease
        BY RunningFacts
    <2>2. x \in ToSet(r.inflight)
        OBVIOUS
    <2>3. RunningOf(r)[x.task.id] = x.lease
        BY <2>2, RunningFacts
    <2> QED BY <2>1, <2>3
<1>5. DOMAIN RunningOf(s) = Inflight(s)
    BY DEF RunningOf
<1>6. RunningOf(r) = [id \in Inflight(r) |-> RunningOf(r)[id]]
    BY DEF RunningOf
<1> QED
    BY <1>2, <1>3, <1>4, <1>5, <1>6

-----------------------------------------------------------------------------
(* The inductive invariant, for any clients. *)

Saves == {c \in Checkpoints(Tasks) : WellSaved(Tasks, c)}

CallsInProgress ==
    {Idle}
    \cup [at : {"saving", "renaming"}, claim : SUBSET (Ids \X Nat), ids : SUBSET Ids]
    \cup [at : {"opening"}, claim : SUBSET (Ids \X Nat), ids : SUBSET Ids, saved : Saves]
    \cup [at : {"writing"}, claim : SUBSET (Ids \X Nat), ids : SUBSET Ids, saved : Saves,
          file : Files]

Claims == UNION {call[c].claim : c \in {d \in Clients : call[d] # Idle}}

StateOK ==
    /\ WellFormed(Tasks, state)
    /\ \A e \in ToSet(state.inflight) : e.lease <= granted

Counters ==
    /\ up \in BOOLEAN /\ unsaved \in BOOLEAN
    /\ now \in 0 .. Horizon
    /\ granted \in 0 .. MaxLease
    /\ acked \subseteq Ids

CallsOK ==
    /\ call \in [Clients -> CallsInProgress]
    /\ ~up => \A c \in Clients : call[c] = Idle

FilesOK ==
    /\ path \in Files \cup {NoFile} /\ temp \in Files \cup {NoFile}
    /\ disk \in [Files -> Seq(Saves)]

\* No lease is handed to two calls, or to a call and a client.
Leases ==
    /\ Handed \subseteq Ids \X (1 .. granted)
    /\ held \cap Claims = {}
    /\ \A c, d \in Clients :
          call[c] # Idle /\ call[d] # Idle /\ c # d => call[c].claim \cap call[d].claim = {}

IInv == StateOK /\ Counters /\ CallsOK /\ FilesOK /\ Leases

-----------------------------------------------------------------------------
(* Constants, tasks and calls. *)

LEMMA TaskParts ==
    /\ Ranked(Tasks)
    /\ \A t \in Tasks : t.id \in Ids
    /\ \A id \in Ids, payload \in Payloads : Task(id, payload) \in Tasks /\ Task(id, payload).id = id
BY CheckpointAssumption DEF Ranked, Tasks, Task

LEMMA TracksIds ==
    ASSUME NEW s, WellFormed(Tasks, s)
    PROVE  Waiting(s) \subseteq Ids /\ Inflight(s) \subseteq Ids
<1>1. /\ s.ready \in Seq(Tasks) /\ s.delayed \in Seq(Tasks)
      /\ TasksOf(s.inflight) \in Seq(Tasks)
    BY StateParts
<1>2. ASSUME NEW q \in Seq(Tasks) PROVE IdsOf(q) \subseteq Ids
    BY SequenceParts, TaskParts
<1> QED
    BY <1>1, <1>2 DEF Waiting, Inflight

LEMMA CallParts ==
    ASSUME CallsOK, NEW c \in Clients
    PROVE  /\ call[c].at = "idle" => call[c] = Idle
           /\ call[c] # Idle =>
                 /\ call[c].at \in {"saving", "opening", "writing", "renaming"}
                 /\ call[c].claim \subseteq Ids \X Nat
                 /\ call[c].ids \subseteq Ids
           /\ call[c].at \in {"opening", "writing"} => call[c].saved \in Saves
           /\ call[c].at = "writing" => call[c].file \in Files
           /\ call[c].at # "idle" => call[c] # Idle
<1>1. call[c] \in CallsInProgress
    BY DEF CallsOK
<1> QED
    BY <1>1 DEF CallsInProgress, Idle

\* The claims are those of the calls in progress.
LEMMA ClaimsAre ==
    /\ \A p : p \in Claims <=> \E d \in Clients : call[d] # Idle /\ p \in call[d].claim
    /\ Handed = held \cup Claims
BY DEF Claims, Handed

LEMMA Bounds ==
    ASSUME IInv
    PROVE  /\ granted \in Nat /\ now \in Nat /\ MaxLease \in Nat
           /\ WellFormed(Tasks, state)
           /\ Horizon \in Nat
BY CheckpointAssumption DEF IInv, Counters, StateOK

-----------------------------------------------------------------------------
(* Steps of calls. *)

PoolStep == TaskPool!Next \/ UNCHANGED TaskPool!vars

\* No accepted task leaves the pool but in the step that takes it from acked.
Kept == acked' \cap Tracked \subseteq Tracked'

\* What a step keeps, and what it may do to the queue and to the pool.
StepOK ==
    /\ IInv'
    /\ up => Passing(state'.ready, IdsOf(state.ready))
    /\ up /\ up' => PoolStep /\ Kept

LEMMA RunningIs == Running = RunningOf(state) /\ Running' = RunningOf(state')
BY DEF Running, RunningOf

LEMMA SameRunning ==
    ASSUME NEW s, NEW r, r.inflight = s.inflight
    PROVE  RunningOf(r) = RunningOf(s) /\ Inflight(r) = Inflight(s)
<1>1. Inflight(r) = Inflight(s)
    BY Zenon DEF Inflight
<1> DEFINE first(entries, id) == CHOOSE entry \in ToSet(entries) : entry.task.id = id
<1>2. /\ RunningOf(r) = [id \in Inflight(r) |-> first(r.inflight, id).lease]
      /\ RunningOf(s) = [id \in Inflight(s) |-> first(s.inflight, id).lease]
    BY Zenon DEF RunningOf
<1> HIDE DEF first
<1> QED
    BY <1>1, <1>2, Zenon

\* The claims once the call of c has moved on.
LEMMA ClaimsAfter ==
    ASSUME call \in [Clients -> CallsInProgress], NEW c \in Clients, NEW k,
           call' = [call EXCEPT ![c] = k]
    PROVE  /\ call[c] = Idle /\ k # Idle => Claims' = Claims \cup k.claim
           /\ call[c] # Idle /\ k # Idle /\ k.claim = call[c].claim => Claims' = Claims
           /\ call[c] # Idle /\ k = Idle =>
                 Claims' \subseteq Claims /\ Claims = Claims' \cup call[c].claim
           /\ call'[c] = k
           /\ \A d \in Clients \ {c} : call'[d] = call[d]
<1>1. call'[c] = k /\ \A d \in Clients \ {c} : call'[d] = call[d]
    OBVIOUS
<1>2. \A p : p \in Claims' <=> \E d \in Clients : call'[d] # Idle /\ p \in call'[d].claim
    BY DEF Claims
<1>3. \A p : p \in Claims <=> \E d \in Clients : call[d] # Idle /\ p \in call[d].claim
    BY ClaimsAre
<1> DEFINE others == UNION {call[d].claim : d \in {e \in Clients \ {c} : call[e] # Idle}}
<1>4. \A p : p \in others <=> \E d \in Clients \ {c} : call[d] # Idle /\ p \in call[d].claim
    OBVIOUS
<1> HIDE DEF others
<1>5. /\ call[c] = Idle => Claims = others
      /\ call[c] # Idle => Claims = others \cup call[c].claim
    BY <1>3, <1>4
<1>6. /\ k = Idle => Claims' = others
      /\ k # Idle => Claims' = others \cup k.claim
    BY <1>1, <1>2, <1>4
<1> QED
    BY <1>1, <1>5, <1>6

\* A call that changes the state keeps the invariant, if it leaves a well-formed state,
\* grants new leases only, and its client is handed no other.
LEMMA CallKeeps ==
    ASSUME IInv, NEW c \in Clients, NEW new, NEW claim, NEW ids,
           Call(c, new, claim, ids),
           WellFormed(Tasks, new), \A e \in ToSet(new.inflight) : e.lease <= granted',
           claim \subseteq Ids \X (granted + 1 .. granted'), ids \subseteq Ids,
           granted' \in 0 .. MaxLease, granted <= granted',
           held' \subseteq held, acked' \subseteq acked
    PROVE  /\ IInv'
           /\ state' = new
           /\ up /\ up'
           /\ Handed' = held' \cup Claims \cup claim
<1> DEFINE k == [at |-> "saving", claim |-> claim, ids |-> ids]
<1>1. /\ up /\ call[c] = Idle /\ state' = new
      /\ call' = [call EXCEPT ![c] = k]
      /\ up' = up /\ now' = now /\ unsaved' = unsaved
      /\ path' = path /\ temp' = temp /\ disk' = disk
    BY DEF Call, diskVars
<1>2. granted \in Nat /\ granted' \in Nat
    BY Bounds
<1>3. StateOK'
    BY <1>1 DEF StateOK
<1>4. Counters'
    BY <1>1 DEF IInv, Counters
<1>5. k \in CallsInProgress /\ k # Idle /\ k.claim = claim
    <2>1. claim \in SUBSET (Ids \X Nat)
        BY <1>2
    <2> QED BY <2>1 DEF CallsInProgress, Idle
<1> HIDE DEF k
<1>6. CallsOK'
    BY <1>1, <1>5 DEF IInv, CallsOK
<1>7. FilesOK'
    BY <1>1 DEF IInv, FilesOK
<1>8. /\ Claims' = Claims \cup claim
      /\ call'[c] = k
      /\ \A d \in Clients \ {c} : call'[d] = call[d]
    BY <1>1, <1>5, ClaimsAfter DEF IInv, CallsOK
<1>9. Handed' = held' \cup Claims' /\ Handed = held \cup Claims
    BY DEF Handed, Claims
<1>10. Leases'
    <2>1. Handed \subseteq Ids \X (1 .. granted) /\ held \cap Claims = {}
        BY DEF IInv, Leases
    <2>2. Ids \X (1 .. granted) \subseteq Ids \X (1 .. granted')
        BY <1>2
    <2>3. Handed' \subseteq Ids \X (1 .. granted')
        BY <1>2, <1>8, <1>9, <2>1, <2>2
    <2>4. claim \cap Handed = {}
        BY <1>2, <2>1
    <2>5. held' \cap Claims' = {}
        BY <1>8, <1>9, <2>1, <2>4
    <2>6. ASSUME NEW d \in Clients, NEW e \in Clients, call'[d] # Idle, call'[e] # Idle, d # e
          PROVE  call'[d].claim \cap call'[e].claim = {}
        <3>1. \A x \in Clients \ {c} : call[x] # Idle => call[x].claim \subseteq Handed
            BY <1>9, ClaimsAre
        <3>2. CASE d # c /\ e # c
            BY <1>8, <2>6, <3>2 DEF IInv, Leases
        <3>3. CASE d = c
            BY <1>5, <1>8, <2>4, <2>6, <3>1, <3>3
        <3>4. CASE e = c
            BY <1>5, <1>8, <2>4, <2>6, <3>1, <3>4
        <3> QED BY <3>2, <3>3, <3>4
    <2> QED BY <2>3, <2>5, <2>6 DEF Leases
<1> QED
    BY <1>1, <1>3, <1>4, <1>6, <1>7, <1>8, <1>9, <1>10 DEF IInv

LEMMA EnqueueStep ==
    ASSUME IInv, NEW c \in Clients, NEW id \in Ids, NEW payload \in Payloads,
           Enqueue(c, id, payload)
    PROVE  StepOK
<1> DEFINE t == Task(id, payload)
           r == PushTask(state, t, now)
<1>1. t \in Tasks /\ t.id = id /\ id \notin Waiting(state) \cup Inflight(state)
    BY TaskParts DEF Enqueue, Tracked
<1>2. /\ Call(c, r, {}, {id})
      /\ granted' = granted /\ held' = held /\ acked' = acked
    BY DEF Enqueue
<1> HIDE DEF t
<1>3. /\ WellFormed(Tasks, r)
      /\ r.inflight = state.inflight
      /\ Waiting(r) = Waiting(state) \cup {id}
      /\ Passing(r.ready, IdsOf(state.ready))
    BY <1>1, Bounds, TaskParts, PushOneFacts
<1> HIDE DEF r
<1>4. /\ IInv' /\ state' = r /\ up /\ up'
      /\ Handed' = held' \cup Claims
    <2>1. \A e \in ToSet(r.inflight) : e.lease <= granted'
        BY <1>2, <1>3 DEF IInv, StateOK
    <2>2. granted' \in 0 .. MaxLease /\ granted <= granted'
        BY <1>2, Bounds DEF IInv, Counters
    <2> QED BY <1>2, <1>3, <2>1, <2>2, CallKeeps
<1>5. Running' = Running
    <2>1. RunningOf(r) = RunningOf(state)
        BY <1>3, SameRunning, Zenon
    <2> QED BY <1>4, <2>1, RunningIs
<1>6. TaskPool!Submit(id)
    <2>1. id \in Ids \ TaskPool!Pool
        BY <1>1 DEF TaskPool!Pool, Running
    <2>2. Handed' = Handed
        BY <1>2, <1>4, ClaimsAre
    <2> QED BY <1>2, <1>3, <1>4, <1>5, <2>1, <2>2 DEF TaskPool!Submit
<1>7. Kept
    BY <1>3, <1>4, SameRunning DEF Kept, Tracked
<1> QED
    BY <1>3, <1>4, <1>6, <1>7 DEF StepOK, PoolStep, TaskPool!Next

LEMMA TakeReadyStep ==
    ASSUME IInv, NEW c \in Clients, TakeReady(c)
    PROVE  StepOK
<1> DEFINE t == Head(PromoteDelayed(state, now).ready)
           r == Take(state, granted', now)
           claim == {<<t.id, granted'>>}
           e == [task |-> t, lease |-> granted']
<1>1. /\ granted \in Nat /\ granted' = granted + 1 /\ granted' \in 0 .. MaxLease
      /\ held' = held /\ acked' = acked
      /\ PromoteDelayed(state, now).ready # <<>>
      /\ Call(c, r, claim, {})
    BY Bounds DEF TakeReady, Claimable
<1>2. /\ WellFormed(Tasks, r)
      /\ t \in Tasks /\ t.id \in Waiting(state)
      /\ Waiting(r) = Waiting(state) \ {t.id}
      /\ ToSet(r.inflight) = ToSet(state.inflight) \cup {e}
      /\ Passing(r.ready, IdsOf(state.ready))
    <2>1. /\ now \in Nat /\ granted' \in Nat /\ WellFormed(Tasks, state)
          /\ Ranked(Tasks)
        BY <1>1, Bounds, TaskParts
    <2>2. PromoteDelayed(state, now).ready # <<>>
        BY <1>1
    <2>3. LET q == Take(state, granted', now)
              h == Head(PromoteDelayed(state, now).ready)
          IN  /\ WellFormed(Tasks, q)
              /\ q.paused = state.paused
              /\ h \in Tasks /\ h.id \in Waiting(state)
              /\ Waiting(q) = Waiting(state) \ {h.id}
              /\ ToSet(q.inflight) = ToSet(state.inflight) \cup {[task |-> h, lease |-> granted']}
              /\ Passing(q.ready, IdsOf(state.ready))
        BY <2>1, <2>2, TakeFacts, Zenon
    <2> QED BY <2>3, Zenon
<1>3. e.task = t /\ e.lease = granted'
    OBVIOUS
<1> HIDE DEF t, r, e
<1>4. /\ IInv' /\ state' = r /\ up /\ up'
      /\ Handed' = held' \cup Claims \cup claim
    <2>1. \A x \in ToSet(r.inflight) : x.lease <= granted'
        <3>1. \A x \in ToSet(state.inflight) : x.lease <= granted /\ x.lease \in Nat
            BY Bounds, StateParts, EntrySet DEF IInv, StateOK
        <3> QED BY <1>1, <1>2, <1>3, <3>1
    <2>2. t.id \in Ids
        BY <1>2, TaskParts
    <2>3. claim \subseteq Ids \X (granted + 1 .. granted')
        BY <1>1, <2>2
    <2> HIDE DEF claim
    <2> QED BY <1>1, <1>2, <2>1, <2>3, CallKeeps
<1>5. t.id \in Ids /\ t.id \notin Inflight(state)
    BY <1>2, Bounds, StateParts, TaskParts
<1>6. Running' = [id \in DOMAIN Running \cup {t.id} |->
                     IF id = t.id THEN granted' ELSE Running[id]]
    <2>1. RunningOf(r) = [id \in DOMAIN RunningOf(state) \cup {t.id} |->
                             IF id = t.id THEN granted' ELSE RunningOf(state)[id]]
        <3>1. /\ WellFormed(Tasks, state) /\ WellFormed(Tasks, r)
              /\ e.task.id \notin Inflight(state)
              /\ ToSet(r.inflight) = ToSet(state.inflight) \cup {e}
            BY <1>2, <1>3, <1>5, Bounds
        <3>2. RunningOf(r) = [id \in DOMAIN RunningOf(state) \cup {e.task.id} |->
                                 IF id = e.task.id THEN e.lease ELSE RunningOf(state)[id]]
            BY <3>1, RunningWith
        <3> QED BY <1>3, <3>2, Zenon
    <2>2. Running' = RunningOf(state')
        BY DEF Running, RunningOf
    <2> QED BY <1>4, <2>1, <2>2, RunningIs
<1>7. Handed' = Handed \cup {<<t.id, granted'>>}
    BY <1>1, <1>4, ClaimsAre
<1>8. TaskPool!Claim(t.id, {})
    <2>1. t.id \in Waiting(state) \cup {}
        BY <1>2
    <2>2. Waiting(state)' = (Waiting(state) \cup {}) \ {t.id}
        BY <1>2, <1>4
    <2>3. Running' = [id \in (DOMAIN Running \ {}) \cup {t.id} |->
                         IF id = t.id THEN granted' ELSE Running[id]]
        BY <1>6
    <2> QED BY <1>1, <1>7, <2>1, <2>2, <2>3 DEF TaskPool!Claim
<1>9. TaskPool!Next
    BY <1>5, <1>8 DEF TaskPool!Next
<1>10. Kept
    <2>1. Inflight(state') = Inflight(state) \cup {t.id}
        <3>1. /\ DOMAIN Running = Inflight(state) /\ DOMAIN Running' = Inflight(state')
              /\ DOMAIN Running' = DOMAIN Running \cup {t.id}
            BY <1>6 DEF Running
        <3> QED BY <3>1
    <2>2. Waiting(state') = Waiting(state) \ {t.id}
        BY <1>2, <1>4
    <2> QED BY <2>1, <2>2 DEF Kept, Tracked
<1> QED
    BY <1>2, <1>4, <1>9, <1>10 DEF StepOK, PoolStep

\* A call that leaves the tasks as they are.
LEMMA QuietCall ==
    ASSUME IInv, NEW c \in Clients, NEW new, Call(c, new, {}, {}),
           WellFormed(Tasks, new), new.ready = state.ready, new.delayed = state.delayed,
           new.inflight = state.inflight,
           granted' = granted, held' = held, acked' = acked
    PROVE  StepOK
<1>1. /\ IInv' /\ state' = new /\ up /\ up'
      /\ Handed' = held' \cup Claims
    <2>1. \A e \in ToSet(new.inflight) : e.lease <= granted'
        BY DEF IInv, StateOK
    <2>2. granted' \in 0 .. MaxLease /\ granted <= granted'
        BY Bounds DEF IInv, Counters
    <2> QED BY <2>1, <2>2, CallKeeps
<1>2. Passing(state'.ready, IdsOf(state.ready))
    BY <1>1, NobodyPasses
<1>3. Waiting(state)' = Waiting(state) /\ Handed' = Handed
    BY <1>1, ClaimsAre DEF Waiting
<1>4. Running' = Running
    BY <1>1, SameRunning, RunningIs
<1>5. Kept
    BY <1>1, <1>3, SameRunning DEF Kept, Tracked
<1> QED
    BY <1>1, <1>2, <1>3, <1>4, <1>5 DEF StepOK, PoolStep, TaskPool!vars

LEMMA IdleCallSteps ==
    ASSUME IInv, NEW c \in Clients, TakeNothing(c) \/ Close(c)
    PROVE  StepOK
BY Bounds, QuietCall DEF TakeNothing, Close

\* The leases of the tasks of ids end.
LEMMA LeasesEnd ==
    ASSUME NEW ids, WellFormed(Tasks, state), WellFormed(Tasks, state'),
           GivenUp(state, state', ids)
    PROVE  /\ DOMAIN Running = Inflight(state)
           /\ Running' = TaskPool!Without(Inflight(state) \cap ids)
<1>1. DOMAIN Running = Inflight(state)
    BY DEF Running
<1>2. /\ DOMAIN RunningOf(state') = Inflight(state) \ ids
      /\ \A id \in Inflight(state) \ ids : RunningOf(state')[id] = RunningOf(state)[id]
    <2>1. DOMAIN RunningOf(state') = Inflight(state) \ ids
        BY RunningWithout
    <2>2. ASSUME NEW id \in Inflight(state) \ ids
          PROVE  RunningOf(state')[id] = RunningOf(state)[id]
        BY LeaseKept
    <2> QED BY <2>1, <2>2
<1>3. Running' = [id \in DOMAIN Running' |-> Running'[id]]
    BY DEF Running
<1>4. DOMAIN Running' = DOMAIN Running \ (Inflight(state) \cap ids)
    BY <1>1, <1>2, RunningIs
<1>5. \A id \in DOMAIN Running' : Running'[id] = Running[id]
    BY <1>1, <1>2, <1>4, RunningIs
<1> QED
    BY <1>1, <1>3, <1>4, <1>5 DEF TaskPool!Without

\* The tasks of ids are given back: they wait again, and their leases end.
LEMMA GiveBackStep ==
    ASSUME IInv, NEW c \in Clients, NEW ids, NEW new, Call(c, new, {}, {}),
           new = Released(state, ids, now),
           granted' = granted, held' \subseteq held, acked' = acked
    PROVE  StepOK
<1> DEFINE back == Inflight(state) \cap ids
<1>1. /\ WellFormed(Tasks, new)
      /\ Waiting(new) = Waiting(state) \cup back
      /\ ToSet(new.inflight) = {e \in ToSet(state.inflight) : e.task.id \notin ids}
      /\ Passing(new.ready, IdsOf(state.ready))
    <2>1. now \in Nat /\ WellFormed(Tasks, state) /\ Ranked(Tasks)
        BY Bounds, TaskParts
    <2>2. LET r == Released(state, ids, now)
          IN  /\ WellFormed(Tasks, r)
              /\ r.paused = state.paused
              /\ Waiting(r) = Waiting(state) \cup back
              /\ ToSet(r.inflight) = {e \in ToSet(state.inflight) : e.task.id \notin ids}
              /\ Passing(r.ready, IdsOf(state.ready))
        BY <2>1, ReleasedFacts, Zenon
    <2> QED BY <2>2, Zenon
<1>2. /\ IInv' /\ state' = new /\ up /\ up'
      /\ Handed' = held' \cup Claims
    <2>1. \A e \in ToSet(new.inflight) : e.lease <= granted'
        BY <1>1 DEF IInv, StateOK
    <2>2. granted' \in 0 .. MaxLease /\ granted <= granted'
        BY Bounds DEF IInv, Counters
    <2> QED BY <1>1, <2>1, <2>2, CallKeeps
<1>3. Running' = TaskPool!Without(back) /\ DOMAIN Running = Inflight(state)
    <2>1. WellFormed(Tasks, state) /\ WellFormed(Tasks, state')
        BY <1>1, <1>2, Bounds
    <2>2. GivenUp(state, state', ids)
        BY <1>1, <1>2 DEF GivenUp
    <2> QED BY <2>1, <2>2, LeasesEnd
<1>4. Handed' \subseteq Handed
    BY <1>2, ClaimsAre
<1>5. TaskPool!GiveBack(back)
    BY <1>1, <1>2, <1>3, <1>4 DEF TaskPool!GiveBack
<1>6. back \in SUBSET Ids
    BY Bounds, TracksIds
<1>7. Kept
    <2>1. DOMAIN Running' = Inflight(state) \ back /\ DOMAIN Running' = Inflight(state')
        BY <1>3 DEF TaskPool!Without, Running
    <2>2. Waiting(state') = Waiting(state) \cup back
        BY <1>1, <1>2
    <2> QED BY <2>1, <2>2 DEF Kept, Tracked
<1> HIDE DEF back
<1> QED
    BY <1>1, <1>2, <1>5, <1>6, <1>7 DEF StepOK, PoolStep, TaskPool!Next

LEMMA RequeueTaskStep ==
    ASSUME IInv, NEW c \in Clients, NEW id \in Ids, NEW lease \in 1 .. granted,
           RequeueTask(c, id, lease)
    PROVE  StepOK
<1> DEFINE new == Released(state, {id}, now)
<1>1. /\ Call(c, new, {}, {})
      /\ granted' = granted /\ held' \subseteq held /\ acked' = acked
    BY DEF RequeueTask, Requeue
<1> QED
    BY <1>1, GiveBackStep

LEMMA OperateStep ==
    ASSUME IInv, NEW c \in Clients, Operate(c)
    PROVE  StepOK
<1>1. granted' = granted /\ held' = held /\ acked' = acked
    BY DEF Operate
<1>2. CASE Call(c, ReleaseInflight(state, now), {}, {})
    BY <1>1, <1>2, GiveBackStep DEF ReleaseInflight
<1>3. CASE Call(c, ReleaseScope(state, now), {}, {})
    BY <1>1, <1>3, GiveBackStep DEF ReleaseScope
<1>4. ASSUME NEW paused \in BOOLEAN, Call(c, [state EXCEPT !.paused = paused], {}, {})
      PROVE  StepOK
    <2> DEFINE new == [state EXCEPT !.paused = paused]
    <2>1. /\ new \in States(Tasks) /\ new.ready = state.ready
          /\ new.delayed = state.delayed /\ new.inflight = state.inflight
        BY Bounds DEF WellFormed, States
    <2>2. Call(c, new, {}, {})
        BY <1>4
    <2> HIDE DEF new
    <2>3. WellFormed(Tasks, new)
        BY <2>1, Bounds DEF WellFormed
    <2> QED BY <1>1, <2>1, <2>2, <2>3, QuietCall
<1> QED
    BY <1>2, <1>3, <1>4 DEF Operate

LEMMA OneTask ==
    ASSUME NEW T, NEW t \in T
    PROVE  <<t>> \in Seq(T) /\ Distinct(<<t>>) /\ IdsOf(<<t>>) = {t.id}
<1>1. <<t>> \in Seq(T) /\ DOMAIN <<t>> = {1} /\ <<t>>[1] = t
    OBVIOUS
<1> QED
    BY <1>1 DEF Distinct, IdsOf

LEMMA FinishStep ==
    ASSUME IInv, NEW c \in Clients, NEW id \in Ids, NEW lease, <<id, lease>> \in held,
           LeaseHolds(state, id, lease),
           NEW tasks \in Seq(Tasks), Distinct(tasks), IdsOf(tasks) \subseteq Ids,
           IdsOf(tasks) \cap (Tracked \ {id}) = {},
           NEW new, new = CompleteAndEnqueue(state, id, tasks, now),
           Call(c, new, {}, IdsOf(tasks)),
           held' = held \ {<<id, lease>>}, acked' = acked \ {id}, granted' = granted
    PROVE  StepOK
<1>1. /\ WellFormed(Tasks, new)
      /\ Waiting(new) = Waiting(state) \cup IdsOf(tasks)
      /\ ToSet(new.inflight) = {e \in ToSet(state.inflight) : e.task.id # id}
      /\ Passing(new.ready, IdsOf(state.ready))
    <2>1. now \in Nat /\ WellFormed(Tasks, state) /\ Ranked(Tasks)
        BY Bounds, TaskParts
    <2>2. Waiting(state) \cap Inflight(state) = {}
        BY <2>1, StateParts
    <2>3. id \in Inflight(state)
        BY DEF LeaseHolds, Inflight, IdsOf, TasksOf
    <2>4. IdsOf(tasks) \cap (Waiting(state) \cup (Inflight(state) \ {id})) = {}
        BY <2>2, <2>3 DEF Tracked
    <2>5. LET r == CompleteAndEnqueue(state, id, tasks, now)
          IN  /\ WellFormed(Tasks, r)
              /\ r.paused = state.paused
              /\ Waiting(r) = Waiting(state) \cup IdsOf(tasks)
              /\ ToSet(r.inflight) = {e \in ToSet(state.inflight) : e.task.id # id}
              /\ Passing(r.ready, IdsOf(state.ready))
        BY <2>1, <2>4, CompleteFacts, Zenon
    <2> QED BY <2>5, Zenon
<1>2. /\ IInv' /\ state' = new /\ up /\ up'
      /\ Handed' = held' \cup Claims
    <2>1. \A e \in ToSet(new.inflight) : e.lease <= granted'
        BY <1>1 DEF IInv, StateOK
    <2>2. granted' \in 0 .. MaxLease /\ granted <= granted'
        BY Bounds DEF IInv, Counters
    <2> QED BY <1>1, <2>1, <2>2, CallKeeps
<1>3. id \in DOMAIN Running /\ Running[id] = lease
    <2>1. PICK i \in DOMAIN state.inflight :
              state.inflight[i].task.id = id /\ state.inflight[i].lease = lease
        BY DEF LeaseHolds
    <2> DEFINE e == state.inflight[i]
    <2>2. e \in ToSet(state.inflight) /\ e.task.id = id /\ e.lease = lease
        BY <2>1 DEF ToSet
    <2> HIDE DEF e
    <2>3. /\ DOMAIN RunningOf(state) = Inflight(state)
          /\ RunningOf(state)[id] = lease
        BY <2>2, Bounds, RunningFacts
    <2>4. id \in Inflight(state)
        BY DEF LeaseHolds, Inflight, IdsOf, TasksOf
    <2> QED BY <2>3, <2>4, RunningIs
<1>4. Running' = TaskPool!Without({id}) /\ DOMAIN Running = Inflight(state)
    <2>1. WellFormed(Tasks, state) /\ WellFormed(Tasks, state')
        BY <1>1, <1>2, Bounds
    <2>2. GivenUp(state, state', {id})
        BY <1>1, <1>2 DEF GivenUp
    <2>3. Inflight(state) \cap {id} = {id} /\ DOMAIN Running = Inflight(state)
        BY <1>3 DEF Running
    <2> QED BY <2>1, <2>2, <2>3, LeasesEnd
<1>5. Handed' \subseteq Handed \ {<<id, lease>>} /\ <<id, lease>> \in Handed
    BY <1>2, ClaimsAre DEF IInv, Leases
<1>6. IdsOf(tasks) \subseteq Ids \ (TaskPool!Pool \ {id})
    BY <1>4 DEF TaskPool!Pool, Tracked
<1>7. TaskPool!Finish(id, IdsOf(tasks))
    BY <1>1, <1>2, <1>3, <1>4, <1>5, <1>6 DEF TaskPool!Finish
<1>8. TaskPool!Next
    BY <1>7 DEF TaskPool!Next
<1>9. Kept
    <2>1. DOMAIN Running' = Inflight(state) \ {id} /\ DOMAIN Running' = Inflight(state')
        BY <1>4 DEF TaskPool!Without, Running
    <2>2. Waiting(state') = Waiting(state) \cup IdsOf(tasks)
        BY <1>1, <1>2
    <2> QED BY <2>1, <2>2 DEF Kept, Tracked
<1> QED
    BY <1>1, <1>2, <1>8, <1>9 DEF StepOK, PoolStep

LEMMA CompleteStep ==
    ASSUME IInv, NEW c \in Clients, NEW id \in Ids, NEW lease \in 1 .. granted,
           Complete(c, id, lease)
    PROVE  StepOK
<1>1. /\ <<id, lease>> \in held /\ LeaseHolds(state, id, lease)
      /\ held' = held \ {<<id, lease>>} /\ acked' = acked \ {id} /\ granted' = granted
    BY DEF Complete
<1>2. CASE Call(c, CompleteAndEnqueue(state, id, <<>>, now), {}, {})
    <2>1. <<>> \in Seq(Tasks) /\ Distinct(<<>>) /\ IdsOf(<<>>) = {}
        BY NothingIn
    <2>2. Call(c, CompleteAndEnqueue(state, id, <<>>, now), {}, IdsOf(<<>>))
        BY <1>2, <2>1
    <2> QED BY <1>1, <2>1, <2>2, FinishStep
<1>3. ASSUME NEW next \in Ids \ (Tracked \ {id}), NEW payload \in Payloads,
             Call(c, CompleteAndEnqueue(state, id, <<Task(next, payload)>>, now), {}, {next})
      PROVE  StepOK
    <2> DEFINE tasks == <<Task(next, payload)>>
    <2>1. /\ tasks \in Seq(Tasks) /\ Distinct(tasks) /\ IdsOf(tasks) = {next}
        BY TaskParts, OneTask
    <2>2. Call(c, CompleteAndEnqueue(state, id, tasks, now), {}, IdsOf(tasks))
        <3>1. Call(c, CompleteAndEnqueue(state, id, tasks, now), {}, {next})
            BY <1>3
        <3> HIDE DEF tasks
        <3> QED BY <2>1, <3>1 DEF Call
    <2>3. IdsOf(tasks) \subseteq Ids /\ IdsOf(tasks) \cap (Tracked \ {id}) = {}
        BY <2>1
    <2> HIDE DEF tasks
    <2> DEFINE new == CompleteAndEnqueue(state, id, tasks, now)
    <2>4. new = CompleteAndEnqueue(state, id, tasks, now) /\ Call(c, new, {}, IdsOf(tasks))
        BY <2>2
    <2> HIDE DEF new
    <2> QED BY <1>1, <2>1, <2>3, <2>4, FinishStep
<1> QED
    BY <1>2, <1>3 DEF Complete

LEMMA RefusedStep ==
    ASSUME IInv, NEW c \in Clients, NEW id \in Ids, NEW lease \in 1 .. granted,
           Refused(c, id, lease)
    PROVE  StepOK
<1>1. /\ state' = state /\ granted' = granted /\ up' = up /\ now' = now /\ call' = call
      /\ path' = path /\ temp' = temp /\ disk' = disk /\ acked' = acked
      /\ unsaved' = unsaved /\ held' \subseteq held
    BY DEF Refused, memoryVars, diskVars, historyVars
<1>2. Claims' = Claims /\ Handed' \subseteq Handed
    BY <1>1, ClaimsAre DEF Claims, Handed
<1>3. IInv'
    <2>1. StateOK' /\ Counters' /\ CallsOK' /\ FilesOK'
        BY <1>1 DEF IInv, StateOK, Counters, CallsOK, FilesOK
    <2>2. Leases'
        BY <1>1, <1>2 DEF IInv, Leases
    <2> QED BY <2>1, <2>2 DEF IInv
<1>4. Passing(state'.ready, IdsOf(state.ready))
    BY <1>1, NobodyPasses
<1>5. Running' = Running
    BY <1>1, RunningIs
<1>6. TaskPool!Forget
    BY <1>1, <1>2, <1>5 DEF TaskPool!Forget
<1>7. Kept
    BY <1>1 DEF Kept, Tracked
<1> QED
    BY <1>3, <1>4, <1>6, <1>7 DEF StepOK, PoolStep, TaskPool!Next

LEMMA PurgeScopeStep ==
    ASSUME IInv, NEW c \in Clients, PurgeScope(c)
    PROVE  StepOK
<1> DEFINE new == Purged(state)
<1>1. /\ Call(c, new, {}, {})
      /\ acked' = {} /\ granted' = granted /\ held' = held
    BY DEF PurgeScope
<1>2. /\ WellFormed(Tasks, new) /\ new.ready = <<>>
      /\ Waiting(new) = {} /\ Inflight(new) = {} /\ ToSet(new.inflight) = {}
    <2>1. state.paused \in BOOLEAN
        BY Bounds, StateParts
    <2>2. new = [ready |-> <<>>, delayed |-> <<>>, inflight |-> <<>>, paused |-> state.paused]
        BY DEF Purged, NewState
    <2> QED BY <2>1, <2>2, NothingFacts, Zenon
<1> HIDE DEF new
<1>3. /\ IInv' /\ state' = new /\ up /\ up'
      /\ Handed' = held' \cup Claims
    <2>1. granted' \in 0 .. MaxLease /\ granted <= granted'
        BY <1>1, Bounds DEF IInv, Counters
    <2>2. \A e \in ToSet(new.inflight) : e.lease <= granted'
        BY <1>2
    <2> QED BY <1>1, <1>2, <2>1, <2>2, CallKeeps
<1>4. Passing(state'.ready, IdsOf(state.ready))
    BY <1>2, <1>3, NothingIn
<1>5. Running' = TaskPool!Without(DOMAIN Running)
    <2>1. DOMAIN Running = Inflight(state)
        BY DEF Running
    <2>2. WellFormed(Tasks, state) /\ WellFormed(Tasks, state')
        BY <1>2, <1>3, Bounds
    <2>3. Inflight(state) = {e.task.id : e \in ToSet(state.inflight)}
        BY <2>2, StateParts
    <2>4. GivenUp(state, state', Inflight(state))
        BY <1>2, <1>3, <2>3 DEF GivenUp
    <2>5. Inflight(state) \cap Inflight(state) = DOMAIN Running
        BY <2>1
    <2> QED BY <2>2, <2>4, <2>5, LeasesEnd
<1>6. Handed' = Handed
    BY <1>1, <1>3, ClaimsAre
<1>7. TaskPool!Purge
    BY <1>1, <1>2, <1>3, <1>5, <1>6 DEF TaskPool!Purge
<1> QED
    BY <1>1, <1>3, <1>4, <1>7 DEF StepOK, PoolStep, Kept, TaskPool!Next

-----------------------------------------------------------------------------
(* Steps of a save. *)

LEMMA SaveMoves ==
    ASSUME IInv, NEW c \in Clients, NEW k \in CallsInProgress,
           call[c] # Idle, k # Idle, k.claim = call[c].claim,
           call' = [call EXCEPT ![c] = k], FilesOK',
           UNCHANGED <<memoryVars, up, now, held, historyVars>>
    PROVE  StepOK
<1>1. /\ state' = state /\ granted' = granted /\ up' = up /\ now' = now
      /\ held' = held /\ acked' = acked /\ unsaved' = unsaved
    BY DEF memoryVars, historyVars
<1>2. /\ Claims' = Claims
      /\ call'[c] = k
      /\ \A d \in Clients \ {c} : call'[d] = call[d]
    BY ClaimsAfter DEF IInv, CallsOK
<1>3. Handed' = Handed
    BY <1>1, <1>2, ClaimsAre DEF Claims, Handed
<1>4. up
    BY DEF IInv, CallsOK
<1>5. IInv'
    <2>1. StateOK' /\ Counters'
        BY <1>1 DEF IInv, StateOK, Counters
    <2>2. CallsOK'
        BY <1>1, <1>4 DEF IInv, CallsOK
    <2>3. \A d \in Clients : call'[d] # Idle => call[d] # Idle /\ call'[d].claim = call[d].claim
        BY <1>2
    <2>4. Leases'
        BY <1>1, <1>2, <1>3, <2>3 DEF IInv, Leases
    <2> QED BY <2>1, <2>2, <2>4 DEF IInv
<1>6. Passing(state'.ready, IdsOf(state.ready))
    BY <1>1, NobodyPasses
<1>7. Running' = Running
    BY <1>1, RunningIs
<1>8. Waiting(state)' = Waiting(state)
    BY <1>1
<1>9. Kept
    BY <1>1 DEF Kept, Tracked
<1> QED
    BY <1>1, <1>3, <1>5, <1>6, <1>7, <1>8, <1>9 DEF StepOK, PoolStep, TaskPool!vars

LEMMA TakeCheckpointStep ==
    ASSUME IInv, NEW c \in Clients, TakeCheckpoint(c)
    PROVE  StepOK
<1> DEFINE saved == CheckpointOf(state)
           k == [at |-> "opening", claim |-> call[c].claim, ids |-> call[c].ids,
                 saved |-> saved]
<1>1. saved \in Saves
    BY Bounds, CheckpointFacts DEF Saves, WellSaved
<1> HIDE DEF saved
<1>2. /\ call[c] # Idle /\ call[c].claim \in SUBSET (Ids \X Nat)
      /\ call[c].ids \in SUBSET Ids
    BY CallParts DEF IInv, TakeCheckpoint, Idle
<1>3. k \in CallsInProgress /\ k # Idle /\ k.claim = call[c].claim
    BY <1>1, <1>2 DEF CallsInProgress, Idle
<1>4. call' = [call EXCEPT ![c] = k]
    BY DEF TakeCheckpoint, IInv, CallsOK, saved
<1>5. FilesOK'
    BY DEF TakeCheckpoint, diskVars, IInv, FilesOK
<1>6. UNCHANGED <<memoryVars, up, now, held, historyVars>>
    BY DEF TakeCheckpoint
<1> HIDE DEF k
<1> QED
    BY <1>2, <1>3, <1>4, <1>5, <1>6, SaveMoves

\* There is always a file to create: each client writes one at most.
LEMMA FreeFile ==
    ASSUME IInv, temp = NoFile
    PROVE  \E f \in Files : f \notin InUse
<1> DEFINE W == {d \in Clients : call[d].at = "writing"}
           S == {call[d].file : d \in W}
           F == [d \in W |-> call[d].file]
<1>1. /\ IsFiniteSet(Clients) /\ Cardinality(Clients) \in Nat
      /\ IsFiniteSet(W) /\ Cardinality(W) <= Cardinality(Clients) /\ Cardinality(W) \in Nat
    BY CheckpointAssumption, FS_Subset, FS_CardinalityType
<1>2. F \in Surjection(W, S)
    BY DEF Surjection
<1>3. IsFiniteSet(S) /\ Cardinality(S) <= Cardinality(W)
    BY <1>1, <1>2, FS_Surjection
<1>4. /\ IsFiniteSet(S \cup {path})
      /\ Cardinality(S \cup {path}) <= Cardinality(S) + 1
      /\ Cardinality(S \cup {path}) \in Nat /\ Cardinality(S) \in Nat
    <2>1. IsFiniteSet(S \cup {path})
        BY <1>3, FS_AddElement
    <2>2. Cardinality(S \cup {path}) \in Nat /\ Cardinality(S) \in Nat
        BY <1>3, <2>1, FS_CardinalityType
    <2>3. \/ Cardinality(S \cup {path}) = Cardinality(S)
          \/ Cardinality(S \cup {path}) = Cardinality(S) + 1
        BY <1>3, FS_AddElement
    <2> QED BY <2>1, <2>2, <2>3
<1>5. Cardinality(Files) = Cardinality(Clients) + 2
    BY <1>1, FS_Interval DEF Files
<1> HIDE DEF W, S, F
<1>6. ~(Files \subseteq S \cup {path})
    <2> SUFFICES ASSUME Files \subseteq S \cup {path}
                 PROVE  FALSE
        OBVIOUS
    <2>1. Cardinality(Files) <= Cardinality(S \cup {path})
        BY <1>4, FS_Subset
    <2> QED BY <1>1, <1>3, <1>4, <1>5, <2>1
<1>7. PICK f \in Files : f \notin S /\ f # path
    BY <1>6
<1>8. f # NoFile
    BY <1>7, <1>1 DEF Files, NoFile
<1> QED
    BY <1>7, <1>8 DEF InUse, S, W

LEMMA OpenTemporaryStep ==
    ASSUME IInv, NEW c \in Clients, OpenTemporary(c)
    PROVE  StepOK
<1> DEFINE k == [at |-> "writing", claim |-> call[c].claim, ids |-> call[c].ids,
                 saved |-> call[c].saved, file |-> temp']
<1>1. temp' \in Files
    <2>1. CASE temp # NoFile
        BY <2>1 DEF OpenTemporary, IInv, FilesOK
    <2>2. CASE temp = NoFile
        <3> DEFINE free == CHOOSE f \in Files : f \notin InUse
        <3>1. free \in Files
            BY <2>2, FreeFile
        <3>2. temp' = free
            BY <2>2 DEF OpenTemporary
        <3> HIDE DEF free
        <3> QED BY <3>1, <3>2
    <2> QED BY <2>1, <2>2
<1>2. /\ call[c] # Idle /\ call[c].claim \in SUBSET (Ids \X Nat)
      /\ call[c].ids \in SUBSET Ids /\ call[c].saved \in Saves
    BY CallParts DEF IInv, OpenTemporary, Idle
<1>3. k \in CallsInProgress /\ k # Idle /\ k.claim = call[c].claim
    BY <1>1, <1>2 DEF CallsInProgress, Idle
<1>4. call' = [call EXCEPT ![c] = k]
    BY DEF OpenTemporary, IInv, CallsOK
<1>5. FilesOK'
    <2>1. path' = path /\ disk' = [disk EXCEPT ![temp'] = <<>>] /\ <<>> \in Seq(Saves)
        BY DEF OpenTemporary
    <2> QED BY <1>1, <2>1 DEF IInv, FilesOK
<1>6. UNCHANGED <<memoryVars, up, now, held, historyVars>>
    BY DEF OpenTemporary
<1> HIDE DEF k
<1> QED
    BY <1>2, <1>3, <1>4, <1>5, <1>6, SaveMoves

LEMMA WriteStep ==
    ASSUME IInv, NEW c \in Clients, Write(c)
    PROVE  StepOK
<1> DEFINE k == [at |-> "renaming", claim |-> call[c].claim, ids |-> call[c].ids]
           file == call[c].file
           saved == call[c].saved
<1>1. /\ call[c] # Idle /\ call[c].claim \in SUBSET (Ids \X Nat)
      /\ call[c].ids \in SUBSET Ids /\ saved \in Saves /\ file \in Files
    BY CallParts DEF IInv, Write, Idle
<1>2. k \in CallsInProgress /\ k # Idle /\ k.claim = call[c].claim
    BY <1>1 DEF CallsInProgress, Idle
<1>3. call' = [call EXCEPT ![c] = k]
    BY DEF Write, IInv, CallsOK
<1>4. FilesOK'
    <2>1. PICK content : /\ \/ content = <<saved>>
                            \/ disk[file] # <<>> /\ content = <<saved, disk[file][1]>>
                         /\ disk' = [disk EXCEPT ![file] = content]
        BY DEF Write
    <2>2. disk[file] \in Seq(Saves)
        BY <1>1 DEF IInv, FilesOK
    <2>3. disk[file] # <<>> => disk[file][1] \in Saves
        BY <2>2
    <2> HIDE DEF saved, file
    <2>4. content \in Seq(Saves)
        <3>1. CASE content = <<saved>>
            BY <1>1, <3>1
        <3>2. CASE disk[file] # <<>> /\ content = <<saved, disk[file][1]>>
            <4> DEFINE other == disk[file][1]
            <4>1. other \in Saves /\ content = <<saved, other>>
                BY <2>3, <3>2
            <4> HIDE DEF other
            <4> QED BY <1>1, <4>1
        <3> QED BY <2>1, <3>1, <3>2
    <2>5. path' = path /\ temp' = temp
        BY DEF Write
    <2> QED BY <1>1, <2>1, <2>4, <2>5 DEF IInv, FilesOK
<1>5. UNCHANGED <<memoryVars, up, now, held, historyVars>>
    BY DEF Write
<1> HIDE DEF k
<1> QED
    BY <1>1, <1>2, <1>3, <1>4, <1>5, SaveMoves

LEMMA RenameStep ==
    ASSUME IInv, NEW c \in Clients, Rename(c)
    PROVE  StepOK
<1>1. /\ state' = state /\ granted' = granted /\ up' = up /\ now' = now
      /\ held' = held \cup call[c].claim /\ unsaved' = FALSE
      /\ acked' = acked \cup (call[c].ids \cap Tracked)
      /\ call' = [call EXCEPT ![c] = Idle]
      /\ path' = temp /\ temp' = NoFile /\ temp # NoFile
      /\ disk' = [f \in Files |-> IF f \in InUse \ {path} THEN disk[f] ELSE <<>>]
    BY DEF Rename, memoryVars
<1>2. call[c] # Idle /\ call[c].ids \subseteq Ids
    BY CallParts DEF IInv, Rename, Idle
<1>3. /\ Claims' \subseteq Claims /\ Claims = Claims' \cup call[c].claim
      /\ call'[c] = Idle
      /\ \A d \in Clients \ {c} : call'[d] = call[d]
    BY <1>1, <1>2, ClaimsAfter DEF IInv, CallsOK
<1>4. Handed' = Handed
    <2>1. Handed' = held' \cup Claims' /\ Handed = held \cup Claims
        BY DEF Handed, Claims
    <2> QED BY <1>1, <1>3, <2>1
<1>5. IInv'
    <2>1. StateOK' /\ Counters'
        BY <1>1, <1>2 DEF IInv, StateOK, Counters
    <2>2. CallsOK'
        <3>1. Idle \in CallsInProgress
            BY DEF CallsInProgress
        <3> QED BY <1>1, <3>1 DEF IInv, CallsOK
    <2>3. FilesOK'
        <3>1. \A f \in Files : disk[f] \in Seq(Saves) /\ <<>> \in Seq(Saves)
            BY DEF IInv, FilesOK
        <3> QED BY <1>1, <3>1 DEF IInv, FilesOK
    <2>4. call[c].claim \cap Claims' = {}
        <3>1. \A p : p \in Claims' <=> \E d \in Clients : call'[d] # Idle /\ p \in call'[d].claim
            BY DEF Claims
        <3> QED BY <1>2, <1>3, <3>1 DEF IInv, Leases
    <2>5. held' \cap Claims' = {}
        BY <1>1, <1>3, <2>4 DEF IInv, Leases
    <2>6. Leases'
        BY <1>1, <1>3, <1>4, <2>5 DEF IInv, Leases
    <2> QED BY <2>1, <2>2, <2>3, <2>6 DEF IInv
<1>6. Passing(state'.ready, IdsOf(state.ready))
    BY <1>1, NobodyPasses
<1>7. Running' = Running /\ Waiting(state)' = Waiting(state)
    BY <1>1, RunningIs
<1>8. Kept
    BY <1>1 DEF Kept, Tracked
<1> QED
    BY <1>1, <1>4, <1>5, <1>6, <1>7, <1>8 DEF StepOK, PoolStep, TaskPool!vars

LEMMA SaveFailsStep ==
    ASSUME IInv, NEW c \in Clients, SaveFails(c)
    PROVE  StepOK
<1>1. /\ state' = state /\ granted' = granted /\ up' = up /\ now' = now
      /\ held' = held /\ unsaved' = TRUE /\ acked' = acked
      /\ call' = [call EXCEPT ![c] = Idle]
      /\ path' = path /\ temp' = temp /\ disk' = disk
    BY DEF SaveFails, memoryVars, diskVars
<1>2. call[c] # Idle
    BY CallParts DEF IInv, SaveFails, Idle
<1>3. /\ Claims' \subseteq Claims
      /\ call'[c] = Idle
      /\ \A d \in Clients \ {c} : call'[d] = call[d]
    BY <1>1, <1>2, ClaimsAfter DEF IInv, CallsOK
<1>4. Handed' \subseteq Handed
    <2>1. Handed' = held' \cup Claims' /\ Handed = held \cup Claims
        BY DEF Handed, Claims
    <2> QED BY <1>1, <1>3, <2>1
<1>5. IInv'
    <2>1. StateOK' /\ Counters' /\ FilesOK'
        BY <1>1 DEF IInv, StateOK, Counters, FilesOK
    <2>2. CallsOK'
        <3>1. Idle \in CallsInProgress
            BY DEF CallsInProgress
        <3> QED BY <1>1, <3>1 DEF IInv, CallsOK
    <2>3. Leases'
        BY <1>1, <1>3, <1>4 DEF IInv, Leases
    <2> QED BY <2>1, <2>2, <2>3 DEF IInv
<1>6. Passing(state'.ready, IdsOf(state.ready))
    BY <1>1, NobodyPasses
<1>7. Running' = Running /\ Waiting(state)' = Waiting(state)
    BY <1>1, RunningIs
<1>8. TaskPool!Forget
    BY <1>1, <1>4, <1>7 DEF TaskPool!Forget
<1>9. Kept
    BY <1>1 DEF Kept, Tracked
<1> QED
    BY <1>5, <1>6, <1>8, <1>9 DEF StepOK, PoolStep, TaskPool!Next

-----------------------------------------------------------------------------
(* The process and the clock. *)

\* Steps that leave all but the clock as it is.
LEMMA QuietStep ==
    ASSUME IInv, state' = state, granted' = granted, up' = up, now' \in 0 .. Horizon,
           held' = held, unsaved' = unsaved, acked' = acked, call' = call,
           path' = path, temp' = temp, disk' = disk
    PROVE  StepOK
<1>1. Claims' = Claims /\ Handed' = Handed
    BY DEF Claims, Handed
<1>2. StateOK' /\ Counters' /\ CallsOK' /\ FilesOK'
    BY DEF IInv, StateOK, Counters, CallsOK, FilesOK
<1>3. Leases'
    BY <1>1 DEF IInv, Leases
<1>4. Passing(state'.ready, IdsOf(state.ready))
    BY NobodyPasses
<1>5. Running' = Running /\ Waiting(state)' = Waiting(state)
    BY RunningIs
<1>6. Kept
    BY DEF Kept, Tracked
<1> QED
    BY <1>1, <1>2, <1>3, <1>4, <1>5, <1>6 DEF StepOK, IInv, PoolStep, TaskPool!vars

LEMMA NewStateIs ==
    /\ WellFormed(Tasks, NewState) /\ NewState.ready = <<>> /\ ToSet(NewState.inflight) = {}
    /\ CheckpointOf(NewState) \in Saves
    /\ SavedIds(CheckpointOf(NewState)) = {}
<1>1. FALSE \in BOOLEAN
    OBVIOUS
<1>2. NewState = [ready |-> <<>>, delayed |-> <<>>, inflight |-> <<>>, paused |-> FALSE]
    BY DEF NewState
<1>3. /\ WellFormed(Tasks, NewState) /\ NewState.ready = <<>>
      /\ Waiting(NewState) = {} /\ Inflight(NewState) = {} /\ ToSet(NewState.inflight) = {}
    BY <1>1, <1>2, NothingFacts, Zenon
<1>4. /\ WellSaved(Tasks, CheckpointOf(NewState))
      /\ SavedIds(CheckpointOf(NewState)) = {}
    BY <1>3, CheckpointFacts
<1> QED
    BY <1>3, <1>4 DEF Saves, WellSaved

\* What a restart reads.
LEMMA SavedIs ==
    ASSUME IInv, path # NoFile => Readable(path)
    PROVE  Saved \in Saves
<1>1. CASE path = NoFile
    BY <1>1, NewStateIs DEF Saved
<1>2. CASE path # NoFile
    <2>1. disk[path] \in Seq(Saves) /\ Len(disk[path]) = 1
        BY <1>2 DEF IInv, FilesOK, Readable
    <2>2. disk[path][1] \in Saves
        BY <2>1
    <2> QED BY <1>2, <2>2 DEF Saved
<1> QED
    BY <1>1, <1>2

LEMMA CrashStep ==
    ASSUME IInv, Crash
    PROVE  StepOK
<1>1. /\ state' = NewState /\ granted' = granted /\ up' = FALSE /\ now' = now
      /\ held' = {} /\ unsaved' = unsaved /\ acked' = acked
      /\ call' = [d \in Clients |-> Idle]
      /\ path' = path /\ temp' = temp /\ disk' = disk
    BY DEF Crash, diskVars, historyVars
<1>2. WellFormed(Tasks, NewState) /\ NewState.ready = <<>> /\ ToSet(NewState.inflight) = {}
    BY NewStateIs
<1>3. StateOK'
    BY <1>1, <1>2 DEF StateOK
<1>4. Counters' /\ FilesOK'
    BY <1>1 DEF IInv, Counters, FilesOK
<1>5. CallsOK'
    <2>1. Idle \in CallsInProgress
        BY DEF CallsInProgress
    <2> QED BY <1>1, <2>1 DEF CallsOK
<1>6. Leases'
    <2>1. Claims' = {}
        BY <1>1 DEF Claims
    <2>2. Handed' = {}
        BY <1>1, <2>1 DEF Handed, Claims
    <2> QED BY <1>1, <2>1, <2>2 DEF Leases
<1>7. Passing(state'.ready, IdsOf(state.ready))
    BY <1>1, <1>2, NothingIn
<1> QED
    BY <1>1, <1>3, <1>4, <1>5, <1>6, <1>7 DEF StepOK, IInv

LEMMA LoadStep ==
    ASSUME IInv, Load
    PROVE  StepOK
<1>1. /\ ~up /\ up' = TRUE /\ state' = FromCheckpoint(Saved) /\ unsaved' = FALSE
      /\ granted' = granted /\ now' = now /\ held' = held /\ call' = call
      /\ path' = path /\ temp' = temp /\ disk' = disk /\ acked' = acked
      /\ path # NoFile => Readable(path)
    BY DEF Load, clientVars, diskVars
<1>2. Saved \in Saves
    BY <1>1, SavedIs
<1>3. StateOK'
    <2>1. WellSaved(Tasks, Saved)
        BY <1>2 DEF Saves
    <2>2. /\ WellFormed(Tasks, FromCheckpoint(Saved))
          /\ \A e \in ToSet(FromCheckpoint(Saved).inflight) : e.lease = 0
        BY <2>1, RestoreFacts
    <2>3. granted \in Nat
        BY Bounds
    <2> QED BY <1>1, <2>2, <2>3 DEF StateOK
<1>4. Counters' /\ FilesOK' /\ CallsOK'
    BY <1>1 DEF IInv, Counters, FilesOK, CallsOK
<1>5. Leases'
    <2>1. Handed' = Handed /\ Claims' = Claims
        BY <1>1 DEF Handed, Claims
    <2> QED BY <1>1, <2>1 DEF IInv, Leases
<1> QED
    BY <1>1, <1>3, <1>4, <1>5 DEF StepOK, IInv

LEMMA TickStep ==
    ASSUME IInv, Tick
    PROVE  StepOK
<1>1. /\ state' = state /\ granted' = granted /\ up' = up /\ now' \in 0 .. Horizon
      /\ held' = held /\ unsaved' = unsaved /\ acked' = acked /\ call' = call
      /\ path' = path /\ temp' = temp /\ disk' = disk
    BY Bounds DEF Tick, memoryVars, clientVars, diskVars, historyVars, IInv, Counters
<1> QED
    BY <1>1, QuietStep

LEMMA StutterStep ==
    ASSUME IInv, UNCHANGED vars
    PROVE  StepOK
<1>1. /\ state' = state /\ granted' = granted /\ up' = up /\ now' \in 0 .. Horizon
      /\ held' = held /\ unsaved' = unsaved /\ acked' = acked /\ call' = call
      /\ path' = path /\ temp' = temp /\ disk' = disk
    BY DEF vars, memoryVars, clientVars, diskVars, historyVars, IInv, Counters
<1> QED
    BY <1>1, QuietStep

-----------------------------------------------------------------------------
(* The theorems, for any clients. *)

LEMMA Initial == Init => IInv
<1> SUFFICES ASSUME Init PROVE IInv
    OBVIOUS
<1> USE DEF Init
<1>1. WellFormed(Tasks, NewState) /\ ToSet(NewState.inflight) = {}
    BY NewStateIs
<1>2. StateOK
    BY <1>1 DEF StateOK
<1>3. Counters
    <2>1. Horizon \in Nat /\ MaxLease \in Nat
        BY CheckpointAssumption
    <2>2. now \in 0 .. Horizon /\ granted \in 0 .. MaxLease
        BY <2>1
    <2> QED BY <2>2 DEF Counters
<1>4. CallsOK
    BY DEF CallsOK, CallsInProgress
<1>5. FilesOK
    <2>1. <<>> \in Seq(Saves)
        OBVIOUS
    <2> QED BY <2>1 DEF FilesOK, NoFile
<1>6. Claims = {} /\ Handed = {}
    BY DEF Claims, Handed
<1>7. Leases
    BY <1>6 DEF Leases
<1> QED
    BY <1>2, <1>3, <1>4, <1>5, <1>7 DEF IInv

LEMMA Steps == IInv /\ [Next]_vars => StepOK
<1> SUFFICES ASSUME IInv, [Next]_vars PROVE StepOK
    OBVIOUS
<1>1. CASE UNCHANGED vars
    BY <1>1, StutterStep
<1>2. CASE Crash \/ Load \/ Tick
    BY <1>2, CrashStep, LoadStep, TickStep
<1>3. ASSUME NEW c \in Clients, ClientStep(c) PROVE StepOK
    <2>1. CASE \E id \in Ids, payload \in Payloads : Enqueue(c, id, payload)
        BY <2>1, EnqueueStep
    <2>2. CASE TakeReady(c) \/ TakeNothing(c) \/ Close(c) \/ Operate(c) \/ PurgeScope(c)
        BY <2>2, TakeReadyStep, IdleCallSteps, OperateStep, PurgeScopeStep
    <2>3. CASE \E id \in Ids, lease \in 1 .. granted :
                  Complete(c, id, lease) \/ RequeueTask(c, id, lease) \/ Refused(c, id, lease)
        BY <2>3, CompleteStep, RequeueTaskStep, RefusedStep
    <2>4. CASE \/ TakeCheckpoint(c) \/ OpenTemporary(c) \/ Write(c) \/ Rename(c)
               \/ SaveFails(c)
        BY <2>4, TakeCheckpointStep, OpenTemporaryStep, WriteStep, RenameStep, SaveFailsStep
    <2> QED BY <1>3, <2>1, <2>2, <2>3, <2>4 DEF ClientStep
<1> QED
    BY <1>1, <1>2, <1>3 DEF Next

\* The inductive invariant: three buckets without a task twice, the leases handed out by
\* take_ready to one call or client each, and files of checkpoints of such buckets.
THEOREM Inductive == Spec => []IInv
<1>1. Init => IInv
    BY Initial
<1>2. IInv /\ [Next]_vars => IInv'
    BY Steps DEF StepOK
<1> QED
    BY <1>1, <1>2, PTL DEF Spec

LEMMA IInvTypes == IInv => TypeOK
<1> SUFFICES ASSUME IInv PROVE TypeOK
    OBVIOUS
<1>1. \A q \in Seq(Tasks) : IsTaskSeq(q)
    BY SequenceParts DEF IsTaskSeq
<1>2. /\ state.ready \in Seq(Tasks) /\ state.delayed \in Seq(Tasks)
      /\ TasksOf(state.inflight) \in Seq(Tasks)
      /\ state.inflight \in Seq(EntriesOf(Tasks)) /\ state.paused \in BOOLEAN
    BY Bounds, StateParts
<1>3. IsCheckpoint(CheckpointOf(state))
    BY <1>1, <1>2 DEF IsCheckpoint, CheckpointOf
<1>4. \A i \in DOMAIN state.delayed : state.delayed[i].ready_at > 0
    BY Bounds DEF WellFormed
<1>5. \A i \in DOMAIN state.inflight : state.inflight[i].lease \in 0 .. granted
    <2> TAKE i \in DOMAIN state.inflight
    <2>1. state.inflight[i] \in ToSet(state.inflight)
        BY DEF ToSet
    <2>2. state.inflight[i].lease \in Nat
        BY <1>2, <2>1, EntrySet
    <2>3. state.inflight[i].lease <= granted
        BY <2>1 DEF IInv, StateOK
    <2>4. granted \in Nat
        BY Bounds
    <2> QED BY <2>2, <2>3, <2>4
<1>6. held \subseteq Ids \X (1 .. granted)
    BY DEF IInv, Leases, Handed
<1>7. ASSUME NEW f \in Files, NEW i \in DOMAIN disk[f] PROVE IsCheckpoint(disk[f][i])
    <2>1. disk[f] \in Seq(Saves)
        BY DEF IInv, FilesOK
    <2>2. disk[f][i] \in Saves
        BY <2>1
    <2>3. disk[f][i] \in Checkpoints(Tasks)
        BY <2>2 DEF Saves
    <2>4. /\ disk[f][i].ready \in Seq(Tasks) /\ disk[f][i].delayed \in Seq(Tasks)
          /\ disk[f][i].inflight \in Seq(Tasks)
        BY <2>3 DEF Checkpoints
    <2> QED BY <1>1, <2>4 DEF IsCheckpoint
<1>8. \A c \in Clients : call[c].at \in {"idle", "saving", "opening", "writing", "renaming"}
    BY CallParts DEF IInv, Idle
<1> QED
    BY <1>2, <1>3, <1>4, <1>5, <1>6, <1>7, <1>8 DEF TypeOK, IInv, Counters, FilesOK

\* The variables have the types of what they stand for: a task is delayed only if it has
\* something to wait for, and no entry has a lease that take_ready did not grant.
THEOREM TypeCorrect == Spec => []TypeOK
BY Inductive, IInvTypes, PTL

\* push_ready_task, promote_delayed, the requeues and the restart keep ready in the order
\* of claims, and a task never passes one of its own rank that was ready before it.
THEOREM InOrder == Spec => ReadyInOrder
<1> DEFINE Order ==
               LET queue == state'.ready
               IN  \A i, j \in DOMAIN queue :
                      i < j => /\ ~Before(queue[j], queue[i])
                               /\ \/ queue[i].id \in IdsOf(state.ready)
                                  \/ queue[j].id \notin IdsOf(state.ready)
                                  \/ Before(queue[i], queue[j])
                                  \/ ~up
<1>1. IInv /\ [Next]_vars => [Order]_vars
    <2> SUFFICES ASSUME IInv, [Next]_vars PROVE Order
        OBVIOUS
    <2>1. StepOK
        BY Steps
    <2>2. Sorted(state'.ready)
        BY <2>1 DEF StepOK, IInv, StateOK, WellFormed
    <2>3. up => Passing(state'.ready, IdsOf(state.ready))
        BY <2>1 DEF StepOK
    <2>4. up \in BOOLEAN
        BY DEF IInv, Counters
    <2> QED BY <2>2, <2>3, <2>4 DEF Sorted, Passing
<1> QED
    BY <1>1, Inductive, PTL DEF Spec, ReadyInOrder

\* Each call of the memory scheduler is one step the contract of the Scheduler and
\* Control traits allows, as long as its process runs.
THEOREM Contract == Spec => CallsKeepTheContract
<1> DEFINE Allowed == up /\ up' => [TaskPool!Next]_(TaskPool!vars)
<1>1. IInv /\ [Next]_vars => [Allowed]_vars
    BY Steps DEF StepOK, PoolStep
<1> QED
    BY <1>1, Inductive, PTL DEF Spec, CallsKeepTheContract

-----------------------------------------------------------------------------
(* What a restart finds, when one client calls the scheduler: saves of two clients *)
(* overwrite each other's temporary file.                                          *)

OneClient == \E c : Clients = {c}

Whole == <<CheckpointOf(state)>>

\* The checkpoint and the temporary file.
SafeFiles ==
    /\ path # NoFile => Len(disk[path]) = 1
    /\ temp # NoFile => temp # path

\* What the call has saved so far is the state as it is: nobody else changes it.
SaveUnderWay(c) ==
    /\ call[c].at \in {"opening", "writing"} => call[c].saved = CheckpointOf(state)
    /\ call[c].at = "writing" =>
          temp # NoFile /\ call[c].file = temp /\ disk[temp] = <<>>
    /\ call[c].at = "renaming" => temp # NoFile /\ disk[temp] = Whole

\* The checkpoint has the accepted tasks, and between calls the state as it is.
SavedTasks(c) ==
    /\ up /\ ~unsaved /\ call[c] = Idle => Saved = CheckpointOf(state)
    /\ acked \subseteq SavedIds(Saved)
    /\ up => acked \subseteq Tracked

SInv == SafeFiles /\ \A c \in Clients : SaveUnderWay(c) /\ SavedTasks(c)

\* A call that changes the state only.
LEMMA CallSaves ==
    ASSUME OneClient, IInv, SInv, NEW c \in Clients, NEW new, NEW claim, NEW ids,
           Call(c, new, claim, ids), acked' \subseteq acked, StepOK
    PROVE  SInv'
<1>1. /\ up /\ call'[c].at = "saving" /\ up' = up
      /\ path' = path /\ temp' = temp /\ disk' = disk
    BY DEF Call, diskVars, IInv, CallsOK
<1>2. call'[c] # Idle
    BY <1>1 DEF Idle
<1>3. SafeFiles' /\ SaveUnderWay(c)'
    BY <1>1 DEF SInv, SafeFiles, SaveUnderWay
<1>4. Saved' = Saved
    BY <1>1 DEF Saved
<1>5. acked \subseteq SavedIds(Saved) /\ acked \subseteq Tracked
    BY <1>1 DEF SInv, SavedTasks
<1>6. acked' \subseteq Tracked'
    BY <1>1, <1>5 DEF StepOK, Kept
<1>7. SavedTasks(c)'
    BY <1>2, <1>4, <1>5, <1>6 DEF SavedTasks
<1>8. \A d \in Clients : d = c
    BY DEF OneClient
<1> QED
    BY <1>3, <1>7, <1>8 DEF SInv

\* The steps that change nothing a checkpoint is made of.
LEMMA SameSaves ==
    ASSUME SInv, state' = state, up' = up, call' = call, unsaved' = unsaved, acked' = acked,
           path' = path, temp' = temp, disk' = disk
    PROVE  SInv'
<1>1. Saved' = Saved /\ Tracked' = Tracked /\ Whole' = Whole /\ SafeFiles'
    BY DEF Saved, Tracked, Whole, SInv, SafeFiles
<1>2. ASSUME NEW c \in Clients PROVE SaveUnderWay(c)' /\ SavedTasks(c)'
    BY <1>1 DEF SInv, SaveUnderWay, SavedTasks
<1> QED
    BY <1>1, <1>2 DEF SInv

LEMMA TakeCheckpointSaves ==
    ASSUME OneClient, IInv, SInv, NEW c \in Clients, TakeCheckpoint(c)
    PROVE  SInv'
<1>1. /\ call'[c].at = "opening" /\ call'[c].saved = CheckpointOf(state)
      /\ state' = state /\ up' = up /\ unsaved' = unsaved /\ acked' = acked
      /\ path' = path /\ temp' = temp /\ disk' = disk
    BY DEF TakeCheckpoint, memoryVars, diskVars, historyVars, IInv, CallsOK
<1>2. Saved' = Saved /\ Tracked' = Tracked /\ SafeFiles' /\ call'[c] # Idle
    BY <1>1 DEF Saved, Tracked, SInv, SafeFiles, Idle
<1>3. SaveUnderWay(c)'
    BY <1>1 DEF SaveUnderWay
<1>4. SavedTasks(c)'
    BY <1>1, <1>2 DEF SInv, SavedTasks
<1>5. \A d \in Clients : d = c
    BY DEF OneClient
<1> QED
    BY <1>2, <1>3, <1>4, <1>5 DEF SInv

LEMMA OpenTemporarySaves ==
    ASSUME OneClient, IInv, SInv, NEW c \in Clients, OpenTemporary(c)
    PROVE  SInv'
<1>1. temp' \in Files /\ temp' # NoFile /\ temp' # path
    <2>1. CASE temp # NoFile
        BY <2>1 DEF OpenTemporary, IInv, FilesOK, SInv, SafeFiles
    <2>2. CASE temp = NoFile
        <3> DEFINE free == CHOOSE f \in Files : f \notin InUse
        <3>1. free \in Files /\ free \notin InUse
            BY <2>2, FreeFile
        <3>2. temp' = free
            BY <2>2 DEF OpenTemporary
        <3> HIDE DEF free
        <3>3. path \in InUse /\ temp \in InUse
            BY DEF InUse
        <3> QED BY <2>2, <3>1, <3>2, <3>3
    <2> QED BY <2>1, <2>2
<1>2. /\ call'[c].at = "writing" /\ call'[c].saved = call[c].saved /\ call'[c].file = temp'
      /\ state' = state /\ up' = up /\ unsaved' = unsaved /\ acked' = acked
      /\ path' = path /\ call[c].at = "opening"
    BY DEF OpenTemporary, memoryVars, historyVars, IInv, CallsOK
<1>3. disk'[temp'] = <<>> /\ (path # NoFile => disk'[path] = disk[path])
    BY <1>1 DEF OpenTemporary, IInv, FilesOK
<1>4. Saved' = Saved /\ Tracked' = Tracked
    BY <1>2, <1>3 DEF Saved, Tracked
<1>5. SafeFiles'
    BY <1>1, <1>2, <1>3 DEF SInv, SafeFiles
<1>6. SaveUnderWay(c)'
    BY <1>1, <1>2, <1>3 DEF SInv, SaveUnderWay
<1>7. call'[c] # Idle
    BY <1>2 DEF Idle
<1>8. SavedTasks(c)'
    BY <1>2, <1>4, <1>7 DEF SInv, SavedTasks
<1>9. \A d \in Clients : d = c
    BY DEF OneClient
<1> QED
    BY <1>5, <1>6, <1>8, <1>9 DEF SInv

LEMMA WriteSaves ==
    ASSUME OneClient, IInv, SInv, NEW c \in Clients, Write(c)
    PROVE  SInv'
<1>1. /\ call[c].at = "writing" /\ temp # NoFile /\ temp # path /\ temp \in Files
      /\ call[c].file = temp /\ disk[temp] = <<>> /\ call[c].saved = CheckpointOf(state)
    BY DEF Write, SInv, SaveUnderWay, SafeFiles, IInv, FilesOK
<1>2. /\ call'[c].at = "renaming"
      /\ state' = state /\ up' = up /\ unsaved' = unsaved /\ acked' = acked
      /\ path' = path /\ temp' = temp
    BY DEF Write, memoryVars, historyVars, IInv, CallsOK
<1>3. disk' = [disk EXCEPT ![temp] = Whole]
    <2>1. PICK content :
              /\ \/ content = <<call[c].saved>>
                 \/ /\ disk[call[c].file] \notin {<<>>, <<call[c].saved>>}
                    /\ content = <<call[c].saved, disk[call[c].file][1]>>
              /\ disk' = [disk EXCEPT ![call[c].file] = content]
        BY DEF Write
    <2>2. content = <<call[c].saved>>
        BY <1>1, <2>1
    <2> QED BY <1>1, <2>1, <2>2 DEF Whole
<1>4. disk'[temp] = Whole /\ (path # NoFile => disk'[path] = disk[path])
    BY <1>1, <1>3 DEF IInv, FilesOK
<1>5. Saved' = Saved /\ Tracked' = Tracked /\ Whole' = Whole
    BY <1>2, <1>4 DEF Saved, Tracked, Whole
<1>6. SafeFiles'
    BY <1>1, <1>2, <1>4 DEF SInv, SafeFiles
<1>7. SaveUnderWay(c)'
    BY <1>1, <1>2, <1>4, <1>5 DEF SaveUnderWay
<1>8. call'[c] # Idle
    BY <1>2 DEF Idle
<1>9. SavedTasks(c)'
    BY <1>2, <1>5, <1>8 DEF SInv, SavedTasks
<1>10. \A d \in Clients : d = c
    BY DEF OneClient
<1> QED
    BY <1>6, <1>7, <1>9, <1>10 DEF SInv

LEMMA RenameSaves ==
    ASSUME OneClient, IInv, SInv, NEW c \in Clients, Rename(c)
    PROVE  SInv'
<1> DEFINE now_saved == CheckpointOf(state)
<1>1. /\ call[c].at = "renaming" /\ temp # NoFile /\ temp # path /\ temp \in Files
      /\ disk[temp] = <<now_saved>>
    BY DEF Rename, SInv, SaveUnderWay, SafeFiles, IInv, FilesOK, Whole
<1>2. /\ call'[c] = Idle /\ state' = state /\ up' = up
      /\ path' = temp /\ temp' = NoFile
      /\ acked' = acked \cup (call[c].ids \cap Tracked)
    BY DEF Rename, memoryVars, IInv, CallsOK
<1>3. up
    BY <1>1 DEF IInv, CallsOK, Idle
<1>4. disk'[temp] = <<now_saved>>
    <2>1. temp \in InUse \ {path}
        BY <1>1 DEF InUse
    <2> QED BY <1>1, <2>1 DEF Rename
<1> HIDE DEF now_saved
<1>5. Saved' = now_saved /\ Len(disk'[path']) = 1 /\ Tracked' = Tracked
    BY <1>1, <1>2, <1>4 DEF Saved, Tracked
<1>6. SafeFiles'
    BY <1>2, <1>5 DEF SafeFiles
<1>7. SaveUnderWay(c)'
    BY <1>2 DEF SaveUnderWay, Idle
<1>8. SavedIds(now_saved) = Tracked
    BY Bounds, CheckpointFacts DEF Tracked, now_saved
<1>9. CheckpointOf(state)' = now_saved
    BY <1>2 DEF now_saved
<1>10. SavedTasks(c)'
    BY <1>2, <1>3, <1>5, <1>8, <1>9 DEF SInv, SavedTasks
<1>11. \A d \in Clients : d = c
    BY DEF OneClient
<1> QED
    BY <1>6, <1>7, <1>10, <1>11 DEF SInv

LEMMA SaveFailsSaves ==
    ASSUME OneClient, IInv, SInv, NEW c \in Clients, SaveFails(c)
    PROVE  SInv'
<1>1. /\ call'[c] = Idle /\ state' = state /\ up' = up /\ unsaved' = TRUE
      /\ acked' = acked /\ path' = path /\ temp' = temp /\ disk' = disk
    BY DEF SaveFails, memoryVars, diskVars, IInv, CallsOK
<1>2. Saved' = Saved /\ Tracked' = Tracked /\ SafeFiles'
    BY <1>1 DEF Saved, Tracked, SInv, SafeFiles
<1>3. SaveUnderWay(c)'
    BY <1>1 DEF SaveUnderWay, Idle
<1>4. SavedTasks(c)'
    BY <1>1, <1>2 DEF SInv, SavedTasks
<1>5. \A d \in Clients : d = c
    BY DEF OneClient
<1> QED
    BY <1>2, <1>3, <1>4, <1>5 DEF SInv

LEMMA CrashSaves ==
    ASSUME IInv, SInv, Crash
    PROVE  SInv'
<1>1. /\ up' = FALSE /\ acked' = acked /\ path' = path /\ temp' = temp /\ disk' = disk
      /\ \A c \in Clients : call'[c] = Idle
    BY DEF Crash, diskVars, historyVars
<1>2. Saved' = Saved /\ SafeFiles'
    BY <1>1 DEF Saved, SInv, SafeFiles
<1>3. ASSUME NEW c \in Clients PROVE SaveUnderWay(c)' /\ SavedTasks(c)'
    <2>1. SaveUnderWay(c)'
        BY <1>1 DEF SaveUnderWay, Idle
    <2>2. SavedTasks(c)'
        BY <1>1, <1>2 DEF SInv, SavedTasks
    <2> QED BY <2>1, <2>2
<1> QED
    BY <1>2, <1>3 DEF SInv

LEMMA LoadSaves ==
    ASSUME IInv, SInv, Load
    PROVE  SInv'
<1>1. /\ ~up /\ state' = FromCheckpoint(Saved) /\ acked' = acked /\ call' = call
      /\ path' = path /\ temp' = temp /\ disk' = disk
      /\ path # NoFile => Readable(path)
    BY DEF Load, clientVars, diskVars
<1>2. Saved' = Saved /\ SafeFiles'
    BY <1>1 DEF Saved, SInv, SafeFiles
<1>3. WellSaved(Tasks, Saved)
    BY <1>1, SavedIs DEF Saves
<1>4. /\ WellFormed(Tasks, FromCheckpoint(Saved))
      /\ CheckpointOf(FromCheckpoint(Saved)) = Saved
    BY <1>3, RestoreFacts
<1>5. SavedIds(Saved) = Waiting(FromCheckpoint(Saved)) \cup Inflight(FromCheckpoint(Saved))
    BY <1>4, CheckpointFacts
<1>6. CheckpointOf(state') = Saved /\ Tracked' = SavedIds(Saved)
    BY <1>1, <1>4, <1>5 DEF Tracked
<1>7. ASSUME NEW c \in Clients PROVE SaveUnderWay(c)' /\ SavedTasks(c)'
    <2>1. call'[c] = Idle
        BY <1>1 DEF IInv, CallsOK
    <2>2. SaveUnderWay(c)'
        BY <2>1 DEF SaveUnderWay, Idle
    <2>3. SavedTasks(c)'
        BY <1>1, <1>2, <1>6 DEF SInv, SavedTasks
    <2> QED BY <2>2, <2>3
<1> QED
    BY <1>2, <1>7 DEF SInv

LEMMA InitiallySaved == Init => SInv
<1> SUFFICES ASSUME Init PROVE SInv
    OBVIOUS
<1>1. path = NoFile /\ temp = NoFile /\ state = NewState /\ acked = {}
      /\ \A c \in Clients : call[c] = Idle
    BY DEF Init
<1>2. Saved = CheckpointOf(state)
    BY <1>1 DEF Saved
<1> QED
    BY <1>1, <1>2 DEF SInv, SafeFiles, SaveUnderWay, SavedTasks, Idle

LEMMA StepsSave ==
    ASSUME OneClient, IInv, SInv, [Next]_vars
    PROVE  SInv'
<1>1. CASE Tick \/ UNCHANGED vars
    BY <1>1, SameSaves
       DEF Tick, vars, memoryVars, clientVars, diskVars, historyVars
<1>2. CASE Crash \/ Load
    BY <1>2, CrashSaves, LoadSaves
<1>3. ASSUME NEW c \in Clients, ClientStep(c) PROVE SInv'
    <2>1. ASSUME NEW new, NEW claim, NEW ids, Call(c, new, claim, ids), acked' \subseteq acked
          PROVE  SInv'
        BY <2>1, CallSaves, Steps
    <2>2. CASE \E id \in Ids, payload \in Payloads : Enqueue(c, id, payload)
        <3>1. PICK id \in Ids, payload \in Payloads : Enqueue(c, id, payload)
            BY <2>2
        <3> QED BY <2>1, <3>1 DEF Enqueue
    <2>3. CASE TakeReady(c)
        <3>1. acked' = acked
            BY <2>3 DEF TakeReady
        <3>2. \E new, claim : Call(c, new, claim, {})
            BY <2>3 DEF TakeReady
        <3> QED BY <2>1, <3>1, <3>2
    <2>4. CASE TakeNothing(c) \/ Close(c) \/ Operate(c) \/ PurgeScope(c)
        BY <2>1, <2>4 DEF TakeNothing, Close, Operate, PurgeScope
    <2>5. CASE \E id \in Ids, lease \in 1 .. granted :
                  Complete(c, id, lease) \/ RequeueTask(c, id, lease)
        <3>1. PICK id \in Ids, lease \in 1 .. granted :
                  Complete(c, id, lease) \/ RequeueTask(c, id, lease)
            BY <2>5
        <3>2. acked' \subseteq acked
            BY <3>1 DEF Complete, RequeueTask
        <3>3. \E new, ids : Call(c, new, {}, ids)
            BY <3>1 DEF Complete, RequeueTask
        <3> QED BY <2>1, <3>2, <3>3
    <2>6. CASE \E id \in Ids, lease \in 1 .. granted : Refused(c, id, lease)
        BY <2>6, SameSaves DEF Refused, memoryVars, diskVars, historyVars
    <2>7. CASE \/ TakeCheckpoint(c) \/ OpenTemporary(c) \/ Write(c) \/ Rename(c)
               \/ SaveFails(c)
        BY <2>7, TakeCheckpointSaves, OpenTemporarySaves, WriteSaves, RenameSaves,
           SaveFailsSaves
    <2> QED BY <1>3, <2>2, <2>3, <2>4, <2>5, <2>6, <2>7 DEF ClientStep
<1> QED
    BY <1>1, <1>2, <1>3 DEF Next

\* With one client: the invariant of the files and of the save under way.
THEOREM SavesInductive ==
    ASSUME OneClient
    PROVE  Spec => [](IInv /\ SInv)
<1>1. Init => IInv /\ SInv
    BY Initial, InitiallySaved
<1>2. IInv /\ SInv /\ [Next]_vars => (IInv /\ SInv)'
    BY Steps, StepsSave DEF StepOK
<1> QED
    BY <1>1, <1>2, PTL DEF Spec

\* With one client, the file has the state as it is between calls, unless a save failed:
\* File::save does not overtake itself, and no call returns before its own.
THEOREM FileIsCurrent ==
    ASSUME OneClient
    PROVE  Spec => []SavedWhenIdle
<1>1. SInv => SavedWhenIdle
    BY DEF OneClient, SInv, SavedTasks, SavedWhenIdle
<1> QED
    BY <1>1, SavesInductive, PTL

\* With one client, a crash at any step of File::save leaves a file that can be read.
THEOREM FileIsReadable ==
    ASSUME OneClient
    PROVE  Spec => []CheckpointIsReadable
<1>1. SInv => CheckpointIsReadable
    BY DEF SInv, SafeFiles, CheckpointIsReadable, Readable
<1> QED
    BY <1>1, SavesInductive, PTL

\* With one client, a task whose enqueue was answered Ok is in the file until it is
\* completed, whatever fails: a restart does not lose it.
THEOREM NothingAcceptedIsLost ==
    ASSUME OneClient
    PROVE  Spec => []AcceptedIsSaved
<1>1. SInv => AcceptedIsSaved
    BY DEF OneClient, SInv, SavedTasks, SavedIds, AcceptedIsSaved
<1> QED
    BY <1>1, SavesInductive, PTL

\* With one client, a task has one entry in the three buckets, in the state and in the
\* file a restart reads.
THEOREM NoTaskTwice ==
    ASSUME OneClient
    PROVE  Spec => []OneEntryPerTask
<1>1. ASSUME IInv, SInv PROVE OneEntryPerTask
    <2>1. WellSaved(Tasks, CheckpointOf(state))
        BY <1>1, Bounds, CheckpointFacts
    <2>2. WellSaved(Tasks, Saved)
        BY <1>1, SavedIs DEF SInv, SafeFiles, Readable, Saves
    <2> QED BY <2>1, <2>2, SavedOnce DEF OneEntryPerTask, Distinct
<1>2. IInv /\ SInv => OneEntryPerTask
    BY <1>1
<1> QED
    BY <1>2, SavesInductive, PTL

=============================================================================
