--------------------------- MODULE FileStoreProofs ---------------------------
(***************************************************************************)
(* Theorems about FileStore, for any runs, batches and limits: files stay  *)
(* within their limits, and what was answered Ok is stored.                *)
(***************************************************************************)
EXTENDS FileStore, SequenceTheorems, WellFoundedInduction, TLAPS

-----------------------------------------------------------------------------
(* Induction, and the greatest number of a bounded set. *)

LEMMA LeastOf ==
    ASSUME NEW N, N = Nat, NEW R, IsWellFoundedOn(R, N),
           \A x, y \in N : <<x, y>> \in R <=> x < y,
           NEW T, T \subseteq N, T # {}
    PROVE  \E n \in T : \A m \in T : n <= m
<1>1. \E n \in T : \A m \in T : ~(<<m, n>> \in R)
    BY ONLY IsWellFoundedOn(R, N), T \subseteq N, T # {}, WFMin
<1>2. \A n, m \in Nat : ~(m < n) => n <= m
    OBVIOUS
<1> QED
    BY <1>1, <1>2, Zenon

LEMMA LeastNumber ==
    ASSUME NEW T, T \subseteq Nat, T # {}
    PROVE  \E n \in T : \A m \in T : n <= m
<1>1. IsWellFoundedOn(OpToRel(<, Nat), Nat)
    BY NatLessThanWellFounded, Zenon
<1>2. \A x, y \in Nat : <<x, y>> \in OpToRel(<, Nat) <=> x < y
    BY Zenon DEF OpToRel
<1> QED
    BY <1>1, <1>2, LeastOf, ZenonT(40)

\* Max is the greatest number of a set that has a bound.
LEMMA MaxOf ==
    ASSUME NEW S, S \subseteq Nat, S # {}, NEW bound \in Nat, \A x \in S : x <= bound
    PROVE  Max(S) \in S /\ \A x \in S : Max(S) >= x
<1> DEFINE T == {n \in 0 .. bound : bound - n \in S}
<1>0. PICK x \in S : TRUE
    OBVIOUS
<1>1. T \subseteq Nat /\ bound - x \in T
    BY <1>0
<1>2. PICK n \in T : \A m \in T : n <= m
  <2> HIDE DEF T
  <2> QED BY <1>1, LeastNumber
<1>3. bound - n \in S
    BY <1>2
<1>4. ASSUME NEW y \in S PROVE bound - n >= y
    <2>1. y \in Nat /\ y <= bound /\ bound - (bound - y) = y
        OBVIOUS
    <2>2. bound - y \in T
        BY <2>1
    <2> QED
        BY <1>2, <2>1, <2>2
<1> QED
    BY <1>3, <1>4 DEF Max

\* A set with 0 and the successor of each of its numbers up to k has them all up to k.
LEMMA UpTo ==
    ASSUME NEW S, NEW k \in Nat, 0 \in S,
           \A n \in 1 .. k : n - 1 \in S => n \in S
    PROVE  k \in S
<1> DEFINE T == {n \in 0 .. k : n \notin S}
<1> SUFFICES ASSUME T # {} PROVE FALSE
    OBVIOUS
<1>0. T \subseteq Nat
    OBVIOUS
<1>1. PICK n \in T : \A m \in T : n <= m
  <2> HIDE DEF T
  <2> QED BY <1>0, LeastNumber
<1>2. n # 0 /\ n - 1 \in 0 .. k /\ n - 1 \notin T
    BY <1>1
<1> QED
    BY <1>2

-----------------------------------------------------------------------------
(* Sums. *)

LEMMA SeqOfParts ==
    ASSUME NEW S, NEW T, NEW s \in Seq(S), \A k \in 1 .. Len(s) : s[k] \in T
    PROVE  s \in Seq(T)
<1>1. Len(s) \in Nat /\ s \in [1 .. Len(s) -> S]
    BY LenProperties
<1>2. s \in [1 .. Len(s) -> T]
    BY <1>1
<1> QED
    BY <1>1, <1>2, SeqDef

LEMMA SeqOfFunction ==
    ASSUME NEW S, NEW n \in Nat, NEW s \in [1 .. n -> S]
    PROVE  s \in Seq(S) /\ Len(s) = n
<1>1. s \in Seq(S)
    BY SeqDef
<1>2. DOMAIN s = 1 .. n
    OBVIOUS
<1> QED
    BY <1>1, <1>2, LenProperties

Sums(numbers, n, f) ==
    f = [k \in 0 .. n |-> IF k = 0 THEN 0 ELSE f[k - 1] + numbers[k]]

LEMMA SumsExist ==
    ASSUME NEW numbers, NEW n \in Nat
    PROVE  \E f : Sums(numbers, n, f)
<1> DEFINE S == {k \in Nat : \E f : Sums(numbers, k, f)}
<1>1. 0 \in S
    <2> DEFINE g == [k \in 0 .. 0 |-> 0]
    <2>1. Sums(numbers, 0, g)
        BY DEF Sums
    <2> QED BY <2>1
<1>2. ASSUME NEW k \in 1 .. n, k - 1 \in S PROVE k \in S
    <2>1. PICK f : Sums(numbers, k - 1, f)
        BY <1>2
    <2> DEFINE g == [i \in 0 .. k |-> IF i = k THEN f[k - 1] + numbers[k] ELSE f[i]]
    <2>2. Sums(numbers, k, g)
        BY <2>1 DEF Sums
    <2> QED BY <2>2
<1> HIDE DEF S
<1>3. n \in S
    BY <1>1, <1>2, UpTo
<1> QED
    BY <1>3 DEF S

LEMMA TotalIs ==
    ASSUME NEW numbers, Len(numbers) \in Nat
    PROVE  \E f : Sums(numbers, Len(numbers), f) /\ Total(numbers) = f[Len(numbers)]
<1> DEFINE h == CHOOSE f : f = [k \in 0 .. Len(numbers) |->
                                  IF k = 0 THEN 0 ELSE f[k - 1] + numbers[k]]
<1>1. Sums(numbers, Len(numbers), h)
    <2>1. \E f : Sums(numbers, Len(numbers), f)
        BY SumsExist
    <2> QED BY <2>1 DEF Sums
<1>2. Total(numbers) = h[Len(numbers)]
    BY DEF Total
<1> HIDE DEF h
<1> QED
    BY <1>1, <1>2

LEMMA TotalParts ==
    ASSUME NEW numbers \in Seq(Nat)
    PROVE  \E f : /\ f[0] = 0
                  /\ \A k \in 1 .. Len(numbers) : f[k] = f[k - 1] + numbers[k]
                  /\ \A k \in 0 .. Len(numbers) : f[k] \in Nat
                  /\ Total(numbers) = f[Len(numbers)]
<1>0. Len(numbers) \in Nat /\ \A k \in 1 .. Len(numbers) : numbers[k] \in Nat
    OBVIOUS
<1>1. PICK f : Sums(numbers, Len(numbers), f) /\ Total(numbers) = f[Len(numbers)]
    BY <1>0, TotalIs
<1>2. f[0] = 0 /\ \A k \in 1 .. Len(numbers) : f[k] = f[k - 1] + numbers[k]
    <2> DEFINE n == Len(numbers)
    <2>1. n \in Nat /\ Sums(numbers, n, f)
        BY <1>0, <1>1
    <2> HIDE DEF n
    <2>2. f[0] = 0 /\ \A k \in 1 .. n : f[k] = f[k - 1] + numbers[k]
        BY ONLY <2>1 DEF Sums
    <2> QED BY <2>2 DEF n
<1> DEFINE S == {k \in Nat : f[k] \in Nat}
<1>3. ASSUME NEW n \in 0 .. Len(numbers) PROVE f[n] \in Nat
    <2>1. 0 \in S
        BY <1>2
    <2>2. ASSUME NEW k \in 1 .. n, k - 1 \in S PROVE k \in S
        <3>1. k \in 1 .. Len(numbers) /\ k \in Nat /\ f[k - 1] \in Nat
            BY <1>0, <2>2
        <3>2. f[k] = f[k - 1] + numbers[k] /\ numbers[k] \in Nat
            BY <1>0, <1>2, <3>1
        <3> QED BY <3>1, <3>2
    <2> HIDE DEF S
    <2>3. n \in S
        BY <2>1, <2>2, UpTo
    <2> QED BY <2>3 DEF S
<1> QED
    BY <1>1, <1>2, <1>3

LEMMA TotalOfConcat ==
    ASSUME NEW p \in Seq(Nat), NEW q \in Seq(Nat)
    PROVE  Total(p \o q) = Total(p) + Total(q)
<1>0. /\ p \o q \in Seq(Nat) /\ Len(p \o q) = Len(p) + Len(q)
      /\ \A k \in 1 .. Len(p) + Len(q) : (p \o q)[k] = IF k <= Len(p) THEN p[k] ELSE q[k - Len(p)]
      /\ Len(p) \in Nat /\ Len(q) \in Nat
    BY ConcatProperties
<1> DEFINE r == p \o q
<1> HIDE DEF r
<1>1. PICK f : /\ f[0] = 0
               /\ \A k \in 1 .. Len(p) : f[k] = f[k - 1] + p[k]
               /\ \A k \in 0 .. Len(p) : f[k] \in Nat
               /\ Total(p) = f[Len(p)]
    BY TotalParts
<1>2. PICK g : /\ g[0] = 0
               /\ \A k \in 1 .. Len(q) : g[k] = g[k - 1] + q[k]
               /\ \A k \in 0 .. Len(q) : g[k] \in Nat
               /\ Total(q) = g[Len(q)]
    BY TotalParts
<1>3. PICK h : /\ h[0] = 0
               /\ \A k \in 1 .. Len(r) : h[k] = h[k - 1] + r[k]
               /\ \A k \in 0 .. Len(r) : h[k] \in Nat
               /\ Total(r) = h[Len(r)]
    BY <1>0, TotalParts DEF r
<1>4. /\ Len(r) = Len(p) + Len(q)
      /\ \A k \in 1 .. Len(p) : r[k] = p[k]
      /\ \A k \in 1 .. Len(q) : r[Len(p) + k] = q[k]
    BY <1>0 DEF r
<1> DEFINE S == {k \in Nat : h[k] = f[k]}
           T == {k \in Nat : h[Len(p) + k] = f[Len(p)] + g[k]}
<1>5. h[Len(p)] = f[Len(p)]
    <2>1. 0 \in S
        BY <1>1, <1>3
    <2>2. ASSUME NEW k \in 1 .. Len(p), k - 1 \in S PROVE k \in S
        <3>1. k \in 1 .. Len(r) /\ k \in Nat /\ h[k - 1] = f[k - 1]
            BY <1>0, <1>4, <2>2
        <3>2. h[k] = h[k - 1] + r[k] /\ r[k] = p[k] /\ f[k] = f[k - 1] + p[k]
            BY <1>1, <1>3, <1>4, <3>1
        <3> QED BY <3>1, <3>2
    <2> HIDE DEF S
    <2>3. Len(p) \in S
        BY <1>0, <2>1, <2>2, UpTo
    <2> QED BY <2>3 DEF S
<1>6. h[Len(p) + Len(q)] = f[Len(p)] + g[Len(q)]
    <2>1. 0 \in T
        <3>1. h[Len(p) + 0] = h[Len(p)] /\ f[Len(p)] \in Nat /\ g[0] = 0
            BY <1>0, <1>1, <1>2
        <3>2. f[Len(p)] + g[0] = f[Len(p)]
            BY ONLY <3>1
        <3>3. h[Len(p) + 0] = f[Len(p)] + g[0]
            BY ONLY <1>5, <3>1, <3>2, Zenon
        <3> QED BY <3>3
    <2>2. ASSUME NEW k \in 1 .. Len(q), k - 1 \in T PROVE k \in T
        <3>0. /\ Len(p) + k \in 1 .. Len(r) /\ k \in Nat
              /\ Len(p) + k - 1 = Len(p) + (k - 1)
            BY <1>0, <1>4
        <3>1. h[Len(p) + k] = h[Len(p) + (k - 1)] + r[Len(p) + k]
            BY <1>3, <3>0
        <3>2. /\ k \in Nat
              /\ h[Len(p) + (k - 1)] = f[Len(p)] + g[k - 1]
              /\ g[k] = g[k - 1] + q[k]
            BY <1>2, <2>2
        <3>3. f[Len(p)] \in Nat /\ g[k - 1] \in Nat /\ q[k] \in Nat
            BY <1>0, <1>1, <1>2
        <3>4. r[Len(p) + k] = q[k]
            BY <1>4
        <3>5. h[Len(p) + k] = f[Len(p)] + g[k]
            BY ONLY <3>1, <3>2, <3>3, <3>4
        <3> QED BY <3>5
    <2> HIDE DEF T
    <2>3. Len(q) \in T
        BY <1>0, <2>1, <2>2, UpTo
    <2> QED BY <2>3 DEF T
<1> QED
    BY <1>1, <1>2, <1>3, <1>4, <1>6 DEF r

LEMMA TotalOfNone == Total(<<>>) = 0
<1>1. <<>> \in Seq(Nat) /\ Len(<<>>) = 0
    OBVIOUS
<1> QED
    BY <1>1, TotalParts

\* The sum of equal numbers.
LEMMA TotalOfEqual ==
    ASSUME NEW numbers \in Seq(Nat), NEW x \in {0, 1}, \A k \in 1 .. Len(numbers) : numbers[k] = x
    PROVE  Total(numbers) = IF x = 0 THEN 0 ELSE Len(numbers)
<1>1. PICK f : /\ f[0] = 0
               /\ \A k \in 1 .. Len(numbers) : f[k] = f[k - 1] + numbers[k]
               /\ Total(numbers) = f[Len(numbers)]
    BY TotalParts
<1> DEFINE S == {k \in Nat : f[k] = IF x = 0 THEN 0 ELSE k}
<1>2. 0 \in S
    BY <1>1
<1>3. ASSUME NEW k \in 1 .. Len(numbers), k - 1 \in S PROVE k \in S
    <2>1. k \in Nat /\ f[k - 1] = IF x = 0 THEN 0 ELSE k - 1
        BY <1>3
    <2>2. f[k] = f[k - 1] + numbers[k] /\ numbers[k] = x
        BY <1>1
    <2> QED BY <2>1, <2>2
<1> HIDE DEF S
<1>4. Len(numbers) \in S
    BY <1>2, <1>3, UpTo
<1> QED
    BY <1>1, <1>4 DEF S

LEMMA TotalIsNat ==
    ASSUME NEW numbers \in Seq(Nat)
    PROVE  Total(numbers) \in Nat
BY TotalParts

LEMMA TotalOfOne ==
    ASSUME NEW n \in Nat
    PROVE  Total(<<n>>) = n
<1> DEFINE numbers == <<n>>
<1>1. numbers \in Seq(Nat) /\ Len(numbers) = 1 /\ numbers[1] = n
    OBVIOUS
<1> HIDE DEF numbers
<1>2. PICK f : /\ f[0] = 0
               /\ \A k \in 1 .. Len(numbers) : f[k] = f[k - 1] + numbers[k]
               /\ Total(numbers) = f[Len(numbers)]
    BY <1>1, TotalParts
<1>3. f[1] = f[1 - 1] + n /\ 1 - 1 = 0
    BY <1>1, <1>2
<1> QED
    BY <1>1, <1>2, <1>3 DEF numbers

-----------------------------------------------------------------------------
(* The records of a file, and their numbers. *)

Records ==
    [client : Clients, batch : Nat, place : Nat, size : Nat, whole : BOOLEAN, counted : BOOLEAN]

LEMMA SeqOfMapped ==
    ASSUME NEW r \in Seq(Records)
    PROVE  /\ DOMAIN r = 1 .. Len(r) /\ Len(r) \in Nat
           /\ \A k \in 1 .. Len(r) : r[k] \in Records
           /\ \A S : \A f \in [DOMAIN r -> S] : f \in Seq(S) /\ Len(f) = Len(r)
BY SeqOfFunction

\* The values v of the records of a sequence.
Mapped(v, r) == [k \in DOMAIN r |-> v[r[k]]]

LEMMA MappedConcat ==
    ASSUME NEW S, NEW r \in Seq(Records), NEW q \in Seq(Records), NEW v \in [Records -> S]
    PROVE  Mapped(v, r) \o Mapped(v, q) = Mapped(v, r \o q)
<1> DEFINE m(s) == Mapped(v, s)
<1>1. ASSUME NEW s \in Seq(Records)
      PROVE  m(s) \in Seq(S) /\ Len(m(s)) = Len(s) /\ \A k \in 1 .. Len(s) : m(s)[k] = v[s[k]]
    <2>1. m(s) \in [DOMAIN s -> S]
        BY SeqOfMapped DEF Mapped
    <2>2. \A k \in 1 .. Len(s) : m(s)[k] = v[s[k]]
        BY SeqOfMapped DEF Mapped
    <2> QED BY <2>1, <2>2, SeqOfMapped
<1>2. /\ r \o q \in Seq(Records) /\ Len(r \o q) = Len(r) + Len(q)
      /\ \A k \in 1 .. Len(r) + Len(q) : (r \o q)[k] = IF k <= Len(r) THEN r[k] ELSE q[k - Len(r)]
    BY ConcatProperties
<1> DEFINE a == m(r)  b == m(q)  c == m(r \o q)
<1>3. /\ a \in Seq(S) /\ Len(a) = Len(r) /\ \A k \in 1 .. Len(r) : a[k] = v[r[k]]
      /\ b \in Seq(S) /\ Len(b) = Len(q) /\ \A k \in 1 .. Len(q) : b[k] = v[q[k]]
      /\ c \in Seq(S) /\ Len(c) = Len(r) + Len(q)
      /\ \A k \in 1 .. Len(r) + Len(q) : c[k] = v[(r \o q)[k]]
    <2> HIDE DEF m
    <2>1. a \in Seq(S) /\ Len(a) = Len(r) /\ \A k \in 1 .. Len(r) : a[k] = v[r[k]]
        BY ONLY <1>1, r \in Seq(Records), Zenon
    <2>2. b \in Seq(S) /\ Len(b) = Len(q) /\ \A k \in 1 .. Len(q) : b[k] = v[q[k]]
        BY ONLY <1>1, q \in Seq(Records), Zenon
    <2>3. /\ c \in Seq(S) /\ Len(c) = Len(r \o q)
          /\ \A k \in 1 .. Len(r \o q) : c[k] = v[(r \o q)[k]]
        BY ONLY <1>1, <1>2, Zenon
    <2> QED BY ONLY <1>2, <2>1, <2>2, <2>3, Zenon
<1> HIDE DEF a, b, c
<1>4. /\ a \o b \in Seq(S) /\ Len(a \o b) = Len(a) + Len(b)
      /\ \A k \in 1 .. Len(a) + Len(b) : (a \o b)[k] = IF k <= Len(a) THEN a[k] ELSE b[k - Len(a)]
    <2>1. a \in Seq(S) /\ b \in Seq(S)
        BY <1>3
    <2> QED BY ONLY <2>1, ConcatProperties
<1>5. Len(r) \in Nat /\ Len(q) \in Nat
    OBVIOUS
<1>6. \A k \in 1 .. Len(a \o b) : (a \o b)[k] = c[k]
    <2> TAKE k \in 1 .. Len(a \o b)
    <2>1. CASE k <= Len(r)
        BY <1>2, <1>3, <1>4, <1>5, <2>1
    <2>2. CASE ~(k <= Len(r))
        <3>1. k \in 1 .. Len(r) + Len(q) /\ k - Len(r) \in 1 .. Len(q)
            BY <1>3, <1>4, <1>5, <2>2
        <3>2. (a \o b)[k] = b[k - Len(r)] /\ c[k] = v[(r \o q)[k]] /\ (r \o q)[k] = q[k - Len(r)]
            BY <1>2, <1>3, <1>4, <2>2, <3>1
        <3> QED BY <1>3, <3>1, <3>2
    <2> QED BY <2>1, <2>2
<1>7. a \o b = c
    BY <1>3, <1>4, <1>6, SeqEqual
<1> QED
    BY <1>7 DEF a, b, c

LEMMA SumOfValues ==
    ASSUME NEW v \in [Records -> Nat]
    PROVE  /\ Total(Mapped(v, <<>>)) = 0
           /\ \A r \in Seq(Records) :
                 /\ Mapped(v, r) \in Seq(Nat) /\ Len(Mapped(v, r)) = Len(r)
                 /\ \A k \in 1 .. Len(r) : Mapped(v, r)[k] = v[r[k]]
                 /\ Total(Mapped(v, r)) \in Nat
           /\ \A r, q \in Seq(Records) :
                 Total(Mapped(v, r \o q)) = Total(Mapped(v, r)) + Total(Mapped(v, q))
           /\ \A x \in Records : Total(Mapped(v, <<x>>)) = v[x]
<1>1. ASSUME NEW r \in Seq(Records)
      PROVE  /\ Mapped(v, r) \in Seq(Nat) /\ Len(Mapped(v, r)) = Len(r)
             /\ \A k \in 1 .. Len(r) : Mapped(v, r)[k] = v[r[k]]
    <2>1. Mapped(v, r) \in [DOMAIN r -> Nat] /\ \A k \in 1 .. Len(r) : Mapped(v, r)[k] = v[r[k]]
        BY SeqOfMapped DEF Mapped
    <2> QED BY <2>1, SeqOfMapped
<1>2. Total(Mapped(v, <<>>)) = 0
    <2>1. Mapped(v, <<>>) = <<>>
        BY DEF Mapped
    <2> QED BY <2>1, TotalOfNone
<1>3. ASSUME NEW r \in Seq(Records), NEW q \in Seq(Records)
      PROVE  Total(Mapped(v, r \o q)) = Total(Mapped(v, r)) + Total(Mapped(v, q))
    <2>1. Mapped(v, r) \o Mapped(v, q) = Mapped(v, r \o q)
        BY MappedConcat, Zenon
    <2> QED BY <1>1, <2>1, TotalOfConcat, Zenon
<1>4. ASSUME NEW x \in Records PROVE Total(Mapped(v, <<x>>)) = v[x]
    <2>1. <<x>> \in Seq(Records) /\ DOMAIN <<x>> = {1} /\ <<x>>[1] = x
        OBVIOUS
    <2>2. Mapped(v, <<x>>) = [k \in {1} |-> v[x]]
        BY <2>1 DEF Mapped
    <2>3. DOMAIN <<v[x]>> = {1} /\ <<v[x]>>[1] = v[x]
        OBVIOUS
    <2>4. [k \in {1} |-> v[x]] = <<v[x]>>
        BY <2>3
    <2>5. Mapped(v, <<x>>) = <<v[x]>> /\ v[x] \in Nat
        BY <2>2, <2>4
    <2> QED BY <2>5, TotalOfOne, Zenon
<1>5. \A r \in Seq(Records) : Total(Mapped(v, r)) \in Nat
    BY <1>1, TotalIsNat, Zenon
<1> QED
    BY <1>1, <1>2, <1>3, <1>4, <1>5, Zenon

LEMMA BytesOf ==
    /\ Bytes(<<>>) = 0
    /\ \A r \in Seq(Records) : Bytes(r) \in Nat
    /\ \A r, q \in Seq(Records) : Bytes(r \o q) = Bytes(r) + Bytes(q)
    /\ \A x \in Records : Bytes(<<x>>) = x.size
<1> DEFINE v == [x \in Records |-> x.size]
<1>1. v \in [Records -> Nat] /\ \A x \in Records : v[x] = x.size
    BY DEF Records
<1>2. ASSUME NEW r \in Seq(Records) PROVE Bytes(r) = Total(Mapped(v, r))
    <2>1. Mapped(v, r) = [k \in DOMAIN r |-> r[k].size]
        BY <1>1, SeqOfMapped DEF Mapped
    <2> QED BY <2>1 DEF Bytes
<1> HIDE DEF v
<1>3. /\ <<>> \in Seq(Records)
      /\ \A x \in Records : <<x>> \in Seq(Records)
      /\ \A r, q \in Seq(Records) : r \o q \in Seq(Records)
    BY ConcatProperties
<1>4. Bytes(<<>>) = 0
    BY <1>1, <1>2, <1>3, SumOfValues, Zenon
<1>5. \A r \in Seq(Records) : Bytes(r) \in Nat
    BY <1>1, <1>2, SumOfValues, Zenon
<1>6. ASSUME NEW r \in Seq(Records), NEW q \in Seq(Records)
      PROVE  Bytes(r \o q) = Bytes(r) + Bytes(q)
    <2>1. /\ Bytes(r \o q) = Total(Mapped(v, r \o q))
          /\ Bytes(r) = Total(Mapped(v, r)) /\ Bytes(q) = Total(Mapped(v, q))
        BY <1>2, <1>3, Zenon
    <2>2. Total(Mapped(v, r \o q)) = Total(Mapped(v, r)) + Total(Mapped(v, q))
        BY <1>1, SumOfValues, Zenon
    <2> QED BY <2>1, <2>2, Zenon
<1>7. ASSUME NEW x \in Records PROVE Bytes(<<x>>) = x.size
    <2>1. Bytes(<<x>>) = Total(Mapped(v, <<x>>))
        BY <1>2, <1>3, Zenon
    <2>2. Total(Mapped(v, <<x>>)) = v[x] /\ v[x] = x.size
        BY <1>1, SumOfValues, Zenon
    <2> QED BY <2>1, <2>2, Zenon
<1> QED
    BY <1>4, <1>5, <1>6, <1>7, Zenon

LEMMA CountsOf ==
    /\ CountedItems(<<>>) = 0 /\ CountedBytes(<<>>) = 0
    /\ \A r \in Seq(Records) : CountedItems(r) \in Nat /\ CountedBytes(r) \in Nat
    /\ \A r, q \in Seq(Records) :
          /\ CountedItems(r \o q) = CountedItems(r) + CountedItems(q)
          /\ CountedBytes(r \o q) = CountedBytes(r) + CountedBytes(q)
<1> DEFINE v == [x \in Records |-> IF x.counted THEN 1 ELSE 0]
           w == [x \in Records |-> IF x.counted THEN x.size ELSE 0]
<1>1. /\ v \in [Records -> Nat] /\ \A x \in Records : v[x] = IF x.counted THEN 1 ELSE 0
      /\ w \in [Records -> Nat] /\ \A x \in Records : w[x] = IF x.counted THEN x.size ELSE 0
    BY DEF Records
<1>2. ASSUME NEW r \in Seq(Records)
      PROVE  CountedItems(r) = Total(Mapped(v, r)) /\ CountedBytes(r) = Total(Mapped(w, r))
    <2>1. Mapped(v, r) = [k \in DOMAIN r |-> IF r[k].counted THEN 1 ELSE 0]
        BY <1>1, SeqOfMapped DEF Mapped
    <2>2. Mapped(w, r) = [k \in DOMAIN r |-> IF r[k].counted THEN r[k].size ELSE 0]
        BY <1>1, SeqOfMapped DEF Mapped
    <2> QED BY <2>1, <2>2 DEF CountedItems, CountedBytes
<1> HIDE DEF v, w
<1>3. /\ <<>> \in Seq(Records)
      /\ \A r, q \in Seq(Records) : r \o q \in Seq(Records)
    BY ConcatProperties
<1>4. CountedItems(<<>>) = 0 /\ CountedBytes(<<>>) = 0
    BY <1>1, <1>2, <1>3, SumOfValues, Zenon
<1>5. \A r \in Seq(Records) : CountedItems(r) \in Nat /\ CountedBytes(r) \in Nat
    BY <1>1, <1>2, SumOfValues, Zenon
<1>6. ASSUME NEW r \in Seq(Records), NEW q \in Seq(Records)
      PROVE  /\ CountedItems(r \o q) = CountedItems(r) + CountedItems(q)
             /\ CountedBytes(r \o q) = CountedBytes(r) + CountedBytes(q)
    <2>0. r \o q \in Seq(Records)
        BY <1>3, Zenon
    <2>1. /\ CountedItems(r \o q) = Total(Mapped(v, r \o q))
          /\ CountedItems(r) = Total(Mapped(v, r)) /\ CountedItems(q) = Total(Mapped(v, q))
          /\ CountedBytes(r \o q) = Total(Mapped(w, r \o q))
          /\ CountedBytes(r) = Total(Mapped(w, r)) /\ CountedBytes(q) = Total(Mapped(w, q))
        BY ONLY <1>2, <2>0, r \in Seq(Records), q \in Seq(Records), Zenon
    <2>2. /\ Total(Mapped(v, r \o q)) = Total(Mapped(v, r)) + Total(Mapped(v, q))
          /\ Total(Mapped(w, r \o q)) = Total(Mapped(w, r)) + Total(Mapped(w, q))
        <3>1. Total(Mapped(v, r \o q)) = Total(Mapped(v, r)) + Total(Mapped(v, q))
            BY <1>1, SumOfValues, ZenonT(60)
        <3>2. Total(Mapped(w, r \o q)) = Total(Mapped(w, r)) + Total(Mapped(w, q))
            BY <1>1, SumOfValues, ZenonT(60)
        <3> QED BY ONLY <3>1, <3>2
    <2> QED BY <2>1, <2>2, Zenon
<1> QED
    BY <1>4, <1>5, <1>6, Zenon

\* All records of answered appends count, and no record of another.
LEMMA CountsOfAlike ==
    ASSUME NEW r \in Seq(Records)
    PROVE  /\ (\A k \in DOMAIN r : r[k].counted)
              => CountedItems(r) = Len(r) /\ CountedBytes(r) = Bytes(r)
           /\ (\A k \in DOMAIN r : ~r[k].counted)
              => CountedItems(r) = 0 /\ CountedBytes(r) = 0
<1>0. /\ DOMAIN r = 1 .. Len(r) /\ Len(r) \in Nat
      /\ \A k \in DOMAIN r : r[k] \in Records /\ r[k].size \in Nat
    BY SeqOfMapped DEF Records
<1>1. ASSUME NEW x \in {0, 1}
      PROVE  LET s == [k \in DOMAIN r |-> x]
             IN  Total(s) = IF x = 0 THEN 0 ELSE Len(r)
    <2> DEFINE s == [k \in DOMAIN r |-> x]
    <2>1. s \in [DOMAIN r -> Nat] /\ \A k \in 1 .. Len(r) : s[k] = x
        BY <1>0
    <2>2. s \in Seq(Nat) /\ Len(s) = Len(r)
        BY <2>1, SeqOfMapped
    <2> HIDE DEF s
    <2>3. Total(s) = IF x = 0 THEN 0 ELSE Len(r)
        BY <2>1, <2>2, TotalOfEqual
    <2> QED BY <2>3 DEF s
<1>2. ASSUME \A k \in DOMAIN r : r[k].counted
      PROVE  CountedItems(r) = Len(r) /\ CountedBytes(r) = Bytes(r)
    <2>1. [k \in DOMAIN r |-> IF r[k].counted THEN 1 ELSE 0] = [k \in DOMAIN r |-> 1]
        BY <1>2
    <2>2. [k \in DOMAIN r |-> IF r[k].counted THEN r[k].size ELSE 0] = [k \in DOMAIN r |-> r[k].size]
        BY <1>2
    <2>3. Total([k \in DOMAIN r |-> 1]) = Len(r)
        BY <1>1
    <2> QED BY <2>1, <2>2, <2>3 DEF CountedItems, CountedBytes, Bytes
<1>3. ASSUME \A k \in DOMAIN r : ~r[k].counted
      PROVE  CountedItems(r) = 0 /\ CountedBytes(r) = 0
    <2>1. [k \in DOMAIN r |-> IF r[k].counted THEN 1 ELSE 0] = [k \in DOMAIN r |-> 0]
        BY <1>3
    <2>2. [k \in DOMAIN r |-> IF r[k].counted THEN r[k].size ELSE 0] = [k \in DOMAIN r |-> 0]
        BY <1>3
    <2>3. Total([k \in DOMAIN r |-> 0]) = 0
        BY <1>1
    <2> QED BY <2>1, <2>2, <2>3 DEF CountedItems, CountedBytes
<1> QED
    BY <1>2, <1>3

-----------------------------------------------------------------------------
(* Sequences of sequences in one. *)

Associative(S) == \A s, t, u \in Seq(S) : (s \o t) \o u = s \o (t \o u)

LEMMA ConcatIsAssociative == \A S : Associative(S)
<1> SUFFICES ASSUME NEW S, NEW s \in Seq(S), NEW t \in Seq(S), NEW u \in Seq(S)
             PROVE  (s \o t) \o u = s \o (t \o u)
    BY DEF Associative
<1> QED
    BY ConcatAssociative

Joins(seqs, n, f) ==
    f = [i \in 1 .. n |-> IF i = 1 THEN seqs[i] ELSE f[i - 1] \o seqs[i]]

LEMMA JoinsExist ==
    ASSUME NEW seqs, NEW n \in Nat
    PROVE  \E f : Joins(seqs, n, f)
<1> DEFINE S == {k \in Nat : \E f : Joins(seqs, k, f)}
<1>1. 0 \in S
    <2> DEFINE g == [k \in 1 .. 0 |-> <<>>]
    <2>1. Joins(seqs, 0, g)
        BY DEF Joins
    <2> QED BY <2>1
<1>2. ASSUME NEW k \in 1 .. n, k - 1 \in S PROVE k \in S
    <2>1. PICK f : Joins(seqs, k - 1, f)
        BY <1>2
    <2> DEFINE g == [i \in 1 .. k |-> IF i = k
                        THEN IF k = 1 THEN seqs[k] ELSE f[k - 1] \o seqs[k]
                        ELSE f[i]]
    <2>2. k \in Nat /\ k >= 1
        OBVIOUS
    <2>3. \A i \in 1 .. k - 1 : f[i] = IF i = 1 THEN seqs[i] ELSE f[i - 1] \o seqs[i]
      <3>1. f = [i \in 1 .. k - 1 |-> IF i = 1 THEN seqs[i] ELSE f[i - 1] \o seqs[i]]
          BY ONLY <2>1, Zenon DEF Joins
      <3> QED BY ONLY <3>1, Zenon
    <2>4. /\ g[k] = IF k = 1 THEN seqs[k] ELSE f[k - 1] \o seqs[k]
          /\ \A i \in 1 .. k - 1 : g[i] = f[i]
        <3>1. k \in 1 .. k /\ \A i \in 1 .. k - 1 : i \in 1 .. k /\ i # k
            BY ONLY <2>2
        <3> QED BY ONLY <3>1, Zenon
    <2>5. ASSUME NEW i \in 1 .. k
          PROVE  g[i] = IF i = 1 THEN seqs[i] ELSE g[i - 1] \o seqs[i]
      <3> HIDE DEF g
      <3>1. i = k \/ i \in 1 .. k - 1
          BY ONLY <2>2, i \in 1 .. k
      <3>2. i # 1 => i - 1 \in 1 .. k - 1
          BY ONLY <2>2, i \in 1 .. k
      <3>3. CASE i = k
          <4>1. i # 1 => g[i - 1] = f[i - 1]
              BY ONLY <2>4, <3>2, <3>3, Zenon
          <4> QED BY ONLY <2>4, <3>3, <4>1, Zenon
      <3>4. CASE i \in 1 .. k - 1
          <4>1. g[i] = f[i] /\ (i # 1 => g[i - 1] = f[i - 1])
              BY ONLY <2>4, <3>2, <3>4, Zenon
          <4> QED BY ONLY <2>3, <3>4, <4>1, Zenon
      <3> QED BY ONLY <3>1, <3>3, <3>4, Zenon
    <2>6. g = [i \in 1 .. k |-> IF i = 1 THEN seqs[i] ELSE g[i - 1] \o seqs[i]]
        BY ONLY <2>5, ZenonT(60)
    <2>7. Joins(seqs, k, g)
        BY ONLY <2>6, Zenon DEF Joins
    <2> QED BY <2>2, <2>7
<1> HIDE DEF S
<1>3. n \in S
    BY <1>1, <1>2, UpTo
<1> QED
    BY <1>3 DEF S

LEMMA FlattenIs ==
    ASSUME NEW seqs, Len(seqs) \in Nat \ {0}
    PROVE  \E f : Joins(seqs, Len(seqs), f) /\ FlattenSeq(seqs) = f[Len(seqs)]
<1> DEFINE h == CHOOSE f : f = [i \in 1 .. Len(seqs) |->
                                  IF i = 1 THEN seqs[i] ELSE f[i - 1] \o seqs[i]]
<1>1. Joins(seqs, Len(seqs), h)
    <2>1. \E f : Joins(seqs, Len(seqs), f)
        BY JoinsExist
    <2> QED BY <2>1, Zenon DEF Joins
<1>2. FlattenSeq(seqs) = h[Len(seqs)]
    BY DEF FlattenSeq
<1> HIDE DEF h
<1> QED
    BY <1>1, <1>2

\* What the first k of some sequences hold, for each k.
Joined(S, seqs, f) ==
    /\ f[0] = <<>>
    /\ \A k \in 1 .. Len(seqs) : f[k] = f[k - 1] \o seqs[k]
    /\ \A k \in 0 .. Len(seqs) : f[k] \in Seq(S)
    /\ FlattenSeq(seqs) = f[Len(seqs)]

LEMMA FlattenParts ==
    ASSUME NEW S, NEW seqs \in Seq(Seq(S))
    PROVE  \E f : Joined(S, seqs, f)
<1> DEFINE n == Len(seqs)
<1>0. n \in Nat /\ \A k \in 1 .. n : seqs[k] \in Seq(S)
    OBVIOUS
<1>1. CASE n = 0
    <2> DEFINE f == [k \in 0 .. 0 |-> <<>>]
    <2>1. seqs = <<>>
        BY <1>1
    <2>2. FlattenSeq(seqs) = <<>> /\ f[0] = <<>> /\ <<>> \in Seq(S)
        BY <1>1, <2>1 DEF FlattenSeq
    <2>3. Joined(S, seqs, f)
        BY <1>1, <2>2 DEF Joined
    <2> QED BY <2>3
<1>2. CASE n # 0
    <2>1. PICK h : Joins(seqs, n, h) /\ FlattenSeq(seqs) = h[n]
        BY <1>0, <1>2, FlattenIs
    <2> HIDE DEF n
    <2> DEFINE f == [k \in 0 .. n |-> IF k = 0 THEN <<>> ELSE h[k]]
    <2>2. h[1] = seqs[1] /\ \A k \in 2 .. n : h[k] = h[k - 1] \o seqs[k]
        <3>1. n \in Nat /\ n >= 1 /\ Joins(seqs, n, h)
            BY <1>0, <1>2, <2>1
        <3>2. 1 \in 1 .. n /\ \A k \in 2 .. n : k \in 1 .. n /\ k # 1
            BY ONLY <3>1
        <3>3. \A k \in 1 .. n : h[k] = IF k = 1 THEN seqs[k] ELSE h[k - 1] \o seqs[k]
            BY ONLY <3>1 DEF Joins
        <3> QED BY ONLY <3>2, <3>3, Zenon
    <2>3. f[0] = <<>> /\ f[n] = h[n] /\ \A k \in 1 .. n : f[k] = h[k]
        BY <1>0, <1>2
    <2> HIDE DEF f
    <2>4. ASSUME NEW k \in 1 .. n PROVE f[k] = f[k - 1] \o seqs[k]
        <3>1. CASE k = 1
            <4>1. <<>> \o seqs[1] = seqs[1]
                BY <1>0, <1>2, ConcatEmptySeq
            <4>2. k - 1 = 0 /\ f[k] = h[k]
                BY <2>3, <3>1
            <4> QED BY ONLY <2>2, <2>3, <3>1, <4>1, <4>2, Zenon
        <3>2. CASE k # 1
            <4>1. k \in 2 .. n /\ k - 1 \in 1 .. n
                BY <1>0, <3>2
            <4> QED BY ONLY <2>2, <2>3, <4>1, k \in 1 .. n, Zenon
        <3> QED BY <3>1, <3>2
    <2> DEFINE T == {k \in Nat : f[k] \in Seq(S)}
    <2>5. ASSUME NEW m \in 0 .. n PROVE f[m] \in Seq(S)
        <3>1. 0 \in T
            BY ONLY <2>3, <<>> \in Seq(S)
        <3>2. ASSUME NEW k \in 1 .. m, k - 1 \in T PROVE k \in T
            <4>1. k \in 1 .. n /\ k \in Nat /\ f[k - 1] \in Seq(S) /\ seqs[k] \in Seq(S)
                BY <1>0, <3>2
            <4>2. f[k - 1] \o seqs[k] \in Seq(S)
                BY <4>1, ConcatProperties
            <4> QED BY <2>4, <4>1, <4>2
        <3> HIDE DEF T
        <3>4. m \in T
            BY <1>0, <3>1, <3>2, UpTo
        <3> QED BY <3>4 DEF T
    <2>6. Joined(S, seqs, f)
        BY <2>1, <2>3, <2>4, <2>5 DEF Joined, n
    <2> QED BY <2>6
<1> QED
    BY <1>1, <1>2

\* Nothing is in empty sequences.
LEMMA FlattenOfEmpty ==
    ASSUME NEW S, NEW seqs \in Seq(Seq(S)), \A k \in 1 .. Len(seqs) : seqs[k] = <<>>
    PROVE  FlattenSeq(seqs) = <<>>
<1>1. PICK f : Joined(S, seqs, f)
    BY FlattenParts
<1> DEFINE n == Len(seqs)  T == {k \in Nat : f[k] = <<>>}
<1>2. 0 \in T /\ n \in Nat
    BY <1>1 DEF Joined
<1>3. ASSUME NEW k \in 1 .. n, k - 1 \in T PROVE k \in T
    <2>1. k \in Nat /\ f[k] = f[k - 1] \o seqs[k] /\ f[k - 1] = <<>> /\ seqs[k] = <<>>
        <3>1. k \in Nat /\ k \in 1 .. Len(seqs)
            BY <1>2
        <3>2. f[k] = f[k - 1] \o seqs[k] /\ seqs[k] = <<>>
            BY <1>1, <3>1, Zenon DEF Joined
        <3> QED BY <1>3, <3>1, <3>2, Zenon
    <2>2. <<>> \o <<>> = <<>>
        OBVIOUS
    <2> QED BY ONLY <2>1, <2>2, Zenon
<1>4. n \in T
  <2> HIDE DEF T, n
  <2> QED BY <1>2, <1>3, UpTo
<1> QED
    BY <1>1, <1>4 DEF Joined

\* More in one of the sequences, after which there is nothing, is more at the end.
LEMMA FlattenOfLonger ==
    ASSUME NEW S, NEW r \in Seq(S), NEW p \in Seq(Seq(S)), NEW q \in Seq(Seq(S)),
           Len(p) = Len(q), NEW m \in 1 .. Len(p), q[m] = p[m] \o r,
           \A k \in 1 .. Len(p) : k # m => q[k] = p[k],
           \A k \in 1 .. Len(p) : k > m => p[k] = <<>>
    PROVE  FlattenSeq(q) = FlattenSeq(p) \o r
<1>a. \A s, t, u \in Seq(S) : (s \o t) \o u = s \o (t \o u)
    <2>1. Associative(S)
        BY ONLY ConcatIsAssociative, Zenon
    <2> QED BY ONLY <2>1, Zenon DEF Associative
<1> DEFINE n == Len(p)
<1>0. /\ n \in Nat /\ m \in Nat /\ m >= 1 /\ m <= n
      /\ \A k \in 1 .. n : p[k] \in Seq(S) /\ q[k] \in Seq(S)
    OBVIOUS
<1>1. PICK f : Joined(S, p, f)
    BY FlattenParts
<1>2. PICK g : Joined(S, q, g)
    BY FlattenParts
<1>3. /\ f[0] = <<>> /\ g[0] = <<>>
      /\ \A k \in 1 .. n : f[k] = f[k - 1] \o p[k] /\ g[k] = g[k - 1] \o q[k]
      /\ \A k \in 0 .. n : f[k] \in Seq(S) /\ g[k] \in Seq(S)
      /\ FlattenSeq(p) = f[n] /\ FlattenSeq(q) = g[n]
    BY <1>1, <1>2 DEF Joined
<1> HIDE DEF n
<1> DEFINE T == {k \in Nat : g[k] = IF k < m THEN f[k] ELSE f[k] \o r}
<1>4. 0 \in T
    BY ONLY <1>0, <1>3
<1>5. ASSUME NEW k \in 1 .. n, k - 1 \in T PROVE k \in T
    <2>0. k \in Nat /\ k - 1 \in Nat /\ k - 1 \in 0 .. n /\ k \in 0 .. n
        BY ONLY <1>0, k \in 1 .. n
    <2>1. /\ f[k] = f[k - 1] \o p[k] /\ g[k] = g[k - 1] \o q[k]
          /\ f[k - 1] \in Seq(S) /\ g[k - 1] \in Seq(S) /\ p[k] \in Seq(S)
          /\ g[k - 1] = IF k - 1 < m THEN f[k - 1] ELSE f[k - 1] \o r
        BY ONLY <1>0, <1>3, <1>5, <2>0, Zenon
    <2>2. CASE k < m
        <3>1. k - 1 < m /\ k # m
            BY ONLY <1>0, <2>0, <2>2
        <3>2. q[k] = p[k]
            BY <3>1 DEF n
        <3> QED BY ONLY <2>0, <2>1, <2>2, <3>1, <3>2, Zenon
    <2>3. CASE k = m
        <3>1. k - 1 < m /\ ~(k < m)
            BY ONLY <1>0, <2>0, <2>3
        <3>2. g[k] = f[k - 1] \o (p[k] \o r)
            BY <2>1, <2>3, <3>1, Zenon
        <3>3. f[k - 1] \o (p[k] \o r) = (f[k - 1] \o p[k]) \o r
            <4>1. f[k - 1] \in Seq(S) /\ p[k] \in Seq(S) /\ r \in Seq(S)
                BY <2>1
            <4>2. r \in Seq(S)
                OBVIOUS
            <4> QED BY ONLY <1>a, <4>1, <4>2, Zenon
        <3> QED BY ONLY <2>0, <2>1, <3>1, <3>2, <3>3, Zenon
    <2>4. CASE k > m
        <3>1. k # m /\ ~(k < m) /\ ~(k - 1 < m)
            BY ONLY <1>0, <2>0, <2>4
        <3>2. p[k] = <<>> /\ q[k] = p[k]
            BY <2>4, <3>1 DEF n
        <3>3. f[k - 1] \o <<>> = f[k - 1] /\ g[k - 1] \o <<>> = g[k - 1]
            BY ONLY <2>1, ConcatEmptySeq, Zenon
        <3> QED BY ONLY <2>0, <2>1, <3>1, <3>2, <3>3, Zenon
    <2> QED BY ONLY <1>0, <2>0, <2>2, <2>3, <2>4
<1>6. n \in T
  <2> HIDE DEF T
  <2> QED BY <1>0, <1>4, <1>5, UpTo
<1>7. ~(n < m)
    BY ONLY <1>0
<1> QED
    BY ONLY <1>3, <1>6, <1>7, Zenon

LEMMA FlattenOfConcat ==
    ASSUME NEW S, NEW p \in Seq(Seq(S)), NEW q \in Seq(Seq(S))
    PROVE  /\ p \o q \in Seq(Seq(S))
           /\ FlattenSeq(p) \in Seq(S)
           /\ FlattenSeq(p \o q) = FlattenSeq(p) \o FlattenSeq(q)
<1>a. \A x, y, z \in Seq(S) : (x \o y) \o z = x \o (y \o z)
    <2>1. Associative(S)
        BY ONLY ConcatIsAssociative, Zenon
    <2> QED BY ONLY <2>1, Zenon DEF Associative
<1> DEFINE s == p \o q
<1>0. /\ Len(p) \in Nat /\ Len(q) \in Nat /\ s \in Seq(Seq(S)) /\ Len(s) = Len(p) + Len(q)
      /\ \A k \in 1 .. Len(p) + Len(q) : s[k] = IF k <= Len(p) THEN p[k] ELSE q[k - Len(p)]
      /\ \A k \in 1 .. Len(q) : q[k] \in Seq(S)
    BY ConcatProperties
<1> HIDE DEF s
<1>1. PICK f : Joined(S, p, f)
    BY FlattenParts
<1>2. PICK g : Joined(S, q, g)
    BY FlattenParts
<1>3. PICK h : Joined(S, s, h)
    BY <1>0, FlattenParts
<1> DEFINE T == {k \in Nat : h[k] = f[k]}
           U == {k \in Nat : h[Len(p) + k] = f[Len(p)] \o g[k]}
<1>4. h[Len(p)] = f[Len(p)]
    <2>1. 0 \in T
        BY <1>1, <1>3 DEF Joined
    <2>2. ASSUME NEW k \in 1 .. Len(p), k - 1 \in T PROVE k \in T
        <3>1. k \in Nat /\ k \in 1 .. Len(s) /\ h[k - 1] = f[k - 1] /\ s[k] = p[k]
            BY <1>0, <2>2, SMTT(30)
        <3>2. h[k] = h[k - 1] \o s[k] /\ f[k] = f[k - 1] \o p[k]
            BY <1>1, <1>3, <3>1 DEF Joined
        <3> QED BY <3>1, <3>2
    <2> HIDE DEF T
    <2>3. Len(p) \in T
        BY <1>0, <2>1, <2>2, UpTo
    <2> QED BY <2>3 DEF T
<1>5. h[Len(p) + Len(q)] = f[Len(p)] \o g[Len(q)]
    <2>1. 0 \in U
        <3>1. f[Len(p)] \in Seq(S) /\ g[0] = <<>> /\ Len(p) + 0 = Len(p)
            BY <1>0, <1>1, <1>2 DEF Joined
        <3>2. f[Len(p)] \o <<>> = f[Len(p)]
            BY <3>1, ConcatEmptySeq
        <3> QED BY <1>4, <3>1, <3>2
    <2>2. ASSUME NEW k \in 1 .. Len(q), k - 1 \in U PROVE k \in U
        <3>1. /\ k \in Nat /\ Len(p) + k \in 1 .. Len(p) + Len(q)
              /\ (Len(p) + k) - 1 = Len(p) + (k - 1) /\ (Len(p) + k) - Len(p) = k
              /\ ~(Len(p) + k <= Len(p)) /\ Len(p) \in 0 .. Len(p) /\ k - 1 \in 0 .. Len(q)
            BY ONLY k \in 1 .. Len(q), Len(p) \in Nat, Len(q) \in Nat
        <3>2. s[Len(p) + k] = q[k] /\ Len(p) + k \in 1 .. Len(s)
            BY ONLY <1>0, <3>1, Zenon
        <3>3. h[Len(p) + k] = h[Len(p) + (k - 1)] \o q[k] /\ g[k] = g[k - 1] \o q[k]
            BY ONLY <1>2, <1>3, <3>1, <3>2, k \in 1 .. Len(q), Zenon DEF Joined
        <3>4. /\ h[Len(p) + (k - 1)] = f[Len(p)] \o g[k - 1]
              /\ f[Len(p)] \in Seq(S) /\ g[k - 1] \in Seq(S) /\ q[k] \in Seq(S)
            BY ONLY <1>0, <1>1, <1>2, <2>2, <3>1, Zenon DEF Joined
        <3>6. (f[Len(p)] \o g[k - 1]) \o q[k] = f[Len(p)] \o (g[k - 1] \o q[k])
            BY ONLY <3>4, <1>a, Zenon
        <3>5. h[Len(p) + k] = f[Len(p)] \o g[k]
            BY ONLY <3>3, <3>4, <3>6, Zenon
        <3> QED BY <3>1, <3>5
    <2> HIDE DEF U
    <2>3. Len(q) \in U
        BY <1>0, <2>1, <2>2, UpTo
    <2> QED BY <2>3 DEF U
<1>6. /\ FlattenSeq(p) = f[Len(p)] /\ FlattenSeq(q) = g[Len(q)] /\ f[Len(p)] \in Seq(S)
      /\ FlattenSeq(s) = h[Len(p) + Len(q)]
    BY <1>0, <1>1, <1>2, <1>3 DEF Joined
<1> QED
    BY <1>0, <1>5, <1>6 DEF s

-----------------------------------------------------------------------------
(* The records of some batches in a sequence. *)

One(batches) == [x \in Records |-> IF Batch(x) \in batches THEN <<x>> ELSE <<>>]

LEMMA OneIs ==
    ASSUME NEW batches
    PROVE  /\ One(batches) \in [Records -> Seq(Records)]
           /\ \A x \in Records : One(batches)[x] = IF Batch(x) \in batches THEN <<x>> ELSE <<>>
BY DEF One

LEMMA OfIs ==
    ASSUME NEW batches
    PROVE  \A r \in Seq(Records) :
              /\ Of(r, batches) = FlattenSeq(Mapped(One(batches), r))
              /\ Mapped(One(batches), r) \in Seq(Seq(Records))
              /\ Len(Mapped(One(batches), r)) = Len(r)
              /\ \A k \in 1 .. Len(r) : Mapped(One(batches), r)[k] = One(batches)[r[k]]
<1> DEFINE one == One(batches)
<1>1. one \in [Records -> Seq(Records)]
    BY OneIs
<1>2. ASSUME NEW r \in Seq(Records)
      PROVE  /\ Of(r, batches) = FlattenSeq(Mapped(one, r))
             /\ Mapped(one, r) \in Seq(Seq(Records)) /\ Len(Mapped(one, r)) = Len(r)
             /\ \A k \in 1 .. Len(r) : Mapped(one, r)[k] = one[r[k]]
    <2>1. \A k \in DOMAIN r : r[k] \in Records /\ one[r[k]] = IF Batch(r[k]) \in batches THEN <<r[k]>> ELSE <<>>
        BY SeqOfMapped, OneIs
    <2>2. Mapped(one, r) = [k \in DOMAIN r |-> IF Batch(r[k]) \in batches THEN <<r[k]>> ELSE <<>>]
        BY ONLY <2>1, Zenon DEF Mapped
    <2>3. Of(r, batches) = FlattenSeq(Mapped(one, r))
        BY ONLY <2>2, Zenon DEF Of
    <2> HIDE DEF one
    <2>4. Mapped(one, r) \in [DOMAIN r -> Seq(Records)]
        BY <1>1, <2>1 DEF Mapped
    <2>5. \A k \in 1 .. Len(r) : Mapped(one, r)[k] = one[r[k]]
        BY SeqOfMapped DEF Mapped
    <2> QED BY <2>3, <2>4, <2>5, SeqOfMapped
<1> QED
    BY <1>2

LEMMA OfTypes ==
    ASSUME NEW batches, NEW r \in Seq(Records), NEW q \in Seq(Records)
    PROVE  /\ Of(<<>>, batches) = <<>>
           /\ Of(r, batches) \in Seq(Records)
           /\ Of(r \o q, batches) = Of(r, batches) \o Of(q, batches)
<1> DEFINE one == One(batches)
           m(s) == Mapped(one, s)
<1>1. one \in [Records -> Seq(Records)]
    BY OneIs
<1>2. \A s \in Seq(Records) : Of(s, batches) = FlattenSeq(m(s)) /\ m(s) \in Seq(Seq(Records))
    BY OfIs
<1> HIDE DEF one
<1>3. Of(<<>>, batches) = <<>>
    BY DEF Of, FlattenSeq
<1>4. m(r) \o m(q) = m(r \o q) /\ r \o q \in Seq(Records)
    <2>1. m(r) \o m(q) = m(r \o q)
        BY ONLY <1>1, r \in Seq(Records), q \in Seq(Records), MappedConcat, Zenon
    <2> QED BY <2>1, ConcatProperties
<1> HIDE DEF m
<1>5. /\ Of(r, batches) = FlattenSeq(m(r)) /\ m(r) \in Seq(Seq(Records))
      /\ Of(q, batches) = FlattenSeq(m(q)) /\ m(q) \in Seq(Seq(Records))
      /\ Of(r \o q, batches) = FlattenSeq(m(r \o q))
    BY ONLY <1>2, <1>4, r \in Seq(Records), q \in Seq(Records), Zenon
<1>6. /\ FlattenSeq(m(r)) \in Seq(Records)
      /\ FlattenSeq(m(r) \o m(q)) = FlattenSeq(m(r)) \o FlattenSeq(m(q))
    BY ONLY <1>5, FlattenOfConcat, Zenon
<1> QED
    BY ONLY <1>3, <1>4, <1>5, <1>6, Zenon

LEMMA OfSame ==
    ASSUME NEW r, NEW A, NEW B, \A k \in DOMAIN r : Batch(r[k]) \in A <=> Batch(r[k]) \in B
    PROVE  Of(r, A) = Of(r, B)
<1>1. [k \in DOMAIN r |-> IF Batch(r[k]) \in A THEN <<r[k]>> ELSE <<>>]
      = [k \in DOMAIN r |-> IF Batch(r[k]) \in B THEN <<r[k]>> ELSE <<>>]
    BY Zenon
<1> QED
    BY <1>1, Zenon DEF Of

LEMMA OfNone ==
    ASSUME NEW batches, NEW r \in Seq(Records), \A k \in DOMAIN r : Batch(r[k]) \notin batches
    PROVE  Of(r, batches) = <<>>
<1> DEFINE one == One(batches)
<1>1. /\ Of(r, batches) = FlattenSeq(Mapped(one, r))
      /\ Mapped(one, r) \in Seq(Seq(Records)) /\ Len(Mapped(one, r)) = Len(r)
      /\ \A k \in 1 .. Len(r) : Mapped(one, r)[k] = one[r[k]]
    BY OfIs
<1>0. \A k \in 1 .. Len(r) : r[k] \in Records /\ Batch(r[k]) \notin batches
    BY ONLY r \in Seq(Records), \A k \in DOMAIN r : Batch(r[k]) \notin batches, SeqOfMapped
<1>2. \A k \in 1 .. Len(r) : one[r[k]] = <<>>
    BY ONLY <1>0, OneIs, Zenon
<1> DEFINE seqs == Mapped(one, r)
<1> HIDE DEF one
<1>3. /\ Of(r, batches) = FlattenSeq(seqs) /\ seqs \in Seq(Seq(Records))
      /\ \A k \in 1 .. Len(seqs) : seqs[k] = <<>>
    BY ONLY <1>1, <1>2, Zenon
<1> HIDE DEF seqs
<1>4. FlattenSeq(seqs) = <<>>
    BY ONLY <1>3, FlattenOfEmpty, Zenon
<1> QED
    BY <1>3, <1>4

LEMMA OfAll ==
    ASSUME NEW batches, NEW r \in Seq(Records), \A k \in DOMAIN r : Batch(r[k]) \in batches
    PROVE  Of(r, batches) = r
<1> DEFINE one == One(batches)
           seqs == Mapped(one, r)
<1>1. /\ Of(r, batches) = FlattenSeq(seqs)
      /\ seqs \in Seq(Seq(Records)) /\ Len(seqs) = Len(r)
      /\ \A k \in 1 .. Len(r) : seqs[k] = one[r[k]]
    BY OfIs
<1>0. \A k \in 1 .. Len(r) : r[k] \in Records /\ Batch(r[k]) \in batches
    BY ONLY r \in Seq(Records), \A k \in DOMAIN r : Batch(r[k]) \in batches, SeqOfMapped
<1>2. \A k \in 1 .. Len(r) : one[r[k]] = <<r[k]>>
    BY ONLY <1>0, OneIs, Zenon
<1> HIDE DEF one, seqs
<1>3. PICK f : Joined(Records, seqs, f)
    BY <1>1, FlattenParts
<1>4. /\ f[0] = <<>> /\ \A k \in 1 .. Len(r) : f[k] = f[k - 1] \o <<r[k]>>
      /\ Of(r, batches) = f[Len(r)] /\ Len(r) \in Nat
    <2>1. Len(r) \in Nat
        OBVIOUS
    <2>2. /\ f[0] = <<>> /\ FlattenSeq(seqs) = f[Len(seqs)]
          /\ \A k \in 1 .. Len(seqs) : f[k] = f[k - 1] \o seqs[k]
        BY ONLY <1>3 DEF Joined
    <2>3. \A k \in 1 .. Len(r) : seqs[k] = <<r[k]>> /\ f[k] = f[k - 1] \o seqs[k]
        BY ONLY <1>1, <1>2, <2>2, Zenon
    <2>4. \A k \in 1 .. Len(r) : f[k] = f[k - 1] \o <<r[k]>>
        BY ONLY <2>3, Zenon
    <2>5. Of(r, batches) = f[Len(r)]
        BY ONLY <1>1, <2>2, Zenon
    <2> QED BY ONLY <2>1, <2>2, <2>4, <2>5, Zenon
<1> DEFINE T == {k \in Nat : f[k] = SubSeq(r, 1, k)}
<1>5. 0 \in T
    <2>1. 1 \in Int /\ 0 \in Int /\ 0 < 1 /\ 0 \in Nat
        OBVIOUS
    <2>2. SubSeq(r, 1, 0) = <<>>
        BY ONLY <2>1, SubSeqEmpty
    <2> QED BY ONLY <1>4, <2>1, <2>2, Zenon
<1>6. ASSUME NEW k \in 1 .. Len(r), k - 1 \in T PROVE k \in T
    <2>1. k \in Nat /\ f[k] = f[k - 1] \o <<r[k]>> /\ f[k - 1] = SubSeq(r, 1, k - 1)
        BY <1>4, <1>6
    <2>2. 1 \in 1 .. Len(r) /\ k \in 1 .. Len(r)
        BY <1>4
    <2>3. SubSeq(r, 1, k) = SubSeq(r, 1, k - 1) \o <<r[k]>>
        BY ONLY <2>2, r \in Seq(Records), SubSeqRecursiveSecond
    <2> QED BY <2>1, <2>3, Zenon
<1>7. Len(r) \in T
  <2> HIDE DEF T
  <2> QED BY <1>4, <1>5, <1>6, UpTo
<1>8. SubSeq(r, 1, Len(r)) = r
    BY SubSeqFull
<1> QED
    BY <1>4, <1>7, <1>8

-----------------------------------------------------------------------------
(* The records of some batches in all files. *)

\* Some files: there is one, and a last number.
Contents(fs) ==
    /\ DOMAIN fs \subseteq Nat /\ DOMAIN fs # {}
    /\ \E n \in Nat : \A i \in DOMAIN fs : i <= n
    /\ \A i \in DOMAIN fs : fs[i] \in Seq(Records)

\* What the files below m have of some batches.
Parts(fs, batches, m) == [i \in 1 .. m |-> Of(In(fs, i - 1), batches)]

LEMMA InTypes ==
    ASSUME NEW fs, Contents(fs), NEW batches, NEW i
    PROVE  /\ In(fs, i) \in Seq(Records)
           /\ Of(In(fs, i), batches) \in Seq(Records)
           /\ i \notin DOMAIN fs => In(fs, i) = <<>> /\ Of(In(fs, i), batches) = <<>>
<1>1. In(fs, i) \in Seq(Records) /\ (i \notin DOMAIN fs => In(fs, i) = <<>>)
    BY DEF Contents, In
<1> QED
    BY <1>1, OfTypes, Zenon

LEMMA PartsAre ==
    ASSUME NEW fs, Contents(fs), NEW batches, NEW m \in Nat
    PROVE  /\ Parts(fs, batches, m) \in Seq(Seq(Records))
           /\ Len(Parts(fs, batches, m)) = m
           /\ \A i \in 1 .. m : Parts(fs, batches, m)[i] = Of(In(fs, i - 1), batches)
<1>1. Parts(fs, batches, m) \in [1 .. m -> Seq(Records)]
    BY InTypes, Zenon DEF Parts
<1>2. \A i \in 1 .. m : Parts(fs, batches, m)[i] = Of(In(fs, i - 1), batches)
    BY Zenon DEF Parts
<1> QED
    BY ONLY <1>1, <1>2, m \in Nat, SeqOfFunction, Zenon

\* Files that are not there change nothing.
LEMMA StoredIs ==
    ASSUME NEW fs, Contents(fs), NEW batches, NEW m \in Nat, \A i \in DOMAIN fs : i < m
    PROVE  Stored(fs, batches) = FlattenSeq(Parts(fs, batches, m))
<1> DEFINE last == Max(DOMAIN fs)
<1>1. last \in DOMAIN fs /\ \A i \in DOMAIN fs : last >= i
    <2>1. DOMAIN fs \subseteq Nat /\ DOMAIN fs # {} /\ \A i \in DOMAIN fs : i <= m
        BY DEF Contents
    <2> QED BY ONLY <2>1, m \in Nat, MaxOf
<1>2. last \in Nat /\ last + 1 \in Nat /\ last + 1 <= m
    BY <1>1 DEF Contents
<1>3. Stored(fs, batches) = FlattenSeq(Parts(fs, batches, last + 1))
    BY Zenon DEF Stored, Parts
<1> HIDE DEF last
<1> DEFINE all == Parts(fs, batches, m)
           p == Parts(fs, batches, last + 1)
           q == [i \in 1 .. m - (last + 1) |-> <<>>]
<1>4. /\ all \in Seq(Seq(Records)) /\ Len(all) = m
      /\ \A i \in 1 .. m : all[i] = Of(In(fs, i - 1), batches)
      /\ p \in Seq(Seq(Records)) /\ Len(p) = last + 1
      /\ \A i \in 1 .. last + 1 : p[i] = Of(In(fs, i - 1), batches)
    BY ONLY <1>2, m \in Nat, Contents(fs), PartsAre, Zenon
<1>5. /\ q \in Seq(Seq(Records)) /\ Len(q) = m - (last + 1)
      /\ \A i \in 1 .. m - (last + 1) : q[i] = <<>>
    <2>1. m - (last + 1) \in Nat /\ <<>> \in Seq(Records)
        BY <1>2
    <2>2. q \in [1 .. m - (last + 1) -> Seq(Records)]
        BY ONLY <2>1, Zenon
    <2>3. \A i \in 1 .. m - (last + 1) : q[i] = <<>>
        BY ONLY Zenon
    <2> HIDE DEF q
    <2> QED BY ONLY <2>1, <2>2, <2>3, SeqOfFunction, Zenon
<1> HIDE DEF all, p, q
<1>6. /\ p \o q \in Seq(Seq(Records)) /\ Len(p \o q) = Len(p) + Len(q)
      /\ \A i \in 1 .. Len(p) + Len(q) : (p \o q)[i] = IF i <= Len(p) THEN p[i] ELSE q[i - Len(p)]
    <2>1. p \in Seq(Seq(Records)) /\ q \in Seq(Seq(Records))
        BY <1>4, <1>5
    <2> QED BY ONLY <2>1, ConcatProperties
<1>7. ASSUME NEW i \in 1 .. m PROVE all[i] = (p \o q)[i]
    <2>0. Len(p) + Len(q) = m /\ Len(p) = last + 1
        BY ONLY <1>2, <1>4, <1>5, m \in Nat
    <2>1. CASE i <= last + 1
        <3>1. i \in 1 .. last + 1 /\ i \in 1 .. Len(p) + Len(q)
            BY ONLY <1>2, <2>0, <2>1, i \in 1 .. m
        <3> QED BY ONLY <1>4, <1>6, <2>0, <2>1, <3>1, i \in 1 .. m, Zenon
    <2>2. CASE ~(i <= last + 1)
        <3>1. i - (last + 1) \in 1 .. m - (last + 1) /\ i - 1 > last /\ i - 1 \in Nat
            BY ONLY <1>2, <2>2, i \in 1 .. m, m \in Nat
        <3>2. i - 1 \notin DOMAIN fs
            <4>1. \A j \in DOMAIN fs : j \in Nat
                BY DEF Contents
            <4> QED BY ONLY <1>1, <1>2, <3>1, <4>1
        <3>3. all[i] = <<>>
            BY ONLY <1>4, <3>2, i \in 1 .. m, Contents(fs), InTypes, Zenon
        <3>4. (p \o q)[i] = q[i - (last + 1)]
            BY ONLY <1>6, <2>0, <2>2, i \in 1 .. m, Zenon
        <3> QED BY ONLY <1>5, <3>1, <3>3, <3>4, Zenon
    <2> QED BY <2>1, <2>2
<1>8. all = p \o q
    <2>1. Len(all) = Len(p \o q) /\ \A i \in 1 .. Len(all) : all[i] = (p \o q)[i]
        <3>1. Len(all) = m /\ Len(p) = last + 1 /\ Len(q) = m - (last + 1)
              /\ Len(p \o q) = Len(p) + Len(q)
            BY ONLY <1>4, <1>5, <1>6, Zenon
        <3>2. (last + 1) + (m - (last + 1)) = m
            BY ONLY <1>2, m \in Nat
        <3> QED BY ONLY <1>7, <3>1, <3>2, Zenon
    <2>2. all \in Seq(Seq(Records)) /\ p \o q \in Seq(Seq(Records))
        BY ONLY <1>4, <1>6, Zenon
    <2> QED BY ONLY <2>1, <2>2, SeqEqual
<1>9. FlattenSeq(q) = <<>>
    BY ONLY <1>5, FlattenOfEmpty, Zenon
<1>10. /\ FlattenSeq(p) \in Seq(Records)
       /\ FlattenSeq(p \o q) = FlattenSeq(p) \o FlattenSeq(q)
    BY ONLY <1>4, <1>5, FlattenOfConcat, Zenon
<1>11. FlattenSeq(p) \o <<>> = FlattenSeq(p)
    BY ONLY <1>10, ConcatEmptySeq, Zenon
<1>12. FlattenSeq(all) = FlattenSeq(p)
    BY ONLY <1>8, <1>9, <1>10, <1>11, Zenon
<1> QED
    BY <1>3, <1>12 DEF all, p

LEMMA StoredType ==
    ASSUME NEW fs, Contents(fs), NEW batches
    PROVE  Stored(fs, batches) \in Seq(Records)
<1>1. PICK n \in Nat : \A i \in DOMAIN fs : i <= n
    BY DEF Contents
<1>2. n + 1 \in Nat /\ \A i \in DOMAIN fs : i < n + 1
    BY <1>1 DEF Contents
<1>3. Parts(fs, batches, n + 1) \in Seq(Seq(Records))
    BY <1>2, PartsAre
<1> DEFINE p == Parts(fs, batches, n + 1)
<1>4. Stored(fs, batches) = FlattenSeq(p)
    BY ONLY <1>2, Contents(fs), StoredIs, Zenon
<1> HIDE DEF p
<1>5. p \in Seq(Seq(Records))
    BY <1>3 DEF p
<1>6. FlattenSeq(p) \in Seq(Records)
    BY ONLY <1>5, FlattenOfConcat, Zenon
<1> QED
    BY <1>4, <1>6

\* Files that have the same of some batches, file by file, have it as a whole.
LEMMA StoredSame ==
    ASSUME NEW fs, Contents(fs), NEW gs, Contents(gs), NEW A, NEW B,
           \A i \in Nat : Of(In(fs, i), A) = Of(In(gs, i), B)
    PROVE  Stored(fs, A) = Stored(gs, B)
<1>1. PICK n1 \in Nat : \A i \in DOMAIN fs : i <= n1
    BY DEF Contents
<1>2. PICK n2 \in Nat : \A i \in DOMAIN gs : i <= n2
    BY DEF Contents
<1> DEFINE m == n1 + n2 + 1
<1>3. m \in Nat /\ (\A i \in DOMAIN fs : i < m) /\ (\A i \in DOMAIN gs : i < m)
    BY <1>1, <1>2 DEF Contents
<1> HIDE DEF m
<1>4. Stored(fs, A) = FlattenSeq(Parts(fs, A, m)) /\ Stored(gs, B) = FlattenSeq(Parts(gs, B, m))
    BY ONLY <1>3, Contents(fs), Contents(gs), StoredIs, Zenon
<1>5. Parts(fs, A, m) = Parts(gs, B, m)
    <2>1. \A i \in 1 .. m : i - 1 \in Nat
        BY <1>3
    <2> QED BY <2>1, Zenon DEF Parts
<1> QED
    BY <1>4, <1>5, Zenon

\* More at the end of a file, after which there is nothing, is more at the end of all.
Longer(fs, gs, batches, j, r) ==
    /\ Contents(fs) /\ Contents(gs) /\ j \in Nat /\ r \in Seq(Records)
    /\ Of(In(gs, j), batches) = Of(In(fs, j), batches) \o r
    /\ \A i \in Nat : i # j => Of(In(gs, i), batches) = Of(In(fs, i), batches)
    /\ \A i \in Nat : i > j => Of(In(fs, i), batches) = <<>>

LEMMA StoredLonger ==
    ASSUME NEW fs, NEW gs, NEW batches, NEW j, NEW r, Longer(fs, gs, batches, j, r)
    PROVE  Stored(gs, batches) = Stored(fs, batches) \o r
<1> USE DEF Longer
<1>1. PICK n1 \in Nat : \A i \in DOMAIN fs : i <= n1
    BY DEF Contents
<1>2. PICK n2 \in Nat : \A i \in DOMAIN gs : i <= n2
    BY DEF Contents
<1> DEFINE m == n1 + n2 + j + 1
<1>3. /\ m \in Nat /\ (\A i \in DOMAIN fs : i < m) /\ (\A i \in DOMAIN gs : i < m)
      /\ j + 1 \in 1 .. m /\ (j + 1) - 1 = j
      /\ \A i \in 1 .. m : i - 1 \in Nat /\ (i # j + 1 => i - 1 # j) /\ (i > j + 1 => i - 1 > j)
    BY <1>1, <1>2 DEF Contents
<1> HIDE DEF m
<1>4. /\ Stored(fs, batches) = FlattenSeq(Parts(fs, batches, m))
      /\ Stored(gs, batches) = FlattenSeq(Parts(gs, batches, m))
    BY ONLY <1>3, Contents(fs), Contents(gs), StoredIs, Zenon
<1> DEFINE p == Parts(fs, batches, m)  q == Parts(gs, batches, m)  k == j + 1
<1>5. /\ p \in Seq(Seq(Records)) /\ Len(p) = m
      /\ \A i \in 1 .. m : p[i] = Of(In(fs, i - 1), batches)
      /\ q \in Seq(Seq(Records)) /\ Len(q) = m
      /\ \A i \in 1 .. m : q[i] = Of(In(gs, i - 1), batches)
    BY ONLY <1>3, Contents(fs), Contents(gs), PartsAre, Zenon
<1> HIDE DEF p, q
<1>6. /\ k \in 1 .. Len(p) /\ Len(p) = Len(q) /\ q[k] = p[k] \o r
    BY <1>3, <1>5, Zenon
<1>7. \A i \in 1 .. Len(p) : i # k => q[i] = p[i]
    BY <1>3, <1>5, Zenon
<1>8. \A i \in 1 .. Len(p) : i > k => p[i] = <<>>
    BY <1>3, <1>5, Zenon
<1> HIDE DEF k
<1>9. FlattenSeq(q) = FlattenSeq(p) \o r
    BY ONLY <1>5, <1>6, <1>7, <1>8, r \in Seq(Records), FlattenOfLonger, Zenon
<1> QED
    BY <1>4, <1>9 DEF p, q

-----------------------------------------------------------------------------
(* The inductive invariant. *)

Holding == {"loop", "flush", "rotate"}

Job ==
    [at : {"idle", "waiting"} \cup Holding, records : Seq(Records), left : Seq(Records),
     buffer : Seq(Records)]

Types ==
    /\ state \in [opened : BOOLEAN, file : Nat, index : Nat, items : Nat, bytes : Nat]
    /\ Contents(files)
    /\ lock \in Clients \cup {None}
    /\ job \in [Clients -> Job]
    /\ late \subseteq [file : Nat, records : Seq(Records)]
    /\ resets \subseteq [by : Clients \X Nat, file : Nat, old : BOOLEAN]
    /\ written \in Seq(Records)
    /\ begun \in [Clients -> Nat]

\* The records of the present batch of a client.
Own(c, records) ==
    \A k \in DOMAIN records :
        Batch(records[k]) = <<c, begun[c]>> /\ records[k].counted /\ records[k].whole

\* What a call is, at each of its places; the client with the mutex is the one past it.
Calls ==
    \A c \in Clients :
        /\ job[c].at \in Holding <=> lock = c
        /\ job[c].at # "idle" =>
              /\ state.opened /\ job[c].records # <<>>
              /\ Own(c, job[c].records) /\ Own(c, job[c].left) /\ Own(c, job[c].buffer)
        /\ job[c].at = "waiting" => job[c].buffer = <<>> /\ job[c].left = job[c].records
        /\ job[c].at = "rotate" => job[c].buffer = <<>>

\* The counters are those of the file in use, or more than it has after it was emptied.
Counters ==
    state.opened =>
        /\ state.file <= state.index
        /\ state.items >= CountedItems(In(files, state.file))
        /\ state.bytes >= CountedBytes(In(files, state.file))

Within(items, bytes) ==
    /\ RotateItems > 0 => items <= RotateItems
    /\ RotateBytes > 0 /\ items > 1 => bytes <= RotateBytes

\* No file is beyond the limits, nor is the one in use with the buffer of the client.
Limits ==
    /\ \A i \in Nat : Within(CountedItems(In(files, i)), CountedBytes(In(files, i)))
    /\ state.opened => Within(state.items, state.bytes)
    /\ \A c \in Clients : lock = c =>
          Within(state.items + Len(job[c].buffer), state.bytes + Bytes(job[c].buffer))
    /\ \A append \in late : \A k \in DOMAIN append.records : ~append.records[k].counted

\* Records of batches that have had the mutex.
Past(records) ==
    \A k \in DOMAIN records :
        /\ records[k].batch <= begun[records[k].client]
        /\ At(records[k].client, "waiting") => records[k].batch < begun[records[k].client]

AllPast ==
    /\ \A i \in Nat : Past(In(files, i))
    /\ \A append \in late : Past(append.records)
    /\ Past(written)

\* The batch that has the mutex, if one has.
Active == {<<c, begun[c]>> : c \in {d \in Clients : lock = d}}

NoneOf(records, batches) == \A k \in DOMAIN records : Batch(records[k]) \notin batches

\* The batches that matter are in no file after the one in use, and no late append is of one.
Apart ==
    /\ Active \cap Answered = {}
    /\ \A append \in late : NoneOf(append.records, Answered \cup Active)
    /\ state.opened => \A i \in Nat : i > state.file => NoneOf(In(files, i), Answered \cup Active)

\* A dropped rotation of this crawl is of a file that the crawl does not use.
Aside ==
    \A reset \in resets : ~reset.old =>
        /\ NoneOf(In(files, reset.file), Answered \cup Active)
        /\ state.opened => reset.file <= state.index /\ reset.file # state.file

\* What is there in part is of no batch that matters.
Whole(records, batches) ==
    \A k \in DOMAIN records : ~records[k].whole => Batch(records[k]) \notin batches

Parted == \A i \in Nat : Whole(In(files, i), Answered \cup Active)

\* What was answered, and not emptied, is in the files.
Saved == \A K : K \subseteq Kept => Stored(files, K) = Of(written, K)

\* What the files have of the batch that has the mutex is at their end.
After(stored) ==
    \A K : K \subseteq Kept => Stored(files, K \cup Active) = Of(written, K) \o stored

Begun ==
    \A c \in Clients : lock = c =>
        \E stored \in Seq(Records) :
            /\ job[c].records = (stored \o job[c].buffer) \o job[c].left
            /\ <<c, begun[c]>> \notin emptied => After(stored)

IInv ==
    /\ Types /\ Calls /\ Counters /\ Limits /\ AllPast /\ Apart /\ Aside /\ Parted
    /\ Saved /\ Begun

-----------------------------------------------------------------------------
(* What an append does to the files. *)

\* The files after an append of r to one of them.
Appended(file, r) ==
    /\ Contents(files')
    /\ DOMAIN files' = DOMAIN files \cup {file}
    /\ \A i \in Nat : i # file => In(files', i) = In(files, i)
    /\ In(files', file) = In(files, file) \o r

LEMMA AppendIs ==
    ASSUME Contents(files), NEW file \in Nat, NEW r \in Seq(Records), files' = AppendTo(file, r)
    PROVE  Appended(file, r)
<1>1. DOMAIN files' = DOMAIN files \cup {file}
    BY DEF AppendTo
<1>2. \A i \in DOMAIN files' : files'[i] = In(files, i) \o (IF i = file THEN r ELSE <<>>)
    BY <1>1 DEF AppendTo
<1>3. \A i : In(files, i) \in Seq(Records) /\ In(files, i) \o <<>> = In(files, i)
    BY InTypes, ConcatEmptySeq
<1>4. \A i \in DOMAIN files' : files'[i] \in Seq(Records)
    <2> TAKE i \in DOMAIN files'
    <2>1. In(files, i) \o r \in Seq(Records)
        BY <1>3, ConcatProperties
    <2> QED BY <1>2, <1>3, <2>1
<1>5. PICK n \in Nat : \A i \in DOMAIN files : i <= n
    BY DEF Contents
<1>6. n + file \in Nat /\ \A i \in DOMAIN files' : i <= n + file
    BY <1>1, <1>5 DEF Contents
<1>7. Contents(files')
    BY <1>1, <1>4, <1>6 DEF Contents
<1>8. ASSUME NEW i \in Nat, i # file PROVE In(files', i) = In(files, i)
    <2>1. CASE i \in DOMAIN files
        BY <1>1, <1>2, <1>3, <1>8, <2>1, Zenon DEF In
    <2>2. CASE i \notin DOMAIN files
        BY <1>1, <1>8, <2>2, Zenon DEF In
    <2> QED BY <2>1, <2>2
<1>9. In(files', file) = In(files, file) \o r
    <2>1. file \in DOMAIN files' /\ In(files', file) = files'[file]
        BY <1>1, Zenon DEF In
    <2> QED BY <1>2, <2>1, Zenon
<1> QED
    BY <1>1, <1>7, <1>8, <1>9 DEF Appended

LEMMA OfThen ==
    ASSUME NEW batches, NEW s \in Seq(Records), NEW r \in Seq(Records)
    PROVE  /\ Of(r, batches) = <<>> => Of(s \o r, batches) = Of(s, batches)
           /\ Of(r, batches) = r => Of(s \o r, batches) = Of(s, batches) \o r
<1>1. Of(s \o r, batches) = Of(s, batches) \o Of(r, batches) /\ Of(s, batches) \in Seq(Records)
    BY OfTypes
<1>2. Of(s, batches) \o <<>> = Of(s, batches)
    BY ONLY <1>1, ConcatEmptySeq
<1> QED
    BY ONLY <1>1, <1>2, Zenon

\* Records of other batches do not change what there is of some.
LEMMA AppendOfOthers ==
    ASSUME Contents(files), NEW file \in Nat, NEW r \in Seq(Records), Appended(file, r),
           NEW batches, NoneOf(r, batches)
    PROVE  Stored(files', batches) = Stored(files, batches)
<1>1. Of(r, batches) = <<>>
    BY OfNone DEF NoneOf
<1>2. ASSUME NEW i \in Nat PROVE Of(In(files, i), batches) = Of(In(files', i), batches)
    <2>1. CASE i # file
        BY <2>1, Zenon DEF Appended
    <2>2. CASE i = file
        <3> DEFINE s == In(files, i)
        <3>1. s \in Seq(Records)
            BY InTypes, Zenon
        <3> HIDE DEF s
        <3>3. Of(s \o r, batches) = Of(s, batches)
            BY <1>1, <3>1, OfThen, Zenon
        <3>4. In(files', i) = s \o r
            BY <2>2, Zenon DEF Appended, s
        <3> QED BY <3>3, <3>4, Zenon DEF s
    <2> QED BY <2>1, <2>2
<1>3. Contents(files')
    BY DEF Appended
<1>4. Stored(files, batches) = Stored(files', batches)
    BY ONLY <1>2, <1>3, Contents(files), StoredSame
<1> QED
    BY <1>4

\* Records of a batch that is in no later file come after all others.
LEMMA AppendOfOwn ==
    ASSUME Contents(files), NEW file \in Nat, NEW r \in Seq(Records), Appended(file, r),
           NEW batches, \A k \in DOMAIN r : Batch(r[k]) \in batches,
           \A i \in Nat : i > file => NoneOf(In(files, i), batches)
    PROVE  Stored(files', batches) = Stored(files, batches) \o r
<1>1. Of(r, batches) = r
    BY OfAll
<1>2. Of(In(files', file), batches) = Of(In(files, file), batches) \o r
    <2> DEFINE s == In(files, file)
    <2>1. s \in Seq(Records)
        BY InTypes, Zenon
    <2> HIDE DEF s
    <2>2. Of(s \o r, batches) = Of(s, batches) \o r
        BY <1>1, <2>1, OfThen, Zenon
    <2> QED BY <2>2, Zenon DEF s, Appended
<1>3. \A i \in Nat : i # file => Of(In(files', i), batches) = Of(In(files, i), batches)
    BY Zenon DEF Appended
<1>4. ASSUME NEW i \in Nat, i > file PROVE Of(In(files, i), batches) = <<>>
    <2> DEFINE s == In(files, i)
    <2>1. s \in Seq(Records) /\ NoneOf(s, batches)
        BY <1>4, InTypes, Zenon
    <2> HIDE DEF s
    <2>2. Of(s, batches) = <<>>
        BY <2>1, OfNone DEF NoneOf
    <2> QED BY <2>2 DEF s
<1> DEFINE gs == files'
<1>5. Contents(gs)
    BY DEF Appended
<1>6. /\ Of(In(gs, file), batches) = Of(In(files, file), batches) \o r
      /\ \A i \in Nat : i # file => Of(In(gs, i), batches) = Of(In(files, i), batches)
      /\ \A i \in Nat : i > file => Of(In(files, i), batches) = <<>>
    BY <1>2, <1>3, <1>4, Zenon
<1> HIDE DEF gs
<1>7. Stored(gs, batches) = Stored(files, batches) \o r
    <2>1. Longer(files, gs, batches, file, r)
        BY <1>5, <1>6, Zenon DEF Longer
    <2> QED BY ONLY <2>1, StoredLonger
<1> QED
    BY <1>7 DEF gs

\* What a property of each record becomes when records are added.
LEMMA ConcatParts ==
    ASSUME NEW p \in Seq(Records), NEW q \in Seq(Records), NEW k \in DOMAIN (p \o q)
    PROVE  \/ k \in DOMAIN p /\ (p \o q)[k] = p[k]
           \/ \E j \in DOMAIN q : (p \o q)[k] = q[j]
<1>1. /\ Len(p) \in Nat /\ Len(q) \in Nat /\ DOMAIN p = 1 .. Len(p) /\ DOMAIN q = 1 .. Len(q)
      /\ DOMAIN (p \o q) = 1 .. Len(p) + Len(q)
      /\ \A i \in 1 .. Len(p) + Len(q) : (p \o q)[i] = IF i <= Len(p) THEN p[i] ELSE q[i - Len(p)]
    BY ConcatProperties, LenProperties
<1>2. k \in 1 .. Len(p) + Len(q)
    BY <1>1
<1>3. CASE k <= Len(p)
    <2>1. k \in 1 .. Len(p)
        BY ONLY <1>1, <1>2, <1>3
    <2> QED BY ONLY <1>1, <1>2, <1>3, <2>1, Zenon
<1>4. CASE ~(k <= Len(p))
    <2>1. k - Len(p) \in 1 .. Len(q)
        BY ONLY <1>1, <1>2, <1>4
    <2> QED BY ONLY <1>1, <1>2, <1>4, <2>1, Zenon
<1> QED
    BY <1>3, <1>4

\* Records of other batches keep every file free of a batch, and what is there in part.
LEMMA AppendedApart ==
    ASSUME Contents(files), NEW file \in Nat, NEW r \in Seq(Records), Appended(file, r),
           NEW B, NEW i \in Nat
    PROVE  /\ NoneOf(In(files, i), B) /\ (i # file \/ NoneOf(r, B)) => NoneOf(In(files', i), B)
           /\ Whole(In(files, i), B) /\ (i # file \/ Whole(r, B)) => Whole(In(files', i), B)
<1>1. CASE i # file
    BY <1>1 DEF Appended
<1>2. CASE i = file
    <2> DEFINE s == In(files, file)
    <2>1. s \in Seq(Records) /\ In(files', i) = s \o r
        BY <1>2, InTypes DEF Appended
    <2>2. s = In(files, i)
        BY <1>2
    <2> HIDE DEF s
    <2>3. \A k \in DOMAIN (s \o r) :
             \/ k \in DOMAIN s /\ (s \o r)[k] = s[k]
             \/ \E j \in DOMAIN r : (s \o r)[k] = r[j]
        BY <2>1, ConcatParts
    <2>4. NoneOf(s, B) /\ NoneOf(r, B) => NoneOf(s \o r, B)
        BY ONLY <2>3, Zenon DEF NoneOf
    <2>5. Whole(s, B) /\ Whole(r, B) => Whole(s \o r, B)
        BY ONLY <2>3, Zenon DEF Whole
    <2> QED BY ONLY <1>2, <2>1, <2>2, <2>4, <2>5, Zenon
<1> QED
    BY <1>1, <1>2

\* An append of records of other batches than B, or of whole ones, to a file of no reset.
LEMMA AsideAfter ==
    ASSUME Contents(files), NEW file \in Nat, NEW r \in Seq(Records), Appended(file, r),
           NEW B, NEW C, C \subseteq B,
           NoneOf(r, C)
    PROVE  /\ \A i \in Nat : NoneOf(In(files, i), B) => NoneOf(In(files', i), C)
           /\ \A i \in Nat : Whole(In(files, i), B) => Whole(In(files', i), C)
<1>1. ASSUME NEW i \in Nat, NoneOf(In(files, i), B) PROVE NoneOf(In(files', i), C)
    <2>1. NoneOf(In(files, i), C)
        BY <1>1 DEF NoneOf
    <2> QED BY <2>1, AppendedApart
<1>2. ASSUME NEW i \in Nat, Whole(In(files, i), B) PROVE Whole(In(files', i), C)
    <2>1. Whole(In(files, i), C) /\ Whole(r, C)
        BY <1>2 DEF Whole, NoneOf
    <2> QED BY <2>1, AppendedApart
<1> QED
    BY <1>1, <1>2

-----------------------------------------------------------------------------
(* Every step keeps the invariant. *)

LEMMA HolderIs ==
    ASSUME Types, Calls, NEW c \in Clients, job[c].at \in Holding
    PROVE  /\ lock = c /\ state.opened /\ job[c].at # "idle" /\ job[c].at # "waiting"
           /\ Active = {<<c, begun[c]>>} /\ begun[c] \in Nat
           /\ job[c] \in Job
           /\ job[c].records \in Seq(Records) /\ job[c].left \in Seq(Records)
           /\ job[c].buffer \in Seq(Records)
           /\ job[c].records # <<>>
           /\ Own(c, job[c].records) /\ Own(c, job[c].left) /\ Own(c, job[c].buffer)
<1>1. lock = c /\ state.opened /\ job[c].at # "idle" /\ job[c].at # "waiting"
    BY DEF Calls, Holding
<1>2. Active = {<<c, begun[c]>>}
    BY <1>1, Zenon DEF Active
<1>3. job[c] \in Job /\ begun[c] \in Nat
    BY DEF Types
<1>4. /\ job[c].records \in Seq(Records) /\ job[c].left \in Seq(Records)
      /\ job[c].buffer \in Seq(Records)
    BY <1>3 DEF Job
<1> QED
    BY <1>1, <1>2, <1>3, <1>4 DEF Calls

\* The files of a crawl that begins have nothing of any batch.
LEMMA FreshIs ==
    /\ Contents(Fresh) /\ NewState(TRUE).file \in Nat /\ DOMAIN Fresh = {NewState(TRUE).file}
    /\ \A i : In(Fresh, i) = <<>>
    /\ \A batches : Stored(Fresh, batches) = <<>>
<1> DEFINE n == NewState(TRUE).file
<1>1. n \in Nat
    BY DEF NewState
<1>2. DOMAIN Fresh = {n} /\ \A i \in DOMAIN Fresh : Fresh[i] = <<>>
    <2>1. Fresh = [i \in {n} |-> <<>>]
        BY DEF Fresh
    <2> HIDE DEF n
    <2> QED BY <2>1
<1> HIDE DEF n
<1>3. Contents(Fresh)
    <2>1. n <= n
        BY <1>1
    <2>2. <<>> \in Seq(Records)
        OBVIOUS
    <2> QED BY <1>1, <1>2, <2>1, <2>2 DEF Contents
<1>4. \A i : In(Fresh, i) = <<>>
    BY <1>2 DEF In
<1>5. ASSUME NEW batches PROVE Stored(Fresh, batches) = <<>>
    <2> DEFINE m == n + 1
    <2>1. m \in Nat /\ \A i \in DOMAIN Fresh : i < m
        BY <1>1, <1>2
    <2> HIDE DEF m
    <2>2. Stored(Fresh, batches) = FlattenSeq(Parts(Fresh, batches, m))
        BY <1>3, <2>1, StoredIs
    <2> DEFINE p == Parts(Fresh, batches, m)
    <2>3. /\ p \in Seq(Seq(Records)) /\ Len(p) = m
          /\ \A i \in 1 .. m : p[i] = Of(In(Fresh, i - 1), batches)
        BY <1>3, <2>1, PartsAre
    <2> HIDE DEF p
    <2>4. Of(<<>>, batches) = <<>>
        <3>1. <<>> \in Seq(Records) /\ \A k \in DOMAIN <<>> : Batch(<<>>[k]) \notin batches
            OBVIOUS
        <3> QED BY ONLY <3>1, OfNone
    <2>5. \A i \in 1 .. Len(p) : p[i] = <<>>
        BY <1>4, <2>3, <2>4, Zenon
    <2>6. FlattenSeq(p) = <<>>
        BY <2>3, <2>5, FlattenOfEmpty
    <2> QED BY <2>2, <2>6 DEF p
<1> QED
    BY <1>1, <1>2, <1>3, <1>4, <1>5 DEF n

LEMMA FileStoreBegins == Init => IInv
<1> SUFFICES ASSUME Init PROVE IInv
    OBVIOUS
<1>1. /\ state = NewState(TRUE) /\ files = Fresh /\ written = <<>> /\ late = {}
      /\ resets = {}
    BY DEF Init
<1>2. \A c \in Clients : lock # c /\ job[c] = Idle
    BY NoneAssumption DEF Init
<1>3. /\ Contents(files) /\ state.file \in DOMAIN files
      /\ (\A i : In(files, i) = <<>>) /\ \A batches : Stored(files, batches) = <<>>
    BY <1>1, FreshIs
<1>4. Types
    BY <1>3, FileAssumption DEF Init, Types, NewState, Idle, Job
<1>5. Calls
    BY <1>2 DEF Calls, Idle, Holding
<1>6. Counters
    BY <1>1, <1>3, CountsOf DEF Counters, NewState
<1>7. Limits
    <2>1. Within(0, 0)
        BY FileAssumption DEF Within
    <2>2. \A i \in Nat : CountedItems(In(files, i)) = 0 /\ CountedBytes(In(files, i)) = 0
        BY <1>3, CountsOf, Zenon
    <2>3. state.items = 0 /\ state.bytes = 0
        BY <1>1 DEF NewState
    <2> QED BY <1>1, <1>2, <2>1, <2>2, <2>3, Zenon DEF Limits
<1>8. AllPast
    BY <1>1, <1>3 DEF AllPast, Past
<1>9. Apart
    <2>1. Active = {} /\ Answered = {}
        BY <1>1, <1>2 DEF Active, Answered
    <2> QED BY <1>1, <1>3, <2>1 DEF Apart, NoneOf
<1>10. Saved /\ Begun /\ Aside /\ Parted
    <2>1. Saved
        <3>1. <<>> \in Seq(Records)
            OBVIOUS
        <3>2. \A K : Of(<<>>, K) = <<>>
            BY <3>1, OfTypes
        <3> QED BY <1>1, <1>3, <3>2, Zenon DEF Saved
    <2>2. Begun
        BY ONLY <1>2 DEF Begun
    <2>3. Aside
        BY ONLY <1>1 DEF Aside
    <2>4. Parted
        BY ONLY <1>3 DEF Parted, Whole
    <2> QED BY <2>1, <2>2, <2>3, <2>4
<1> QED
    BY <1>4, <1>5, <1>6, <1>7, <1>8, <1>9, <1>10 DEF IInv

\* A step that leaves the files, the state, and who has the mutex.
LEMMA QuietKeeps ==
    ASSUME IInv, UNCHANGED <<state, files, lock, late, resets, written, emptied>>, Types', Calls', AllPast',
           Active' = Active, Begun',
           \A c \in Clients : lock = c =>
              Within(state.items + Len(job'[c].buffer), state.bytes + Bytes(job'[c].buffer))
    PROVE  IInv'
<1>1. Answered' = Answered
    BY DEF Answered
<1>2. Counters'
    BY DEF IInv, Counters
<1>3. Limits'
    BY DEF IInv, Limits
<1>4. Apart'
    BY <1>1 DEF IInv, Apart
<1>5. Saved' /\ Aside' /\ Parted'
    <2>1. Saved'
        BY <1>1 DEF IInv, Saved, Kept
    <2>2. Aside'
        BY <1>1 DEF IInv, Aside
    <2>3. Parted'
        BY <1>1 DEF IInv, Parted
    <2> QED BY <2>1, <2>2, <2>3
<1> QED
    BY <1>2, <1>3, <1>4, <1>5 DEF IInv

LEMMA BatchWriteKeeps ==
    ASSUME IInv, NEW c \in Clients, BatchWrite(c)
    PROVE  IInv'
<1>0. Types /\ Calls /\ AllPast /\ Begun
    BY DEF IInv
<1>1. PICK len \in 1 .. MaxLen, sizes \in [1 .. MaxLen -> Sizes] :
         job' = [job EXCEPT ![c] =
                    [at |-> "waiting",
                     records |-> [k \in 1 .. len |-> Record(c, begun'[c], k, sizes[k])],
                     left |-> [k \in 1 .. len |-> Record(c, begun'[c], k, sizes[k])],
                     buffer |-> <<>>]]
    BY DEF BatchWrite
<1> DEFINE records == [k \in 1 .. len |-> Record(c, begun'[c], k, sizes[k])]
<1>2. /\ state.opened /\ job[c].at = "idle"
      /\ begun' = [begun EXCEPT ![c] = begun[c] + 1]
      /\ UNCHANGED <<state, files, lock, late, resets, written, emptied>>
    BY DEF BatchWrite, At
<1>3. /\ begun[c] \in Nat /\ begun' \in [Clients -> Nat] /\ begun'[c] = begun[c] + 1
      /\ \A d \in Clients : d # c => begun'[d] = begun[d]
      /\ \A d \in Clients : begun'[d] >= begun[d]
    BY <1>0, <1>2 DEF Types
<1>4. /\ records \in Seq(Records) /\ records # <<>>
      /\ \A k \in DOMAIN records :
            Batch(records[k]) = <<c, begun'[c]>> /\ records[k].counted /\ records[k].whole
    <2>1. len \in Nat /\ len >= 1 /\ \A k \in 1 .. len : k \in Nat /\ sizes[k] \in Nat
        <3>1. MaxLen \in Nat /\ Sizes \subseteq Nat
            BY FileAssumption
        <3>2. len \in Nat /\ len >= 1 /\ \A k \in 1 .. len : k \in Nat /\ k \in 1 .. MaxLen
            BY ONLY <3>1, len \in 1 .. MaxLen
        <3> QED BY <3>1, <3>2
    <2>2. \A k \in 1 .. len :
             /\ Record(c, begun'[c], k, sizes[k]) \in Records
             /\ Batch(Record(c, begun'[c], k, sizes[k])) = <<c, begun'[c]>>
             /\ Record(c, begun'[c], k, sizes[k]).counted
             /\ Record(c, begun'[c], k, sizes[k]).whole
        BY <1>3, <2>1 DEF Record, Records, Batch
    <2>3. records \in [1 .. len -> Records] /\ DOMAIN records = 1 .. len
        BY <2>2
    <2>4. \A k \in 1 .. len : records[k] = Record(c, begun'[c], k, sizes[k])
        OBVIOUS
    <2> HIDE DEF records
    <2>5. records \in Seq(Records) /\ Len(records) = len
        BY <2>1, <2>3, SeqOfFunction
    <2>6. records # <<>>
        BY <2>1, <2>5
    <2> QED BY <2>2, <2>3, <2>4, <2>5, <2>6, Zenon
<1> HIDE DEF records
<1>5. /\ job'[c] = [at |-> "waiting", records |-> records, left |-> records, buffer |-> <<>>]
      /\ \A d \in Clients : d # c => job'[d] = job[d]
      /\ job' \in [Clients -> Job]
    <2>1. job' = [job EXCEPT ![c] = [at |-> "waiting", records |-> records, left |-> records,
                                     buffer |-> <<>>]]
        BY <1>1, Zenon DEF records
    <2>2. [at |-> "waiting", records |-> records, left |-> records, buffer |-> <<>>] \in Job
        BY <1>4 DEF Job
    <2> QED BY <1>0, <2>1, <2>2 DEF Types
<1>6. lock # c
    BY <1>0, <1>2 DEF Calls, Holding
<1>7. Types'
    BY <1>0, <1>2, <1>3, <1>5 DEF Types
<1>8. Calls'
    <2> SUFFICES ASSUME NEW d \in Clients
                 PROVE  /\ job'[d].at \in Holding <=> lock' = d
                        /\ job'[d].at # "idle" =>
                              /\ state'.opened /\ job'[d].records # <<>>
                              /\ Own(d, job[d].records)' /\ Own(d, job[d].left)'
                              /\ Own(d, job[d].buffer)'
                        /\ job'[d].at = "waiting" => job'[d].buffer = <<>> /\ job'[d].left = job'[d].records
                        /\ job'[d].at = "rotate" => job'[d].buffer = <<>>
        BY DEF Calls
    <2>1. CASE d = c
        BY <1>2, <1>4, <1>5, <1>6, <2>1 DEF Holding, Own
    <2>2. CASE d # c
        BY <1>0, <1>2, <1>3, <1>5, <2>2 DEF Calls, Own
    <2> QED BY <2>1, <2>2
<1>9. ASSUME NEW r \in Seq(Records), Past(r) PROVE Past(r)'
    <2> SUFFICES ASSUME NEW k \in DOMAIN r
                 PROVE  /\ r[k].batch <= begun'[r[k].client]
                        /\ job'[r[k].client].at = "waiting" => r[k].batch < begun'[r[k].client]
        BY DEF Past, At
    <2>1. r[k].client \in Clients /\ r[k].batch \in Nat /\ r[k].batch <= begun[r[k].client]
        BY <1>9, SeqOfMapped DEF Past, Records
    <2>2. CASE r[k].client = c
        BY <1>3, <2>1, <2>2
    <2>3. CASE r[k].client # c
        BY <1>3, <1>5, <1>9, <2>1, <2>3 DEF Past, At
    <2> QED BY <2>2, <2>3
<1>10. AllPast'
    <2>1. \A i \in Nat : In(files, i) \in Seq(Records)
        BY <1>0, InTypes DEF Types
    <2>2. \A append \in late : append.records \in Seq(Records)
        BY <1>0 DEF Types
    <2>3. written \in Seq(Records)
        BY <1>0 DEF Types
    <2>4. \A i \in Nat : Past(In(files, i))'
        BY <1>0, <1>2, <1>9, <2>1 DEF AllPast
    <2> QED BY <1>0, <1>2, <1>9, <2>2, <2>3, <2>4 DEF AllPast
<1>11. Active' = Active
    BY <1>2, <1>3, <1>6 DEF Active
<1>12. Kept' = Kept
    BY <1>2 DEF Answered, Kept
<1>13. Begun'
    <2>1. \A d \in Clients : lock' = d => lock = d /\ job'[d] = job[d] /\ begun'[d] = begun[d]
        BY <1>2, <1>3, <1>5, <1>6
    <2> SUFFICES ASSUME NEW d \in Clients, lock' = d
                 PROVE  \E stored \in Seq(Records) :
                           /\ job'[d].records = (stored \o job'[d].buffer) \o job'[d].left
                           /\ <<d, begun'[d]>> \notin emptied' => After(stored)'
        BY DEF Begun
    <2>2. lock = d /\ job'[d] = job[d] /\ begun'[d] = begun[d]
        BY <2>1
    <2>3. PICK stored \in Seq(Records) :
             /\ job[d].records = (stored \o job[d].buffer) \o job[d].left
             /\ <<d, begun[d]>> \notin emptied => After(stored)
        BY <1>0, <2>2 DEF Begun
    <2>4. files' = files /\ written' = written /\ emptied' = emptied
        BY <1>2
    <2>5. job'[d].records = (stored \o job'[d].buffer) \o job'[d].left
        BY <2>2, <2>3, Zenon
    <2>6. <<d, begun'[d]>> \notin emptied' => After(stored)'
        BY <1>11, <1>12, <2>2, <2>3, <2>4, Zenon DEF After
    <2> QED BY <2>5, <2>6, Zenon
<1>14. \A d \in Clients : lock = d =>
          Within(state.items + Len(job'[d].buffer), state.bytes + Bytes(job'[d].buffer))
    BY <1>5, <1>6 DEF IInv, Limits
<1> QED
    BY <1>2, <1>7, <1>8, <1>10, <1>11, <1>13, <1>14, QuietKeeps

\* Fewer calls wait, and no batch begins: what was past is past.
LEMMA PastStays ==
    ASSUME begun' = begun, \A d \in Clients : job'[d].at = "waiting" => job[d].at = "waiting"
    PROVE  /\ \A r \in Seq(Records) : Past(r) => Past(r)'
           /\ Types /\ AllPast /\ UNCHANGED <<files, late, resets, written, emptied>> => AllPast'
<1>1. ASSUME NEW r \in Seq(Records), Past(r) PROVE Past(r)'
    <2>1. \A k \in DOMAIN r : r[k].client \in Clients
        BY SeqOfMapped DEF Records
    <2> QED BY <1>1, <2>1, Zenon DEF Past, At
<1>2. ASSUME Types, AllPast, UNCHANGED <<files, late, resets, written, emptied>> PROVE AllPast'
    <2>1. \A i \in Nat : In(files, i) \in Seq(Records)
        BY <1>2, InTypes DEF Types
    <2>2. \A append \in late : append.records \in Seq(Records)
        BY <1>2 DEF Types
    <2>3. written \in Seq(Records)
        BY <1>2 DEF Types
    <2>4. \A i \in Nat : Past(In(files, i))'
        BY <1>1, <1>2, <2>1 DEF AllPast
    <2> QED BY <1>1, <1>2, <2>2, <2>3, <2>4 DEF AllPast
<1> QED
    BY <1>1, <1>2

\* A batch that waits is in none of the files.
LEMMA WaitingIsNew ==
    ASSUME NEW c \in Clients, At(c, "waiting"), begun[c] \in Nat, NEW r \in Seq(Records), Past(r)
    PROVE  NoneOf(r, {<<c, begun[c]>>})
<1> SUFFICES ASSUME NEW k \in DOMAIN r, Batch(r[k]) = <<c, begun[c]>> PROVE FALSE
    BY DEF NoneOf
<1>1. r[k].client = c /\ r[k].batch = begun[c]
    BY DEF Batch
<1>2. r[k].batch < begun[c]
    BY <1>1 DEF Past
<1> QED
    BY <1>1, <1>2

LEMMA NoneOfUnion ==
    ASSUME NEW r, NEW A, NEW B
    PROVE  NoneOf(r, A \cup B) <=> NoneOf(r, A) /\ NoneOf(r, B)
BY DEF NoneOf

\* Batches of which there is nothing in the files make no difference.
LEMMA StoredWithout ==
    ASSUME NEW fs, Contents(fs), NEW A, NEW B, \A i \in Nat : NoneOf(In(fs, i), B)
    PROVE  Stored(fs, A \cup B) = Stored(fs, A)
<1>1. \A i \in Nat : Of(In(fs, i), A \cup B) = Of(In(fs, i), A)
    <2> TAKE i \in Nat
    <2> DEFINE r == In(fs, i)
    <2>1. \A k \in DOMAIN r : Batch(r[k]) \in A \cup B <=> Batch(r[k]) \in A
        BY Zenon DEF NoneOf
    <2> HIDE DEF r
    <2>2. Of(r, A \cup B) = Of(r, A)
        BY ONLY <2>1, OfSame, Zenon
    <2> QED BY <2>2 DEF r
<1> DEFINE C == A \cup B
<1> HIDE DEF C
<1>2. \A i \in Nat : Of(In(fs, i), C) = Of(In(fs, i), A)
    BY <1>1 DEF C
<1>3. Stored(fs, C) = Stored(fs, A)
    BY ONLY <1>2, Contents(fs), StoredSame
<1> QED
    BY <1>3 DEF C

LEMMA LockKeeps ==
    ASSUME IInv, NEW c \in Clients, Lock(c)
    PROVE  IInv'
<1>0. Types /\ Calls /\ Counters /\ Limits /\ AllPast /\ Apart /\ Aside /\ Parted /\ Saved
    BY DEF IInv
<1>1. /\ job[c].at = "waiting" /\ lock = None /\ lock' = c
      /\ job' = [job EXCEPT ![c].at = "loop"]
      /\ UNCHANGED <<state, files, late, resets, written, emptied, begun>>
    BY DEF Lock, At
<1>2. /\ job[c] \in Job /\ begun[c] \in Nat /\ job[c].records \in Seq(Records)
      /\ job[c].buffer = <<>> /\ job[c].left = job[c].records /\ state.opened
    BY <1>0, <1>1 DEF Types, Calls, Job
<1>3. /\ job'[c].at = "loop" /\ job'[c].records = job[c].records
      /\ job'[c].left = job[c].left /\ job'[c].buffer = job[c].buffer
      /\ \A d \in Clients : d # c => job'[d] = job[d]
      /\ job' \in [Clients -> Job]
    <2>1. [job[c] EXCEPT !.at = "loop"] \in Job
        BY <1>2 DEF Job, Holding
    <2> QED BY <1>0, <1>1, <1>2, <2>1 DEF Types, Job
<1>4. Types'
    BY <1>0, <1>1, <1>3 DEF Types
<1>5. \A d \in Clients : lock # d
    BY <1>1, NoneAssumption
<1>6. Calls'
    <2> SUFFICES ASSUME NEW d \in Clients
                 PROVE  /\ job'[d].at \in Holding <=> lock' = d
                        /\ job'[d].at # "idle" =>
                              /\ state'.opened /\ job'[d].records # <<>>
                              /\ Own(d, job[d].records)' /\ Own(d, job[d].left)'
                              /\ Own(d, job[d].buffer)'
                        /\ job'[d].at = "waiting" => job'[d].buffer = <<>> /\ job'[d].left = job'[d].records
                        /\ job'[d].at = "rotate" => job'[d].buffer = <<>>
        BY DEF Calls
    <2>1. CASE d = c
        BY <1>0, <1>1, <1>2, <1>3, <2>1 DEF Holding, Own, Calls
    <2>2. CASE d # c
        BY <1>0, <1>1, <1>3, <1>5, <2>2 DEF Calls, Own
    <2> QED BY <2>1, <2>2
<1>7. AllPast'
    <2>1. \A d \in Clients : job'[d].at = "waiting" => job[d].at = "waiting"
        BY <1>1, <1>3
    <2> QED BY <1>0, <1>1, <2>1, PastStays
<1> DEFINE own == {<<c, begun[c]>>}
<1>8. Active = {} /\ Active' = own /\ Answered' = Answered
    BY <1>1, <1>5 DEF Active, Answered
<1>9. /\ \A i \in Nat : NoneOf(In(files, i), own)
      /\ \A append \in late : NoneOf(append.records, own)
      /\ NoneOf(written, own)
    <2>1. /\ \A i \in Nat : In(files, i) \in Seq(Records)
          /\ \A append \in late : append.records \in Seq(Records)
          /\ written \in Seq(Records)
        BY <1>0, InTypes DEF Types
    <2>2. /\ \A i \in Nat : Past(In(files, i))
          /\ \A append \in late : Past(append.records)
          /\ Past(written)
        BY <1>0 DEF AllPast
    <2>3. \A r \in Seq(Records) : Past(r) => NoneOf(r, own)
        BY <1>1, <1>2, WaitingIsNew DEF At
    <2> HIDE DEF own
    <2> QED BY ONLY <2>1, <2>2, <2>3, Zenon
<1> HIDE DEF own
<1>10. Counters'
    BY <1>0, <1>1 DEF Counters
<1>11. Limits'
    <2>2. Within(state.items, state.bytes)
        BY <1>0, <1>2 DEF Limits
    <2>3. state.items + Len(job'[c].buffer) = state.items /\ state.bytes + Bytes(job'[c].buffer) = state.bytes
        <3>1. state.items \in Nat /\ state.bytes \in Nat
            BY <1>0 DEF Types
        <3>2. Len(job'[c].buffer) = 0 /\ Bytes(job'[c].buffer) = 0
            BY <1>2, <1>3, BytesOf
        <3> QED BY ONLY <3>1, <3>2
    <2>4. Within(state.items + Len(job'[c].buffer), state.bytes + Bytes(job'[c].buffer))
        BY <2>2, <2>3, Zenon
    <2> QED BY <1>0, <1>1, <2>4 DEF Limits
<1>12. Apart'
    <2>1. Answered \cap own = {}
        BY <1>9 DEF NoneOf, Answered
    <2>2. /\ \A append \in late : NoneOf(append.records, Answered \cup own)
          /\ \A i \in Nat : i > state.file => NoneOf(In(files, i), Answered \cup own)
        BY <1>0, <1>2, <1>8, <1>9, NoneOfUnion, Zenon DEF Apart
    <2> QED BY <1>1, <1>8, <2>1, <2>2 DEF Apart
<1>16. Kept' = Kept
    BY <1>1 DEF Kept, Answered
<1>13. ASSUME NEW K, K \subseteq Kept PROVE Stored(files, K \cup own) = Of(written, K) \o <<>>
    <2>1. Stored(files, K \cup own) = Stored(files, K)
        BY <1>0, <1>9, StoredWithout DEF Types
    <2>2. Stored(files, K) = Of(written, K)
        BY <1>0, <1>13 DEF Saved
    <2>3. written \in Seq(Records)
        BY <1>0 DEF Types
    <2>4. Of(written, K) \in Seq(Records)
        BY <2>3, OfTypes
    <2>5. Of(written, K) \o <<>> = Of(written, K)
        BY ONLY <2>4, ConcatEmptySeq
    <2> QED BY <2>1, <2>2, <2>5, Zenon
<1>14. Begun'
    <2> SUFFICES \E stored \in Seq(Records) :
                    /\ job'[c].records = (stored \o job'[c].buffer) \o job'[c].left
                    /\ After(stored)'
        BY <1>1 DEF Begun
    <2>1. <<>> \in Seq(Records) /\ (<<>> \o <<>>) \o job[c].records = job[c].records
        BY <1>2
    <2>3. job'[c].records = (<<>> \o job'[c].buffer) \o job'[c].left
        BY ONLY <1>2, <1>3, <2>1, Zenon
    <2>4. After(<<>>)'
        <3>1. files' = files /\ written' = written
            BY <1>1
        <3> QED BY ONLY <1>8, <1>13, <1>16, <3>1, Zenon DEF After
    <2> QED BY ONLY <2>1, <2>3, <2>4, Zenon
<1>15. Saved'
    BY <1>0, <1>1, <1>16 DEF Saved
<1>17. Aside'
    <2>1. \A reset \in resets : reset.file \in Nat
        BY <1>0 DEF Types
    <2>2. \A reset \in resets : ~reset.old => NoneOf(In(files, reset.file), Answered \cup own)
        BY <1>0, <1>9, <2>1, NoneOfUnion, Zenon DEF Aside
    <2> QED BY <1>0, <1>1, <1>8, <2>2 DEF Aside
<1>18. Parted'
    <2>1. \A i \in Nat : Whole(In(files, i), Answered \cup own)
        BY <1>0, <1>8, <1>9 DEF Parted, Whole, NoneOf
    <2> QED BY <1>1, <1>8, <2>1 DEF Parted
<1> QED
    BY <1>4, <1>6, <1>7, <1>10, <1>11, <1>12, <1>14, <1>15, <1>17, <1>18 DEF IInv

\* a and t are b and l after the first record of l was moved to the end of b.
IsMoved(b, l, a, t) ==
    /\ a \in Seq(Records) /\ t \in Seq(Records) /\ Head(l) \in Records
    /\ Len(a) = Len(b) + 1
    /\ Bytes(a) = Bytes(b) + Head(l).size
    /\ \A k \in DOMAIN a : (k \in DOMAIN b /\ a[k] = b[k]) \/ a[k] = l[1]
    /\ \A k \in DOMAIN t : k + 1 \in DOMAIN l /\ t[k] = l[k + 1]
    /\ 1 \in DOMAIN l
    /\ \A s \in Seq(Records) : (s \o a) \o t = (s \o b) \o l

LEMMA Moved ==
    ASSUME NEW b \in Seq(Records), NEW l \in Seq(Records), l # <<>>
    PROVE  IsMoved(b, l, Append(b, Head(l)), Tail(l))
<1>1. /\ Len(l) \in Nat /\ Len(l) >= 1 /\ DOMAIN l = 1 .. Len(l) /\ Head(l) = l[1] /\ l[1] \in Records
      /\ Tail(l) \in Seq(Records) /\ Len(Tail(l)) = Len(l) - 1 /\ DOMAIN Tail(l) = 1 .. Len(l) - 1
      /\ \A k \in 1 .. Len(l) - 1 : Tail(l)[k] = l[k + 1]
    BY HeadTailProperties, LenProperties
<1>2. /\ Append(b, Head(l)) \in Seq(Records) /\ Len(Append(b, Head(l))) = Len(b) + 1
      /\ \A k \in 1 .. Len(b) : Append(b, Head(l))[k] = b[k]
      /\ Append(b, Head(l))[Len(b) + 1] = Head(l)
      /\ Append(b, Head(l)) = b \o <<Head(l)>>
    BY <1>1, AppendProperties, AppendIsConcat
<1>3. Bytes(Append(b, Head(l))) = Bytes(b) + Head(l).size
    <2>1. <<Head(l)>> \in Seq(Records) /\ Head(l) \in Records
        BY <1>1
    <2>2. Bytes(b \o <<Head(l)>>) = Bytes(b) + Bytes(<<Head(l)>>)
        BY <2>1, BytesOf
    <2>3. Bytes(<<Head(l)>>) = Head(l).size
        BY <2>1, BytesOf
    <2> QED BY <1>2, <2>2, <2>3, Zenon
<1>4. \A k \in DOMAIN Append(b, Head(l)) :
         (k \in DOMAIN b /\ Append(b, Head(l))[k] = b[k]) \/ Append(b, Head(l))[k] = l[1]
    <2> DEFINE a == Append(b, Head(l))
    <2>1. /\ DOMAIN a = 1 .. Len(b) + 1 /\ DOMAIN b = 1 .. Len(b) /\ Len(b) \in Nat
          /\ \A k \in 1 .. Len(b) : a[k] = b[k]
          /\ a[Len(b) + 1] = l[1]
        BY <1>1, <1>2, LenProperties
    <2> HIDE DEF a
    <2>2. \A k \in DOMAIN a : k \in 1 .. Len(b) \/ k = Len(b) + 1
        BY ONLY <2>1
    <2>3. \A k \in DOMAIN a : (k \in DOMAIN b /\ a[k] = b[k]) \/ a[k] = l[1]
        BY ONLY <2>1, <2>2, Zenon
    <2> QED BY <2>3 DEF a
<1>5. \A k \in DOMAIN Tail(l) : k + 1 \in DOMAIN l /\ Tail(l)[k] = l[k + 1]
    BY ONLY <1>1
<1>6. ASSUME NEW s \in Seq(Records)
      PROVE  (s \o Append(b, Head(l))) \o Tail(l) = (s \o b) \o l
    <2> DEFINE h == <<Head(l)>>  t == Tail(l)
    <2>1. h \in Seq(Records) /\ t \in Seq(Records) /\ h \o t = l
        BY <1>1, HeadTailProperties
    <2> HIDE DEF h, t
    <2>3. \A x, y, z \in Seq(Records) : (x \o y) \o z = x \o (y \o z)
        <3>1. Associative(Records)
            BY ONLY ConcatIsAssociative, Zenon
        <3> QED BY ONLY <3>1, Zenon DEF Associative
    <2>4. s \o b \in Seq(Records)
        BY ConcatProperties
    <2>5. s \o (b \o h) = (s \o b) \o h
        BY ONLY <2>1, <2>3, s \in Seq(Records), b \in Seq(Records), Zenon
    <2>6. ((s \o b) \o h) \o t = (s \o b) \o (h \o t)
        <3> DEFINE sb == s \o b
        <3>1. sb \in Seq(Records)
            BY <2>4
        <3> HIDE DEF sb
        <3>2. h \in Seq(Records) /\ t \in Seq(Records)
            BY <2>1
        <3>3. (sb \o h) \o t = sb \o (h \o t)
            BY ONLY <2>3, <3>1, <3>2, Zenon
        <3> QED BY <3>3 DEF sb
    <2>7. Append(b, Head(l)) = b \o h
        BY <1>2 DEF h
    <2>8. (s \o Append(b, Head(l))) \o t = (s \o b) \o l
        BY ONLY <2>1, <2>5, <2>6, <2>7, Zenon
    <2> QED BY <2>8 DEF t
<1>7. 1 \in DOMAIN l /\ Head(l) \in Records
    BY ONLY <1>1
<1> QED
    BY ONLY <1>1, <1>2, <1>3, <1>4, <1>5, <1>6, <1>7, Zenon DEF IsMoved

\* What a round makes of a call.
Round(c, r) ==
    /\ r.at \in {"loop", "flush"} /\ r.records = job[c].records
    /\ Own(c, r.left) /\ Own(c, r.buffer)
    /\ \A s \in Seq(Records) : (s \o r.buffer) \o r.left = (s \o job[c].buffer) \o job[c].left
    /\ Within(state.items + Len(r.buffer), state.bytes + Bytes(r.buffer))

\* The buffer stays within the limits of the file in use, for which ShouldRotate looks ahead.
LEMMA RoundIs ==
    ASSUME IInv, NEW c \in Clients, Next1(c)
    PROVE  \E r \in Job : job' = [job EXCEPT ![c] = r] /\ Round(c, r)
<1>1. Types /\ Calls /\ job[c].at = "loop" /\ lock = c
    BY DEF IInv, Next1, At, Calls, Holding
<1> DEFINE b == job[c].buffer  l == job[c].left
<1>2. /\ job[c] \in Job /\ b \in Seq(Records) /\ l \in Seq(Records)
      /\ Own(c, l) /\ Own(c, b)
      /\ Within(state.items + Len(b), state.bytes + Bytes(b))
    <2>1. job[c].at \in Holding
        BY <1>1 DEF Holding
    <2>2. Within(state.items + Len(b), state.bytes + Bytes(b))
        BY <1>1, Zenon DEF IInv, Limits
    <2> QED BY <1>1, <2>1, <2>2, HolderIs, Zenon
<1> DEFINE flush == l = <<>> \/ ShouldRotate(state.items, state.bytes, b, Head(l))
<1>3. \/ flush /\ job' = [job EXCEPT ![c].at = "flush"]
      \/ ~flush /\ job' = [job EXCEPT ![c].buffer = Append(@, Head(l)), ![c].left = Tail(l)]
    BY ONLY Next1(c), Zenon DEF Next1
<1>4. CASE flush
    <2> DEFINE r == [job[c] EXCEPT !.at = "flush"]
    <2>1. job' = [job EXCEPT ![c] = r]
        BY <1>3, <1>4, Zenon
    <2>2. /\ r \in Job /\ r.at = "flush" /\ r.records = job[c].records /\ r.left = l /\ r.buffer = b
        BY <1>2 DEF Job, Holding
    <2> HIDE DEF r
    <2>3. Round(c, r)
        BY <1>2, <2>2, Zenon DEF Round
    <2> QED BY <2>1, <2>2, <2>3
<1>5. CASE ~flush
    <2> DEFINE r == [job[c] EXCEPT !.buffer = Append(b, Head(l)), !.left = Tail(l)]
               a == Append(b, Head(l))
               t == Tail(l)
    <2>1. job' = [job EXCEPT ![c] = r]
        BY <1>3, <1>5, Zenon
    <2>2. IsMoved(b, l, a, t)
        <3> HIDE DEF b, l
        <3> QED BY <1>2, <1>5, Moved
    <2>3. a \in Seq(Records) /\ t \in Seq(Records)
        <3> HIDE DEF a, b, l, t
        <3> QED BY <2>2 DEF IsMoved
    <2>4. /\ r \in Job /\ r.at = "loop" /\ r.records = job[c].records /\ r.left = t /\ r.buffer = a
        BY <1>1, <1>2, <2>3 DEF Job, Holding
    <2>5. Own(c, t) /\ Own(c, a)
        <3> HIDE DEF a, t, b, l
        <3>1. Own(c, t)
            BY ONLY <1>2, <2>2, Zenon DEF Own, IsMoved
        <3>2. Own(c, a)
            BY ONLY <1>2, <2>2, ZenonT(60) DEF Own, IsMoved
        <3> QED BY ONLY <3>1, <3>2
    <2>6. Within(state.items + Len(a), state.bytes + Bytes(a))
        <3> DEFINE items == state.items  bytes == state.bytes  n == Len(b)  m == Bytes(b)
                   h == Head(l).size
        <3>1. items \in Nat /\ bytes \in Nat /\ n \in Nat /\ m \in Nat /\ h \in Nat
            <4>1. m \in Nat
                BY <1>2, BytesOf
            <4>2. h \in Nat
                <5> HIDE DEF a, b, l, t
                <5> QED BY <2>2 DEF Records, IsMoved, h
            <4> QED BY <1>1, <1>2, <4>1, <4>2 DEF Types
        <3>2. RotateItems \in Nat /\ RotateBytes \in Nat
            BY FileAssumption
        <3>3. ~(/\ items + n + bytes + m > 0
                /\ \/ RotateItems > 0 /\ items + n + 1 > RotateItems
                   \/ RotateBytes > 0 /\ bytes + m + h > RotateBytes)
            BY <1>5, Zenon DEF ShouldRotate
        <3>4. state.items + Len(a) = items + (n + 1) /\ state.bytes + Bytes(a) = bytes + (m + h)
            <4> HIDE DEF a, b, l, t
            <4> QED BY <2>2, Zenon DEF IsMoved, items, bytes, n, m, h
        <3> HIDE DEF items, bytes, n, m, h
        <3>5. Within(items + (n + 1), bytes + (m + h))
            BY ONLY <3>1, <3>2, <3>3 DEF Within
        <3> HIDE DEF a
        <3> QED BY <3>4, <3>5, Zenon
    <2> HIDE DEF r, a, t
    <2>7. Round(c, r)
        <3> HIDE DEF b, l
        <3> QED BY <2>2, <2>4, <2>5, <2>6, Zenon DEF Round, IsMoved, b, l
    <2> QED BY <2>1, <2>4, <2>7
<1> QED
    BY <1>4, <1>5, Zenon

LEMMA Next1Keeps ==
    ASSUME IInv, NEW c \in Clients, Next1(c)
    PROVE  IInv'
<1>0. Types /\ Calls /\ AllPast /\ Begun
    BY DEF IInv
<1>1. job[c].at = "loop" /\ UNCHANGED <<state, files, lock, late, resets, written, emptied, begun>>
    BY DEF Next1, At
<1>2. PICK r \in Job : job' = [job EXCEPT ![c] = r] /\ Round(c, r)
    BY RoundIs
<1>3. /\ lock = c /\ state.opened /\ job[c].at # "idle" /\ job[c].records # <<>>
      /\ Own(c, job[c].records)
    BY <1>0, <1>1, HolderIs DEF Holding
<1>4. /\ job'[c] = r /\ \A d \in Clients : d # c => job'[d] = job[d]
      /\ job' \in [Clients -> Job]
    BY <1>0, <1>2 DEF Types
<1>5. Types'
    BY <1>0, <1>1, <1>4 DEF Types
<1>6. Calls'
    <2> SUFFICES ASSUME NEW d \in Clients
                 PROVE  /\ job'[d].at \in Holding <=> lock' = d
                        /\ job'[d].at # "idle" =>
                              /\ state'.opened /\ job'[d].records # <<>>
                              /\ Own(d, job[d].records)' /\ Own(d, job[d].left)'
                              /\ Own(d, job[d].buffer)'
                        /\ job'[d].at = "waiting" => job'[d].buffer = <<>> /\ job'[d].left = job'[d].records
                        /\ job'[d].at = "rotate" => job'[d].buffer = <<>>
        BY DEF Calls
    <2>1. CASE d = c
        BY <1>1, <1>2, <1>3, <1>4, <2>1 DEF Holding, Own, Round
    <2>2. CASE d # c
        BY <1>0, <1>1, <1>4, <2>2 DEF Calls, Own
    <2> QED BY <2>1, <2>2
<1>7. AllPast'
    <2>1. r.at # "waiting"
        BY <1>2 DEF Round
    <2>2. \A d \in Clients : job'[d].at = "waiting" => job[d].at = "waiting"
        BY <1>4, <2>1
    <2> QED BY <1>0, <1>1, <2>2, PastStays
<1>8. Active' = Active /\ Kept' = Kept
    BY <1>1 DEF Active, Answered, Kept
<1>9. Begun'
    <2>1. PICK stored \in Seq(Records) :
             /\ job[c].records = (stored \o job[c].buffer) \o job[c].left
             /\ <<c, begun[c]>> \notin emptied => After(stored)
        BY <1>0, <1>3 DEF Begun
    <2>2. job'[c].records = (stored \o job'[c].buffer) \o job'[c].left
        BY <1>2, <1>4, <2>1, Zenon DEF Round
    <2>3. <<c, begun'[c]>> \notin emptied' => After(stored)'
        BY <1>1, <1>8, <2>1, Zenon DEF After
    <2> QED BY <1>1, <1>3, <2>2, <2>3, Zenon DEF Begun
<1>10. \A d \in Clients : lock = d =>
          Within(state.items + Len(job'[d].buffer), state.bytes + Bytes(job'[d].buffer))
    BY <1>2, <1>3, <1>4, Zenon DEF Round
<1> QED
    BY <1>1, <1>5, <1>6, <1>7, <1>8, <1>9, <1>10, QuietKeeps

\* Nobody has the mutex after a call is over.
Released ==
    /\ job' \in [Clients -> Job] /\ lock' = None
    /\ \A d \in Clients : lock' # d
    /\ \A d \in Clients : job'[d].at = "waiting" => job[d].at = "waiting"
    /\ (begun' = begun /\ state'.opened = state.opened => Calls' /\ Begun')
    /\ Active' = {}

LEMMA ReleaseIs ==
    ASSUME Types, Calls, NEW c \in Clients, job[c].at \in Holding, Release(c)
    PROVE  Released
<1>1. /\ lock = c /\ lock' = None /\ job' = [job EXCEPT ![c] = Idle]
    BY HolderIs DEF Release
<1>2. Idle \in Job /\ Idle.at = "idle"
    BY DEF Idle, Job
<1>3. job' \in [Clients -> Job] /\ job'[c] = Idle /\ \A d \in Clients : d # c => job'[d] = job[d]
    BY <1>1, <1>2 DEF Types
<1>4. \A d \in Clients : lock' # d
    BY <1>1, NoneAssumption
<1>5. \A d \in Clients : job'[d].at = "waiting" => job[d].at = "waiting"
    BY <1>2, <1>3
<1>6. ASSUME begun' = begun, state'.opened = state.opened
      PROVE  Calls'
    <2> SUFFICES ASSUME NEW d \in Clients
                 PROVE  /\ job'[d].at \in Holding <=> lock' = d
                        /\ job'[d].at # "idle" =>
                              /\ state'.opened /\ job'[d].records # <<>>
                              /\ Own(d, job[d].records)' /\ Own(d, job[d].left)'
                              /\ Own(d, job[d].buffer)'
                        /\ job'[d].at = "waiting" => job'[d].buffer = <<>> /\ job'[d].left = job'[d].records
                        /\ job'[d].at = "rotate" => job'[d].buffer = <<>>
        BY DEF Calls
    <2>1. CASE d = c
        BY <1>2, <1>3, <1>4, <2>1 DEF Holding
    <2>2. CASE d # c
        BY <1>1, <1>3, <1>4, <1>6, <2>2 DEF Calls, Own
    <2> QED BY <2>1, <2>2
<1>7. Begun'
    BY <1>4, Zenon DEF Begun
<1>8. Active' = {}
    BY <1>4, Zenon DEF Active
<1> QED
    BY <1>1, <1>3, <1>4, <1>5, <1>6, <1>7, <1>8 DEF Released

\* A step that leaves the files and what was answered, and after which nobody has the mutex.
LEMMA ReleaseKeeps ==
    ASSUME IInv, NEW c \in Clients, job[c].at \in Holding, Release(c),
           UNCHANGED <<files, written, emptied, begun>>, Types', Counters',
           state'.opened = state.opened, state'.file = state.file,
           state'.items = state.items, state'.bytes = state.bytes,
           state'.index >= state.index,
           \A reset \in resets' :
              \/ reset \in resets
              \/ /\ NoneOf(In(files, reset.file), Answered)
                 /\ reset.file <= state'.index /\ reset.file # state.file,
           \A append \in late' :
              \/ append \in late
              \/ /\ Past(append.records) /\ append.records \in Seq(Records)
                 /\ NoneOf(append.records, Answered)
                 /\ \A k \in DOMAIN append.records : ~append.records[k].counted
    PROVE  IInv'
<1>0. Types /\ Calls /\ Limits /\ AllPast /\ Apart /\ Aside /\ Parted /\ Saved
    BY DEF IInv
<1>1. Released
    BY <1>0, ReleaseIs
<1>2. Calls' /\ Begun'
    BY <1>1 DEF Released
<1>3. Answered' = Answered /\ Active' = {}
    BY <1>1 DEF Answered, Released
<1>4. \A r \in Seq(Records) : Past(r) => Past(r)'
    BY <1>1, PastStays DEF Released
<1>5. AllPast'
    <2>1. \A append \in late : append.records \in Seq(Records)
        BY <1>0 DEF Types
    <2>2. \A append \in late' : append.records \in Seq(Records) /\ Past(append.records)
        BY <1>0, <2>1, Zenon DEF AllPast
    <2>3. \A append \in late' : Past(append.records)'
        BY <1>4, <2>2, Zenon
    <2>4. \A i \in Nat : In(files, i) \in Seq(Records) /\ Past(In(files, i))
        BY <1>0, InTypes, Zenon DEF Types, AllPast
    <2>5. \A i \in Nat : Past(In(files, i))'
        BY <1>4, <2>4
    <2>6. Past(written)'
        BY <1>0, <1>4 DEF AllPast, Types
    <2> QED BY <2>3, <2>5, <2>6 DEF AllPast
<1>6. Limits'
    <2>1. \A d \in Clients : lock' # d
        BY <1>1 DEF Released
    <2>2. \A append \in late' : \A k \in DOMAIN append.records : ~append.records[k].counted
        BY <1>0, Zenon DEF Limits
    <2>3. \A i \in Nat : Within(CountedItems(In(files', i)), CountedBytes(In(files', i)))
        BY <1>0 DEF Limits
    <2>4. state'.opened => Within(state'.items, state'.bytes)
        BY <1>0, Zenon DEF Limits
    <2> QED BY <2>1, <2>2, <2>3, <2>4, Zenon DEF Limits
<1>7. Apart'
    <2>1. \A append \in late' : NoneOf(append.records, Answered)
        BY <1>0, Zenon DEF Apart, NoneOf
    <2>2. state'.opened => \A i \in Nat : i > state'.file => NoneOf(In(files', i), Answered)
        <3>1. state.opened => \A i \in Nat : i > state.file => NoneOf(In(files, i), Answered)
            BY <1>0, NoneOfUnion, Zenon DEF Apart
        <3> QED BY <3>1
    <2>3. Answered \cup {} = Answered /\ {} \cap Answered = {}
        OBVIOUS
    <2> QED BY <1>3, <2>1, <2>2, <2>3, Zenon DEF Apart
<1>8. Saved'
    BY <1>0, <1>3 DEF Saved, Kept
<1>9. Aside'
    <2> SUFFICES ASSUME NEW reset \in resets', ~reset.old
                 PROVE  /\ NoneOf(In(files, reset.file), Answered)
                        /\ state.opened => reset.file <= state'.index /\ reset.file # state.file
        <3>1. Answered \cup {} = Answered
            OBVIOUS
        <3> QED BY <1>3, <3>1, Zenon DEF Aside
    <2>1. CASE reset \in resets
        <3>1. /\ reset.file \in Nat /\ state.index \in Nat
              /\ state.opened => state'.index \in Nat
            BY <1>0, <2>1 DEF Types
        <3>2. /\ NoneOf(In(files, reset.file), Answered)
              /\ state.opened => reset.file <= state.index /\ reset.file # state.file
            BY <1>0, <2>1, NoneOfUnion, Zenon DEF Aside
        <3> QED BY <3>1, <3>2
    <2> QED BY <2>1
<1>10. Parted'
    <2>1. \A i \in Nat : Whole(In(files, i), Answered)
        BY <1>0 DEF Parted, Whole
    <2> QED BY <1>3, <2>1 DEF Parted
<1> QED
    BY <1>2, <1>5, <1>6, <1>7, <1>8, <1>9, <1>10 DEF IInv

\* A rotation that fails, or is dropped as it makes its file.
IndexMoves(c) ==
    /\ job[c].at \in Holding /\ Release(c) /\ state' = [state EXCEPT !.index = state.index + 1]
    /\ UNCHANGED <<files, late, written, emptied, begun>>

LEMMA IndexMovesKeeps ==
    ASSUME IInv, NEW c \in Clients, IndexMoves(c),
           resets' \subseteq resets \cup
              {[by |-> <<c, begun[c]>>, file |-> state.index + 1, old |-> FALSE]}
    PROVE  IInv'
<1>0. Types /\ Calls /\ Counters /\ Apart
    BY DEF IInv
<1>1. /\ job[c].at \in Holding /\ Release(c)
      /\ UNCHANGED <<files, late, written, emptied, begun>>
    BY DEF IndexMoves
<1>2. /\ state'.opened = state.opened /\ state'.file = state.file
      /\ state'.items = state.items /\ state'.bytes = state.bytes
      /\ state'.index = state.index + 1
      /\ state' \in [opened : BOOLEAN, file : Nat, index : Nat, items : Nat, bytes : Nat]
    <2> DEFINE next == state.index + 1
    <2>1. state \in [opened : BOOLEAN, file : Nat, index : Nat, items : Nat, bytes : Nat] /\ next \in Nat
        BY <1>0 DEF Types
    <2>2. state' = [state EXCEPT !.index = next]
        BY DEF IndexMoves
    <2> HIDE DEF next
    <2>3. /\ state'.opened = state.opened /\ state'.file = state.file
          /\ state'.items = state.items /\ state'.bytes = state.bytes
          /\ state'.index = next
          /\ state' \in [opened : BOOLEAN, file : Nat, index : Nat, items : Nat, bytes : Nat]
        BY ONLY <2>1, <2>2
    <2> QED BY <2>3 DEF next
<1>3. /\ lock = c /\ state.opened /\ begun[c] \in Nat
      /\ state.index \in Nat /\ state.file \in Nat /\ state.file <= state.index
    BY <1>0, <1>1, HolderIs DEF Types, Counters
<1>4. state.index + 1 \in Nat /\ state.index + 1 > state.file /\ state'.index >= state.index
      /\ state.index + 1 <= state'.index /\ state.index + 1 # state.file
    BY <1>2, <1>3
<1> DEFINE new == [by |-> <<c, begun[c]>>, file |-> state.index + 1, old |-> FALSE]
<1>5. new \in [by : Clients \X Nat, file : Nat, old : BOOLEAN] /\ new.file = state.index + 1
    BY <1>3, <1>4
<1>6. resets' \subseteq resets \cup {new}
    OBVIOUS
<1> HIDE DEF new
<1>7. \A reset \in resets' :
         \/ reset \in resets
         \/ /\ NoneOf(In(files, reset.file), Answered)
            /\ reset.file <= state'.index /\ reset.file # state.file
    <2>1. NoneOf(In(files, state.index + 1), Answered)
        BY <1>0, <1>3, <1>4, NoneOfUnion, Zenon DEF Apart
    <2> QED BY <1>4, <1>5, <1>6, <2>1, Zenon
<1>8. Types'
    <2>1. Released
        BY <1>0, <1>1, ReleaseIs
    <2>2. resets' \subseteq [by : Clients \X Nat, file : Nat, old : BOOLEAN]
        BY <1>0, <1>5, <1>6 DEF Types
    <2> QED BY <1>0, <1>1, <1>2, <2>1, <2>2 DEF Types, Released
<1>9. Counters'
    <2>2. state.file <= state.index => state.file <= state.index + 1
        BY ONLY <1>3
    <2> QED BY <1>0, <1>1, <1>2, <2>2 DEF Counters
<1> QED
    BY <1>1, <1>2, <1>4, <1>7, <1>8, <1>9, ReleaseKeeps

LEMMA RotateFailsKeeps ==
    ASSUME IInv, NEW c \in Clients, RotateFails(c) \/ RotateDropped(c)
    PROVE  IInv'
<1>1. IndexMoves(c)
    BY DEF RotateFails, RotateDropped, ResetLater, IndexMoves, At, Holding
<1>2. resets' \subseteq resets \cup
         {[by |-> <<c, begun[c]>>, file |-> state.index + 1, old |-> FALSE]}
    BY DEF RotateFails, RotateDropped, ResetLater
<1> QED
    BY <1>1, <1>2, IndexMovesKeeps

\* What an append that failed has left.
LEMMA RemainsAre ==
    ASSUME NEW c \in Clients, NEW b \in Seq(Records), Own(c, b), NEW n \in 0 .. Len(b),
           NEW whole \in BOOLEAN
    PROVE  /\ Remains(b, n, whole) \in Seq(Records)
           /\ \A k \in DOMAIN Remains(b, n, whole) :
                 /\ Batch(Remains(b, n, whole)[k]) = <<c, begun[c]>>
                 /\ ~Remains(b, n, whole)[k].counted
<1>1. n \in Nat /\ DOMAIN b = 1 .. Len(b) /\ 1 .. n \subseteq 1 .. Len(b)
    BY LenProperties
<1>2. ASSUME NEW k \in 1 .. n
      PROVE  /\ [b[k] EXCEPT !.counted = FALSE, !.whole = k < n \/ whole] \in Records
             /\ Batch([b[k] EXCEPT !.counted = FALSE, !.whole = k < n \/ whole]) = <<c, begun[c]>>
             /\ ~[b[k] EXCEPT !.counted = FALSE, !.whole = k < n \/ whole].counted
    <2>1. b[k] \in Records /\ Batch(b[k]) = <<c, begun[c]>> /\ (k < n \/ whole) \in BOOLEAN
        BY <1>1, SeqOfMapped DEF Own
    <2> DEFINE w == k < n \/ whole
    <2>2. w \in BOOLEAN
        BY <2>1
    <2> HIDE DEF w
    <2>3. /\ [b[k] EXCEPT !.counted = FALSE, !.whole = w] \in Records
          /\ Batch([b[k] EXCEPT !.counted = FALSE, !.whole = w]) = <<c, begun[c]>>
          /\ ~[b[k] EXCEPT !.counted = FALSE, !.whole = w].counted
        BY <2>1, <2>2 DEF Records, Batch
    <2> QED BY <2>3 DEF w
<1>3. /\ Remains(b, n, whole) \in [1 .. n -> Records] /\ DOMAIN Remains(b, n, whole) = 1 .. n
      /\ \A k \in 1 .. n : /\ Batch(Remains(b, n, whole)[k]) = <<c, begun[c]>>
                           /\ ~Remains(b, n, whole)[k].counted
    BY <1>2, Zenon DEF Remains
<1>4. Remains(b, n, whole) \in Seq(Records)
    BY <1>1, <1>3, SeqOfFunction
<1> QED
    BY <1>3, <1>4

\* Records of the batch that has the mutex are past, and of no batch that was answered.
LEMMA OwnIsPast ==
    ASSUME IInv, NEW c \in Clients, job[c].at \in Holding, NEW r \in Seq(Records),
           \A k \in DOMAIN r : Batch(r[k]) = <<c, begun[c]>>
    PROVE  Past(r) /\ NoneOf(r, Answered)
<1>1. lock = c /\ job[c].at # "waiting" /\ Active = {<<c, begun[c]>>} /\ begun[c] \in Nat
    BY HolderIs DEF IInv
<1>2. Active \cap Answered = {}
    BY DEF IInv, Apart
<1>3. \A k \in DOMAIN r : r[k].client = c /\ r[k].batch = begun[c]
    BY DEF Batch
<1>4. begun[c] <= begun[c]
    BY <1>1
<1>5. Past(r)
    BY <1>1, <1>3, <1>4, Zenon DEF Past, At
<1>6. NoneOf(r, Answered)
    BY <1>1, <1>2 DEF NoneOf
<1> QED
    BY <1>5, <1>6

LEMMA FlushDroppedKeeps ==
    ASSUME IInv, NEW c \in Clients, FlushDropped(c)
    PROVE  IInv'
<1>0. Types /\ Calls /\ Counters
    BY DEF IInv
<1> DEFINE b == job[c].buffer
<1>1. /\ job[c].at \in Holding /\ Release(c)
      /\ UNCHANGED <<state, files, resets, written, emptied, begun>>
    BY DEF FlushDropped, At, Holding
<1>2. PICK n \in 1 .. Len(b), whole \in BOOLEAN :
         late' = late \cup {[file |-> state.file, records |-> Remains(b, n, whole)]}
    BY DEF FlushDropped
<1> DEFINE r == Remains(b, n, whole)
<1>3. b \in Seq(Records) /\ Own(c, b)
    BY <1>0, <1>1, HolderIs
<1>4. n \in 0 .. Len(b)
    BY <1>3
<1>5. r \in Seq(Records) /\ \A k \in DOMAIN r : Batch(r[k]) = <<c, begun[c]>> /\ ~r[k].counted
    <2> HIDE DEF b
    <2> QED BY <1>3, <1>4, RemainsAre
<1> HIDE DEF r, b
<1>6. Past(r) /\ NoneOf(r, Answered)
    BY <1>1, <1>5, OwnIsPast
<1>7. late' = late \cup {[file |-> state.file, records |-> r]}
    BY <1>2, Zenon DEF r
<1>8. \A append \in late' : append \in late \/ append.records = r
    BY <1>7
<1>9. Types'
    <2>1. Released
        BY <1>0, <1>1, ReleaseIs
    <2>2. [file |-> state.file, records |-> r] \in [file : Nat, records : Seq(Records)]
        BY <1>0, <1>5 DEF Types
    <2> QED BY <1>0, <1>1, <1>7, <2>1, <2>2 DEF Types, Released
<1>10. Counters'
    BY <1>0, <1>1 DEF Counters
<1>11. \A append \in late' :
          \/ append \in late
          \/ /\ Past(append.records) /\ append.records \in Seq(Records)
             /\ NoneOf(append.records, Answered)
             /\ \A k \in DOMAIN append.records : ~append.records[k].counted
    BY <1>5, <1>6, <1>8, Zenon
<1>12. state'.index >= state.index
    BY <1>0, <1>1 DEF Types
<1> QED
    BY <1>1, <1>9, <1>10, <1>11, <1>12, ReleaseKeeps

-----------------------------------------------------------------------------
(* The steps that append. *)

LEMMA AppendedPast ==
    ASSUME Contents(files), NEW file \in Nat, NEW r \in Seq(Records), Appended(file, r), Past(r),
           \A i \in Nat : Past(In(files, i))
    PROVE  \A i \in Nat : Past(In(files', i))
<1> TAKE i \in Nat
<1>1. CASE i # file
    BY <1>1 DEF Appended
<1>2. CASE i = file
    <2> DEFINE s == In(files, file)
    <2>1. s \in Seq(Records) /\ In(files', i) = s \o r /\ Past(s)
        BY <1>2, InTypes DEF Appended
    <2> HIDE DEF s
    <2>2. \A k \in DOMAIN (s \o r) :
             \/ k \in DOMAIN s /\ (s \o r)[k] = s[k]
             \/ \E j \in DOMAIN r : (s \o r)[k] = r[j]
        BY <2>1, ConcatParts
    <2>3. Past(s \o r)
        BY ONLY <2>1, <2>2, Past(r), Zenon DEF Past
    <2> QED BY <2>1, <2>3
<1> QED
    BY <1>1, <1>2

LEMMA AppendedNone ==
    ASSUME Contents(files), NEW file \in Nat, NEW r \in Seq(Records), Appended(file, r),
           NEW B, NEW m, ~(file > m) \/ NoneOf(r, B),
           \A i \in Nat : i > m => NoneOf(In(files, i), B)
    PROVE  \A i \in Nat : i > m => NoneOf(In(files', i), B)
<1> SUFFICES ASSUME NEW i \in Nat, i > m PROVE NoneOf(In(files', i), B)
    OBVIOUS
<1>1. CASE i # file
    BY <1>1 DEF Appended
<1>2. CASE i = file
    <2> DEFINE s == In(files, file)
    <2>1. s \in Seq(Records) /\ In(files', i) = s \o r /\ NoneOf(s, B) /\ NoneOf(r, B)
        BY <1>2, InTypes DEF Appended
    <2> HIDE DEF s
    <2>2. \A k \in DOMAIN (s \o r) :
             \/ k \in DOMAIN s /\ (s \o r)[k] = s[k]
             \/ \E j \in DOMAIN r : (s \o r)[k] = r[j]
        BY <2>1, ConcatParts
    <2>3. NoneOf(s \o r, B)
        BY ONLY <2>1, <2>2, Zenon DEF NoneOf
    <2> QED BY <2>1, <2>3
<1> QED
    BY <1>1, <1>2

LEMMA AppendedCounts ==
    ASSUME Contents(files), NEW file \in Nat, NEW r \in Seq(Records), Appended(file, r)
    PROVE  /\ CountedItems(In(files', file)) = CountedItems(In(files, file)) + CountedItems(r)
           /\ CountedBytes(In(files', file)) = CountedBytes(In(files, file)) + CountedBytes(r)
           /\ CountedItems(In(files, file)) \in Nat /\ CountedBytes(In(files, file)) \in Nat
           /\ \A i \in Nat : i # file => In(files', i) = In(files, i)
<1> DEFINE s == In(files, file)
<1>1. s \in Seq(Records) /\ In(files', file) = s \o r
    BY InTypes DEF Appended
<1> HIDE DEF s
<1>2. /\ CountedItems(s \o r) = CountedItems(s) + CountedItems(r)
      /\ CountedBytes(s \o r) = CountedBytes(s) + CountedBytes(r)
      /\ CountedItems(s) \in Nat /\ CountedBytes(s) \in Nat
    BY <1>1, CountsOf, Zenon
<1> QED
    BY <1>1, <1>2, Zenon DEF s, Appended

\* What is past before a step is past after it, if no batch begins and no other call waits.
LEMMA PastAfter ==
    ASSUME begun' = begun, \A d \in Clients : job'[d].at = "waiting" => job[d].at = "waiting",
           Types', \A i \in Nat : Past(In(files', i)),
           \A append \in late' : Past(append.records), Past(written')
    PROVE  AllPast'
<1> DEFINE Then(r) ==
        \A k \in DOMAIN r :
            /\ r[k].batch <= begun'[r[k].client]
            /\ job'[r[k].client].at = "waiting" => r[k].batch < begun'[r[k].client]
<1>1. ASSUME NEW r \in Seq(Records), Past(r) PROVE Then(r)
    <2>1. \A k \in DOMAIN r : r[k].client \in Clients
        BY SeqOfMapped DEF Records
    <2> QED BY <1>1, <2>1, Zenon DEF Past, At
<1> DEFINE gs == files'
<1>2. Contents(gs) /\ (\A append \in late' : append.records \in Seq(Records)) /\ written' \in Seq(Records)
    BY DEF Types, Contents
<1>3. \A i \in Nat : Past(In(gs, i))
    OBVIOUS
<1> HIDE DEF Then, gs
<1>4. \A i \in Nat : In(gs, i) \in Seq(Records)
    BY <1>2, InTypes
<1>5. (\A i \in Nat : Then(In(gs, i))) /\ (\A append \in late' : Then(append.records)) /\ Then(written')
    BY <1>1, <1>2, <1>3, <1>4
<1> QED
    BY <1>5, Zenon DEF AllPast, Past, At, Then, gs

\* Records that no counter knows of: of a call that failed, or of one that was dropped.
LEMMA UncountedKeeps ==
    ASSUME IInv, NEW file \in Nat, NEW r \in Seq(Records), Appended(file, r),
           \A k \in DOMAIN r : ~r[k].counted, Past(r), NoneOf(r, Answered \cup Active'),
           Active' \subseteq Active, late' \subseteq late,
           UNCHANGED <<state, resets, written, emptied, begun>>,
           \A d \in Clients : job'[d].at = "waiting" => job[d].at = "waiting",
           \A d \in Clients : lock' = d => lock = d /\ job'[d] = job[d],
           Types', Calls'
    PROVE  IInv'
<1>0. /\ Types /\ Calls /\ Counters /\ Limits /\ AllPast /\ Apart /\ Aside /\ Parted /\ Saved
      /\ Begun /\ Contents(files)
    BY DEF IInv, Types
<1>1. Answered' = Answered /\ Kept' = Kept /\ Kept \subseteq Answered
    BY DEF Answered, Kept
<1>2. \A i \in Nat : /\ CountedItems(In(files', i)) = CountedItems(In(files, i))
                     /\ CountedBytes(In(files', i)) = CountedBytes(In(files, i))
    <2> TAKE i \in Nat
    <2>1. CountedItems(r) = 0 /\ CountedBytes(r) = 0
        BY CountsOfAlike
    <2>2. CASE i # file
        BY <1>0, <2>2, AppendedCounts
    <2>3. CASE i = file
        <3>1. /\ CountedItems(In(files', file)) = CountedItems(In(files, file)) + 0
              /\ CountedBytes(In(files', file)) = CountedBytes(In(files, file)) + 0
              /\ CountedItems(In(files, file)) \in Nat /\ CountedBytes(In(files, file)) \in Nat
            BY <1>0, <2>1, AppendedCounts, Zenon
        <3>2. \A n \in Nat : n + 0 = n
            OBVIOUS
        <3> QED BY ONLY <2>3, <3>1, <3>2, Zenon
    <2> QED BY <2>2, <2>3
<1>3. Counters'
    <2>1. state.file \in Nat
        BY <1>0 DEF Types
    <2> QED BY <1>0, <1>2, <2>1 DEF Counters
<1>4. Limits'
    <2>1. \A i \in Nat : Within(CountedItems(In(files', i)), CountedBytes(In(files', i)))
        BY <1>0, <1>2, Zenon DEF Limits
    <2>2. \A append \in late' : \A k \in DOMAIN append.records : ~append.records[k].counted
        BY <1>0 DEF Limits
    <2>3. \A d \in Clients : lock' = d =>
             Within(state'.items + Len(job'[d].buffer), state'.bytes + Bytes(job'[d].buffer))
        BY <1>0, Zenon DEF Limits
    <2>4. state'.opened => Within(state'.items, state'.bytes)
        BY <1>0 DEF Limits
    <2> QED BY <2>1, <2>2, <2>3, <2>4, Zenon DEF Limits
<1>5. AllPast'
    <2>1. \A i \in Nat : Past(In(files', i))
        BY <1>0, AppendedPast DEF AllPast
    <2>2. \A append \in late' : Past(append.records)
        BY <1>0 DEF AllPast
    <2>3. Past(written')
        BY <1>0 DEF AllPast
    <2> QED BY <2>1, <2>2, <2>3, PastAfter
<1>6. Apart'
    <2>1. NoneOf(r, Answered) /\ NoneOf(r, Active')
        BY NoneOfUnion, Zenon
    <2>2. Active' \cap Answered = {}
        BY <1>0 DEF Apart
    <2>3. \A append \in late' : NoneOf(append.records, Answered \cup Active')
        BY <1>0 DEF Apart, NoneOf
    <2>4. state.opened => \A i \in Nat : i > state.file => NoneOf(In(files', i), Answered \cup Active')
        <3> SUFFICES ASSUME state.opened
                     PROVE  \A i \in Nat : i > state.file => NoneOf(In(files', i), Answered \cup Active')
            OBVIOUS
        <3> DEFINE B == Answered \cup Active'
        <3>1. \A i \in Nat : i > state.file => NoneOf(In(files, i), B)
            BY <1>0 DEF Apart, NoneOf
        <3>2. NoneOf(r, B)
            OBVIOUS
        <3> HIDE DEF B
        <3>3. \A i \in Nat : i > state.file => NoneOf(In(files', i), B)
            BY <1>0, <3>1, <3>2, AppendedNone
        <3> QED BY <3>3 DEF B
    <2> QED BY <1>1, <2>2, <2>3, <2>4, Zenon DEF Apart
<1>7. Saved'
    <2>1. ASSUME NEW K, K \subseteq Kept PROVE Stored(files', K) = Of(written, K)
        <3>1. NoneOf(r, K)
            BY <1>1, <2>1 DEF NoneOf
        <3>2. Stored(files', K) = Stored(files, K)
            BY <1>0, <3>1, AppendOfOthers
        <3> QED BY <1>0, <2>1, <3>2, Zenon DEF Saved
    <2> QED BY <1>1, <2>1, Zenon DEF Saved
<1>9. Aside' /\ Parted'
    <2>1. Answered \cup Active' \subseteq Answered \cup Active
        OBVIOUS
    <2>2. /\ \A i \in Nat : NoneOf(In(files, i), Answered \cup Active)
                               => NoneOf(In(files', i), Answered \cup Active')
          /\ \A i \in Nat : Whole(In(files, i), Answered \cup Active)
                               => Whole(In(files', i), Answered \cup Active')
        <3> DEFINE B == Answered \cup Active  C == Answered \cup Active'
        <3>1. C \subseteq B /\ NoneOf(r, C)
            BY <2>1
        <3> HIDE DEF B, C
        <3>2. /\ \A i \in Nat : NoneOf(In(files, i), B) => NoneOf(In(files', i), C)
              /\ \A i \in Nat : Whole(In(files, i), B) => Whole(In(files', i), C)
            BY ONLY <1>0, <3>1, file \in Nat, r \in Seq(Records), Appended(file, r), AsideAfter
        <3> QED BY <3>2 DEF B, C
    <2>3. \A reset \in resets : reset.file \in Nat
        BY <1>0 DEF Types
    <2>4. Aside'
        BY <1>0, <1>1, <2>2, <2>3 DEF Aside
    <2>5. Parted'
        BY <1>0, <1>1, <2>2 DEF Parted
    <2> QED BY <2>4, <2>5
<1>8. Begun'
    <2> SUFFICES ASSUME NEW c \in Clients, lock' = c
                 PROVE  \E stored \in Seq(Records) :
                           /\ job'[c].records = (stored \o job'[c].buffer) \o job'[c].left
                           /\ <<c, begun'[c]>> \notin emptied' => After(stored)'
        BY DEF Begun
    <2>1. lock = c /\ job'[c] = job[c] /\ begun' = begun /\ emptied' = emptied /\ written' = written
        OBVIOUS
    <2>2. Active = {<<c, begun[c]>>} /\ Active' = Active
        BY <2>1, Zenon DEF Active
    <2>3. PICK stored \in Seq(Records) :
             /\ job[c].records = (stored \o job[c].buffer) \o job[c].left
             /\ <<c, begun[c]>> \notin emptied => After(stored)
        BY <1>0, <2>1 DEF Begun
    <2>5. ASSUME NEW K, K \subseteq Kept
          PROVE  Stored(files', K \cup Active) = Stored(files, K \cup Active)
        <3> DEFINE B == K \cup Active
        <3>1. NoneOf(r, B)
            BY <1>1, <2>2, <2>5 DEF NoneOf
        <3> HIDE DEF B
        <3>2. Stored(files', B) = Stored(files, B)
            BY <1>0, <3>1, AppendOfOthers
        <3> QED BY <3>2 DEF B
    <2>6. <<c, begun'[c]>> \notin emptied' => After(stored)'
        BY <1>1, <2>1, <2>2, <2>3, <2>5, Zenon DEF After
    <2> QED BY <2>1, <2>3, <2>6, Zenon
<1> QED
    BY <1>3, <1>4, <1>5, <1>6, <1>7, <1>8, <1>9 DEF IInv

LEMMA FlushFailsKeeps ==
    ASSUME IInv, NEW c \in Clients, FlushFails(c)
    PROVE  IInv'
<1>0. Types /\ Calls
    BY DEF IInv
<1> DEFINE b == job[c].buffer
<1>1. /\ job[c].at \in Holding /\ Release(c)
      /\ UNCHANGED <<state, late, resets, written, emptied, begun>>
    BY DEF FlushFails, At, Holding
<1>2. PICK n \in 0 .. Len(b), whole \in BOOLEAN : files' = AppendTo(state.file, Remains(b, n, whole))
    BY DEF FlushFails
<1> DEFINE r == Remains(b, n, whole)
<1>3. b \in Seq(Records) /\ Own(c, b)
    BY <1>0, <1>1, HolderIs
<1>4. r \in Seq(Records) /\ \A k \in DOMAIN r : Batch(r[k]) = <<c, begun[c]>> /\ ~r[k].counted
    <2> HIDE DEF b
    <2> QED BY <1>3, RemainsAre
<1> HIDE DEF r, b
<1>5. files' = AppendTo(state.file, r) /\ state.file \in Nat /\ Contents(files)
    BY <1>0, <1>2 DEF r, Types
<1>6. Past(r) /\ NoneOf(r, Answered)
    BY <1>1, <1>4, OwnIsPast
<1>7. Released
    BY <1>0, <1>1, ReleaseIs
<1>8. Appended(state.file, r)
    BY <1>4, <1>5, AppendIs
<1>9. Types'
    BY <1>0, <1>1, <1>7, <1>8 DEF Types, Released, Appended
<1>10. Calls' /\ Active' = {} /\ (\A d \in Clients : lock' # d)
       /\ \A d \in Clients : job'[d].at = "waiting" => job[d].at = "waiting"
    BY <1>1, <1>7 DEF Released
<1>11. Active' \subseteq Active /\ NoneOf(r, Answered \cup Active')
    BY <1>6, <1>10
<1> QED
    BY <1>1, <1>4, <1>5, <1>6, <1>8, <1>9, <1>10, <1>11, UncountedKeeps

LEMMA LandKeeps ==
    ASSUME IInv, Land
    PROVE  IInv'
<1>0. Types /\ Calls /\ Limits /\ AllPast /\ Apart
    BY DEF IInv
<1>1. PICK append \in late : files' = AppendTo(append.file, append.records) /\ late' = late \ {append}
    BY DEF Land
<1> DEFINE r == append.records  n == append.file
<1>2. UNCHANGED <<state, lock, job, resets, written, emptied, begun>>
    BY DEF Land
<1>3. n \in Nat /\ r \in Seq(Records) /\ Contents(files)
    BY <1>0 DEF Types
<1>4. (\A k \in DOMAIN r : ~r[k].counted) /\ Past(r) /\ NoneOf(r, Answered \cup Active)
    BY <1>0 DEF Limits, AllPast, Apart
<1> HIDE DEF r, n
<1>5. Appended(n, r)
    BY <1>1, <1>3, AppendIs DEF n, r
<1>6. Types'
    BY <1>0, <1>1, <1>2, <1>5 DEF Types, Appended
<1>7. Calls'
    BY <1>0, <1>2 DEF Calls, Own
<1>8. Active' = Active
    BY <1>2 DEF Active
<1>9. Active' \subseteq Active /\ late' \subseteq late /\ NoneOf(r, Answered \cup Active')
    BY <1>1, <1>4, <1>8
<1> QED
    BY <1>2, <1>3, <1>4, <1>5, <1>6, <1>7, <1>9, UncountedKeeps

LEMMA DropKeeps ==
    ASSUME IInv, NEW c \in Clients, Drop(c)
    PROVE  IInv'
<1>0. Types /\ Calls /\ AllPast /\ Begun /\ Limits
    BY DEF IInv
<1>1. /\ job[c].at = "waiting" /\ job' = [job EXCEPT ![c] = Idle]
      /\ UNCHANGED <<state, files, lock, late, resets, written, emptied, begun>>
    BY DEF Drop, At
<1>2. Idle \in Job /\ Idle.at = "idle"
    BY DEF Idle, Job
<1>3. job' \in [Clients -> Job] /\ job'[c] = Idle /\ \A d \in Clients : d # c => job'[d] = job[d]
    BY <1>0, <1>1, <1>2 DEF Types
<1>4. lock # c
    BY <1>0, <1>1 DEF Calls, Holding
<1>5. Types'
    BY <1>0, <1>1, <1>3 DEF Types
<1>6. Calls'
    <2> SUFFICES ASSUME NEW d \in Clients
                 PROVE  /\ job'[d].at \in Holding <=> lock' = d
                        /\ job'[d].at # "idle" =>
                              /\ state'.opened /\ job'[d].records # <<>>
                              /\ Own(d, job[d].records)' /\ Own(d, job[d].left)'
                              /\ Own(d, job[d].buffer)'
                        /\ job'[d].at = "waiting" => job'[d].buffer = <<>> /\ job'[d].left = job'[d].records
                        /\ job'[d].at = "rotate" => job'[d].buffer = <<>>
        BY DEF Calls
    <2>1. CASE d = c
        BY <1>1, <1>2, <1>3, <1>4, <2>1 DEF Holding
    <2>2. CASE d # c
        BY <1>0, <1>1, <1>3, <2>2 DEF Calls, Own
    <2> QED BY <2>1, <2>2
<1>7. AllPast'
    <2>1. \A d \in Clients : job'[d].at = "waiting" => job[d].at = "waiting"
        BY <1>2, <1>3
    <2> QED BY <1>0, <1>1, <2>1, PastStays
<1>8. Active' = Active /\ Kept' = Kept
    BY <1>1 DEF Active, Answered, Kept
<1>9. \A d \in Clients : lock = d => job'[d] = job[d]
    BY <1>3, <1>4
<1>10. Begun'
    BY <1>0, <1>1, <1>8, <1>9, Zenon DEF Begun, After
<1>11. \A d \in Clients : lock = d =>
          Within(state.items + Len(job'[d].buffer), state.bytes + Bytes(job'[d].buffer))
    BY <1>0, <1>9, Zenon DEF Limits
<1> QED
    BY <1>1, <1>5, <1>6, <1>7, <1>8, <1>10, <1>11, QuietKeeps

\* The whole buffer goes to the file in use; what the files then have, and the counters.
Flushed(c, b) ==
    /\ Appended(state.file, b)
    /\ \A K : K \subseteq Kept => Stored(files', K) = Of(written, K)
    /\ Counters'
    /\ \A i \in Nat : Within(CountedItems(In(files', i)), CountedBytes(In(files', i)))
    /\ Within(state'.items, state'.bytes)
    /\ \A i \in Nat : Past(In(files', i))
    /\ \A i \in Nat : i > state.file => NoneOf(In(files', i), Answered \cup Active)
    /\ \A reset \in resets : ~reset.old => NoneOf(In(files', reset.file), Answered \cup Active)
    /\ \A i \in Nat : Whole(In(files', i), Answered \cup Active)
    /\ \E stored \in Seq(Records) :
          /\ job[c].records = (stored \o b) \o job[c].left
          /\ <<c, begun[c]>> \notin emptied =>
                \A K : K \subseteq Kept =>
                    Stored(files', K \cup Active) = Of(written, K) \o (stored \o b)

LEMMA WithinLess ==
    ASSUME NEW n \in Nat, NEW m \in Nat, NEW items \in Nat, NEW bytes \in Nat,
           n <= items, m <= bytes, Within(items, bytes)
    PROVE  Within(n, m)
<1>1. RotateItems \in Nat /\ RotateBytes \in Nat
    BY FileAssumption
<1> QED
    BY <1>1 DEF Within

LEMMA FlushIs ==
    ASSUME IInv, NEW c \in Clients, Flush(c)
    PROVE  Flushed(c, job[c].buffer)
<1>0. /\ Types /\ Calls /\ Counters /\ Limits /\ AllPast /\ Apart /\ Aside /\ Parted
      /\ Saved /\ Begun /\ Contents(files)
    BY DEF IInv, Types
<1> DEFINE b == job[c].buffer  file == state.file  items == state.items  bytes == state.bytes
<1>1. /\ job[c].at \in Holding
      /\ files' = AppendTo(file, b)
      /\ state' = [state EXCEPT !.items = items + Len(b), !.bytes = bytes + Bytes(b)]
    BY DEF Flush, At, Holding
<1>2. /\ lock = c /\ state.opened /\ Active = {<<c, begun[c]>>}
      /\ b \in Seq(Records) /\ Own(c, b)
    BY <1>0, <1>1, HolderIs
<1>3. file \in Nat /\ items \in Nat /\ bytes \in Nat /\ Len(b) \in Nat /\ Bytes(b) \in Nat
    BY <1>0, <1>2, BytesOf DEF Types
<1>4. /\ state'.opened = state.opened /\ state'.file = file /\ state'.index = state.index
      /\ state'.items = items + Len(b) /\ state'.bytes = bytes + Bytes(b)
    BY <1>0, <1>1 DEF Types
<1>5. /\ file <= state.index
      /\ items >= CountedItems(In(files, file)) /\ bytes >= CountedBytes(In(files, file))
    BY <1>0, <1>2 DEF Counters
<1>6. Within(items + Len(b), bytes + Bytes(b))
    BY <1>0, <1>2 DEF Limits
<1>7. \A i \in Nat : i > file => NoneOf(In(files, i), Answered \cup Active)
    BY <1>0, <1>2 DEF Apart
<1>8. PICK stored \in Seq(Records) :
         /\ job[c].records = (stored \o b) \o job[c].left
         /\ <<c, begun[c]>> \notin emptied => After(stored)
    BY <1>0, <1>2 DEF Begun
<1>9. /\ \A k \in DOMAIN b : Batch(b[k]) = <<c, begun[c]>>
      /\ \A k \in DOMAIN b : b[k].counted
      /\ \A k \in DOMAIN b : b[k].whole
    BY <1>2 DEF Own
<1>20. \A reset \in resets : ~reset.old =>
          /\ reset.file \in Nat /\ reset.file # file
          /\ NoneOf(In(files, reset.file), Answered \cup Active)
    <2>1. \A reset \in resets : reset.file \in Nat
        BY <1>0 DEF Types
    <2> QED BY <1>0, <1>2, <2>1 DEF Aside
<1> HIDE DEF b, file, items, bytes
<1>10. Appended(file, b)
    BY <1>0, <1>1, <1>2, <1>3, AppendIs
<1>11. Past(b) /\ NoneOf(b, Answered)
    BY <1>1, <1>2, <1>9, OwnIsPast
<1>12. ASSUME NEW K, K \subseteq Kept PROVE Stored(files', K) = Of(written, K)
    <2>1. NoneOf(b, K)
        BY <1>11, <1>12 DEF NoneOf, Kept
    <2>2. Stored(files', K) = Stored(files, K)
        BY <1>0, <1>2, <1>3, <1>10, <2>1, AppendOfOthers
    <2> QED BY <1>0, <1>12, <2>2, Zenon DEF Saved
<1>13. /\ CountedItems(In(files', file)) <= items + Len(b)
       /\ CountedBytes(In(files', file)) <= bytes + Bytes(b)
       /\ CountedItems(In(files', file)) \in Nat /\ CountedBytes(In(files', file)) \in Nat
       /\ \A i \in Nat : i # file => In(files', i) = In(files, i)
    <2>1. CountedItems(b) = Len(b) /\ CountedBytes(b) = Bytes(b)
        BY <1>2, <1>9, CountsOfAlike
    <2> DEFINE n == CountedItems(In(files, file))  m == CountedBytes(In(files, file))
    <2>2. /\ CountedItems(In(files', file)) = n + Len(b)
          /\ CountedBytes(In(files', file)) = m + Bytes(b)
          /\ n \in Nat /\ m \in Nat
          /\ \A i \in Nat : i # file => In(files', i) = In(files, i)
        BY <1>0, <1>2, <1>3, <1>10, <2>1, AppendedCounts, Zenon
    <2>3. items >= n /\ bytes >= m
        BY <1>5
    <2> HIDE DEF n, m
    <2> QED BY ONLY <1>3, <2>2, <2>3
<1>14. Counters'
    <2>1. /\ items + Len(b) >= CountedItems(In(files', file))
          /\ bytes + Bytes(b) >= CountedBytes(In(files', file))
        BY ONLY <1>3, <1>13
    <2> QED BY <1>4, <1>5, <2>1, Zenon DEF Counters
<1>15. \A i \in Nat : Within(CountedItems(In(files', i)), CountedBytes(In(files', i)))
    <2> TAKE i \in Nat
    <2>1. CASE i = file
        <3>1. items + Len(b) \in Nat /\ bytes + Bytes(b) \in Nat
            BY ONLY <1>3
        <3> QED BY <1>6, <1>13, <2>1, <3>1, WithinLess
    <2>2. CASE i # file
        BY <1>0, <1>13, <2>2, Zenon DEF Limits
    <2> QED BY <2>1, <2>2
<1>16. Within(state'.items, state'.bytes)
    BY <1>4, <1>6, Zenon
<1>17. \A i \in Nat : Past(In(files', i))
    BY <1>0, <1>2, <1>3, <1>10, <1>11, AppendedPast DEF AllPast
<1>18. \A i \in Nat : i > file => NoneOf(In(files', i), Answered \cup Active)
    <2>1. ~(file > file)
        BY <1>3
    <2> QED BY <1>0, <1>2, <1>3, <1>7, <1>10, <2>1, AppendedNone
<1>19. ASSUME <<c, begun[c]>> \notin emptied, NEW K, K \subseteq Kept
       PROVE  Stored(files', K \cup Active) = Of(written, K) \o (stored \o b)
    <2> DEFINE B == K \cup Active  w == Of(written, K)
    <2>1. \A k \in DOMAIN b : Batch(b[k]) \in B
        BY <1>2, <1>9
    <2>2. \A i \in Nat : i > file => NoneOf(In(files, i), B)
        BY <1>7, <1>19 DEF NoneOf, Kept
    <2>3. Stored(files, B) = w \o stored
        BY <1>8, <1>19 DEF After
    <2>4. Associative(Records) /\ w \in Seq(Records)
        <3>1. written \in Seq(Records)
            BY <1>0 DEF Types
        <3> QED BY <3>1, OfTypes, ConcatIsAssociative
    <2> HIDE DEF B, w
    <2>5. Stored(files', B) = Stored(files, B) \o b
        BY <1>0, <1>2, <1>3, <1>10, <2>1, <2>2, AppendOfOwn
    <2>6. (w \o stored) \o b = w \o (stored \o b)
        BY ONLY <1>2, <2>4, stored \in Seq(Records), Zenon DEF Associative
    <2> QED BY <2>3, <2>5, <2>6, Zenon DEF B, w
<1>21. \A reset \in resets : ~reset.old => NoneOf(In(files', reset.file), Answered \cup Active)
    BY <1>13, <1>20, Zenon
<1>22. \A i \in Nat : Whole(In(files', i), Answered \cup Active)
    <2> TAKE i \in Nat
    <2> DEFINE B == Answered \cup Active
    <2>1. Whole(In(files, i), B) /\ Whole(b, B)
        BY <1>0, <1>9 DEF Parted, Whole
    <2> HIDE DEF B
    <2>2. Whole(In(files', i), B)
        BY <1>0, <1>2, <1>3, <1>10, <2>1, AppendedApart
    <2> QED BY <2>2 DEF B
<1> QED
    <2>1. job[c].records = (stored \o b) \o job[c].left
        BY <1>8
    <2> QED
        BY <1>10, <1>12, <1>14, <1>15, <1>16, <1>17, <1>18, <1>19, <1>21, <1>22, <2>1, Zenon
           DEF Flushed, b, file

\* A batch that is answered.
BatchesOf(r) == {Batch(r[k]) : k \in DOMAIN r}

LEMMA BatchesAre ==
    ASSUME NEW r
    PROVE  \A x : x \in BatchesOf(r) <=> \E k \in DOMAIN r : x = Batch(r[k])
BY Zenon DEF BatchesOf

LEMMA AnsweredWith ==
    ASSUME NEW w \in Seq(Records), NEW r \in Seq(Records), r # <<>>, NEW batch,
           \A k \in DOMAIN r : Batch(r[k]) = batch
    PROVE  BatchesOf(w \o r) = BatchesOf(w) \cup {batch}
<1> DEFINE all == w \o r
<1>1. /\ Len(w) \in Nat /\ Len(r) \in Nat /\ DOMAIN w = 1 .. Len(w) /\ DOMAIN r = 1 .. Len(r)
      /\ DOMAIN all = 1 .. Len(w) + Len(r)
      /\ \A i \in 1 .. Len(w) + Len(r) : all[i] = IF i <= Len(w) THEN w[i] ELSE r[i - Len(w)]
    BY ConcatProperties, LenProperties
<1>2. Len(r) >= 1
    <2>1. Len(r) # 0
        BY EmptySeq
    <2> QED BY <1>1, <2>1
<1>3. \A k \in DOMAIN all : (\E j \in DOMAIN w : Batch(all[k]) = Batch(w[j])) \/ Batch(all[k]) = batch
    <2>1. \A k \in DOMAIN all :
             \/ k \in DOMAIN w /\ all[k] = w[k]
             \/ \E j \in DOMAIN r : all[k] = r[j]
        BY ConcatParts
    <2> HIDE DEF all
    <2> QED BY <2>1, Zenon
<1>4. \A k \in DOMAIN w : k \in DOMAIN all /\ all[k] = w[k]
    <2> HIDE DEF all
    <2> QED BY ONLY <1>1
<1>5. Len(w) + 1 \in DOMAIN all /\ 1 \in DOMAIN r /\ all[Len(w) + 1] = r[1]
    <2> HIDE DEF all
    <2> QED BY ONLY <1>1, <1>2
<1> HIDE DEF all
<1>6. \A x : x \in BatchesOf(all) <=> x \in BatchesOf(w) \/ x = batch
    <2> TAKE x
    <2>1. CASE x \in BatchesOf(all)
        <3>1. PICK k \in DOMAIN all : x = Batch(all[k])
            BY ONLY <2>1, BatchesAre, Zenon
        <3>2. x = batch \/ \E j \in DOMAIN w : x = Batch(w[j])
            BY ONLY <1>3, <3>1, k \in DOMAIN all, Zenon
        <3>3. (\E j \in DOMAIN w : x = Batch(w[j])) => x \in BatchesOf(w)
            <4>1. x \in BatchesOf(w) <=> \E j \in DOMAIN w : x = Batch(w[j])
                BY ONLY BatchesAre
            <4> QED BY ONLY <4>1
        <3> QED BY ONLY <2>1, <3>2, <3>3, Zenon
    <2>2. CASE x \in BatchesOf(w)
        <3>1. PICK k \in DOMAIN w : x = Batch(w[k])
            BY ONLY <2>2, BatchesAre, Zenon
        <3>2. k \in DOMAIN all /\ x = Batch(all[k])
            BY ONLY <1>4, <3>1, k \in DOMAIN w, Zenon
        <3> QED BY ONLY <2>2, <3>2, BatchesAre, Zenon
    <2>3. CASE x = batch
        <3>1. x = Batch(all[Len(w) + 1]) /\ Len(w) + 1 \in DOMAIN all
            BY <1>5, <2>3, Zenon
        <3> QED BY ONLY <2>3, <3>1, BatchesAre, Zenon
    <2> QED BY <2>1, <2>2, <2>3
<1>7. BatchesOf(all) = BatchesOf(w) \cup {batch}
    <2> DEFINE A == BatchesOf(all)  B == BatchesOf(w)
    <2> HIDE DEF A, B
    <2>1. \A x : x \in A <=> x \in B \/ x = batch
        BY <1>6 DEF A, B
    <2>2. A = B \cup {batch}
        BY ONLY <2>1
    <2> QED BY <2>2 DEF A, B
<1> QED
    BY <1>7 DEF all

LEMMA FlushKeeps ==
    ASSUME IInv, NEW c \in Clients, Flush(c)
    PROVE  IInv'
<1>0. Types /\ Calls /\ Limits /\ AllPast /\ Apart /\ Aside /\ Contents(files)
    BY DEF IInv, Types
<1> DEFINE b == job[c].buffer
<1>1. /\ job[c].at \in Holding /\ UNCHANGED <<late, resets, emptied, begun>>
      /\ state' = [state EXCEPT !.items = @ + Len(b), !.bytes = @ + Bytes(b)]
    BY DEF Flush, At, Holding
<1>2. /\ lock = c /\ Active = {<<c, begun[c]>>} /\ job[c] \in Job /\ state.opened
      /\ b \in Seq(Records) /\ job[c].records \in Seq(Records) /\ job[c].records # <<>>
      /\ Own(c, job[c].records) /\ Own(c, job[c].left)
    BY <1>0, <1>1, HolderIs
<1>3. /\ state' \in [opened : BOOLEAN, file : Nat, index : Nat, items : Nat, bytes : Nat]
      /\ state'.opened = state.opened /\ state'.file = state.file /\ state'.index = state.index
    <2> HIDE DEF b
    <2> DEFINE items == state.items + Len(b)  bytes == state.bytes + Bytes(b)
    <2>1. items \in Nat /\ bytes \in Nat
        <3>1. Len(b) \in Nat /\ Bytes(b) \in Nat
            BY <1>2, BytesOf
        <3>2. state.items \in Nat /\ state.bytes \in Nat
            BY <1>0 DEF Types
        <3> QED BY ONLY <3>1, <3>2
    <2>2. state' = [state EXCEPT !.items = items, !.bytes = bytes]
        BY <1>1, Zenon
    <2> HIDE DEF items, bytes
    <2> QED BY <1>0, <2>1, <2>2 DEF Types
<1>4. Flushed(c, b)
    BY FlushIs
<1> HIDE DEF b
<1>5. PICK stored \in Seq(Records) :
         /\ job[c].records = (stored \o b) \o job[c].left
         /\ <<c, begun[c]>> \notin emptied =>
               \A K : K \subseteq Kept =>
                   Stored(files', K \cup Active) = Of(written, K) \o (stored \o b)
    BY <1>4 DEF Flushed
<1>10. /\ \A reset \in resets : ~reset.old =>
             NoneOf(In(files', reset.file), Answered \cup Active)
       /\ \A i \in Nat : Whole(In(files', i), Answered \cup Active)
    BY <1>4 DEF Flushed
<1>11. \A reset \in resets : ~reset.old /\ state'.opened =>
          reset.file <= state'.index /\ reset.file # state'.file
    BY <1>0, <1>3 DEF Aside
<1>6. /\ Contents(files') /\ Counters'
      /\ \A K : K \subseteq Kept => Stored(files', K) = Of(written, K)
      /\ \A i \in Nat : Within(CountedItems(In(files', i)), CountedBytes(In(files', i)))
      /\ Within(state'.items, state'.bytes)
      /\ \A i \in Nat : Past(In(files', i))
      /\ \A i \in Nat : i > state.file => NoneOf(In(files', i), Answered \cup Active)
    BY <1>4 DEF Flushed, Appended
<1>7. stored \o b \in Seq(Records) /\ (stored \o b) \o <<>> = stored \o b
    BY <1>2, ConcatProperties, ConcatEmptySeq
<1>8. CASE job[c].left = <<>>
    <2>1. Release(c) /\ written' = written \o job[c].records
        BY <1>8 DEF Flush
    <2>2. Released
        BY <1>0, <1>1, <2>1, ReleaseIs
    <2>3. /\ Calls' /\ Begun' /\ Active' = {} /\ (\A d \in Clients : lock' # d)
          /\ \A d \in Clients : job'[d].at = "waiting" => job[d].at = "waiting"
        BY <1>1, <1>3, <2>2 DEF Released
    <2>4. written' \in Seq(Records) /\ written \in Seq(Records)
        BY <1>0, <1>2, <2>1, ConcatProperties DEF Types
    <2>5. Types'
        BY <1>0, <1>1, <1>3, <1>6, <2>2, <2>4 DEF Types, Released
    <2>6. Answered' = Answered \cup Active
        <3>1. \A k \in DOMAIN job[c].records : Batch(job[c].records[k]) = <<c, begun[c]>>
            BY <1>2 DEF Own
        <3>2. BatchesOf(written \o job[c].records) = BatchesOf(written) \cup {<<c, begun[c]>>}
            <4> DEFINE w == written  r == job[c].records  batch == <<c, begun[c]>>
            <4>1. /\ w \in Seq(Records) /\ r \in Seq(Records) /\ r # <<>>
                  /\ \A k \in DOMAIN r : Batch(r[k]) = batch
                BY <1>2, <2>4, <3>1
            <4> HIDE DEF w, r, batch
            <4>2. BatchesOf(w \o r) = BatchesOf(w) \cup {batch}
                BY ONLY <4>1, AnsweredWith
            <4> QED BY <4>2 DEF w, r, batch
        <3>3. Answered = BatchesOf(written) /\ Answered' = BatchesOf(written')
            BY Zenon DEF Answered, BatchesOf
        <3> QED BY ONLY <1>2, <2>1, <3>2, <3>3, Zenon
    <2>11. Aside' /\ Parted'
        <3>1. (Answered \cup Active) \cup {} = Answered \cup Active
            OBVIOUS
        <3>2. Aside'
            BY <1>1, <1>10, <1>11, <2>3, <2>6, <3>1, Zenon DEF Aside
        <3>3. Parted'
            BY <1>10, <2>3, <2>6, <3>1, Zenon DEF Parted
        <3> QED BY <3>2, <3>3
    <2>7. Saved'
        <3> DEFINE r == job[c].records  batch == <<c, begun[c]>>
        <3>1. /\ r \in Seq(Records) /\ (\A k \in DOMAIN r : Batch(r[k]) = batch)
              /\ Active = {batch} /\ batch \notin Answered
            BY <1>0, <1>2 DEF Own, Apart
        <3>2. written' = written \o r /\ Answered' = Answered \cup {batch} /\ emptied' = emptied
            BY <1>1, <2>1, <2>6, <3>1
        <3>3. stored \o b = r
            BY <1>5, <1>7, <1>8, Zenon
        <3>4. \A k \in DOMAIN written : Batch(written[k]) \in Answered
            BY DEF Answered
        <3> HIDE DEF r, batch
        <3> SUFFICES ASSUME NEW K, K \subseteq Kept' PROVE Stored(files', K) = Of(written', K)
            BY Zenon DEF Saved
        <3>7. K \subseteq Kept \cup {batch} /\ (batch \in K => batch \notin emptied)
            BY <3>2 DEF Kept
        <3>5. CASE batch \notin K
            <4>1. K \subseteq Kept
                BY <3>5, <3>7
            <4>2. Of(r, K) = <<>>
                <5>1. \A k \in DOMAIN r : Batch(r[k]) \notin K
                    BY <3>1, <3>5
                <5> QED BY <3>1, <5>1, OfNone
            <4>3. Of(written \o r, K) = Of(written, K)
                BY <2>4, <3>1, <4>2, OfThen
            <4> QED BY <1>6, <3>2, <4>1, <4>3, Zenon
        <3>6. CASE batch \in K
            <4> DEFINE L == K \ {batch}
            <4>1. L \subseteq Kept /\ L \cup Active = K
                BY <3>1, <3>6, <3>7
            <4>2. Of(written, K) = Of(written, L)
                <5>1. \A k \in DOMAIN written : Batch(written[k]) \in K <=> Batch(written[k]) \in L
                    BY <3>1, <3>4
                <5> HIDE DEF L
                <5> QED BY <5>1, OfSame
            <4> HIDE DEF L
            <4>3. Of(r, K) = r
                <5>1. \A k \in DOMAIN r : Batch(r[k]) \in K
                    BY <3>1, <3>6
                <5> QED BY <3>1, <5>1, OfAll
            <4>4. Stored(files', K) = Of(written, L) \o r
                <5>1. Stored(files', L \cup Active) = Of(written, L) \o (stored \o b)
                    BY <1>5, <3>6, <3>7, <4>1 DEF batch
                <5> QED BY <3>3, <4>1, <5>1, Zenon
            <4>5. Of(written \o r, K) = Of(written, K) \o r
                BY <2>4, <3>1, <4>3, OfThen
            <4> QED BY <3>2, <4>2, <4>4, <4>5, Zenon
        <3> QED BY <3>5, <3>6
    <2>8. AllPast'
        <3>1. Past(job[c].records)
            <4>1. \A k \in DOMAIN job[c].records : Batch(job[c].records[k]) = <<c, begun[c]>>
                BY <1>2 DEF Own
            <4> QED BY <1>1, <1>2, <4>1, OwnIsPast
        <3>2. Past(written')
            <4> DEFINE w == written  r == job[c].records
            <4>1. w \in Seq(Records) /\ r \in Seq(Records) /\ Past(w) /\ Past(r)
                BY <1>0, <1>2, <2>4, <3>1 DEF AllPast
            <4> HIDE DEF w, r
            <4>2. \A k \in DOMAIN (w \o r) :
                     \/ k \in DOMAIN w /\ (w \o r)[k] = w[k]
                     \/ \E j \in DOMAIN r : (w \o r)[k] = r[j]
                BY <4>1, ConcatParts
            <4>3. Past(w \o r)
                BY ONLY <4>1, <4>2, Zenon DEF Past
            <4> QED BY <2>1, <4>3 DEF w, r
        <3>3. \A append \in late' : Past(append.records)
            BY <1>0, <1>1 DEF AllPast
        <3> QED BY <1>1, <1>6, <2>3, <2>5, <3>2, <3>3, PastAfter
    <2>9. Limits'
        BY <1>0, <1>1, <1>6, <2>3, Zenon DEF Limits
    <2>10. Apart'
        <3>1. (Answered \cup Active) \cup {} = Answered \cup Active /\ {} \cap (Answered \cup Active) = {}
            OBVIOUS
        <3>2. \A append \in late' : NoneOf(append.records, Answered \cup Active)
            BY <1>0, <1>1 DEF Apart
        <3> QED BY <1>3, <1>6, <2>3, <2>6, <3>1, <3>2, Zenon DEF Apart
    <2> QED BY <1>6, <2>3, <2>5, <2>7, <2>8, <2>9, <2>10, <2>11 DEF IInv
<1>9. CASE job[c].left # <<>>
    <2>1. /\ job' = [job EXCEPT ![c].at = "rotate", ![c].buffer = <<>>]
          /\ UNCHANGED <<lock, written>>
        BY <1>9 DEF Flush
    <2>2. <<>> \in Seq(Records)
        OBVIOUS
    <2>3. /\ job'[c].at = "rotate" /\ job'[c].buffer = <<>>
          /\ job'[c].records = job[c].records /\ job'[c].left = job[c].left
          /\ \A d \in Clients : d # c => job'[d] = job[d]
          /\ job' \in [Clients -> Job]
        <3> DEFINE r == [job[c] EXCEPT !.at = "rotate", !.buffer = <<>>]
        <3>1. job' = [job EXCEPT ![c] = r]
            BY <2>1, Zenon
        <3>2. r \in Job /\ r.at = "rotate" /\ r.buffer = <<>> /\ r.records = job[c].records
              /\ r.left = job[c].left
            BY <1>2, <2>2 DEF Job, Holding
        <3> HIDE DEF r
        <3> QED BY <1>0, <3>1, <3>2 DEF Types
    <2>4. Types'
        BY <1>0, <1>1, <1>3, <1>6, <2>1, <2>3 DEF Types
    <2>5. Calls'
        <3> SUFFICES ASSUME NEW d \in Clients
                     PROVE  /\ job'[d].at \in Holding <=> lock' = d
                            /\ job'[d].at # "idle" =>
                                  /\ state'.opened /\ job'[d].records # <<>>
                                  /\ Own(d, job[d].records)' /\ Own(d, job[d].left)'
                                  /\ Own(d, job[d].buffer)'
                            /\ job'[d].at = "waiting" => job'[d].buffer = <<>> /\ job'[d].left = job'[d].records
                            /\ job'[d].at = "rotate" => job'[d].buffer = <<>>
            BY DEF Calls
        <3>1. CASE d = c
            BY <1>1, <1>2, <1>3, <2>1, <2>3, <3>1 DEF Holding, Own
        <3>2. CASE d # c
            BY <1>0, <1>1, <1>3, <2>1, <2>3, <3>2 DEF Calls, Own
        <3> QED BY <3>1, <3>2
    <2>6. Active' = Active /\ Answered' = Answered /\ Kept' = Kept
        BY <1>1, <2>1 DEF Active, Answered, Kept
    <2>7. AllPast'
        <3>1. \A d \in Clients : job'[d].at = "waiting" => job[d].at = "waiting"
            BY <2>3
        <3>2. (\A append \in late' : Past(append.records)) /\ Past(written')
            BY <1>0, <1>1, <2>1 DEF AllPast
        <3> QED BY <1>1, <1>6, <2>4, <3>1, <3>2, PastAfter
    <2>8. Limits'
        <3>1. state'.items + Len(job'[c].buffer) = state'.items /\ state'.bytes + Bytes(job'[c].buffer) = state'.bytes
            <4>1. state'.items \in Nat /\ state'.bytes \in Nat
                BY <1>3
            <4>2. Len(job'[c].buffer) = 0 /\ Bytes(job'[c].buffer) = 0
                BY <2>3, BytesOf
            <4> QED BY ONLY <4>1, <4>2
        <3>2. \A d \in Clients : lock' = d => d = c
            BY <1>2, <2>1
        <3>3. Within(state'.items + Len(job'[c].buffer), state'.bytes + Bytes(job'[c].buffer))
            BY <1>6, <3>1, Zenon
        <3> QED BY <1>0, <1>1, <1>6, <3>2, <3>3, Zenon DEF Limits
    <2>9. Apart'
        <3>1. \A append \in late' : NoneOf(append.records, Answered \cup Active)
            BY <1>0, <1>1 DEF Apart
        <3>2. Active \cap Answered = {}
            BY <1>0 DEF Apart
        <3> QED BY <1>3, <1>6, <2>6, <3>1, <3>2, Zenon DEF Apart
    <2>10. Saved' /\ Aside' /\ Parted'
        <3>1. Saved'
            BY <1>6, <2>1, <2>6, Zenon DEF Saved
        <3>2. Aside'
            BY <1>1, <1>10, <1>11, <2>6, Zenon DEF Aside
        <3>3. Parted'
            BY <1>10, <2>6, Zenon DEF Parted
        <3> QED BY <3>1, <3>2, <3>3
    <2>11. Begun'
        <3>1. \A d \in Clients : lock' = d => d = c
            BY <1>2, <2>1
        <3>2. PICK all \in Seq(Records) : all = stored \o b
            BY <1>7
        <3>3. job'[c].records = (all \o job'[c].buffer) \o job'[c].left
            BY <1>5, <1>7, <2>3, <3>2, Zenon
        <3>4. <<c, begun'[c]>> \notin emptied' => After(all)'
            BY <1>1, <1>5, <2>1, <2>6, <3>2, Zenon DEF After
        <3> QED BY <3>1, <3>3, <3>4, Zenon DEF Begun
    <2> QED BY <1>6, <2>4, <2>5, <2>7, <2>8, <2>9, <2>10, <2>11 DEF IInv
<1> QED
    BY <1>8, <1>9

LEMMA RotateKeeps ==
    ASSUME IInv, NEW c \in Clients, Rotate(c)
    PROVE  IInv'
<1>0. /\ Types /\ Calls /\ Counters /\ Limits /\ AllPast /\ Apart /\ Aside /\ Parted
      /\ Begun /\ Contents(files) /\ Saved
    BY DEF IInv, Types
<1> DEFINE next == state.index + 1
<1>1. /\ job[c].at = "rotate"
      /\ state' = [state EXCEPT !.index = next, !.file = next, !.items = 0, !.bytes = 0]
      /\ files' = [i \in DOMAIN files \cup {next} |-> IF i = next THEN <<>> ELSE files[i]]
      /\ job' = [job EXCEPT ![c].at = "loop"]
      /\ UNCHANGED <<lock, late, resets, written, emptied, begun>>
    BY DEF Rotate, At
<1>2. /\ lock = c /\ Active = {<<c, begun[c]>>} /\ job[c] \in Job /\ state.opened
      /\ job[c].records \in Seq(Records) /\ job[c].records # <<>>
      /\ Own(c, job[c].records) /\ Own(c, job[c].left) /\ job[c].buffer = <<>>
    <2>1. job[c].at \in Holding
        BY <1>1 DEF Holding
    <2> QED BY <1>0, <1>1, <2>1, HolderIs DEF Calls
<1>3. /\ next \in Nat /\ next > state.file /\ \A i \in Nat : i > next => i > state.file
      /\ \A i \in Nat : i <= state.index => i # next /\ i <= next
    <2>1. state.index \in Nat /\ state.file \in Nat /\ state.file <= state.index
        BY <1>0, <1>2 DEF Types, Counters
    <2> QED BY ONLY <2>1
<1> HIDE DEF next
<1>4. /\ state' \in [opened : BOOLEAN, file : Nat, index : Nat, items : Nat, bytes : Nat]
      /\ state'.opened = state.opened /\ state'.file = next /\ state'.index = next
      /\ state'.items = 0 /\ state'.bytes = 0
    BY <1>0, <1>1, <1>3 DEF Types
<1>5. /\ job'[c].at = "loop" /\ job'[c].buffer = job[c].buffer
      /\ job'[c].records = job[c].records /\ job'[c].left = job[c].left
      /\ \A d \in Clients : d # c => job'[d] = job[d]
      /\ job' \in [Clients -> Job]
    <2> DEFINE r == [job[c] EXCEPT !.at = "loop"]
    <2>1. job' = [job EXCEPT ![c] = r]
        BY <1>1, Zenon
    <2>2. /\ r \in Job /\ r.at = "loop" /\ r.buffer = job[c].buffer /\ r.records = job[c].records
          /\ r.left = job[c].left
        BY <1>2 DEF Job, Holding
    <2> HIDE DEF r
    <2> QED BY <1>0, <2>1, <2>2 DEF Types
<1>6. /\ DOMAIN files' = DOMAIN files \cup {next}
      /\ \A i \in DOMAIN files : i # next => files'[i] = files[i]
      /\ files'[next] = <<>>
    BY <1>1
<1>7. Contents(files')
    <2>1. PICK n \in Nat : \A i \in DOMAIN files : i <= n
        BY <1>0 DEF Contents
    <2>2. n + next \in Nat /\ \A i \in DOMAIN files' : i <= n + next
        BY <1>0, <1>3, <1>6, <2>1 DEF Contents
    <2>3. <<>> \in Seq(Records)
        OBVIOUS
    <2>4. DOMAIN files' \subseteq Nat /\ DOMAIN files' # {} /\ \A i \in DOMAIN files' : files'[i] \in Seq(Records)
        BY <1>0, <1>3, <1>6, <2>3 DEF Contents
    <2> QED BY <2>2, <2>4 DEF Contents
<1>8. /\ In(files', next) = <<>>
      /\ \A i \in Nat : i # next => In(files', i) = In(files, i)
    BY <1>6, Zenon DEF In
<1>9. Types'
    BY <1>0, <1>1, <1>4, <1>5, <1>7 DEF Types
<1>10. Calls'
    <2> SUFFICES ASSUME NEW d \in Clients
                 PROVE  /\ job'[d].at \in Holding <=> lock' = d
                        /\ job'[d].at # "idle" =>
                              /\ state'.opened /\ job'[d].records # <<>>
                              /\ Own(d, job[d].records)' /\ Own(d, job[d].left)'
                              /\ Own(d, job[d].buffer)'
                        /\ job'[d].at = "waiting" => job'[d].buffer = <<>> /\ job'[d].left = job'[d].records
                        /\ job'[d].at = "rotate" => job'[d].buffer = <<>>
        BY DEF Calls
    <2>1. CASE d = c
        BY <1>1, <1>2, <1>4, <1>5, <2>1 DEF Holding, Own
    <2>2. CASE d # c
        BY <1>0, <1>1, <1>4, <1>5, <2>2 DEF Calls, Own
    <2> QED BY <2>1, <2>2
<1>11. Active' = Active /\ Answered' = Answered /\ Kept' = Kept
    BY <1>1 DEF Active, Answered, Kept
<1>12. CountedItems(<<>>) = 0 /\ CountedBytes(<<>>) = 0 /\ Bytes(<<>>) = 0 /\ Within(0, 0)
    <2>1. Within(0, 0)
        BY FileAssumption DEF Within
    <2> QED BY <2>1, BytesOf, CountsOf, Zenon
<1>13. Counters'
    <2>1. next <= next /\ 0 >= 0
        BY <1>3
    <2> QED BY <1>4, <1>8, <1>12, <2>1, Zenon DEF Counters
<1>14. Limits'
    <2>1. \A i \in Nat : Within(CountedItems(In(files', i)), CountedBytes(In(files', i)))
        BY <1>0, <1>8, <1>12, Zenon DEF Limits
    <2>2. state'.items + Len(job'[c].buffer) = 0 /\ state'.bytes + Bytes(job'[c].buffer) = 0
        <3>1. job'[c].buffer = <<>>
            BY <1>2, <1>5
        <3> QED BY <1>4, <1>12, <3>1
    <2>3. \A d \in Clients : lock' = d => d = c
        BY <1>1, <1>2
    <2> QED BY <1>0, <1>1, <1>4, <1>12, <2>1, <2>2, <2>3, Zenon DEF Limits
<1>15. AllPast'
    <2>1. \A d \in Clients : job'[d].at = "waiting" => job[d].at = "waiting"
        BY <1>5
    <2>2. \A i \in Nat : Past(In(files', i))
        <3>1. Past(<<>>)
            BY DEF Past
        <3> QED BY <1>0, <1>8, <3>1, Zenon DEF AllPast
    <2>3. (\A append \in late' : Past(append.records)) /\ Past(written')
        BY <1>0, <1>1 DEF AllPast
    <2> QED BY <1>1, <1>9, <2>1, <2>2, <2>3, PastAfter
<1> DEFINE live == Answered \cup Active
<1>16. \A i \in Nat : i > state.file => NoneOf(In(files, i), live)
    BY <1>0, <1>2 DEF Apart
<1>17. Apart'
    <2>1. \A i \in Nat : i > state'.file => NoneOf(In(files', i), live)
        <3> SUFFICES ASSUME NEW i \in Nat, i > next PROVE NoneOf(In(files', i), live)
            BY <1>4
        <3>1. i # next /\ i > state.file
            BY <1>3
        <3> QED BY <1>8, <1>16, <3>1, Zenon
    <2>2. \A append \in late' : NoneOf(append.records, live)
        BY <1>0, <1>1 DEF Apart
    <2>3. Active \cap Answered = {}
        BY <1>0 DEF Apart
    <2> QED BY <1>11, <2>1, <2>2, <2>3, Zenon DEF Apart
<1>18. ASSUME NEW B, B \subseteq live PROVE Stored(files', B) = Stored(files, B)
    <2>1. NoneOf(In(files, next), B)
        BY <1>3, <1>16, <1>18 DEF NoneOf
    <2>2. Of(In(files, next), B) = <<>> /\ Of(<<>>, B) = <<>>
        <3> DEFINE r == In(files, next)
        <3>1. r \in Seq(Records) /\ <<>> \in Seq(Records)
            <4>1. \A i : In(files, i) \in Seq(Records)
                BY ONLY <1>0, InTypes, Zenon
            <4> QED BY ONLY <4>1
        <3>2. NoneOf(r, B) /\ NoneOf(<<>>, B)
            BY <2>1 DEF NoneOf
        <3> HIDE DEF r
        <3>3. Of(r, B) = <<>>
            BY <3>1, <3>2, OfNone DEF NoneOf
        <3>4. Of(<<>>, B) = <<>>
            BY <3>1, <3>2, OfNone DEF NoneOf
        <3> QED BY <3>3, <3>4 DEF r
    <2>3. \A i \in Nat : Of(In(files', i), B) = Of(In(files, i), B)
        BY <1>8, <2>2, Zenon
    <2> DEFINE gs == files'
    <2>4. Contents(gs) /\ \A i \in Nat : Of(In(gs, i), B) = Of(In(files, i), B)
        BY <1>7, <2>3
    <2> HIDE DEF gs
    <2>5. Stored(gs, B) = Stored(files, B)
        BY ONLY <1>0, <2>4, StoredSame
    <2> QED BY <2>5 DEF gs
<1>19. Saved'
    <2>1. \A K : K \subseteq Kept => Stored(files', K) = Stored(files, K)
        BY <1>18 DEF Kept
    <2> QED BY <1>0, <1>1, <1>11, <2>1, Zenon DEF Saved
<1>21. Aside'
    <2>1. ASSUME NEW reset \in resets, ~reset.old
          PROVE  /\ NoneOf(In(files', reset.file), live)
                 /\ reset.file <= next /\ reset.file # next
        <3>1. reset.file \in Nat
            BY <1>0, <2>1 DEF Types
        <3>2. NoneOf(In(files, reset.file), live) /\ reset.file <= state.index
            BY <1>0, <1>2, <2>1 DEF Aside
        <3> QED BY <1>3, <1>8, <3>1, <3>2, Zenon
    <2> QED BY <1>1, <1>4, <1>11, <2>1, Zenon DEF Aside
<1>22. Parted'
    <2>1. Whole(<<>>, live)
        BY DEF Whole
    <2>2. \A i \in Nat : Whole(In(files', i), live)
        BY <1>0, <1>8, <2>1, Zenon DEF Parted
    <2> QED BY <1>11, <2>2, Zenon DEF Parted
<1>20. Begun'
    <2>1. PICK stored \in Seq(Records) :
             /\ job[c].records = (stored \o job[c].buffer) \o job[c].left
             /\ <<c, begun[c]>> \notin emptied => After(stored)
        BY <1>0, <1>2 DEF Begun
    <2>2. ASSUME NEW K, K \subseteq Kept
          PROVE  Stored(files', K \cup Active) = Stored(files, K \cup Active)
        <3>1. K \cup Active \subseteq live
            BY <2>2 DEF Kept
        <3> HIDE DEF live
        <3> QED BY <1>18, <3>1
    <2>3. \A d \in Clients : lock' = d => d = c
        BY <1>1, <1>2
    <2>4. job'[c].records = (stored \o job'[c].buffer) \o job'[c].left
        BY <1>5, <2>1, Zenon
    <2>5. <<c, begun'[c]>> \notin emptied' => After(stored)'
        BY <1>1, <1>11, <2>1, <2>2, Zenon DEF After
    <2> QED BY <2>3, <2>4, <2>5, Zenon DEF Begun
<1> QED
    BY <1>9, <1>10, <1>13, <1>14, <1>15, <1>17, <1>19, <1>20, <1>21, <1>22 DEF IInv

\* A late rotation empties a file that this crawl does not use, or one of which it is told.
LEMMA ResetKeeps ==
    ASSUME IInv, Reset
    PROVE  IInv'
<1>0. /\ Types /\ Calls /\ Counters /\ Limits /\ AllPast /\ Apart /\ Aside /\ Parted
      /\ Begun /\ Contents(files) /\ Saved
    BY DEF IInv, Types
<1>1. PICK reset \in resets :
         /\ resets' = resets \ {reset}
         /\ files' = [i \in DOMAIN files \cup {reset.file} |->
                         IF i = reset.file THEN <<>> ELSE files[i]]
         /\ emptied' = IF reset.old
                       THEN emptied \cup {Batch(r) : r \in Range(In(files, reset.file))}
                       ELSE emptied
    BY DEF Reset
<1>2. UNCHANGED <<state, lock, job, late, written, begun>>
    BY DEF Reset
<1> DEFINE n == reset.file
<1>3. n \in Nat
    BY <1>0 DEF Types
<1>4. /\ DOMAIN files' = DOMAIN files \cup {n}
      /\ \A i \in DOMAIN files : i # n => files'[i] = files[i]
      /\ files'[n] = <<>>
    BY <1>1
<1> HIDE DEF n
<1>5. Contents(files')
    <2>1. PICK m \in Nat : \A i \in DOMAIN files : i <= m
        BY <1>0 DEF Contents
    <2>2. m + n \in Nat /\ \A i \in DOMAIN files' : i <= m + n
        BY <1>0, <1>3, <1>4, <2>1 DEF Contents
    <2>3. <<>> \in Seq(Records)
        OBVIOUS
    <2>4. DOMAIN files' \subseteq Nat /\ DOMAIN files' # {} /\ \A i \in DOMAIN files' : files'[i] \in Seq(Records)
        BY <1>0, <1>3, <1>4, <2>3 DEF Contents
    <2> QED BY <2>2, <2>4 DEF Contents
<1>6. In(files', n) = <<>> /\ \A i \in Nat : i # n => In(files', i) = In(files, i)
    BY <1>4, Zenon DEF In
<1>7. Types'
    <2>1. resets' \subseteq resets
        BY <1>1
    <2> QED BY <1>0, <1>2, <1>5, <2>1 DEF Types
<1>8. Calls'
    BY <1>0, <1>2 DEF Calls, Own
<1>9. Active' = Active /\ Answered' = Answered
    BY <1>2 DEF Active, Answered
<1>10. CountedItems(<<>>) = 0 /\ CountedBytes(<<>>) = 0 /\ Within(0, 0)
    <2>1. Within(0, 0)
        BY FileAssumption DEF Within
    <2> QED BY <2>1, CountsOf, Zenon
<1>11. Counters'
    <2>1. /\ state.file \in Nat /\ state.items >= 0 /\ state.bytes >= 0
        BY <1>0 DEF Types
    <2> QED BY <1>0, <1>2, <1>6, <1>10, <2>1, Zenon DEF Counters
<1>12. Limits'
    <2>1. \A i \in Nat : Within(CountedItems(In(files', i)), CountedBytes(In(files', i)))
        BY <1>0, <1>6, <1>10, Zenon DEF Limits
    <2> QED BY <1>0, <1>2, <2>1, Zenon DEF Limits
<1>13. AllPast'
    <2>1. \A d \in Clients : job'[d].at = "waiting" => job[d].at = "waiting"
        BY <1>2
    <2>2. \A i \in Nat : Past(In(files', i))
        <3>1. Past(<<>>)
            BY DEF Past
        <3> QED BY <1>0, <1>6, <3>1, Zenon DEF AllPast
    <2>3. (\A append \in late' : Past(append.records)) /\ Past(written')
        BY <1>0, <1>2 DEF AllPast
    <2> QED BY <1>2, <1>7, <2>1, <2>2, <2>3, PastAfter
<1> DEFINE live == Answered \cup Active
<1>14. /\ \A i \in Nat : NoneOf(In(files, i), live) => NoneOf(In(files', i), live)
       /\ \A i \in Nat : Whole(In(files, i), live) => Whole(In(files', i), live)
    <2>1. NoneOf(<<>>, live) /\ Whole(<<>>, live)
        BY DEF NoneOf, Whole
    <2> HIDE DEF live
    <2> QED BY <1>6, <2>1, Zenon
<1>15. Apart'
    <2>1. state.opened => \A i \in Nat : i > state.file => NoneOf(In(files', i), live)
        BY <1>0, <1>14 DEF Apart
    <2> QED BY <1>0, <1>2, <1>9, <2>1, Zenon DEF Apart
<1>16. Aside'
    <2>1. \A x \in resets : x.file \in Nat
        BY <1>0 DEF Types
    <2>2. \A x \in resets' : x \in resets
        BY <1>1
    <2>3. \A x \in resets : ~x.old => NoneOf(In(files', x.file), live)
        BY <1>0, <1>14, <2>1, Zenon DEF Aside
    <2> QED BY <1>0, <1>2, <1>9, <2>2, <2>3, Zenon DEF Aside
<1>17. Parted'
    BY <1>0, <1>9, <1>14, Zenon DEF Parted
\* Neither what is kept now, nor the batch with the mutex unless it is told, was in the file.
<1>18. /\ Kept' \subseteq Kept /\ NoneOf(In(files, n), Kept') /\ emptied \subseteq emptied'
       /\ \A batch \in Active : batch \notin emptied' => NoneOf(In(files, n), {batch})
    <2>1. CASE reset.old
        <3>1. emptied' = emptied \cup {Batch(r) : r \in Range(In(files, n))}
            BY <1>1, <2>1 DEF n
        <3>2. \A k \in DOMAIN In(files, n) : Batch(In(files, n)[k]) \in emptied'
            BY <3>1, Zenon DEF Range
        <3> QED BY <1>9, <3>1, <3>2 DEF Kept, NoneOf
    <2>2. CASE ~reset.old
        <3>1. emptied' = emptied /\ NoneOf(In(files, n), live)
            BY <1>0, <1>1, <2>2 DEF n, Aside
        <3> QED BY <1>9, <3>1 DEF Kept, NoneOf
    <2> QED BY <2>1, <2>2
<1>19. ASSUME NEW B, NoneOf(In(files, n), B) PROVE Stored(files', B) = Stored(files, B)
    <2> DEFINE r == In(files, n)  gs == files'
    <2>1. r \in Seq(Records) /\ NoneOf(r, B) /\ <<>> \in Seq(Records)
        <3>1. r \in Seq(Records)
            BY <1>0, InTypes, Zenon
        <3>2. <<>> \in Seq(Records)
            OBVIOUS
        <3> QED BY <1>19, <3>1, <3>2
    <2> HIDE DEF r
    <2>2. Of(r, B) = <<>> /\ Of(<<>>, B) = <<>>
        BY <2>1, OfNone, OfTypes DEF NoneOf
    <2>3. Contents(gs) /\ \A i \in Nat : Of(In(gs, i), B) = Of(In(files, i), B)
        BY <1>5, <1>6, <2>2, Zenon DEF r
    <2> HIDE DEF gs
    <2>4. Stored(gs, B) = Stored(files, B)
        BY ONLY <1>0, <2>3, StoredSame
    <2> QED BY <2>4 DEF gs
<1>21. Saved'
    <2> SUFFICES ASSUME NEW K, K \subseteq Kept' PROVE Stored(files', K) = Of(written', K)
        BY Zenon DEF Saved
    <2>1. K \subseteq Kept /\ NoneOf(In(files, n), K)
        BY <1>18 DEF NoneOf
    <2>2. Stored(files', K) = Stored(files, K)
        BY <1>19, <2>1
    <2>3. Stored(files, K) = Of(written, K)
        BY <1>0, <2>1 DEF Saved
    <2> QED BY <1>2, <2>2, <2>3, Zenon
<1>22. Begun'
    <2> SUFFICES ASSUME NEW c \in Clients, lock' = c
                 PROVE  \E stored \in Seq(Records) :
                           /\ job'[c].records = (stored \o job'[c].buffer) \o job'[c].left
                           /\ <<c, begun'[c]>> \notin emptied' => After(stored)'
        BY DEF Begun
    <2>1. lock = c /\ job' = job /\ begun' = begun /\ written' = written
        BY <1>2
    <2>2. Active = {<<c, begun[c]>>}
        BY <2>1, Zenon DEF Active
    <2>3. PICK stored \in Seq(Records) :
             /\ job[c].records = (stored \o job[c].buffer) \o job[c].left
             /\ <<c, begun[c]>> \notin emptied => After(stored)
        BY <1>0, <2>1 DEF Begun
    <2>4. ASSUME <<c, begun[c]>> \notin emptied', NEW K, K \subseteq Kept'
          PROVE  Stored(files', K \cup Active) = Of(written, K) \o stored
        <3> DEFINE B == K \cup Active
        <3>1. K \subseteq Kept /\ NoneOf(In(files, n), B) /\ <<c, begun[c]>> \notin emptied
            BY <1>18, <2>2, <2>4 DEF NoneOf
        <3>2. Stored(files, B) = Of(written, K) \o stored
            BY <2>3, <3>1 DEF After
        <3> HIDE DEF B
        <3>3. Stored(files', B) = Stored(files, B)
            BY <1>19, <3>1
        <3> QED BY <3>2, <3>3, Zenon DEF B
    <2>5. <<c, begun'[c]>> \notin emptied' => After(stored)'
        BY <1>9, <2>1, <2>4, Zenon DEF After
    <2> QED BY <2>1, <2>3, <2>5, Zenon
<1> QED
    BY <1>7, <1>8, <1>11, <1>12, <1>13, <1>15, <1>16, <1>17, <1>21, <1>22 DEF IInv

-----------------------------------------------------------------------------
(* The store closes and opens. *)

\* No call is under way, as the engine sees to.
LEMMA NobodyHolds ==
    ASSUME lock = None
    PROVE  (\A c \in Clients : lock # c) /\ Active = {}
<1>1. \A c \in Clients : lock # c
    BY NoneAssumption
<1> QED
    BY <1>1 DEF Active

LEMMA CloseKeeps ==
    ASSUME IInv, Close
    PROVE  IInv'
<1>0. Types /\ Calls /\ Limits /\ AllPast /\ Apart /\ Aside /\ Parted /\ Saved
    BY DEF IInv
<1>1. /\ lock = None /\ (\A c \in Clients : job[c].at = "idle")
      /\ state' = NewState(FALSE)
      /\ UNCHANGED <<files, lock, job, late, resets, written, emptied, begun>>
    BY DEF Close, At
<1>2. (\A c \in Clients : lock # c) /\ Active = {} /\ Active' = {}
    BY <1>1, NobodyHolds DEF Active
<1>3. Types'
    BY <1>0, <1>1 DEF Types, NewState
<1>4. Calls'
    BY <1>0, <1>1, <1>2 DEF Calls, Holding
<1>5. ~state'.opened
    BY <1>1 DEF NewState
<1>6. Counters'
    BY <1>5 DEF Counters
<1>7. Limits'
    BY <1>0, <1>1, <1>2, <1>5, Zenon DEF Limits
<1>8. AllPast'
    <2>1. \A d \in Clients : job'[d].at = "waiting" => job[d].at = "waiting"
        BY <1>1
    <2> QED BY <1>0, <1>1, <2>1, PastStays
<1>9. Answered' = Answered /\ Kept' = Kept
    BY <1>1 DEF Answered, Kept
<1>10. Apart'
    BY <1>0, <1>1, <1>2, <1>5, <1>9, Zenon DEF Apart
<1>11. Saved' /\ Begun' /\ Aside' /\ Parted'
    <2>1. Saved' /\ Begun'
        BY <1>0, <1>1, <1>2, <1>9, Zenon DEF Begun, Saved
    <2>2. Aside'
        BY <1>0, <1>1, <1>2, <1>5, <1>9, Zenon DEF Aside
    <2>3. Parted'
        BY <1>0, <1>1, <1>2, <1>9, Zenon DEF Parted
    <2> QED BY <2>1, <2>2, <2>3
<1> QED
    BY <1>3, <1>4, <1>6, <1>7, <1>8, <1>10, <1>11 DEF IInv

LEMMA OpenKeeps ==
    ASSUME IInv, Open
    PROVE  IInv'
<1>0. Types /\ Calls /\ Limits /\ AllPast
    BY DEF IInv
<1>1. /\ lock = None /\ (\A c \in Clients : job[c].at = "idle")
      /\ state' = NewState(TRUE) /\ files' = Fresh /\ written' = <<>>
      /\ resets' = {[reset EXCEPT !.old = TRUE] : reset \in resets}
      /\ UNCHANGED <<lock, job, late, begun>>
    BY DEF Open, At
<1>12. /\ resets' \subseteq [by : Clients \X Nat, file : Nat, old : BOOLEAN]
       /\ \A reset \in resets' : reset.old
    <2>1. resets \subseteq [by : Clients \X Nat, file : Nat, old : BOOLEAN]
        BY <1>0 DEF Types
    <2> QED BY <1>1, <2>1
<1>2. (\A c \in Clients : lock # c) /\ Active' = {}
    BY <1>1, NobodyHolds DEF Active
<1>3. /\ Contents(files') /\ state'.file \in DOMAIN files'
      /\ (\A i : In(files', i) = <<>>) /\ \A batches : Stored(files', batches) = <<>>
    BY <1>1, FreshIs
<1>4. Types'
    BY <1>0, <1>1, <1>3, <1>12 DEF Types, NewState
<1>5. Calls'
    BY <1>0, <1>1, <1>2 DEF Calls, Holding
<1>6. Counters'
    BY <1>1, <1>3, CountsOf DEF Counters, NewState
<1>7. Limits'
    <2>1. Within(0, 0)
        BY FileAssumption DEF Within
    <2>2. \A i \in Nat : CountedItems(In(files', i)) = 0 /\ CountedBytes(In(files', i)) = 0
        BY <1>3, CountsOf, Zenon
    <2>3. \A append \in late' : \A k \in DOMAIN append.records : ~append.records[k].counted
        BY <1>0, <1>1 DEF Limits
    <2>4. state'.items = 0 /\ state'.bytes = 0
        BY <1>1 DEF NewState
    <2> QED BY <1>1, <1>2, <2>1, <2>2, <2>3, <2>4, Zenon DEF Limits
<1>8. AllPast'
    <2>1. \A d \in Clients : job'[d].at = "waiting" => job[d].at = "waiting"
        BY <1>1
    <2>2. Past(<<>>)
        BY DEF Past
    <2>3. (\A i \in Nat : Past(In(files', i))) /\ Past(written')
        BY <1>1, <1>3, <2>2, Zenon
    <2>4. \A append \in late' : Past(append.records)
        BY <1>0, <1>1 DEF AllPast
    <2> QED BY <1>1, <1>4, <2>1, <2>3, <2>4, PastAfter
<1>9. Answered' = {}
    BY <1>1 DEF Answered
<1>10. Apart'
    <2>1. \A r : NoneOf(r, {})
        BY DEF NoneOf
    <2>2. {} \cup {} = {} /\ {} \cap {} = {}
        OBVIOUS
    <2> QED BY <1>2, <1>9, <2>1, <2>2, Zenon DEF Apart
<1>11. Saved' /\ Begun' /\ Aside' /\ Parted'
    <2>1. Saved'
        <3>1. <<>> \in Seq(Records)
            OBVIOUS
        <3>2. \A K : Of(<<>>, K) = <<>>
            BY <3>1, OfTypes
        <3> QED BY <1>1, <1>3, <3>2, Zenon DEF Saved
    <2>2. Begun'
        BY <1>1, <1>2, Zenon DEF Begun
    <2>3. Aside'
        BY <1>12, Zenon DEF Aside
    <2>4. Parted'
        <3>1. \A B : Whole(<<>>, B)
            BY DEF Whole
        <3> QED BY <1>3, <3>1, Zenon DEF Parted
    <2> QED BY <2>1, <2>2, <2>3, <2>4
<1> QED
    BY <1>4, <1>5, <1>6, <1>7, <1>8, <1>10, <1>11 DEF IInv

-----------------------------------------------------------------------------

LEMMA StepKeeps == IInv /\ [Next]_vars => IInv'
<1> SUFFICES ASSUME IInv, [Next]_vars PROVE IInv'
    OBVIOUS
<1>1. ASSUME NEW c \in Clients, BatchWrite(c) PROVE IInv'
    BY <1>1, BatchWriteKeeps
<1>2. ASSUME NEW c \in Clients, Lock(c) PROVE IInv'
    BY <1>2, LockKeeps
<1>3. ASSUME NEW c \in Clients, Next1(c) PROVE IInv'
    BY <1>3, Next1Keeps
<1>4. ASSUME NEW c \in Clients, Flush(c) PROVE IInv'
    BY <1>4, FlushKeeps
<1>5. ASSUME NEW c \in Clients, Rotate(c) PROVE IInv'
    BY <1>5, RotateKeeps
<1>6. ASSUME NEW c \in Clients, FlushFails(c) PROVE IInv'
    BY <1>6, FlushFailsKeeps
<1>7. ASSUME NEW c \in Clients, FlushDropped(c) PROVE IInv'
    BY <1>7, FlushDroppedKeeps
<1>8. ASSUME NEW c \in Clients, RotateFails(c) \/ RotateDropped(c) PROVE IInv'
    BY <1>8, RotateFailsKeeps
<1>9. ASSUME NEW c \in Clients, Drop(c) PROVE IInv'
    BY <1>9, DropKeeps
<1>10. CASE Land
    BY <1>10, LandKeeps
<1>14. CASE Reset
    BY <1>14, ResetKeeps
<1>11. CASE Close
    BY <1>11, CloseKeeps
<1>12. CASE Open
    BY <1>12, OpenKeeps
<1>13. CASE UNCHANGED vars
    <2>1. UNCHANGED <<state, files, lock, job, late, resets, written, emptied, begun>>
        BY <1>13 DEF vars
    <2>2. Types /\ Calls /\ AllPast /\ Begun /\ Limits
        BY DEF IInv
    <2>3. Active' = Active /\ Kept' = Kept
        BY <2>1 DEF Active, Answered, Kept
    <2>4. Types'
        BY <2>1, <2>2 DEF Types
    <2>5. Calls'
        BY <2>1, <2>2, Zenon DEF Calls, Own
    <2>6. AllPast'
        <3>1. \A d \in Clients : job'[d].at = "waiting" => job[d].at = "waiting"
            BY <2>1
        <3> QED BY <2>1, <2>2, <3>1, PastStays
    <2>7. Begun'
        BY <2>1, <2>2, <2>3, Zenon DEF Begun, After
    <2>8. \A d \in Clients : lock = d =>
             Within(state.items + Len(job'[d].buffer), state.bytes + Bytes(job'[d].buffer))
        BY <2>1, <2>2, Zenon DEF Limits
    <2> QED BY <2>1, <2>3, <2>4, <2>5, <2>6, <2>7, <2>8, QuietKeeps
<1> QED
    BY <1>1, <1>2, <1>3, <1>4, <1>5, <1>6, <1>7, <1>8, <1>9, <1>10, <1>11, <1>12, <1>13,
       <1>14, Zenon DEF Next

LEMMA AlwaysIInv == Spec => []IInv
BY FileStoreBegins, StepKeeps, PTL DEF Spec

(***************************************************************************)
(* Of the records that calls were answered for, no file ever holds more    *)
(* than RotateItems, nor more than RotateBytes bytes unless it is one      *)
(* record (should_rotate, store/file.rs:138-168), for any clients, sizes   *)
(* and limits, whatever appends and rotations failed or were dropped.      *)
(***************************************************************************)
THEOREM FilesStayWithinLimits == Spec => []FilesWithinLimits
<1>1. IInv => FilesWithinLimits
    <2> SUFFICES ASSUME IInv, NEW i \in DOMAIN files
                 PROVE  Within(CountedItems(files[i]), CountedBytes(files[i]))
        BY Zenon DEF FilesWithinLimits, Within
    <2>1. i \in Nat /\ In(files, i) = files[i]
        BY DEF IInv, Types, Contents, In
    <2> QED BY <2>1 DEF IInv, Limits
<1> QED
    BY <1>1, AlwaysIInv, PTL

(***************************************************************************)
(* What was answered Ok stays in the files, every record whole and once,   *)
(* in the order of the answers (batch_write, store/file.rs:273-275), for   *)
(* any clients and limits, unless a rotation that an earlier crawl began   *)
(* and dropped empties the file late (174); and a record that shares its   *)
(* line follows the part of one whose call was not answered Ok (297-302).  *)
(***************************************************************************)
THEOREM WhatIsWrittenIsStored == Spec => []WrittenIsStored
<1>1. IInv => WrittenIsStored
    <2> SUFFICES ASSUME IInv PROVE WrittenIsStored
        OBVIOUS
    <2>1. Stored(files, Kept) = Of(written, Kept)
        BY DEF IInv, Saved
    <2>2. ASSUME NEW i \in DOMAIN files, NEW k \in DOMAIN files[i], k > 1
          PROVE  files[i][k - 1].whole \/ Batch(files[i][k - 1]) \notin Answered
        <3>1. i \in Nat /\ files[i] = In(files, i) /\ files[i] \in Seq(Records)
            BY DEF IInv, Types, Contents, In
        <3>2. k - 1 \in DOMAIN files[i]
            BY <2>2, <3>1
        <3>3. Whole(files[i], Answered \cup Active)
            BY <3>1 DEF IInv, Parted
        <3> QED BY <3>2, <3>3 DEF Whole
    <2> QED BY <2>1, <2>2 DEF WrittenIsStored
<1> QED
    BY <1>1, AlwaysIInv, PTL
===============================================================================
