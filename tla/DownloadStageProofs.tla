------------------------- MODULE DownloadStageProofs -------------------------
(***************************************************************************)
(* Proofs about DownloadStage, for any pages, limits, delays and times.    *)
(***************************************************************************)
EXTENDS DownloadStage, SequenceTheorems, WellFoundedInduction, TLAPS

-----------------------------------------------------------------------------
(* The least and the greatest of some numbers. *)

LEMMA LeastOf ==
    ASSUME NEW N, N = Nat, NEW R, IsWellFoundedOn(R, N),
           \A x, y \in N : <<x, y>> \in R <=> x < y,
           NEW T, T \subseteq N, T # {}
    PROVE  \E n \in T : \A m \in T : n <= m
<1>1. \E n \in T : \A m \in T : ~(<<m, n>> \in R)
    BY ONLY IsWellFoundedOn(R, N), T \subseteq N, T # {}, WFMin
<1>2. \A n, m \in Nat : ~(m < n) => n <= m
    OBVIOUS
<1> QED
    BY <1>1, <1>2, Zenon

LEMMA LeastNumber ==
    ASSUME NEW T, T \subseteq Nat, T # {}
    PROVE  \E n \in T : \A m \in T : n <= m
<1>1. IsWellFoundedOn(OpToRel(<, Nat), Nat)
    BY NatLessThanWellFounded
<1>2. \A x, y \in Nat : <<x, y>> \in OpToRel(<, Nat) <=> x < y
    BY DEF OpToRel
<1> QED
    BY <1>1, <1>2, LeastOf, Zenon

\* Min is the least number of a set that has one.
LEMMA MinOf ==
    ASSUME NEW S, S \subseteq Nat, S # {}
    PROVE  Min(S) \in S /\ \A x \in S : Min(S) <= x
<1>1. \E n \in S : \A m \in S : n <= m
    BY LeastNumber
<1> QED
    BY <1>1 DEF Min

\* Max is the greatest number of a set that has a bound.
LEMMA MaxOf ==
    ASSUME NEW S, S \subseteq Nat, S # {}, NEW bound \in Nat, \A x \in S : x <= bound
    PROVE  Max(S) \in S /\ \A x \in S : Max(S) >= x
<1> DEFINE T == {n \in 0 .. bound : bound - n \in S}
<1>0. PICK x \in S : TRUE
    OBVIOUS
<1>1. T \subseteq Nat /\ bound - x \in T
    BY <1>0
<1>2. PICK n \in T : \A m \in T : n <= m
  <2> HIDE DEF T
  <2> QED BY <1>1, LeastNumber
<1>3. bound - n \in S
    BY <1>2
<1>4. ASSUME NEW y \in S PROVE bound - n >= y
    <2>1. y \in Nat /\ y <= bound /\ bound - (bound - y) = y
        OBVIOUS
    <2>2. bound - y \in T
        BY <2>1
    <2> QED
        BY <1>2, <2>1, <2>2
<1> QED
    BY <1>3, <1>4 DEF Max

LEMMA MaxOfTwo ==
    ASSUME NEW a \in Nat, NEW b \in Nat
    PROVE  Max({a, b}) = IF a >= b THEN a ELSE b
<1>1. Max({a, b}) \in {a, b} /\ \A x \in {a, b} : Max({a, b}) >= x
    BY MaxOf, a + b \in Nat, {a, b} \subseteq Nat, \A x \in {a, b} : x <= a + b
<1> QED
    BY <1>1

LEMMA MinOfTwo ==
    ASSUME NEW a \in Nat, NEW b \in Nat
    PROVE  Min({a, b}) = IF a <= b THEN a ELSE b
<1>1. Min({a, b}) \in {a, b} /\ \A x \in {a, b} : Min({a, b}) <= x
    BY MinOf
<1> QED
    BY <1>1

LEMMA MaxOfThree ==
    ASSUME NEW a \in Nat, NEW b \in Nat, NEW c \in Nat
    PROVE  Max({a, b, c}) \in Nat /\ \A x \in {a, b, c} : Max({a, b, c}) >= x
<1> DEFINE S == {a, b, c}
<1>1. S \subseteq Nat /\ S # {} /\ a + b + c \in Nat /\ \A x \in S : x <= a + b + c
    OBVIOUS
<1>2. Max(S) \in S /\ \A x \in S : Max(S) >= x
  <2> HIDE DEF S
  <2> QED BY <1>1, MaxOf
<1> QED
    BY <1>1, <1>2

LEMMA MaxWaitIs ==
    /\ MaxWait \in Nat \ {0}
    /\ MaxWait >= Minute /\ MaxWait >= MaxInterval
    /\ MaxWait >= Interval /\ MaxWait >= CrawlDelay
<1> DEFINE S == {Minute, MaxInterval, Interval, CrawlDelay, 1}
           bound == Minute + MaxInterval + Interval + CrawlDelay + 1
<1>1. S \subseteq Nat /\ S # {} /\ bound \in Nat /\ \A x \in S : x <= bound
    BY PaceAssumption
<1>2. Max(S) \in S /\ \A x \in S : Max(S) >= x
  <2> HIDE DEF S, bound
  <2> QED BY <1>1, MaxOf
<1> QED
    BY <1>1, <1>2 DEF MaxWait

-----------------------------------------------------------------------------
(* The window of rate limit. *)

LEMMA SeqOfParts ==
    ASSUME NEW S, NEW T, NEW s \in Seq(S), \A k \in 1 .. Len(s) : s[k] \in T
    PROVE  s \in Seq(T)
<1>1. Len(s) \in Nat /\ s \in [1 .. Len(s) -> S]
    BY LenProperties
<1>2. s \in [1 .. Len(s) -> T]
    BY <1>1
<1> QED
    BY <1>1, <1>2, SeqDef

LEMMA SeqOfFunction ==
    ASSUME NEW S, NEW n \in Nat, NEW s \in [1 .. n -> S]
    PROVE  s \in Seq(S) /\ Len(s) = n
<1>1. s \in Seq(S)
    BY SeqDef
<1>2. DOMAIN s = 1 .. n
    OBVIOUS
<1> QED
    BY <1>1, <1>2, LenProperties

OldestFirst(hits) == \A i, j \in 1 .. Len(hits) : i <= j => hits[i] >= hits[j]

LEMMA WindowIs ==
    ASSUME NEW hits \in Seq(Nat)
    PROVE  \E gone \in 0 .. Len(hits) :
              /\ \A k \in 1 .. gone : hits[k] > Minute
              /\ gone < Len(hits) => hits[gone + 1] <= Minute
              /\ InWindow(hits) \in Seq(Nat)
              /\ Len(InWindow(hits)) = Len(hits) - gone
              /\ \A k \in 1 .. Len(hits) - gone : InWindow(hits)[k] = hits[gone + k]
<1> USE PaceAssumption
<1> DEFINE T == {n \in 0 .. Len(hits) : n < Len(hits) => hits[n + 1] <= Minute}
           Gone(n) == /\ \A k \in 1 .. n : hits[k] > Minute
                      /\ n < Len(hits) => hits[n + 1] <= Minute
<1>1. T \subseteq Nat /\ Len(hits) \in T
    OBVIOUS
<1>2. PICK n \in T : \A m \in T : n <= m
  <2> HIDE DEF T
  <2> QED BY <1>1, LeastNumber
<1>3. ASSUME NEW k \in 1 .. n PROVE hits[k] > Minute
    <2>1. k - 1 \in 0 .. Len(hits) /\ k - 1 < n /\ k - 1 < Len(hits) /\ (k - 1) + 1 = k
        OBVIOUS
    <2>2. k - 1 \notin T
        BY <1>2, <2>1
    <2> QED
        BY <2>1, <2>2
<1>4. n \in 0 .. Len(hits) /\ Gone(n)
    BY <1>3
<1>5. PICK gone \in 0 .. Len(hits) : Gone(gone) /\ gone = CHOOSE g \in 0 .. Len(hits) : Gone(g)
    BY <1>4
<1>6. InWindow(hits) = SubSeq(hits, gone + 1, Len(hits))
    BY <1>5 DEF InWindow
<1>7. \A i \in gone + 1 .. Len(hits) : hits[i] \in Nat
    OBVIOUS
<1>8. /\ SubSeq(hits, gone + 1, Len(hits)) \in Seq(Nat)
      /\ Len(SubSeq(hits, gone + 1, Len(hits))) =
            IF gone + 1 <= Len(hits) THEN Len(hits) - (gone + 1) + 1 ELSE 0
      /\ \A i \in 1 .. Len(hits) - (gone + 1) + 1 :
            SubSeq(hits, gone + 1, Len(hits))[i] = hits[gone + 1 + i - 1]
    BY <1>7, SubSeqProperties
<1>9. /\ InWindow(hits) \in Seq(Nat)
      /\ Len(InWindow(hits)) = Len(hits) - gone
      /\ \A k \in 1 .. Len(hits) - gone : InWindow(hits)[k] = hits[gone + k]
    BY ONLY <1>6, <1>8, gone \in 0 .. Len(hits), Len(hits) \in Nat
<1> QED
    BY <1>5, <1>9

\* What is left is in the window and in the order it was in.
LEMMA WindowOfOrdered ==
    ASSUME NEW hits \in Seq(Nat), OldestFirst(hits)
    PROVE  /\ InWindow(hits) \in Seq(0 .. Minute)
           /\ OldestFirst(InWindow(hits))
           /\ Len(InWindow(hits)) <= Len(hits)
<1> USE PaceAssumption
<1> DEFINE s == InWindow(hits)
<1>1. PICK gone \in 0 .. Len(hits) :
         /\ gone < Len(hits) => hits[gone + 1] <= Minute
         /\ s \in Seq(Nat) /\ Len(s) = Len(hits) - gone
         /\ \A k \in 1 .. Len(hits) - gone : s[k] = hits[gone + k]
    BY WindowIs
<1> HIDE DEF s
<1>2. ASSUME NEW k \in 1 .. Len(s) PROVE s[k] \in 0 .. Minute
    <2>1. /\ gone + 1 \in 1 .. Len(hits) /\ gone + k \in 1 .. Len(hits)
          /\ gone + 1 <= gone + k /\ gone < Len(hits) /\ k \in 1 .. Len(hits) - gone
        BY <1>1
    <2>2. hits[gone + 1] >= hits[gone + k] /\ hits[gone + 1] <= Minute
        BY <1>1, <2>1 DEF OldestFirst
    <2>3. hits[gone + 1] \in Nat /\ hits[gone + k] \in Nat
        BY ONLY <2>1, hits \in Seq(Nat), ElementOfSeq, Zenon
    <2>4. s[k] = hits[gone + k]
        BY ONLY <1>1, <2>1, Zenon
    <2> QED
        BY ONLY <2>2, <2>3, <2>4, Minute \in Nat
<1>3. s \in Seq(0 .. Minute)
    BY <1>1, <1>2, SeqOfParts
<1>4. ASSUME NEW i \in 1 .. Len(s), NEW j \in 1 .. Len(s), i <= j
      PROVE  s[i] >= s[j]
    <2>1. /\ gone + i \in 1 .. Len(hits) /\ gone + j \in 1 .. Len(hits)
          /\ gone + i <= gone + j
          /\ i \in 1 .. Len(hits) - gone /\ j \in 1 .. Len(hits) - gone
        BY <1>1, <1>4
    <2>2. hits[gone + i] >= hits[gone + j]
        BY <2>1 DEF OldestFirst
    <2> QED
        BY ONLY <1>1, <2>1, <2>2, Zenon
<1> QED
    BY <1>1, <1>3, <1>4 DEF s, OldestFirst

\* Each download is a hit: the k-th last hit is at least as late as the k-th last download.
Covers(hits, downloads) ==
    /\ Len(downloads) <= Len(hits)
    /\ \A k \in 1 .. Len(downloads) :
          hits[Len(hits) - Len(downloads) + k] <= downloads[k]

LEMMA WindowCovers ==
    ASSUME NEW hits \in Seq(Nat), NEW downloads \in Seq(0 .. Minute), Covers(hits, downloads)
    PROVE  Covers(InWindow(hits), downloads)
<1> USE PaceAssumption
<1> DEFINE s == InWindow(hits)
<1>1. PICK gone \in 0 .. Len(hits) :
         /\ \A k \in 1 .. gone : hits[k] > Minute
         /\ s \in Seq(Nat) /\ Len(s) = Len(hits) - gone
         /\ \A k \in 1 .. Len(hits) - gone : s[k] = hits[gone + k]
    BY WindowIs
<1> HIDE DEF s
<1>2. Len(downloads) <= Len(s)
    <2>1. CASE Len(downloads) = 0
        BY <1>1, <2>1
    <2>2. CASE Len(downloads) > 0
        <3> DEFINE i == Len(hits) - Len(downloads) + 1
        <3>1. i \in 1 .. Len(hits) /\ hits[i] <= downloads[1] /\ downloads[1] <= Minute
            BY <2>2, SMTT(30) DEF Covers
        <3>2. ~(hits[i] > Minute)
            BY <3>1, SMTT(30)
        <3>3. i > gone
            BY <1>1, <3>1, <3>2
        <3> QED
            BY <1>1, <3>3
    <2> QED
        BY <2>1, <2>2
<1>3. ASSUME NEW k \in 1 .. Len(downloads)
      PROVE  s[Len(s) - Len(downloads) + k] <= downloads[k]
    <2>1. /\ Len(s) - Len(downloads) + k \in 1 .. Len(hits) - gone
          /\ gone + (Len(s) - Len(downloads) + k) = Len(hits) - Len(downloads) + k
        BY <1>1, <1>2
    <2> QED
        BY <1>1, <2>1 DEF Covers
<1> QED
    BY <1>2, <1>3 DEF Covers, s

LEMMA HitOnly ==
    ASSUME NEW hits \in Seq(Nat), OldestFirst(hits),
           NEW downloads \in Seq(Nat), Covers(hits, downloads)
    PROVE  Covers(Append(hits, 0), downloads)
<1> DEFINE s == Append(hits, 0)
<1>1. /\ Len(hits) \in Nat /\ Len(downloads) \in Nat /\ Len(downloads) <= Len(hits)
      /\ Len(s) = Len(hits) + 1 /\ s[Len(hits) + 1] = 0
      /\ \A k \in 1 .. Len(hits) : s[k] = hits[k] /\ hits[k] \in Nat
      /\ \A k \in 1 .. Len(downloads) : downloads[k] \in Nat
    BY SMTT(30) DEF Covers
<1> HIDE DEF s
<1>2. ASSUME NEW k \in 1 .. Len(downloads)
      PROVE  s[Len(s) - Len(downloads) + k] <= downloads[k]
    <2>1. CASE k = Len(downloads)
        BY ONLY <1>1, <2>1, k \in 1 .. Len(downloads)
    <2>2. CASE k < Len(downloads)
        <3> DEFINE i == Len(hits) - Len(downloads) + k
        <3>1. /\ i \in 1 .. Len(hits) /\ i + 1 \in 1 .. Len(hits) /\ i <= i + 1
              /\ Len(s) - Len(downloads) + k = i + 1
            BY ONLY <1>1, <2>2, k \in 1 .. Len(downloads)
        <3>2. hits[i] <= downloads[k]
            BY DEF Covers
        <3> HIDE DEF i
        <3>3. hits[i] >= hits[i + 1]
            BY ONLY <3>1, OldestFirst(hits) DEF OldestFirst
        <3>4. /\ hits[i] \in Nat /\ hits[i + 1] \in Nat /\ downloads[k] \in Nat
              /\ s[i + 1] = hits[i + 1]
            BY ONLY <1>1, <3>1, k \in 1 .. Len(downloads)
        <3>5. s[i + 1] <= downloads[k]
            BY ONLY <3>2, <3>3, <3>4, SMTT(30)
        <3> QED
            BY ONLY <3>1, <3>5, Zenon
    <2> QED
        BY <1>1, <2>1, <2>2
<1>3. Covers(s, downloads)
    BY ONLY <1>1, <1>2 DEF Covers
<1> QED
    BY ONLY <1>3 DEF s

LEMMA HitAndDownload ==
    ASSUME NEW hits \in Seq(Nat), NEW downloads \in Seq(Nat), Covers(hits, downloads)
    PROVE  Covers(Append(hits, 0), Append(downloads, 0))
<1> DEFINE s == Append(hits, 0)
           d == Append(downloads, 0)
<1>1. /\ Len(s) = Len(hits) + 1 /\ s[Len(hits) + 1] = 0 /\ Len(hits) \in Nat
      /\ \A k \in 1 .. Len(hits) : s[k] = hits[k]
    OBVIOUS
<1>2. /\ Len(d) = Len(downloads) + 1 /\ d[Len(downloads) + 1] = 0
      /\ Len(downloads) \in Nat /\ Len(downloads) <= Len(hits)
      /\ \A k \in 1 .. Len(downloads) : d[k] = downloads[k]
    BY DEF Covers
<1> HIDE DEF s, d
<1>3. ASSUME NEW k \in 1 .. Len(d)
      PROVE  s[Len(s) - Len(d) + k] <= d[k]
    <2>1. CASE k = Len(d)
        BY ONLY <1>1, <1>2, <2>1
    <2>2. CASE k < Len(d)
        <3>1. /\ k \in 1 .. Len(downloads)
              /\ Len(hits) - Len(downloads) + k \in 1 .. Len(hits)
              /\ Len(s) - Len(d) + k = Len(hits) - Len(downloads) + k
            BY ONLY <1>1, <1>2, <2>2, k \in 1 .. Len(d)
        <3>2. hits[Len(hits) - Len(downloads) + k] <= downloads[k]
            BY <3>1 DEF Covers
        <3>3. s[Len(s) - Len(d) + k] = hits[Len(hits) - Len(downloads) + k] /\ d[k] = downloads[k]
            BY ONLY <1>1, <1>2, <3>1, Zenon
        <3> QED
            BY ONLY <3>2, <3>3, Zenon
    <2>3. k = Len(d) \/ k < Len(d)
        BY ONLY <1>2, k \in 1 .. Len(d)
    <2> QED
        BY ONLY <2>1, <2>2, <2>3, Zenon
<1>4. Covers(s, d)
    BY ONLY <1>1, <1>2, <1>3 DEF Covers
<1> QED
    BY ONLY <1>4 DEF s, d

LEMMA HitKept ==
    ASSUME NEW hits \in Seq(Nat), OldestFirst(hits)
    PROVE  OldestFirst(Append(hits, 0))
BY DEF OldestFirst

-----------------------------------------------------------------------------
(* The hooks before a fetch. *)

Throttles == [delay : MinInterval .. MaxInterval, left : 0 .. MaxWait]

Paces ==
    [throttle : Throttles, interval : 0 .. Interval, hits : Seq(0 .. Minute + 1),
     crawl : 0 .. CrawlDelay]

GoodPace(p) == p \in Paces /\ Len(p.hits) <= Rate /\ OldestFirst(p.hits)

LEMMA WithInterval ==
    ASSUME NEW p \in Paces
    PROVE  LET q == [p EXCEPT !.interval = Interval] IN
           q \in Paces /\ q.hits = p.hits /\ q.throttle = p.throttle
<1>1. Interval \in 0 .. Interval
    BY PaceAssumption
<1> QED
    BY ONLY <1>1, p \in Paces DEF Paces

LEMMA WithCrawl ==
    ASSUME NEW p \in Paces
    PROVE  LET q == [p EXCEPT !.crawl = CrawlDelay] IN
           q \in Paces /\ q.hits = p.hits /\ q.throttle = p.throttle
<1>1. CrawlDelay \in 0 .. CrawlDelay
    BY PaceAssumption
<1> QED
    BY ONLY <1>1, p \in Paces DEF Paces

LEMMA LeftIs ==
    ASSUME NEW p, GoodPace(p)
    PROVE  p.throttle.left \in Nat /\ p.throttle.left <= MaxWait
<1>1. p.throttle.left \in 0 .. MaxWait
    BY DEF GoodPace, Paces, Throttles
<1> QED
    BY ONLY <1>1, MaxWaitIs

LEMMA HitsAreTimes ==
    ASSUME NEW p \in Paces
    PROVE  p.hits \in Seq(Nat)
<1>1. p.hits \in Seq(0 .. Minute + 1)
    BY DEF Paces
<1>2. 0 .. Minute + 1 \subseteq Nat
    BY PaceAssumption
<1> QED
    BY <1>1, <1>2, SeqMonotonic

LEMMA WaitIs ==
    ASSUME NEW p, NEW time \in 0 .. MaxWait
    PROVE  Wait(p, time).pace = p /\ Wait(p, time).wait \in 1 .. MaxWait
<1>1. Max({1, time}) = IF 1 >= time THEN 1 ELSE time
    BY MaxOfTwo, MaxWaitIs, 1 \in Nat, time \in Nat
<1> QED
    BY <1>1, MaxWaitIs DEF Wait

LEMMA CurrentDelayIs ==
    ASSUME NEW throttle \in Throttles
    PROVE  CurrentDelay(throttle) \in MinInterval .. MaxInterval
BY PaceAssumption DEF CurrentDelay, Throttles

LEMMA AutoThrottleIs ==
    ASSUME NEW p, GoodPace(p)
    PROVE  /\ GoodPace(AutoThrottle(p).pace)
           /\ AutoThrottle(p).wait \in 0 .. MaxWait
           /\ AutoThrottle(p).wait = 0 => p.throttle.left = 0
           /\ AutoThrottle(p).pace.hits = p.hits
           /\ AutoThrottle(p).pace.throttle.left >= p.throttle.left
<1>1. p \in Paces /\ p.throttle \in Throttles /\ p.throttle.left \in 0 .. MaxWait
    BY DEF GoodPace, Paces, Throttles
<1>2. CASE p.throttle.left > 0
    <2>1. AutoThrottle(p) = Wait(p, p.throttle.left)
        BY <1>2 DEF AutoThrottle
    <2> QED
        BY <1>1, <2>1, WaitIs, MaxWaitIs
<1>3. CASE ~(p.throttle.left > 0)
    <2> DEFINE delay == CurrentDelay(p.throttle)
               q == [p EXCEPT !.throttle.left = delay]
    <2>1. AutoThrottle(p) = Pass(q)
        BY <1>3 DEF AutoThrottle
    <2>2. delay \in 0 .. MaxWait
        BY <1>1, CurrentDelayIs, MaxWaitIs, PaceAssumption
    <2> HIDE DEF delay
    <2>3. p.throttle.left = 0
        BY <1>1, <1>3, MaxWaitIs
    <2>4. q \in Paces /\ q.hits = p.hits /\ q.throttle.left = delay
        BY <1>1, <2>2 DEF Paces, Throttles
    <2>5. GoodPace(q)
        BY <2>4 DEF GoodPace
    <2> HIDE DEF q
    <2>6. Pass(q).pace = q /\ Pass(q).wait = 0
        BY DEF Pass
    <2> QED
        BY <2>1, <2>2, <2>3, <2>4, <2>5, <2>6, MaxWaitIs
<1> QED
    BY <1>2, <1>3

LEMMA IntervalHookIs ==
    ASSUME NEW p, GoodPace(p)
    PROVE  /\ GoodPace(IntervalHook(p).pace)
           /\ IntervalHook(p).wait \in 0 .. MaxWait
           /\ IntervalHook(p).pace.hits = p.hits
           /\ IntervalHook(p).pace.throttle = p.throttle
<1>1. p \in Paces /\ p.interval \in 0 .. MaxWait
    BY MaxWaitIs, PaceAssumption DEF GoodPace, Paces
<1>2. CASE p.interval > 0
    <2>1. IntervalHook(p) = Wait(p, p.interval)
        BY <1>2 DEF IntervalHook
    <2> QED
        BY <1>1, <2>1, WaitIs, MaxWaitIs
<1>3. CASE ~(p.interval > 0)
    <2> DEFINE q == [p EXCEPT !.interval = Interval]
    <2>1. IntervalHook(p) = Pass(q)
        BY <1>3 DEF IntervalHook
    <2>2. q \in Paces /\ q.hits = p.hits /\ q.throttle = p.throttle
        BY <1>1, WithInterval
    <2>3. GoodPace(q)
        BY <2>2 DEF GoodPace
    <2> HIDE DEF q
    <2>4. Pass(q).pace = q /\ Pass(q).wait = 0
        BY DEF Pass
    <2> QED
        BY <2>1, <2>2, <2>3, <2>4, MaxWaitIs
<1> QED
    BY <1>2, <1>3

\* What a pace is with other hits.
LEMMA WithHits ==
    ASSUME NEW p, GoodPace(p),
           NEW hits \in Seq(0 .. Minute + 1), Len(hits) <= Rate, OldestFirst(hits)
    PROVE  /\ GoodPace([p EXCEPT !.hits = hits])
           /\ [p EXCEPT !.hits = hits].hits = hits
           /\ [p EXCEPT !.hits = hits].throttle = p.throttle
<1>1. p \in Paces
    BY DEF GoodPace
<1>2. [p EXCEPT !.hits = hits] \in Paces /\ [p EXCEPT !.hits = hits].hits = hits
    BY <1>1 DEF Paces
<1> QED
    BY <1>1, <1>2 DEF GoodPace, Paces

LEMMA RateLimitIs ==
    ASSUME NEW p, GoodPace(p)
    PROVE  /\ GoodPace(RateLimit(p).pace)
           /\ RateLimit(p).wait \in 0 .. MaxWait
           /\ RateLimit(p).wait > 0 => RateLimit(p).pace.hits = InWindow(p.hits)
           /\ RateLimit(p).wait = 0 => RateLimit(p).pace.hits = Append(InWindow(p.hits), 0)
           /\ RateLimit(p).pace.throttle = p.throttle
<1> DEFINE hits == InWindow(p.hits)
<1>1. p \in Paces /\ p.hits \in Seq(Nat) /\ OldestFirst(p.hits) /\ Len(p.hits) <= Rate
    BY HitsAreTimes DEF GoodPace
<1>2. /\ hits \in Seq(0 .. Minute) /\ OldestFirst(hits)
      /\ Len(hits) <= Len(p.hits)
    BY <1>1, WindowOfOrdered
<1>3. hits \in Seq(0 .. Minute + 1) /\ hits \in Seq(Nat)
      /\ Len(p.hits) \in Nat /\ Len(hits) \in Nat /\ Rate \in Nat \ {0} /\ Minute \in Nat
    <2>1. 0 .. Minute \subseteq 0 .. Minute + 1 /\ 0 .. Minute \subseteq Nat
        BY PaceAssumption
    <2> QED
        BY <1>1, <1>2, <2>1, SeqMonotonic, LenProperties, PaceAssumption
<1>4. CASE Len(hits) >= Rate
    <2> DEFINE q == [p EXCEPT !.hits = hits]
    <2>1. RateLimit(p) = Wait(q, Minute - Head(hits))
        BY <1>4 DEF RateLimit
    <2> HIDE DEF hits
    <2>2. hits # <<>>
        BY <1>3, <1>4
    <2>3. Head(hits) \in 0 .. Minute
        BY <1>2, <2>2, HeadTailProperties, Zenon
    <2>4. Minute - Head(hits) \in 0 .. MaxWait
        BY ONLY <1>3, <2>3, MaxWaitIs
    <2>5. Len(hits) <= Rate
        BY <1>1, <1>2, <1>3
    <2>6. GoodPace(q) /\ q.hits = hits /\ q.throttle = p.throttle
        BY <1>2, <1>3, <2>5, WithHits
    <2> HIDE DEF q
    <2>7. RateLimit(p).pace = q /\ RateLimit(p).wait \in 1 .. MaxWait
        BY <2>1, <2>4, WaitIs
    <2> QED
        BY <2>6, <2>7, MaxWaitIs DEF hits
<1>5. CASE ~(Len(hits) >= Rate)
    <2> DEFINE more == Append(hits, 0)
               q == [p EXCEPT !.hits = more]
    <2>1. RateLimit(p) = Pass(q)
        BY <1>5 DEF RateLimit
    <2> HIDE DEF hits
    <2>2. more \in Seq(0 .. Minute + 1) /\ Len(more) = Len(hits) + 1
        BY <1>3
    <2>3. Len(more) <= Rate
        BY <1>3, <1>5, <2>2
    <2>4. OldestFirst(more)
        BY <1>2, <1>3, HitKept
    <2> HIDE DEF more
    <2>5. GoodPace(q) /\ q.hits = more /\ q.throttle = p.throttle
        BY <2>2, <2>3, <2>4, WithHits
    <2> HIDE DEF q
    <2>6. RateLimit(p).pace = q /\ RateLimit(p).wait = 0
        BY <2>1 DEF Pass
    <2> QED
        BY <2>5, <2>6, MaxWaitIs DEF hits, more
<1> QED
    BY <1>4, <1>5

LEMMA CrawlIs ==
    ASSUME NEW p, GoodPace(p)
    PROVE  /\ GoodPace(Crawl(p).pace)
           /\ Crawl(p).wait \in 0 .. MaxWait
           /\ Crawl(p).pace.hits = p.hits
           /\ Crawl(p).pace.throttle = p.throttle
<1>1. p \in Paces /\ p.crawl \in 0 .. MaxWait /\ 0 \in 0 .. MaxWait
    BY MaxWaitIs, PaceAssumption DEF GoodPace, Paces
<1>2. CASE CrawlDelay = 0
    BY <1>1, <1>2 DEF Crawl, Pass
<1>3. CASE CrawlDelay # 0 /\ p.crawl > 0
    <2>1. Crawl(p) = Wait(p, p.crawl)
        BY <1>3 DEF Crawl
    <2> QED
        BY <1>1, <2>1, WaitIs, MaxWaitIs
<1>4. CASE CrawlDelay # 0 /\ ~(p.crawl > 0)
    <2> DEFINE q == [p EXCEPT !.crawl = CrawlDelay]
    <2>1. Crawl(p) = Pass(q)
        BY <1>4 DEF Crawl
    <2>2. q \in Paces /\ q.hits = p.hits /\ q.throttle = p.throttle
        BY <1>1, WithCrawl
    <2>3. GoodPace(q)
        BY <2>2 DEF GoodPace
    <2> HIDE DEF q
    <2>4. Pass(q).pace = q /\ Pass(q).wait = 0
        BY DEF Pass
    <2> QED
        BY <1>1, <2>1, <2>2, <2>3, <2>4
<1> QED
    BY <1>2, <1>3, <1>4

\* The chain: a request passes only if every hook lets it, and then it is a hit.
LEMMA BeforeFetchIs ==
    ASSUME NEW p, GoodPace(p)
    PROVE  LET answer == BeforeFetch(p) IN
           /\ GoodPace(answer.pace)
           /\ answer.wait \in 0 .. MaxWait
           /\ answer.wait = 0 => p.throttle.left = 0
           /\ answer.wait = 0 => answer.pace.hits = Append(InWindow(p.hits), 0)
           /\ answer.pace.hits \in {p.hits, InWindow(p.hits), Append(InWindow(p.hits), 0)}
           /\ answer.pace.throttle.left >= p.throttle.left
<1> DEFINE throttled == AutoThrottle(p)
           spaced == IntervalHook(throttled.pace)
           limited == RateLimit(spaced.pace)
           crawled == Crawl(limited.pace)
<1>1. BeforeFetch(p) = Then(throttled, Then(spaced, Then(limited, crawled)))
    BY DEF BeforeFetch
<1>2. /\ GoodPace(throttled.pace) /\ throttled.wait \in 0 .. MaxWait
      /\ throttled.wait = 0 => p.throttle.left = 0
      /\ throttled.pace.hits = p.hits
      /\ throttled.pace.throttle.left >= p.throttle.left
    BY AutoThrottleIs
<1> HIDE DEF throttled
<1>3. /\ GoodPace(spaced.pace) /\ spaced.wait \in 0 .. MaxWait
      /\ spaced.pace.hits = throttled.pace.hits
      /\ spaced.pace.throttle = throttled.pace.throttle
    BY <1>2, IntervalHookIs
<1> HIDE DEF spaced
<1>4. /\ GoodPace(limited.pace) /\ limited.wait \in 0 .. MaxWait
      /\ limited.wait > 0 => limited.pace.hits = InWindow(spaced.pace.hits)
      /\ limited.wait = 0 => limited.pace.hits = Append(InWindow(spaced.pace.hits), 0)
      /\ limited.pace.throttle = spaced.pace.throttle
    BY <1>3, RateLimitIs
<1> HIDE DEF limited
<1>5. /\ GoodPace(crawled.pace) /\ crawled.wait \in 0 .. MaxWait
      /\ crawled.pace.hits = limited.pace.hits
      /\ crawled.pace.throttle = limited.pace.throttle
    BY <1>4, CrawlIs
<1> HIDE DEF crawled
<1>6. MaxWait \in Nat
    BY MaxWaitIs
<1>7. CASE throttled.wait > 0
    <2>1. BeforeFetch(p) = throttled
        BY <1>1, <1>7 DEF Then
    <2> QED
        BY <1>2, <1>6, <1>7, <2>1
<1>8. CASE ~(throttled.wait > 0) /\ spaced.wait > 0
    <2>1. BeforeFetch(p) = spaced
        BY <1>1, <1>8 DEF Then
    <2> QED
        BY <1>2, <1>3, <1>6, <1>8, <2>1
<1>9. CASE ~(throttled.wait > 0) /\ ~(spaced.wait > 0) /\ limited.wait > 0
    <2>1. BeforeFetch(p) = limited
        BY <1>1, <1>9 DEF Then
    <2> QED
        BY <1>2, <1>3, <1>4, <1>6, <1>9, <2>1
<1>10. CASE ~(throttled.wait > 0) /\ ~(spaced.wait > 0) /\ ~(limited.wait > 0)
    <2>1. BeforeFetch(p) = crawled
        BY <1>1, <1>10 DEF Then
    <2>2. throttled.wait = 0 /\ limited.wait = 0
        BY <1>2, <1>4, <1>6, <1>10
    <2> QED
        BY <1>2, <1>3, <1>4, <1>5, <1>6, <2>1, <2>2
<1> QED
    BY <1>7, <1>8, <1>9, <1>10

-----------------------------------------------------------------------------
(* The answer, and the clock. *)

LEMMA ClampIs ==
    ASSUME NEW delay \in Nat
    PROVE  Clamp(delay) \in MinInterval .. MaxInterval
<1>1. Min({MaxInterval, delay}) = IF MaxInterval <= delay THEN MaxInterval ELSE delay
    BY MinOfTwo, PaceAssumption
<1> DEFINE low == Min({MaxInterval, delay})
<1>2. low \in Nat /\ low <= MaxInterval
    BY <1>1, PaceAssumption
<1> HIDE DEF low
<1>3. Max({MinInterval, low}) = IF MinInterval >= low THEN MinInterval ELSE low
    BY <1>2, MaxOfTwo, PaceAssumption
<1> QED
    BY <1>2, <1>3, PaceAssumption DEF Clamp, low

LEMMA SuccessDelayIs ==
    ASSUME NEW throttle \in Throttles, NEW latency \in Nat
    PROVE  SuccessDelay(throttle, latency) \in MinInterval .. MaxInterval
<1> DEFINE current == CurrentDelay(throttle)
           clamped == Clamp(latency)
<1>1. current \in Nat /\ clamped \in Nat
    BY CurrentDelayIs, ClampIs, PaceAssumption
<1>2. SuccessDelay(throttle, latency) =
         IF current = 0 THEN clamped ELSE Clamp((current + clamped) \div 2)
    BY DEF SuccessDelay
<1>3. clamped \in MinInterval .. MaxInterval
    BY ClampIs
<1> HIDE DEF current, clamped
<1>4. (current + clamped) \div 2 \in Nat
    BY <1>1
<1>5. Clamp((current + clamped) \div 2) \in MinInterval .. MaxInterval
    BY <1>4, ClampIs
<1> QED
    BY <1>2, <1>3, <1>5

LEMMA ErrorDelayIs ==
    ASSUME NEW throttle \in Throttles
    PROVE  ErrorDelay(throttle) \in MinInterval .. MaxInterval
<1> DEFINE base == Max({1, MinInterval, CurrentDelay(throttle)})
<1>1. CurrentDelay(throttle) \in Nat /\ MinInterval \in Nat /\ 1 \in Nat
    BY CurrentDelayIs, PaceAssumption
<1>2. base \in Nat
    BY <1>1, MaxOfThree
<1>3. ErrorDelay(throttle) = Clamp(base * ErrorRatio)
    BY DEF ErrorDelay
<1> HIDE DEF base
<1>4. base * ErrorRatio \in Nat
    BY <1>2, PaceAssumption
<1> QED
    BY <1>3, <1>4, ClampIs

\* An answer only moves the time of auto throttle, and only to a later moment.
LEMMA FinishRequestIs ==
    ASSUME NEW p, GoodPace(p), NEW failed \in BOOLEAN, NEW latency \in Nat
    PROVE  LET q == FinishRequest(p, failed, latency) IN
           /\ GoodPace(q)
           /\ q.hits = p.hits
           /\ q.throttle.left >= p.throttle.left
           /\ q.throttle.left >= q.throttle.delay
           /\ q.throttle.delay \in MinInterval .. MaxInterval
<1> DEFINE delay == IF failed THEN ErrorDelay(p.throttle) ELSE SuccessDelay(p.throttle, latency)
           left == Max({p.throttle.left, delay})
           q == [p EXCEPT !.throttle = [delay |-> delay, left |-> left]]
<1>1. p \in Paces /\ p.throttle \in Throttles /\ p.throttle.left \in 0 .. MaxWait
    BY DEF GoodPace, Paces, Throttles
<1>2. delay \in MinInterval .. MaxInterval
    BY <1>1, SuccessDelayIs, ErrorDelayIs
<1>3. FinishRequest(p, failed, latency) = q
    BY <1>1 DEF FinishRequest, SetDelay, Paces
<1> HIDE DEF delay
<1>4. /\ delay \in Nat /\ delay <= MaxWait /\ p.throttle.left \in Nat
      /\ p.throttle.left <= MaxWait /\ MaxWait \in Nat
    BY <1>1, <1>2, MaxWaitIs, PaceAssumption
<1>5. left = IF p.throttle.left >= delay THEN p.throttle.left ELSE delay
    BY <1>4, MaxOfTwo
<1>6. left \in 0 .. MaxWait /\ left >= p.throttle.left /\ left >= delay
    BY ONLY <1>4, <1>5
<1> HIDE DEF left
<1>7. /\ q \in Paces /\ q.hits = p.hits
      /\ q.throttle.left = left /\ q.throttle.delay = delay
    BY <1>1, <1>2, <1>6 DEF Paces, Throttles
<1>8. GoodPace(q)
    BY <1>7 DEF GoodPace
<1> HIDE DEF q
<1> QED
    BY <1>2, <1>3, <1>6, <1>7, <1>8

LEMMA LessIs ==
    ASSUME NEW bound \in Nat, NEW time \in 0 .. bound
    PROVE  Less(time) \in 0 .. bound /\ (time > 0 => Less(time) = time - 1)
BY DEF Less

\* The hits a tick later.
OlderHits(hits) == [k \in DOMAIN hits |-> Min({Minute + 1, hits[k] + 1})]

LEMMA OlderHitsAre ==
    ASSUME NEW hits \in Seq(0 .. Minute + 1), OldestFirst(hits)
    PROVE  /\ OlderHits(hits) \in Seq(0 .. Minute + 1)
           /\ OldestFirst(OlderHits(hits))
           /\ Len(OlderHits(hits)) = Len(hits)
           /\ \A k \in 1 .. Len(hits) : OlderHits(hits)[k] <= hits[k] + 1
<1> DEFINE s == OlderHits(hits)
           Capped(age) == IF Minute + 1 <= age + 1 THEN Minute + 1 ELSE age + 1
<1>1. Len(hits) \in Nat /\ DOMAIN hits = 1 .. Len(hits)
      /\ \A k \in 1 .. Len(hits) : hits[k] \in 0 .. Minute + 1
    BY LenProperties, ElementOfSeq
<1>2. ASSUME NEW age \in 0 .. Minute + 1
      PROVE  /\ Min({Minute + 1, age + 1}) = Capped(age)
             /\ Capped(age) \in 0 .. Minute + 1 /\ Capped(age) <= age + 1
    <2>1. Minute + 1 \in Nat /\ age + 1 \in Nat
        BY PaceAssumption
    <2>2. Min({Minute + 1, age + 1}) = Capped(age)
        BY <2>1, MinOfTwo
    <2> QED
        BY <2>1, <2>2, PaceAssumption
<1>3. s = [k \in 1 .. Len(hits) |-> Capped(hits[k])]
    BY <1>1, <1>2 DEF OlderHits
<1>4. s \in [1 .. Len(hits) -> 0 .. Minute + 1]
    BY <1>1, <1>2, <1>3
<1> HIDE DEF s
<1>5. s \in Seq(0 .. Minute + 1) /\ Len(s) = Len(hits)
    BY <1>1, <1>4, SeqOfFunction
<1>6. ASSUME NEW i \in 1 .. Len(s), NEW j \in 1 .. Len(s), i <= j
      PROVE  s[i] >= s[j]
    <2>1. hits[i] >= hits[j] /\ hits[i] \in 0 .. Minute + 1 /\ hits[j] \in 0 .. Minute + 1
        BY <1>1, <1>5, <1>6 DEF OldestFirst
    <2>2. s[i] = Capped(hits[i]) /\ s[j] = Capped(hits[j])
        BY <1>3, <1>5
    <2> QED
        BY <2>1, <2>2, PaceAssumption, SMTT(30)
<1>7. \A k \in 1 .. Len(hits) : s[k] <= hits[k] + 1
    BY <1>1, <1>2, <1>3
<1> QED
    BY <1>5, <1>6, <1>7 DEF s, OldestFirst

LEMMA LaterIs ==
    ASSUME NEW p, GoodPace(p)
    PROVE  /\ GoodPace(Later(p))
           /\ Later(p).hits = OlderHits(p.hits)
           /\ Later(p).throttle.left = Less(p.throttle.left)
<1> DEFINE q == Later(p)
<1>1. /\ p \in Paces /\ p.throttle \in Throttles /\ p.interval \in 0 .. Interval
      /\ p.crawl \in 0 .. CrawlDelay /\ p.hits \in Seq(0 .. Minute + 1)
      /\ p.throttle.left \in 0 .. MaxWait
      /\ OldestFirst(p.hits) /\ Len(p.hits) <= Rate
    BY DEF GoodPace, Paces, Throttles
<1>2. /\ Less(p.throttle.left) \in 0 .. MaxWait
      /\ Less(p.interval) \in 0 .. Interval /\ Less(p.crawl) \in 0 .. CrawlDelay
    BY <1>1, LessIs, MaxWaitIs, PaceAssumption
<1>3. /\ OlderHits(p.hits) \in Seq(0 .. Minute + 1) /\ OldestFirst(OlderHits(p.hits))
      /\ Len(OlderHits(p.hits)) = Len(p.hits)
    BY <1>1, OlderHitsAre
<1>4. q = [throttle |-> [p.throttle EXCEPT !.left = Less(@)], interval |-> Less(p.interval),
           hits |-> OlderHits(p.hits), crawl |-> Less(p.crawl)]
    BY DEF Later, OlderHits
<1>5. /\ q.throttle \in Throttles /\ q.throttle.left = Less(p.throttle.left)
      /\ q.hits = OlderHits(p.hits)
    BY <1>1, <1>2, <1>4 DEF Throttles
<1>6. q \in Paces
    BY <1>2, <1>3, <1>4, <1>5 DEF Paces
<1> QED
    BY <1>1, <1>3, <1>5, <1>6 DEF GoodPace

\* What is left of the downloads of the last minute, a tick later, is covered by what is
\* left of the hits.
Older(downloads) == [k \in DOMAIN downloads |-> downloads[k] + 1]

LEMMA OlderAre ==
    ASSUME NEW downloads \in Seq(0 .. Minute), OldestFirst(downloads)
    PROVE  /\ Older(downloads) \in Seq(Nat) /\ OldestFirst(Older(downloads))
           /\ Len(Older(downloads)) = Len(downloads)
           /\ \A k \in 1 .. Len(downloads) : Older(downloads)[k] = downloads[k] + 1
<1> DEFINE s == Older(downloads)
<1>1. Len(downloads) \in Nat /\ DOMAIN downloads = 1 .. Len(downloads)
      /\ \A k \in 1 .. Len(downloads) : downloads[k] \in 0 .. Minute
    BY LenProperties, ElementOfSeq
<1>2. s \in [1 .. Len(downloads) -> Nat]
      /\ \A k \in 1 .. Len(downloads) : s[k] = downloads[k] + 1
    BY <1>1, PaceAssumption DEF Older
<1> HIDE DEF s
<1>3. s \in Seq(Nat) /\ Len(s) = Len(downloads)
    BY <1>1, <1>2, SeqOfFunction
<1>4. ASSUME NEW i \in 1 .. Len(s), NEW j \in 1 .. Len(s), i <= j
      PROVE  s[i] >= s[j]
    <2>1. downloads[i] >= downloads[j] /\ downloads[i] \in Nat /\ downloads[j] \in Nat
        BY <1>1, <1>3, <1>4, PaceAssumption DEF OldestFirst
    <2>2. s[i] = downloads[i] + 1 /\ s[j] = downloads[j] + 1
        BY <1>2, <1>3
    <2> QED
        BY ONLY <2>1, <2>2
<1> QED
    BY <1>2, <1>3, <1>4 DEF s, OldestFirst

LEMMA TickCovers ==
    ASSUME NEW hits \in Seq(0 .. Minute + 1), OldestFirst(hits),
           NEW downloads \in Seq(0 .. Minute), OldestFirst(downloads),
           Covers(hits, downloads)
    PROVE  /\ Covers(OlderHits(hits), InWindow(Older(downloads)))
           /\ InWindow(Older(downloads)) \in Seq(0 .. Minute)
           /\ OldestFirst(InWindow(Older(downloads)))
<1> DEFINE h == OlderHits(hits)
           d == Older(downloads)
           w == InWindow(d)
<1>1. Len(h) = Len(hits) /\ \A k \in 1 .. Len(hits) : h[k] <= hits[k] + 1 /\ h[k] \in Nat
    <2>1. h \in Seq(0 .. Minute + 1) /\ Len(h) = Len(hits)
          /\ \A k \in 1 .. Len(hits) : h[k] <= hits[k] + 1
        BY OlderHitsAre
    <2> HIDE DEF h
    <2>2. \A k \in 1 .. Len(hits) : h[k] \in 0 .. Minute + 1
        BY <2>1, ElementOfSeq
    <2> QED
        BY <2>1, <2>2, PaceAssumption
<1>2. /\ d \in Seq(Nat) /\ OldestFirst(d) /\ Len(d) = Len(downloads)
      /\ \A k \in 1 .. Len(downloads) : d[k] = downloads[k] + 1
    BY OlderAre
<1> HIDE DEF h, d
<1>3. PICK gone \in 0 .. Len(d) :
         /\ Len(w) = Len(d) - gone
         /\ \A k \in 1 .. Len(d) - gone : w[k] = d[gone + k]
    BY <1>2, WindowIs
<1>4. w \in Seq(0 .. Minute) /\ OldestFirst(w)
    BY <1>2, WindowOfOrdered
<1>5. /\ Len(hits) \in Nat /\ Len(downloads) \in Nat /\ Len(downloads) <= Len(hits)
      /\ \A k \in 1 .. Len(hits) : hits[k] \in Nat
      /\ \A k \in 1 .. Len(downloads) : downloads[k] \in Nat
    <2>1. \A k \in 1 .. Len(hits) : hits[k] \in 0 .. Minute + 1
        BY ElementOfSeq
    <2>2. \A k \in 1 .. Len(downloads) : downloads[k] \in 0 .. Minute
        BY ElementOfSeq
    <2>3. 0 .. Minute + 1 \subseteq Nat /\ 0 .. Minute \subseteq Nat
        BY PaceAssumption
    <2>4. Len(hits) \in Nat /\ Len(downloads) \in Nat
        BY LenProperties
    <2> QED
        BY ONLY <2>1, <2>2, <2>3, <2>4, Covers(hits, downloads), Zenon DEF Covers
<1> HIDE DEF w
<1>6. Len(w) <= Len(h)
    BY ONLY <1>1, <1>2, <1>3, <1>5, gone \in 0 .. Len(d)
<1>7. ASSUME NEW k \in 1 .. Len(w)
      PROVE  h[Len(h) - Len(w) + k] <= w[k]
    <2> DEFINE i == gone + k
               j == Len(hits) - Len(downloads) + i
    <2>1. /\ i \in 1 .. Len(downloads) /\ j \in 1 .. Len(hits)
          /\ k \in 1 .. Len(d) - gone
          /\ Len(h) - Len(w) + k = j
        BY ONLY <1>1, <1>2, <1>3, <1>5, gone \in 0 .. Len(d), k \in 1 .. Len(w)
    <2>2. hits[j] <= downloads[i]
        BY <2>1 DEF Covers
    <2>3. w[k] = d[i] /\ d[i] = downloads[i] + 1
        BY ONLY <1>2, <1>3, <2>1, Zenon
    <2> HIDE DEF i, j
    <2>4. /\ h[j] <= hits[j] + 1 /\ h[j] \in Nat /\ hits[j] \in Nat /\ downloads[i] \in Nat
        BY ONLY <1>1, <1>5, <2>1, Zenon
    <2>5. h[j] <= downloads[i] + 1
        <3>1. \A x, y, z \in Nat : x <= y + 1 /\ y <= z => x <= z + 1
            OBVIOUS
        <3> QED
            BY ONLY <2>2, <2>4, <3>1, Zenon
    <2> QED
        BY ONLY <2>1, <2>3, <2>5, Zenon
<1>8. Covers(h, w)
    BY ONLY <1>6, <1>7 DEF Covers
<1> QED
    BY <1>4, <1>8 DEF h, d, w

-----------------------------------------------------------------------------
(* The inductive invariant. *)

Longest == Max({MaxWait, Timeout})

LEMMA LongestIs == Longest \in Nat /\ Longest >= MaxWait /\ Longest >= Timeout
<1>1. Longest = IF MaxWait >= Timeout THEN MaxWait ELSE Timeout
    BY MaxOfTwo, MaxWaitIs, StageAssumption DEF Longest
<1> QED
    BY <1>1, MaxWaitIs, StageAssumption

Tasks ==
    [at : {"due", "fetched", "done"}, time : 0 .. Longest, since : 0 .. MaxDate,
     retries : 0 .. RetryCount, crawls : 1 .. MaxCrawls]

Entries == [last_modified : 1 .. MaxDate, body : 1 .. MaxDate, age : Nat]

Types ==
    /\ task \in [Pages -> Tasks]
    /\ GoodPace(pace)
    /\ DOMAIN cache \subseteq Pages /\ cache \in [DOMAIN cache -> Entries]
    /\ date \in [Pages -> 1 .. MaxDate]
    /\ given \in [Pages -> {"nothing", "page", "bare", "outdated"}]
    /\ quiet \in 0 .. MaxInterval
    /\ recent \in Seq(0 .. Minute) /\ OldestFirst(recent)

\* What is known of a page is not newer than the page, an entry has the body of its date,
\* and a request has no later date than the entry for its page.
Dated(p, since, entries, now) ==
    /\ since <= now
    /\ p \in DOMAIN entries =>
          /\ entries[p].body = entries[p].last_modified
          /\ entries[p].last_modified <= now
          /\ since <= entries[p].last_modified

Dates == \A p \in Pages : Dated(p, task[p].since, cache, date[p])

\* The throttle lets nothing pass before the longest delay after a failure is over.
Held == quiet <= pace.throttle.left

Counted == Covers(pace.hits, recent)

IInv == Types /\ Dates /\ Held /\ Counted /\ BodiesAreCurrent

LEMMA HitsOf ==
    ASSUME GoodPace(pace)
    PROVE  /\ pace \in Paces /\ pace.hits \in Seq(0 .. Minute + 1) /\ pace.hits \in Seq(Nat)
           /\ OldestFirst(pace.hits) /\ Len(pace.hits) <= Rate
           /\ pace.throttle.left \in 0 .. MaxWait
           /\ pace.throttle.delay \in MinInterval .. MaxInterval
BY HitsAreTimes DEF GoodPace, Paces, Throttles

LEMMA DownloadsOf ==
    ASSUME recent \in Seq(0 .. Minute)
    PROVE  recent \in Seq(Nat) /\ Len(recent) \in Nat
<1>1. 0 .. Minute \subseteq Nat
    BY PaceAssumption
<1> QED
    BY <1>1, SeqMonotonic, LenProperties

LEMMA InvariantImplies ==
    ASSUME IInv
    PROVE  TypeOK /\ RateHolds
<1>1. Types
    BY DEF IInv
<1>2. \A p \in Pages : IsTask(task[p])
    BY <1>1 DEF Types, Tasks, IsTask, Longest
<1>3. /\ pace.throttle.delay \in MinInterval .. MaxInterval
      /\ pace.throttle.left \in 0 .. MaxWait
      /\ pace.interval \in 0 .. Interval
      /\ Len(pace.hits) <= Rate
      /\ pace.crawl \in 0 .. CrawlDelay
    BY <1>1, HitsOf DEF Types, Paces
<1>4. TypeOK
    BY <1>1, <1>2, <1>3 DEF TypeOK, Types
<1>5. Len(recent) <= Len(pace.hits) /\ Len(recent) \in Nat /\ Len(pace.hits) \in Nat
    <2>1. Len(recent) <= Len(pace.hits)
        BY DEF IInv, Counted, Covers
    <2>2. recent \in Seq(0 .. Minute) /\ pace.hits \in Seq(Nat)
        BY <1>1, HitsOf DEF Types
    <2> QED
        BY <2>1, <2>2, LenProperties
<1>6. RateHolds
    BY <1>3, <1>5, PaceAssumption DEF RateHolds
<1> QED
    BY <1>4, <1>6

LEMMA CrawlBegins == Init => IInv
<1> SUFFICES ASSUME Init PROVE IInv
    OBVIOUS
<1> USE PaceAssumption, StageAssumption, MaxWaitIs, LongestIs
<1>1. task \in [Pages -> Tasks] /\ \A p \in Pages : task[p].since = 0
    BY DEF Init, NewTask, Tasks
<1>2. PICK known \in SUBSET Pages : cache = [p \in known |-> NewEntry(1)]
    BY DEF Init
<1>3. NewEntry(1) \in Entries /\ NewEntry(1).body = 1 /\ NewEntry(1).last_modified = 1
    BY DEF NewEntry, Entries
<1>4. /\ DOMAIN cache \subseteq Pages /\ cache \in [DOMAIN cache -> Entries]
      /\ \A p \in DOMAIN cache : cache[p] = NewEntry(1)
    BY <1>2, <1>3
<1>5. recent = <<>> /\ pace = NewPace /\ quiet = 0
    BY DEF Init
<1>6. /\ <<>> \in Seq(0 .. Minute) /\ <<>> \in Seq(0 .. Minute + 1)
      /\ Len(<<>>) = 0 /\ OldestFirst(<<>>)
    BY DEF OldestFirst
<1>7. GoodPace(NewPace) /\ NewPace.hits = <<>> /\ NewPace.throttle.left = 0
    BY <1>6 DEF GoodPace, NewPace, Paces, Throttles
<1>8. Counted /\ Held
    BY <1>5, <1>6, <1>7 DEF Counted, Held, Covers
<1>9. /\ date \in [Pages -> 1 .. MaxDate] /\ \A p \in Pages : date[p] = 1
      /\ given \in [Pages -> {"nothing", "page", "bare", "outdated"}]
      /\ \A p \in Pages : given[p] # "outdated"
    BY DEF Init
<1>10. Types
    <2>1. 0 \in 0 .. MaxInterval
        OBVIOUS
    <2> QED
        BY ONLY <1>1, <1>4, <1>5, <1>6, <1>7, <1>9, <2>1 DEF Types
<1>11. Dates
    BY <1>1, <1>3, <1>4, <1>9 DEF Dates, Dated
<1> QED
    BY <1>8, <1>9, <1>10, <1>11 DEF IInv, BodiesAreCurrent

-----------------------------------------------------------------------------
(* The cache hooks. *)

LEMMA PutOne ==
    ASSUME NEW entries, NEW p, NEW entry
    PROVE  /\ DOMAIN Put(entries, Field(p, entry)) = DOMAIN entries \cup {p}
           /\ Put(entries, Field(p, entry))[p] = entry
           /\ \A q \in DOMAIN entries : q # p => Put(entries, Field(p, entry))[q] = entries[q]
           /\ Put(entries, Field(p, entry)) =
                 [q \in DOMAIN entries \cup {p} |-> Put(entries, Field(p, entry))[q]]
BY DEF Put, Field

LEMMA DelOne ==
    ASSUME NEW entries, NEW p
    PROVE  /\ DOMAIN Del(entries, {p}) = DOMAIN entries \ {p}
           /\ \A q \in DOMAIN entries : q # p => Del(entries, {p})[q] = entries[q]
           /\ Del(entries, {p}) = [q \in DOMAIN entries \ {p} |-> Del(entries, {p})[q]]
BY DEF Del

\* What a hook leaves of the cache for the page p.
Keeps(p, entries, since) ==
    /\ DOMAIN entries \subseteq Pages /\ entries \in [DOMAIN entries -> Entries]
    /\ \A q \in Pages \ {p} : (q \in DOMAIN entries <=> q \in DOMAIN cache)
                              /\ (q \in DOMAIN cache => entries[q] = cache[q])
    /\ Dated(p, since, entries, date[p])

\* The other pages are as they were.
LEMMA AllDated ==
    ASSUME Dates, NEW p \in Pages, NEW entries, NEW since, Keeps(p, entries, since),
           NEW after, after[p].since = since,
           \A q \in Pages \ {p} : after[q].since = task[q].since
    PROVE  \A q \in Pages : Dated(q, after[q].since, entries, date[q])
BY DEF Dates, Dated, Keeps

LEMMA EntryKept ==
    ASSUME Types, Dates, NEW p \in Pages,
           NEW entry \in Entries, entry.body = entry.last_modified,
           entry.last_modified <= date[p], task[p].since <= entry.last_modified
    PROVE  Keeps(p, Put(cache, Field(p, entry)), task[p].since)
<1> DEFINE entries == Put(cache, Field(p, entry))
<1>1. /\ DOMAIN entries = DOMAIN cache \cup {p} /\ entries[p] = entry
      /\ \A q \in DOMAIN cache : q # p => entries[q] = cache[q]
      /\ entries = [q \in DOMAIN cache \cup {p} |-> entries[q]]
    BY DEF Put, Field
<1> HIDE DEF entries
<1>2. DOMAIN entries \subseteq Pages /\ entries \in [DOMAIN entries -> Entries]
    BY <1>1 DEF Types
<1>3. task[p].since <= date[p]
    BY DEF Dates, Dated
<1> QED
    BY <1>1, <1>2, <1>3 DEF Keeps, Dated, entries

LEMMA EntryDropped ==
    ASSUME Types, Dates, NEW p \in Pages
    PROVE  Keeps(p, Del(cache, {p}), task[p].since)
<1> DEFINE entries == Del(cache, {p})
<1>1. /\ DOMAIN entries = DOMAIN cache \ {p}
      /\ \A q \in DOMAIN cache : q # p => entries[q] = cache[q]
      /\ entries = [q \in DOMAIN cache \ {p} |-> entries[q]]
    BY DelOne
<1> HIDE DEF entries
<1>2. DOMAIN entries \subseteq Pages /\ entries \in [DOMAIN entries -> Entries]
    BY <1>1 DEF Types
<1>3. task[p].since <= date[p]
    BY DEF Dates, Dated
<1> QED
    BY <1>1, <1>2, <1>3 DEF Keeps, Dated, entries

\* The request gets the date of a fresh entry, unless it has one.
LEMMA BeforeDownloadIs ==
    ASSUME Types, Dates, NEW p \in Pages
    PROVE  LET cached == BeforeDownload(cache, p, task[p].since) IN
           cached.value \in 0 .. MaxDate /\ Keeps(p, cached.cache, cached.value)
<1> DEFINE since == task[p].since
           cached == BeforeDownload(cache, p, since)
<1>1. since \in 0 .. MaxDate /\ date[p] \in 1 .. MaxDate /\ Dated(p, since, cache, date[p])
    BY DEF Types, Dates, Tasks
<1>2. CASE p \notin DOMAIN cache
    <2>1. cached.cache = cache /\ cached.value = since
        BY <1>2 DEF BeforeDownload, Left
    <2> QED
        BY <1>1, <2>1 DEF Keeps, Types
<1>3. CASE p \in DOMAIN cache /\ IsStale(cache[p])
    <2>1. cached.cache = Del(cache, {p}) /\ cached.value = since
        BY <1>3 DEF BeforeDownload, Left
    <2> QED
        BY <1>1, <2>1, EntryDropped
<1>4. CASE p \in DOMAIN cache /\ ~IsStale(cache[p])
    <2>1. cached.cache = cache /\ cached.value = ApplyConditionals(cache[p], since)
        BY <1>4 DEF BeforeDownload, Left
    <2>2. cache[p] \in Entries /\ cache[p].last_modified \in 1 .. MaxDate
        BY <1>4 DEF Types, Entries
    <2>3. cached.value \in 0 .. MaxDate /\ Dated(p, cached.value, cache, date[p])
        BY <1>1, <1>4, <2>1, <2>2 DEF ApplyConditionals, Dated
    <2> QED
        BY <2>1, <2>3 DEF Keeps, Types
<1> QED
    BY <1>2, <1>3, <1>4

\* The body that is given on is the one of the page, or there is none: a 304 says that the
\* page is of the date of the request, and the entry can be of no other.
LEMMA AfterDownloadIs ==
    ASSUME Types, Dates, NEW p \in Pages
    PROVE  LET left == AfterDownload(cache, p, date[p], task[p].since) IN
           left.value \in {0, date[p]} /\ Keeps(p, left.cache, task[p].since)
<1> DEFINE since == task[p].since
           left == AfterDownload(cache, p, date[p], since)
<1>1. since \in 0 .. MaxDate /\ date[p] \in 1 .. MaxDate /\ Dated(p, since, cache, date[p])
    BY DEF Types, Dates, Tasks
<1>2. CASE ~NotModified(date[p], since)
    <2>1. left.cache = Put(cache, Field(p, NewEntry(date[p]))) /\ left.value = date[p]
        BY <1>2 DEF AfterDownload, Left, Save
    <2>2. /\ NewEntry(date[p]) \in Entries /\ NewEntry(date[p]).body = date[p]
          /\ NewEntry(date[p]).last_modified = date[p]
        BY <1>1 DEF NewEntry, Entries
    <2>3. Keeps(p, left.cache, since)
        BY <1>1, <2>1, <2>2, EntryKept, StageAssumption DEF Dated
    <2> QED
        BY <2>1, <2>3
<1>3. CASE NotModified(date[p], since) /\ p \notin DOMAIN cache
    <2>1. left.cache = cache /\ left.value = 0
        BY <1>3 DEF AfterDownload, AfterNotModified, Left
    <2> QED
        BY <1>1, <2>1 DEF Keeps, Types
<1>4. CASE NotModified(date[p], since) /\ p \in DOMAIN cache /\ IsStale(cache[p])
    <2>1. left.cache = Del(cache, {p}) /\ left.value = 0
        BY <1>4 DEF AfterDownload, AfterNotModified, Left
    <2> QED
        BY <1>1, <2>1, EntryDropped
<1>5. CASE NotModified(date[p], since) /\ p \in DOMAIN cache /\ ~IsStale(cache[p])
    <2> DEFINE entry == RefreshFromNotModified(cache[p], date[p])
    <2>1. left.cache = Put(cache, Field(p, entry)) /\ left.value = cache[p].body
        BY <1>5 DEF AfterDownload, AfterNotModified, Left
    <2>2. cache[p] \in Entries
        BY <1>5 DEF Types
    <2>3. date[p] <= since
        BY <1>5 DEF NotModified
    <2>4. cache[p].last_modified = date[p] /\ cache[p].body = date[p]
        BY <1>1, <1>5, <2>2, <2>3 DEF Dated, Entries
    <2>5. entry \in Entries /\ entry.last_modified = date[p] /\ entry.body = date[p]
        BY <1>1, <2>2, <2>4 DEF RefreshFromNotModified, Entries
    <2> HIDE DEF entry
    <2>6. Keeps(p, left.cache, since)
        BY <1>1, <2>1, <2>5, EntryKept, StageAssumption DEF Dated
    <2> QED
        BY <2>1, <2>4, <2>6
<1> QED
    BY <1>2, <1>3, <1>4, <1>5

-----------------------------------------------------------------------------
(* The steps. *)

LEMMA TaskReplaced ==
    ASSUME task \in [Pages -> Tasks], NEW p \in Pages, NEW t \in Tasks, t.at # "fetched",
           task' = [task EXCEPT ![p] = t]
    PROVE  /\ task' \in [Pages -> Tasks] /\ task'[p] = t
           /\ \A q \in Pages \ {p} : task'[q] = task[q]
           /\ \A q \in Pages : task'[q].at = "fetched" => At(q, "fetched")
           /\ t.since = task[p].since => \A q \in Pages : task'[q].since = task[q].since
BY DEF At

LEMMA FinishedIs ==
    ASSUME task \in [Pages -> Tasks], NEW p \in Pages, task' = Finished(p)
    PROVE  /\ task' \in [Pages -> Tasks]
           /\ \A q \in Pages : task'[q].since = task[q].since
           /\ \A q \in Pages : task'[q].at = "fetched" => At(q, "fetched")
<1> DEFINE t == [task[p] EXCEPT !.at = "done", !.time = 0]
<1>1. task[p] \in Tasks /\ 0 \in 0 .. Longest
    BY LongestIs
<1>2. t \in Tasks /\ t.at = "done" /\ t.since = task[p].since
    BY <1>1 DEF Tasks
<1>3. task' = [task EXCEPT ![p] = t]
    BY <1>1 DEF Finished, Tasks
<1> HIDE DEF t
<1> QED
    BY <1>2, <1>3, TaskReplaced

LEMMA RetriedIs ==
    ASSUME NEW t \in Tasks, t.retries < RetryCount
    PROVE  Retried(t) \in Tasks /\ Retried(t).since = t.since /\ Retried(t).at = "due"
<1>1. t.retries + 1 \in 0 .. RetryCount /\ 0 \in 0 .. Longest
    BY LongestIs, StageAssumption DEF Tasks
<1> QED
    BY <1>1 DEF Retried, Tasks

LEMMA AttemptKeeps ==
    ASSUME IInv, NEW p \in Pages, Attempt(p)
    PROVE  IInv' /\ quiet \in Nat /\ (task'[p].at = "fetched" => quiet = 0)
<1> DEFINE cached == BeforeDownload(cache, p, task[p].since)
           answer == BeforeFetch(pace)
           window == InWindow(pace.hits)
<1>1. /\ Types /\ Dates /\ Held /\ Counted /\ BodiesAreCurrent
      /\ GoodPace(pace) /\ recent \in Seq(0 .. Minute) /\ OldestFirst(recent)
      /\ task[p] \in Tasks /\ task \in [Pages -> Tasks]
      /\ quiet \in 0 .. MaxInterval
    BY DEF IInv, Types
<1>2. /\ cache' = cached.cache /\ pace' = answer.pace
      /\ task' = [task EXCEPT ![p].since = cached.value,
                              ![p].at = IF answer.wait = 0 THEN "fetched" ELSE "due",
                              ![p].time = answer.wait]
      /\ recent' = IF answer.wait = 0 THEN Append(recent, 0) ELSE recent
      /\ date' = date /\ given' = given /\ quiet' = quiet
    BY DEF Attempt
<1>3. cached.value \in 0 .. MaxDate /\ Keeps(p, cached.cache, cached.value)
    BY <1>1, BeforeDownloadIs
<1>4. /\ GoodPace(answer.pace) /\ answer.wait \in 0 .. MaxWait
      /\ answer.wait = 0 => pace.throttle.left = 0
      /\ answer.wait = 0 => answer.pace.hits = Append(window, 0)
      /\ answer.pace.hits \in {pace.hits, window, Append(window, 0)}
      /\ answer.pace.throttle.left >= pace.throttle.left
    BY <1>1, BeforeFetchIs
<1> HIDE DEF cached, answer
<1>5. /\ pace.hits \in Seq(Nat) /\ OldestFirst(pace.hits)
      /\ pace.throttle.left \in Nat /\ answer.pace.throttle.left \in Nat /\ quiet \in Nat
    <2>1. /\ pace.throttle.left \in Nat /\ answer.pace.throttle.left \in Nat
          /\ pace.hits \in Seq(Nat) /\ OldestFirst(pace.hits)
        BY <1>1, <1>4, HitsOf, LeftIs
    <2> QED
        BY ONLY <1>1, <2>1, PaceAssumption
<1>6. /\ task' \in [Pages -> Tasks] /\ task'[p].since = cached.value
      /\ \A q \in Pages \ {p} : task'[q].since = task[q].since
      /\ task'[p].at = IF answer.wait = 0 THEN "fetched" ELSE "due"
    <2> DEFINE t == [task[p] EXCEPT !.since = cached.value,
                                    !.at = IF answer.wait = 0 THEN "fetched" ELSE "due",
                                    !.time = answer.wait]
    <2>1. answer.wait \in 0 .. Longest
        BY ONLY <1>4, LongestIs, MaxWaitIs
    <2>2. t \in Tasks /\ t.since = cached.value
          /\ t.at = IF answer.wait = 0 THEN "fetched" ELSE "due"
        BY ONLY <1>1, <1>3, <2>1 DEF Tasks
    <2>3. task' = [task EXCEPT ![p] = t]
        BY ONLY <1>1, <1>2 DEF Tasks
    <2> HIDE DEF t
    <2> QED
        BY ONLY <1>1, <2>2, <2>3, p \in Pages
<1>7. Dates'
    <2>1. \A q \in Pages : Dated(q, task'[q].since, cached.cache, date[q])
        BY <1>1, <1>3, <1>6, AllDated
    <2> QED
        BY <1>2, <2>1 DEF Dates
<1>8. Held'
    BY <1>1, <1>2, <1>4, <1>5 DEF Held
<1>9. window \in Seq(Nat) /\ OldestFirst(window) /\ Covers(window, recent)
    <2>1. window \in Seq(0 .. Minute) /\ OldestFirst(window)
        BY <1>5, WindowOfOrdered
    <2>2. Covers(window, recent)
        BY <1>1, <1>5, WindowCovers DEF Counted
    <2>3. 0 .. Minute \subseteq Nat
        BY PaceAssumption
    <2> QED
        BY <2>1, <2>2, <2>3, SeqMonotonic
<1>10. recent \in Seq(Nat)
    BY <1>1, DownloadsOf
<1>11. /\ Covers(Append(window, 0), recent)
       /\ Covers(Append(window, 0), Append(recent, 0))
    BY <1>9, <1>10, HitOnly, HitAndDownload
<1> HIDE DEF window
<1>12. Counted'
    <2>1. CASE answer.wait = 0
        BY <1>2, <1>4, <1>11, <2>1 DEF Counted
    <2>2. CASE answer.wait # 0
        BY <1>1, <1>2, <1>4, <1>9, <1>11, <2>2 DEF Counted
    <2> QED
        BY <2>1, <2>2
<1>13. recent' \in Seq(0 .. Minute) /\ OldestFirst(recent')
    <2>1. Append(recent, 0) \in Seq(0 .. Minute)
        <3>1. 0 \in 0 .. Minute
            BY PaceAssumption
        <3> QED
            BY <1>1, <3>1, AppendProperties
    <2>2. OldestFirst(Append(recent, 0))
        BY <1>1, <1>10, HitKept
    <2> QED
        BY <1>1, <1>2, <2>1, <2>2
<1>14. Types'
    <2>1. DOMAIN cached.cache \subseteq Pages /\ cached.cache \in [DOMAIN cached.cache -> Entries]
        BY <1>3 DEF Keeps
    <2>2. /\ given \in [Pages -> {"nothing", "page", "bare", "outdated"}]
          /\ date \in [Pages -> 1 .. MaxDate] /\ quiet \in 0 .. MaxInterval
          /\ date' = date /\ given' = given /\ quiet' = quiet
        BY ONLY <1>1, <1>2 DEF Types
    <2>3. /\ DOMAIN cache' \subseteq Pages /\ cache' \in [DOMAIN cache' -> Entries]
          /\ GoodPace(pace')
        BY ONLY <1>2, <1>4, <2>1
    <2> QED
        BY ONLY <1>6, <1>13, <2>2, <2>3 DEF Types
<1>15. task'[p].at = "fetched" => quiet = 0
    <2>1. ASSUME task'[p].at = "fetched" PROVE answer.wait = 0
        BY <1>6, <2>1
    <2> QED
        BY <1>1, <1>4, <1>5, <2>1 DEF Held
<1> QED
    BY <1>1, <1>2, <1>5, <1>7, <1>8, <1>12, <1>14, <1>15 DEF IInv, BodiesAreCurrent

LEMMA ReceiveKeeps ==
    ASSUME IInv, NEW p \in Pages, Receive(p)
    PROVE  IInv' /\ \A q \in Pages : task'[q].at = "fetched" => At(q, "fetched")
<1> DEFINE left == AfterDownload(cache, p, date[p], task[p].since)
           after == FinishRequest(pace, FALSE, task[p].time)
<1>1. /\ Types /\ Dates /\ Held /\ Counted /\ BodiesAreCurrent /\ GoodPace(pace)
      /\ task[p] \in Tasks /\ task \in [Pages -> Tasks] /\ quiet \in 0 .. MaxInterval
      /\ date[p] \in 1 .. MaxDate
    BY DEF IInv, Types
<1>2. /\ cache' = left.cache /\ pace' = after /\ task' = Finished(p)
      /\ given' = [given EXCEPT ![p] = Verdict(p, left.value)]
      /\ date' = date /\ quiet' = quiet /\ recent' = recent
    BY DEF Receive
<1>3. left.value \in {0, date[p]} /\ Keeps(p, left.cache, task[p].since)
    BY <1>1, AfterDownloadIs
<1>4. task[p].time \in Nat
    BY <1>1, LongestIs DEF Tasks
<1>5. GoodPace(after) /\ after.hits = pace.hits
      /\ after.throttle.left >= pace.throttle.left
    BY <1>1, <1>4, FinishRequestIs
<1> HIDE DEF left, after
<1>6. Held'
    <2>1. /\ pace.throttle.left \in Nat /\ after.throttle.left \in Nat /\ quiet \in Nat
        BY <1>1, <1>5, LeftIs
    <2> QED
        BY <1>1, <1>2, <1>5, <2>1 DEF Held
<1>7. Counted'
    BY <1>1, <1>2, <1>5 DEF Counted
<1>8. /\ task' \in [Pages -> Tasks]
      /\ \A q \in Pages : task'[q].since = task[q].since
      /\ \A q \in Pages : task'[q].at = "fetched" => At(q, "fetched")
    BY <1>1, <1>2, FinishedIs
<1>9. Dates'
    BY <1>1, <1>2, <1>3, <1>8, AllDated DEF Dates
<1>10. Verdict(p, left.value) \in {"page", "bare"}
    BY <1>1, <1>3 DEF Verdict
<1>11. BodiesAreCurrent' /\ given' \in [Pages -> {"nothing", "page", "bare", "outdated"}]
    BY <1>1, <1>2, <1>10 DEF BodiesAreCurrent, Types
<1>12. Types'
    BY <1>1, <1>2, <1>3, <1>5, <1>8, <1>11 DEF Types, Keeps
<1> QED
    BY <1>6, <1>7, <1>8, <1>9, <1>11, <1>12 DEF IInv

\* A failure of either kind: the longest delay and the time of auto throttle grow together.
LEMMA FailureKeeps ==
    ASSUME IInv, NEW p \in Pages,
           pace' = FinishRequest(pace, TRUE, task[p].time),
           quiet' = Max({quiet, pace'.throttle.delay}),
           task' \in [Pages -> Tasks], \A q \in Pages : task'[q].since = task[q].since,
           UNCHANGED <<cache, date, given, recent>>
    PROVE  IInv'
<1> DEFINE after == FinishRequest(pace, TRUE, task[p].time)
<1>1. /\ Types /\ Dates /\ Held /\ Counted /\ BodiesAreCurrent /\ GoodPace(pace)
      /\ task[p] \in Tasks /\ quiet \in 0 .. MaxInterval
    BY DEF IInv, Types
<1>2. task[p].time \in Nat
    BY <1>1, LongestIs DEF Tasks
<1>3. /\ GoodPace(after) /\ after.hits = pace.hits
      /\ after.throttle.left >= pace.throttle.left
      /\ after.throttle.left >= after.throttle.delay
      /\ after.throttle.delay \in MinInterval .. MaxInterval
    BY <1>1, <1>2, FinishRequestIs
<1>4. pace' = after
    OBVIOUS
<1> HIDE DEF after
<1>5. /\ pace.throttle.left \in Nat /\ after.throttle.left \in Nat /\ quiet \in Nat
      /\ after.throttle.delay \in Nat /\ after.throttle.delay <= MaxInterval
      /\ quiet <= MaxInterval /\ MaxInterval \in Nat
    <2>1. pace.throttle.left \in Nat /\ after.throttle.left \in Nat
        BY ONLY <1>1, <1>3, LeftIs, Zenon
    <2> QED
        BY ONLY <1>1, <1>3, <2>1, PaceAssumption
<1>6. quiet' = IF quiet >= after.throttle.delay THEN quiet ELSE after.throttle.delay
    BY <1>4, <1>5, MaxOfTwo
<1>7. quiet' \in 0 .. MaxInterval /\ quiet' <= after.throttle.left
    <2>1. quiet <= pace.throttle.left
        BY <1>1 DEF Held
    <2> QED
        BY ONLY <1>3, <1>5, <1>6, <2>1
<1>8. Held' /\ Counted'
    BY <1>1, <1>3, <1>4, <1>7 DEF Held, Counted
<1>9. Types' /\ Dates' /\ BodiesAreCurrent'
    BY <1>1, <1>3, <1>4, <1>7 DEF Types, Dates, BodiesAreCurrent
<1> QED
    BY <1>8, <1>9 DEF IInv

LEMMA ReceiveBusyKeeps ==
    ASSUME IInv, NEW p \in Pages, ReceiveBusy(p)
    PROVE  IInv' /\ \A q \in Pages : task'[q].at = "fetched" => At(q, "fetched")
<1>1. task \in [Pages -> Tasks] /\ task' = Finished(p)
    BY DEF IInv, Types, ReceiveBusy
<1>2. /\ task' \in [Pages -> Tasks]
      /\ \A q \in Pages : task'[q].since = task[q].since
      /\ \A q \in Pages : task'[q].at = "fetched" => At(q, "fetched")
    BY <1>1, FinishedIs
<1> QED
    BY <1>2, FailureKeeps DEF ReceiveBusy

LEMMA FailKeeps ==
    ASSUME IInv, NEW p \in Pages, Fail(p)
    PROVE  IInv' /\ \A q \in Pages : task'[q].at = "fetched" => At(q, "fetched")
<1>1. /\ task \in [Pages -> Tasks] /\ task[p] \in Tasks
      /\ task' = IF task[p].retries < RetryCount THEN [task EXCEPT ![p] = Retried(@)]
                 ELSE Finished(p)
    BY DEF IInv, Types, Fail
<1>2. CASE task[p].retries < RetryCount
    <2>1. Retried(task[p]) \in Tasks /\ Retried(task[p]).since = task[p].since
          /\ Retried(task[p]).at = "due"
        BY <1>1, <1>2, RetriedIs
    <2>2. task' = [task EXCEPT ![p] = Retried(task[p])]
        BY <1>1, <1>2
    <2>3. /\ task' \in [Pages -> Tasks]
          /\ \A q \in Pages : task'[q].since = task[q].since
          /\ \A q \in Pages : task'[q].at = "fetched" => At(q, "fetched")
        <3>1. Retried(task[p]).at # "fetched"
            BY <2>1
        <3> QED
            BY <1>1, <2>1, <2>2, <3>1, TaskReplaced
    <2> QED
        BY <2>3, FailureKeeps DEF Fail
<1>3. CASE ~(task[p].retries < RetryCount)
    <2>1. task' = Finished(p)
        BY <1>1, <1>3
    <2>2. /\ task' \in [Pages -> Tasks]
          /\ \A q \in Pages : task'[q].since = task[q].since
          /\ \A q \in Pages : task'[q].at = "fetched" => At(q, "fetched")
        BY <1>1, <2>1, FinishedIs
    <2> QED
        BY <2>2, FailureKeeps DEF Fail
<1> QED
    BY <1>2, <1>3

\* The page is newer than it was.
LEMMA ChangeKeeps ==
    ASSUME IInv, NEW p \in Pages, Change(p)
    PROVE  IInv' /\ task' = task
<1> DEFINE S == {date[q] : q \in Pages}
           next == Max(S) + 1
<1>1. /\ Types /\ Dates /\ Held /\ Counted /\ BodiesAreCurrent
      /\ date \in [Pages -> 1 .. MaxDate]
    BY DEF IInv, Types
<1>2. next <= MaxDate /\ date' = [date EXCEPT ![p] = next]
      /\ UNCHANGED <<task, pace, cache, given, quiet, recent>>
    BY DEF Change, observed
<1>3. S \subseteq Nat /\ date[p] \in S /\ MaxDate \in Nat /\ \A x \in S : x <= MaxDate
    BY <1>1, StageAssumption
<1> HIDE DEF S
<1>4. Max(S) \in Nat /\ Max(S) >= date[p]
    BY <1>3, MaxOf
<1>5. next \in 1 .. MaxDate /\ next >= date[p] /\ date[p] \in Nat
    <2>1. date[p] \in Nat /\ next <= MaxDate
        BY <1>1, <1>2
    <2> QED
        BY ONLY <1>3, <1>4, <2>1
<1> HIDE DEF next
<1>6. date' \in [Pages -> 1 .. MaxDate] /\ \A q \in Pages : date'[q] >= date[q]
    <2>1. \A q \in Pages : date[q] \in Nat
        BY <1>1
    <2> QED
        BY <1>1, <1>2, <1>5, <2>1
<1>7. ASSUME NEW q \in Pages PROVE Dated(q, task[q].since, cache, date'[q])
    <2>0. /\ date[q] \in 1 .. MaxDate /\ date'[q] \in 1 .. MaxDate
          /\ task[q] \in Tasks
        BY <1>1, <1>6 DEF Types
    <2>1. /\ date[q] \in Nat /\ date'[q] \in Nat /\ date'[q] >= date[q]
          /\ task[q].since \in Nat /\ Dated(q, task[q].since, cache, date[q])
        BY <1>1, <1>6, <2>0 DEF Tasks, Dates
    <2>2. q \in DOMAIN cache => cache[q].last_modified \in Nat
        BY <1>1, StageAssumption DEF Types, Entries
    <2> QED
        BY <2>1, <2>2 DEF Dated
<1>8. Dates'
    BY <1>2, <1>7 DEF Dates
<1>9. Types' /\ Held' /\ Counted' /\ BodiesAreCurrent'
    BY <1>1, <1>2, <1>6 DEF Types, Held, Counted, BodiesAreCurrent
<1> QED
    BY <1>2, <1>8, <1>9 DEF IInv

LEMMA CrawlAgainKeeps ==
    ASSUME IInv, NEW p \in Pages, CrawlAgain(p)
    PROVE  IInv' /\ \A q \in Pages : task'[q].at = "fetched" => At(q, "fetched")
<1>1. /\ Types /\ Dates /\ Held /\ Counted /\ BodiesAreCurrent
      /\ task \in [Pages -> Tasks] /\ task[p] \in Tasks /\ date[p] \in 1 .. MaxDate
    BY DEF IInv, Types
<1>2. /\ task[p].crawls < MaxCrawls /\ task' = [task EXCEPT ![p] = NewTask(task[p].crawls + 1)]
      /\ UNCHANGED <<pace, cache, date, given, quiet, recent>>
    BY DEF CrawlAgain, observed
<1> DEFINE t == NewTask(task[p].crawls + 1)
<1>3. t \in Tasks /\ t.since = 0 /\ t.at = "due"
    BY <1>1, <1>2, LongestIs, StageAssumption DEF NewTask, Tasks
<1> HIDE DEF t
<1>4. task' = [task EXCEPT ![p] = t]
    BY <1>2 DEF t
<1>5. /\ task' \in [Pages -> Tasks] /\ task'[p].since = 0
      /\ \A q \in Pages \ {p} : task'[q].since = task[q].since
      /\ \A q \in Pages : task'[q].at = "fetched" => At(q, "fetched")
    BY <1>1, <1>3, <1>4 DEF At
<1>6. Keeps(p, cache, 0)
    <2>1. p \in DOMAIN cache => cache[p].last_modified \in 1 .. MaxDate
        BY <1>1 DEF Types, Entries
    <2>2. Dated(p, task[p].since, cache, date[p])
        BY <1>1 DEF Dates
    <2>3. Dated(p, 0, cache, date[p])
        BY ONLY <1>1, <2>1, <2>2, StageAssumption DEF Dated
    <2> QED
        BY <1>1, <2>3 DEF Types, Keeps
<1>7. Dates'
    <2>1. \A q \in Pages : Dated(q, task'[q].since, cache, date[q])
        BY ONLY <1>1, <1>5, <1>6, p \in Pages, AllDated, Zenon
    <2> QED
        BY ONLY <1>2, <2>1 DEF Dates
<1>8. Types' /\ Held' /\ Counted' /\ BodiesAreCurrent'
    BY <1>1, <1>2, <1>5 DEF Types, Held, Counted, BodiesAreCurrent
<1> QED
    BY <1>5, <1>7, <1>8 DEF IInv

LEMMA TickKeeps ==
    ASSUME IInv, Tick
    PROVE  IInv' /\ \A q \in Pages : task'[q].at = "fetched" => At(q, "fetched")
<1>1. /\ Types /\ Dates /\ Held /\ Counted /\ BodiesAreCurrent /\ GoodPace(pace)
      /\ task \in [Pages -> Tasks] /\ quiet \in 0 .. MaxInterval
      /\ recent \in Seq(0 .. Minute) /\ OldestFirst(recent)
      /\ DOMAIN cache \subseteq Pages /\ cache \in [DOMAIN cache -> Entries]
    BY DEF IInv, Types
<1>2. /\ \A p \in Pages : At(p, "fetched") => task[p].time < Timeout
      /\ task' = [p \in Pages |-> Waited(task[p])]
      /\ pace' = Later(pace) /\ cache' = Aged(cache) /\ quiet' = Less(quiet)
      /\ recent' = InWindow(Older(recent))
      /\ date' = date /\ given' = given
    BY DEF Tick, Older
<1>3. ASSUME NEW p \in Pages
      PROVE  /\ Waited(task[p]) \in Tasks /\ Waited(task[p]).since = task[p].since
             /\ Waited(task[p]).at = task[p].at
    <2>1. task[p] \in Tasks /\ task[p].time \in 0 .. Longest
        BY <1>1 DEF Tasks
    <2>2. Less(task[p].time) \in 0 .. Longest
        BY <2>1, LessIs, LongestIs
    <2>3. At(p, "fetched") => task[p].time + 1 \in 0 .. Longest
        BY <1>2, <2>1, LongestIs, StageAssumption
    <2> DEFINE time == CASE task[p].at = "due" -> Less(task[p].time)
                         [] task[p].at = "fetched" -> task[p].time + 1
                         [] OTHER -> task[p].time
    <2>4. time \in 0 .. Longest
        BY ONLY <2>1, <2>2, <2>3 DEF At
    <2>5. Waited(task[p]) = [task[p] EXCEPT !.time = time]
        BY <2>1 DEF Waited, Tasks
    <2> HIDE DEF time
    <2> QED
        BY ONLY <2>1, <2>4, <2>5 DEF Tasks
<1>4. /\ task' \in [Pages -> Tasks] /\ \A p \in Pages : task'[p].since = task[p].since
      /\ \A p \in Pages : task'[p].at = "fetched" => At(p, "fetched")
    BY ONLY <1>2, <1>3 DEF At
<1>5. /\ GoodPace(pace') /\ pace'.hits = OlderHits(pace.hits)
      /\ pace'.throttle.left = Less(pace.throttle.left)
    BY <1>1, <1>2, LaterIs
<1>6. quiet' \in 0 .. MaxInterval /\ Held'
    <2>1. quiet \in Nat /\ pace.throttle.left \in Nat /\ quiet <= pace.throttle.left
        BY <1>1, LeftIs DEF Held
    <2>2. Less(quiet) \in 0 .. MaxInterval
        BY ONLY <1>1, LessIs, PaceAssumption
    <2>3. \A x, y \in Nat : x <= y => Less(x) <= Less(y)
        BY ONLY TRUE DEF Less
    <2>4. Less(quiet) <= Less(pace.throttle.left)
        BY ONLY <2>1, <2>3, Zenon
    <2> QED
        BY ONLY <1>2, <1>5, <2>2, <2>4 DEF Held
<1>7. Counted' /\ recent' \in Seq(0 .. Minute) /\ OldestFirst(recent')
    <2>1. pace.hits \in Seq(0 .. Minute + 1) /\ OldestFirst(pace.hits)
        BY <1>1, HitsOf
    <2> QED
        BY <1>1, <1>2, <1>5, <2>1, TickCovers DEF Counted
<1>8. /\ DOMAIN cache' = DOMAIN cache /\ cache' \in [DOMAIN cache -> Entries]
      /\ \A p \in DOMAIN cache : /\ cache'[p].body = cache[p].body
                                 /\ cache'[p].last_modified = cache[p].last_modified
    <2>1. ASSUME NEW p \in DOMAIN cache
          PROVE  LET entry == [cache[p] EXCEPT !.age = IF IsStale(cache[p]) THEN @ ELSE @ + 1]
                 IN  /\ entry \in Entries /\ entry.body = cache[p].body
                     /\ entry.last_modified = cache[p].last_modified
        <3>1. cache[p] \in Entries
            BY <1>1
        <3> QED
            BY ONLY <3>1 DEF Entries
    <2> QED
        BY <1>2, <2>1 DEF Aged
<1>9. Dates'
    BY <1>1, <1>2, <1>4, <1>8 DEF Dates, Dated
<1>10. Types' /\ BodiesAreCurrent'
    BY <1>1, <1>2, <1>4, <1>5, <1>6, <1>7, <1>8 DEF Types, BodiesAreCurrent
<1> QED
    BY <1>4, <1>6, <1>7, <1>9, <1>10 DEF IInv

\* Every step keeps the invariant, and a download begins when no delay is left.
LEMMA StepKeeps ==
    ASSUME IInv, [Next]_vars
    PROVE  /\ IInv'
           /\ \A p \in Pages : task'[p].at = "fetched" /\ ~At(p, "fetched") => quiet = 0
<1>1. CASE UNCHANGED vars
    <2>1. UNCHANGED <<task, pace, cache, date, given, quiet, recent>>
        BY <1>1 DEF vars, observed
    <2> QED
        BY <2>1 DEF IInv, Types, Dates, Held, Counted, BodiesAreCurrent, At
<1>2. ASSUME NEW p \in Pages, Attempt(p)
      PROVE  IInv' /\ \A q \in Pages : task'[q].at = "fetched" /\ ~At(q, "fetched") => quiet = 0
    <2>1. IInv' /\ (task'[p].at = "fetched" => quiet = 0)
        BY <1>2, AttemptKeeps
    <2>2. \A q \in Pages \ {p} : task'[q] = task[q]
        BY <1>2 DEF Attempt, IInv, Types
    <2> QED
        BY <2>1, <2>2 DEF At
<1>3. ASSUME NEW p \in Pages, Change(p)
      PROVE  IInv' /\ \A q \in Pages : task'[q].at = "fetched" /\ ~At(q, "fetched") => quiet = 0
    BY <1>3, ChangeKeeps DEF At
<1> QED
    BY <1>1, <1>2, <1>3, ReceiveKeeps, ReceiveBusyKeeps, FailKeeps, CrawlAgainKeeps, TickKeeps
       DEF Next, Handle

-----------------------------------------------------------------------------
(* The theorems. *)

THEOREM Inductive == Spec => []IInv
<1> QED
    BY CrawlBegins, StepKeeps, PTL DEF Spec

\* The variables have the types of what they stand for: auto throttle stays within its
\* limits, rate limit keeps no more hits than its rate, no wait is longer than the longest
\* of the hooks (middleware/auto_throttle.rs, rate_limit.rs).
THEOREM TypeCorrect == Spec => []TypeOK
<1> QED
    BY Inductive, InvariantImplies, PTL

\* In any minute, its two ends included, there are at most Rate downloads, for any rate
\* (RateLimit::before_download, rate_limit.rs:76-123).
THEOREM RateIsKept == Spec => []RateHolds
<1> QED
    BY Inductive, InvariantImplies, PTL

\* A body from the cache is the one the site has, whatever it answered in the meantime
\* (http_cache.rs:165-241).
THEOREM NoOldBodies == Spec => []BodiesAreCurrent
<1>1. IInv => BodiesAreCurrent
    BY DEF IInv
<1> QED
    BY <1>1, Inductive, PTL

\* After a failure no download begins before the delay it has set is over
\* (auto_throttle.rs:181-264).
THEOREM BackoffIsKept == Spec => BackoffHolds
<1>1. IInv /\ [Next]_vars =>
         [\A p \in Pages : task'[p].at = "fetched" /\ ~At(p, "fetched") => quiet = 0]_vars
    BY StepKeeps
<1> QED
    BY <1>1, Inductive, PTL DEF Spec, BackoffHolds

=============================================================================
