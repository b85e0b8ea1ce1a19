------------------------ MODULE BrowserSessionsProofs ------------------------
(* Theorems about BrowserSessions, for every value of its constants. *)
EXTENDS BrowserSessions, TLAPS

-----------------------------------------------------------------------------
(* The inductive invariant. *)

Browser == [profile : Profiles \cup {None}, proxy : Proxies \cup {None}, uses : Nat,
            idle : BOOLEAN, dead : BOOLEAN]

Writing == {"writing", "filling"}
Using == {"refusing", "expiring", "running", "storing", "closing"}
Planned == {"taking", "launching"} \cup Using

Typed ==
    /\ kind \in Habits
    /\ at \in [Requests -> {"idle", "waiting", "reading"} \cup Writing \cup Planned]
    /\ plan \in [Requests -> Profiles \cup {None}]
    /\ hand \in [Requests -> Browser]
    /\ holder \in Requests \cup {None}
    /\ saved \in Profiles \cup {None, Torn}
    /\ late \subseteq [profile : Profiles, begun : BOOLEAN]
    /\ cache \in [Keys -> Browser]
    /\ left \subseteq Requests
    /\ landed \subseteq Profiles
    /\ served \subseteq Profiles \cup {None}

\* Only the request that has the lock is past its wait, and only there it has a browser.
Locked ==
    \A r \in Requests :
        /\ at[r] \in {"reading"} \cup Writing \cup Planned => holder = r
        /\ hand[r] # NoBrowser => at[r] \in Using
        /\ at[r] \in Writing => kind[r].profile # None

\* No browser waits in the cache for a key while a request of that key has one.
Apart ==
    \A k \in Keys : cache[k] # NoBrowser =>
        \A r \in Requests : at[r] \in Using \cup {"launching"} => kind[r].key # k

\* The first profile that is not None is saved before it is used.
Sources ==
    /\ saved = None => served \subseteq {None}
    /\ \A r \in Requests :
          /\ at[r] \in Writing => served \subseteq {None}
          /\ at[r] \in Planned => plan[r] = None \/ saved # None
          /\ at[r] \in Planned => plan[r] # None \/ served \subseteq {None}

\* What no late write has put there is the profile in use.
Settled ==
    /\ saved \notin {None, Torn} \cup landed => served \subseteq {None, saved}
    /\ \A r \in Requests : at[r] \in Planned /\ plan[r] # None =>
          /\ saved \in {plan[r], Torn} \cup landed
          /\ plan[r] \in landed \/ served \subseteq {None, plan[r]}

IInv == Typed /\ Locked /\ Apart /\ Sources /\ Settled

-----------------------------------------------------------------------------
(* Kinds, and browsers. *)

LEMMA KindOfRequest ==
    ASSUME Typed, NEW r \in Requests
    PROVE  /\ kind[r].profile \in Profiles \cup {None}
           /\ kind[r].proxy \in Proxies
           /\ kind[r].key \in Keys \cup {Isolated}
           /\ kind[r].drops \in BOOLEAN
<1>1. kind[r] \in Kind
    BY BrowserAssumption DEF Typed
<1> QED BY <1>1 DEF Kind

LEMMA Marks == None \notin Profiles /\ Torn \notin Profiles /\ None \notin Requests /\ Torn # None
BY BrowserAssumption DEF None, Torn

LEMMA NoBrowserIsBrowser == NoBrowser \in Browser
BY DEF NoBrowser, Browser

LEMMA Marked ==
    ASSUME NEW b \in Browser, NEW n \in Nat
    PROVE  /\ [b EXCEPT !.dead = TRUE] \in Browser
           /\ [b EXCEPT !.idle = TRUE] \in Browser
           /\ [b EXCEPT !.uses = n, !.idle = FALSE] \in Browser
           /\ b.uses + 1 \in Nat
<1>1. b.uses \in Nat
    BY DEF Browser
<1>2. [b EXCEPT !.dead = TRUE] \in Browser
    BY DEF Browser
<1>3. [b EXCEPT !.idle = TRUE] \in Browser
    BY DEF Browser
<1>4. [b EXCEPT !.uses = n, !.idle = FALSE] \in Browser
    BY DEF Browser
<1> QED BY <1>1, <1>2, <1>3, <1>4

-----------------------------------------------------------------------------
(* Each step preserves the invariant. *)

LEMMA AskKeeps ==
    ASSUME IInv, NEW r \in Requests, Ask(r)
    PROVE  IInv'
<1>1. Typed'
    BY KindOfRequest, NoBrowserIsBrowser DEF IInv, Typed, Locked, Ask, Go, At, Planned,
       Using, Writing, Browser
<1>2. Locked'
    BY Marks DEF IInv, Typed, Locked, Ask, Go, At, Planned, Using, Writing
<1>3. Apart'
    BY Marks DEF IInv, Typed, Locked, Apart, Ask, Go, At, Planned, Using,
       Writing
<1>4. Sources'
    BY KindOfRequest, Marks DEF IInv, Typed, Locked, Sources, Ask, Go, At, Planned,
       Using, Writing
<1>5. Settled'
    BY KindOfRequest, Marks DEF IInv, Typed, Locked, Sources, Settled,
       Ask, Go, At, Planned, Using, Writing
<1> QED BY <1>1, <1>2, <1>3, <1>4, <1>5 DEF IInv

LEMMA LockKeeps ==
    ASSUME IInv, NEW r \in Requests, Lock(r)
    PROVE  IInv'
<1>1. Typed'
    BY KindOfRequest, NoBrowserIsBrowser DEF IInv, Typed, Locked, Lock, Go, At, Planned,
       Using, Writing, Browser
<1>2. Locked'
    BY Marks DEF IInv, Typed, Locked, Lock, Go, At, Planned, Using, Writing
<1>3. Apart'
    BY Marks DEF IInv, Typed, Locked, Apart, Lock, Go, At, Planned, Using,
       Writing
<1>4. Sources'
    BY KindOfRequest, Marks DEF IInv, Typed, Locked, Sources, Lock, Go, At, Planned,
       Using, Writing
<1>5. Settled'
    BY KindOfRequest, Marks DEF IInv, Typed, Locked, Sources, Settled,
       Lock, Go, At, Planned, Using, Writing
<1> QED BY <1>1, <1>2, <1>3, <1>4, <1>5 DEF IInv

LEMMA ReadProfileKeeps ==
    ASSUME IInv, NEW r \in Requests, ReadProfile(r)
    PROVE  IInv'
<1>1. Typed'
    BY KindOfRequest, NoBrowserIsBrowser DEF IInv, Typed, Locked, ReadProfile, Go, At, Ends,
       Plans, Planned, Using, Writing, Browser
<1>2. Locked'
    BY Marks DEF IInv, Typed, Locked, ReadProfile, Go, At, Ends, Plans, Planned,
       Using, Writing
<1>3. Apart'
    BY Marks DEF IInv, Typed, Locked, Apart, ReadProfile, Go, At, Ends,
       Plans, Planned, Using, Writing
<1>4. Sources'
    BY KindOfRequest, Marks DEF IInv, Typed, Locked, Sources, ReadProfile, Go, At,
       Ends, Plans, Planned, Using, Writing
<1>5. Settled'
    BY KindOfRequest, Marks DEF IInv, Typed, Locked, Sources, Settled,
       ReadProfile, Go, At, Ends, Plans, Planned, Using, Writing
<1> QED BY <1>1, <1>2, <1>3, <1>4, <1>5 DEF IInv

LEMMA WriteBeginsKeeps ==
    ASSUME IInv, NEW r \in Requests, WriteBegins(r)
    PROVE  IInv'
<1>1. Typed'
    BY KindOfRequest, NoBrowserIsBrowser DEF IInv, Typed, Locked, WriteBegins, Go, At,
       Planned, Using, Writing, Browser
<1>2. Locked'
    BY Marks DEF IInv, Typed, Locked, WriteBegins, Go, At, Planned, Using, Writing
<1>3. Apart'
    BY Marks DEF IInv, Typed, Locked, Apart, WriteBegins, Go, At, Planned,
       Using, Writing
<1>4. Sources'
    <2>1. Torn # None
        BY DEF Torn, None
    <2> QED BY <2>1 DEF IInv, Typed, Locked, Sources, WriteBegins, Go, At, Planned, Using, Writing
<1>5. Settled'
    BY KindOfRequest, Marks DEF IInv, Typed, Locked, Sources, Settled,
       WriteBegins, Go, At, Planned, Using, Writing
<1> QED BY <1>1, <1>2, <1>3, <1>4, <1>5 DEF IInv

LEMMA WriteEndsKeeps ==
    ASSUME IInv, NEW r \in Requests, WriteEnds(r)
    PROVE  IInv'
<1>1. Typed'
    BY KindOfRequest, NoBrowserIsBrowser DEF IInv, Typed, Locked, WriteEnds, Go, At, Plans,
       Planned, Using, Writing, Browser
<1>2. Locked'
    BY Marks DEF IInv, Typed, Locked, WriteEnds, Go, At, Plans, Planned, Using, Writing
<1>3. Apart'
    BY Marks DEF IInv, Typed, Locked, Apart, WriteEnds, Go, At, Plans,
       Planned, Using, Writing
<1>4. Sources'
    BY KindOfRequest, Marks DEF IInv, Typed, Locked, Sources, WriteEnds, Go, At,
       Plans, Planned, Using, Writing
<1>5. Settled'
    BY KindOfRequest, Marks DEF IInv, Typed, Locked, Sources, Settled,
       WriteEnds, Go, At, Plans, Planned, Using, Writing
<1> QED BY <1>1, <1>2, <1>3, <1>4, <1>5 DEF IInv

LEMMA TakeKeeps ==
    ASSUME IInv, NEW r \in Requests, Take(r)
    PROVE  IInv'
<1>1. Typed'
    <2>1. hand' \in [Requests -> Browser] /\ cache' \in [Keys -> Browser]
        <3>1. CASE kind[r].key \in Keys
            BY <3>1, NoBrowserIsBrowser DEF IInv, Typed, Take, At
        <3>2. CASE kind[r].key = Isolated
            BY <3>2 DEF IInv, Typed, Take
        <3> QED BY <3>1, <3>2, KindOfRequest DEF IInv
    <2> QED BY <2>1 DEF IInv, Typed, Take, Go, Planned, Using
<1>2. Locked'
    BY Marks DEF IInv, Typed, Locked, Take, Go, At, Planned, Using, Writing
<1>3. Apart'
    <2> DEFINE key == kind[r].key
    <2>1. \A s \in Requests : at'[s] \in Using \cup {"launching"} => s = r
        BY DEF IInv, Typed, Locked, Take, Go, At, Planned, Using
    <2>2. \A k \in Keys : cache'[k] # NoBrowser => k # key
        <3>1. CASE key = Isolated \/ cache[key] = NoBrowser
            BY <3>1, BrowserAssumption DEF Take, IInv, Typed
        <3>2. CASE ~(key = Isolated \/ cache[key] = NoBrowser)
            BY <3>2 DEF Take, IInv, Typed
        <3> QED BY <3>1, <3>2
    <2> QED BY <2>1, <2>2 DEF Apart, Take
<1>4. Sources'
    BY KindOfRequest, Marks DEF IInv, Typed, Locked, Sources, Take, Go, At, Planned,
       Using, Writing
<1>5. Settled'
    BY KindOfRequest, Marks DEF IInv, Typed, Locked, Sources, Settled,
       Take, Go, At, Planned, Using, Writing
<1> QED BY <1>1, <1>2, <1>3, <1>4, <1>5 DEF IInv

LEMMA RefuseKeeps ==
    ASSUME IInv, NEW r \in Requests, Refuse(r)
    PROVE  IInv'
<1>1. Typed'
    BY KindOfRequest, NoBrowserIsBrowser DEF IInv, Typed, Locked, Refuse, Go, At, Ends,
       Planned, Using, Writing, Browser
<1>2. Locked'
    BY Marks DEF IInv, Typed, Locked, Refuse, Go, At, Ends, Planned, Using, Writing
<1>3. Apart'
    BY Marks DEF IInv, Typed, Locked, Apart, Refuse, Go, At, Ends, Planned,
       Using, Writing
<1>4. Sources'
    BY KindOfRequest, Marks DEF IInv, Typed, Locked, Sources, Refuse, Go, At, Ends,
       Planned, Using, Writing
<1>5. Settled'
    BY KindOfRequest, Marks DEF IInv, Typed, Locked, Sources, Settled,
       Refuse, Go, At, Ends, Planned, Using, Writing
<1> QED BY <1>1, <1>2, <1>3, <1>4, <1>5 DEF IInv

LEMMA CloseExpiredKeeps ==
    ASSUME IInv, NEW r \in Requests, CloseExpired(r)
    PROVE  IInv'
<1>1. Typed'
    <2>1. hand' \in [Requests -> Browser]
        BY NoBrowserIsBrowser DEF IInv, Typed, CloseExpired, Ends
    <2> QED BY <2>1 DEF IInv, Typed, MayStay, CloseExpired, Ends, Go, Planned
<1>2. Locked'
    BY Marks DEF IInv, Typed, Locked, CloseExpired, Go, At, Ends, Planned, Using,
       Writing
<1>3. Apart'
    BY Marks DEF IInv, Typed, Locked, Apart, CloseExpired, Go, At, Ends,
       Planned, Using, Writing
<1>4. Sources'
    BY KindOfRequest, Marks DEF IInv, Typed, Locked, Sources, CloseExpired, Go, At,
       Ends, Planned, Using, Writing
<1>5. Settled'
    BY KindOfRequest, Marks DEF IInv, Typed, Locked, Sources, Settled,
       CloseExpired, Go, At, Ends, Planned, Using, Writing
<1> QED BY <1>1, <1>2, <1>3, <1>4, <1>5 DEF IInv

LEMMA LaunchKeeps ==
    ASSUME IInv, NEW r \in Requests, Launch(r)
    PROVE  IInv'
<1>1. Typed'
    <2>1. [profile |-> plan[r], proxy |-> kind[r].proxy, uses |-> 0, idle |-> FALSE,
           dead |-> FALSE] \in Browser
        BY KindOfRequest DEF IInv, Typed, Browser
    <2>2. hand' \in [Requests -> Browser]
        BY <2>1, NoBrowserIsBrowser DEF IInv, Typed, Launch, Ends
    <2>3. plan[r] \in Profiles \cup {None}
        BY DEF IInv, Typed
    <2> QED BY <2>2, <2>3 DEF IInv, Typed, MayStay, Launch, Ends, Go, Planned, Using
<1>2. Locked'
    BY Marks DEF IInv, Typed, Locked, Launch, Go, At, Ends, Planned, Using, Writing
<1>3. Apart'
    BY Marks DEF IInv, Typed, Locked, Apart, Launch, Go, At, Ends, Planned,
       Using, Writing
<1>4. Sources'
    BY KindOfRequest, Marks DEF IInv, Typed, Locked, Sources, Launch, Go, At, Ends,
       Planned, Using, Writing
<1>5. Settled'
    BY KindOfRequest, Marks DEF IInv, Typed, Locked, Sources, Settled,
       Launch, Go, At, Ends, Planned, Using, Writing
<1> QED BY <1>1, <1>2, <1>3, <1>4, <1>5 DEF IInv

LEMMA SucceedKeeps ==
    ASSUME IInv, NEW r \in Requests, Succeed(r)
    PROVE  IInv'
<1>1. Typed'
    BY KindOfRequest, NoBrowserIsBrowser DEF IInv, Typed, Locked, Succeed, Go, At, Planned,
       Using, Writing, Browser
<1>2. Locked'
    BY Marks DEF IInv, Typed, Locked, Succeed, Go, At, Planned, Using, Writing
<1>3. Apart'
    BY Marks DEF IInv, Typed, Locked, Apart, Succeed, Go, At, Planned,
       Using, Writing
<1>4. Sources'
    BY KindOfRequest, Marks DEF IInv, Typed, Locked, Sources, Succeed, Go, At,
       Planned, Using, Writing
<1>5. Settled'
    BY KindOfRequest, Marks DEF IInv, Typed, Locked, Sources, Settled,
       Succeed, Go, At, Planned, Using, Writing
<1> QED BY <1>1, <1>2, <1>3, <1>4, <1>5 DEF IInv

LEMMA FailKeeps ==
    ASSUME IInv, NEW r \in Requests, Fail(r)
    PROVE  IInv'
<1>1. Typed'
    BY KindOfRequest, NoBrowserIsBrowser DEF IInv, Typed, Locked, Fail, Go, At, Planned,
       Using, Writing, Browser
<1>2. Locked'
    BY Marks DEF IInv, Typed, Locked, Fail, Go, At, Planned, Using, Writing
<1>3. Apart'
    BY Marks DEF IInv, Typed, Locked, Apart, Fail, Go, At, Planned, Using,
       Writing
<1>4. Sources'
    BY KindOfRequest, Marks DEF IInv, Typed, Locked, Sources, Fail, Go, At, Planned,
       Using, Writing
<1>5. Settled'
    BY KindOfRequest, Marks DEF IInv, Typed, Locked, Sources, Settled,
       Fail, Go, At, Planned, Using, Writing
<1> QED BY <1>1, <1>2, <1>3, <1>4, <1>5 DEF IInv

LEMMA StoreKeeps ==
    ASSUME IInv, NEW r \in Requests, Store(r)
    PROVE  IInv'
<1>1. Typed'
    <2>1. hand[r] \in Browser
        BY DEF IInv, Typed
    <2> DEFINE uses == IF MaxUses > 0 THEN hand[r].uses + 1 ELSE 0
    <2>2. uses \in Nat
        BY <2>1, Marked
    <2> HIDE DEF uses
    <2>3. [hand[r] EXCEPT !.uses = uses, !.idle = FALSE] \in Browser
        BY <2>1, <2>2, Marked
    <2>4. cache' \in [Keys -> Browser]
        <3>1. cache' \in {cache, [cache EXCEPT ![kind[r].key] =
                                    [hand[r] EXCEPT !.uses = uses, !.idle = FALSE]]}
            BY DEF Store, uses
        <3> QED BY <3>1, <2>3 DEF IInv, Typed
    <2>5. /\ hand' \in [Requests -> Browser] /\ plan' \in [Requests -> Profiles \cup {None}]
          /\ holder' \in Requests \cup {None}
        BY NoBrowserIsBrowser DEF IInv, Typed, Store, Ends
    <2>6. /\ at' \in [Requests -> {"idle", "waiting", "reading"} \cup Writing \cup Planned]
          /\ UNCHANGED <<kind, saved, late, left, landed, served>>
        BY DEF IInv, Typed, Store, Ends, Go, Planned, Using
    <2> QED BY <2>4, <2>5, <2>6 DEF IInv, Typed
<1>2. Locked'
    BY Marks DEF IInv, Typed, Locked, Store, Go, At, Ends, Planned, Using, Writing
<1>3. Apart'
    BY Marks DEF IInv, Typed, Locked, Apart, Store, Go, At, Ends, Planned,
       Using, Writing
<1>4. Sources'
    BY KindOfRequest, Marks DEF IInv, Typed, Locked, Sources, Store, Go, At, Ends,
       Planned, Using, Writing
<1>5. Settled'
    BY KindOfRequest, Marks DEF IInv, Typed, Locked, Sources, Settled,
       Store, Go, At, Ends, Planned, Using, Writing
<1> QED BY <1>1, <1>2, <1>3, <1>4, <1>5 DEF IInv

LEMMA CloseKeeps ==
    ASSUME IInv, NEW r \in Requests, Close(r)
    PROVE  IInv'
<1>1. Typed'
    BY KindOfRequest, NoBrowserIsBrowser DEF IInv, Typed, MayStay, Locked, Close, Go, At, Ends,
       Planned, Using, Writing, Browser
<1>2. Locked'
    BY Marks DEF IInv, Typed, Locked, Close, Go, At, Ends, Planned, Using, Writing
<1>3. Apart'
    BY Marks DEF IInv, Typed, Locked, Apart, Close, Go, At, Ends, Planned,
       Using, Writing
<1>4. Sources'
    BY KindOfRequest, Marks DEF IInv, Typed, Locked, Sources, Close, Go, At, Ends,
       Planned, Using, Writing
<1>5. Settled'
    BY KindOfRequest, Marks DEF IInv, Typed, Locked, Sources, Settled,
       Close, Go, At, Ends, Planned, Using, Writing
<1> QED BY <1>1, <1>2, <1>3, <1>4, <1>5 DEF IInv

LEMMA DropKeeps ==
    ASSUME IInv, NEW r \in Requests, Drop(r)
    PROVE  IInv'
<1>1. Typed'
    <2>1. hand' \in [Requests -> Browser] /\ plan' \in [Requests -> Profiles \cup {None}]
        BY NoBrowserIsBrowser DEF IInv, Typed, Drop
    <2>2. late' \subseteq [profile : Profiles, begun : BOOLEAN]
        <3>1. CASE at[r] \in Writing
            <4>1. kind[r].profile \in Profiles
                BY <3>1, KindOfRequest DEF IInv, Locked
            <4>2. [profile |-> kind[r].profile, begun |-> At(r, "filling")]
                     \in [profile : Profiles, begun : BOOLEAN]
                BY <4>1 DEF At
            <4> QED BY <4>2 DEF IInv, Typed, Drop
        <3>2. CASE at[r] \notin Writing
            BY <3>2 DEF IInv, Typed, Drop, Writing
        <3> QED BY <3>1, <3>2
    <2> QED BY <2>1, <2>2 DEF IInv, Typed, MayStay, Drop, Go
<1>2. Locked'
    BY Marks DEF IInv, Typed, Locked, Drop, Go, At, Planned, Using, Writing
<1>3. Apart'
    BY Marks DEF IInv, Typed, Locked, Apart, Drop, Go, At, Planned, Using,
       Writing
<1>4. Sources'
    BY KindOfRequest, Marks DEF IInv, Typed, Locked, Sources, Drop, Go, At, Planned,
       Using, Writing
<1>5. Settled'
    BY KindOfRequest, Marks DEF IInv, Typed, Locked, Sources, Settled,
       Drop, Go, At, Planned, Using, Writing
<1> QED BY <1>1, <1>2, <1>3, <1>4, <1>5 DEF IInv

LEMMA LateWriteKeeps ==
    ASSUME IInv, LateWrite
    PROVE  IInv'
<1>1. PICK write \in late :
         \/ /\ ~write.begun
            /\ saved' = Torn
            /\ late' = (late \ {write}) \cup {[write EXCEPT !.begun = TRUE]}
            /\ UNCHANGED landed
         \/ /\ write.begun
            /\ saved' = write.profile
            /\ late' = late \ {write}
            /\ landed' = landed \cup {write.profile}
    BY DEF LateWrite
<1>2. /\ write.profile \in Profiles
      /\ [write EXCEPT !.begun = TRUE] \in [profile : Profiles, begun : BOOLEAN]
    BY DEF IInv, Typed
<1>3. /\ saved' \in {Torn} \cup landed' /\ saved' # None
      /\ landed \subseteq landed'
    BY <1>1, <1>2, Marks
<1>4. Typed'
    BY <1>1, <1>2 DEF IInv, Typed, LateWrite
<1>5. Locked' /\ Apart'
    BY DEF IInv, Locked, Apart, LateWrite
<1>6. Sources'
    BY <1>3 DEF IInv, Sources, LateWrite
<1>7. Settled'
    BY <1>3 DEF IInv, Settled, LateWrite
<1> QED BY <1>4, <1>5, <1>6, <1>7 DEF IInv

LEMMA LeftEndsKeeps ==
    ASSUME IInv, LeftEnds
    PROVE  IInv'
<1>1. Typed'
    BY DEF IInv, Typed, LeftEnds
<1>2. Locked' /\ Apart'
    BY DEF IInv, Locked, Apart, LeftEnds
<1>3. Sources' /\ Settled'
    BY DEF IInv, Sources, Settled, LeftEnds
<1> QED BY <1>1, <1>2, <1>3 DEF IInv

LEMMA DieKeeps ==
    ASSUME IInv, Die
    PROVE  IInv'
<1>1. Typed'
    <2>1. CASE \E r \in Requests : hand' = [hand EXCEPT ![r].dead = TRUE] /\ UNCHANGED cache
        <3>1. PICK r \in Requests : hand' = [hand EXCEPT ![r].dead = TRUE] /\ UNCHANGED cache
            BY <2>1
        <3>2. hand' \in [Requests -> Browser]
            BY <3>1, Marked DEF IInv, Typed
        <3>3. UNCHANGED <<kind, at, plan, holder, saved, late, left, landed, served>>
            BY DEF Die
        <3> QED BY <3>1, <3>2, <3>3 DEF IInv, Typed
    <2>2. CASE \E k \in Keys : cache' = [cache EXCEPT ![k].dead = TRUE] /\ UNCHANGED hand
        <3>1. PICK k \in Keys : cache' = [cache EXCEPT ![k].dead = TRUE] /\ UNCHANGED hand
            BY <2>2
        <3>2. cache' \in [Keys -> Browser]
            BY <3>1, Marked DEF IInv, Typed
        <3>3. UNCHANGED <<kind, at, plan, holder, saved, late, left, landed, served>>
            BY DEF Die
        <3> QED BY <3>1, <3>2, <3>3 DEF IInv, Typed
    <2> QED BY <2>1, <2>2 DEF Die
<1>2. Locked'
    BY Marks DEF IInv, Typed, Locked, Die, Planned, Using, Writing
<1>3. Apart'
    BY Marks DEF IInv, Typed, Locked, Apart, Die, Planned, Using, Writing
<1>4. Sources'
    BY KindOfRequest, Marks DEF IInv, Typed, Locked, Sources, Die, Planned, Using,
       Writing
<1>5. Settled'
    BY KindOfRequest, Marks DEF IInv, Typed, Locked, Sources, Settled,
       Die, Planned, Using, Writing
<1> QED BY <1>1, <1>2, <1>3, <1>4, <1>5 DEF IInv

LEMMA RestKeeps ==
    ASSUME IInv, Rest
    PROVE  IInv'
<1>1. Typed'
    <2>1. cache' \in [Keys -> Browser]
        <3>1. PICK k \in Keys : cache' = [cache EXCEPT ![k].idle = TRUE]
            BY DEF Rest
        <3>2. cache \in [Keys -> Browser]
            BY DEF IInv, Typed
        <3>3. [cache[k] EXCEPT !.idle = TRUE] \in Browser
            <4>1. cache[k] \in Browser /\ 0 \in Nat
                BY <3>2
            <4> QED BY <4>1, Marked, Zenon
        <3> QED BY <3>1, <3>2, <3>3
    <2> QED BY <2>1 DEF IInv, Typed, Rest
<1>2. Locked'
    BY Marks DEF IInv, Typed, Locked, Rest, Planned, Using, Writing
<1>3. Apart'
    <2>1. /\ \A k \in Keys : cache'[k] # NoBrowser => cache[k] # NoBrowser
          /\ at' = at /\ kind' = kind
        BY DEF IInv, Typed, Rest
    <2> QED BY <2>1 DEF IInv, Apart
<1>4. Sources'
    BY KindOfRequest, Marks DEF IInv, Typed, Locked, Sources, Rest, Planned, Using,
       Writing
<1>5. Settled'
    BY KindOfRequest, Marks DEF IInv, Typed, Locked, Sources, Settled,
       Rest, Planned, Using, Writing
<1> QED BY <1>1, <1>2, <1>3, <1>4, <1>5 DEF IInv

LEMMA Initial == Init => IInv
<1> SUFFICES ASSUME Init PROVE IInv
    OBVIOUS
<1>1. Typed
    BY NoBrowserIsBrowser DEF Init, Typed
<1>2. Locked /\ Apart
    BY DEF Init, Locked, Apart, Using, Writing, Planned
<1>3. Sources /\ Settled
    BY DEF Init, Sources, Settled, Using, Writing, Planned
<1> QED BY <1>1, <1>2, <1>3 DEF IInv

LEMMA NextKeeps == IInv /\ [Next]_vars => IInv'
<1> SUFFICES ASSUME IInv, [Next]_vars PROVE IInv'
    OBVIOUS
<1>1. CASE Next
    BY <1>1, AskKeeps, LockKeeps, ReadProfileKeeps, WriteBeginsKeeps, WriteEndsKeeps, TakeKeeps,
       RefuseKeeps, CloseExpiredKeeps, LaunchKeeps, SucceedKeeps, FailKeeps, StoreKeeps,
       CloseKeeps, DropKeeps, LateWriteKeeps, LeftEndsKeeps, DieKeeps, RestKeeps
    DEF Next, Step
<1>2. CASE UNCHANGED vars
    BY <1>2 DEF vars, IInv, Typed, Locked, Apart, Sources, Settled
<1> QED BY <1>1, <1>2

\* The invariant that the theorems below rest on: who has the lock, where browsers may be,
\* and where profiles come from (download/browser.rs).
THEOREM Inductive == Spec => []IInv
<1>1. Init => IInv BY Initial
<1>2. IInv /\ [Next]_vars => IInv' BY NextKeeps
<1> QED BY <1>1, <1>2, PTL DEF Spec

-----------------------------------------------------------------------------
(***************************************************************************)
(* In any session, with any requests, keys and drops: two browsers have    *)
(* its user data dir at once only if they are of different keys of the     *)
(* cache, or a request that was dropped, or that failed to close or to     *)
(* launch its own, has left one of them there (download/browser.rs:85-96,  *)
(* 1313-1326, 1362-1383).                                                  *)
(***************************************************************************)
THEOREM BrowserIsAlone == Spec => []OneBrowserPerKey
<1>1. IInv => OneBrowserPerKey
    <2> SUFFICES ASSUME IInv, NEW x \in Users, NEW y \in Users, ~x.left, ~y.left,
                        x.key = y.key
                 PROVE  x = y
        BY DEF OneBrowserPerKey
    <2> DEFINE
            OfRequest(u) == \E r \in Requests :
                hand[r] # NoBrowser /\ u = [of |-> r, key |-> kind[r].key, left |-> FALSE]
            OfCache(u) == \E k \in Keys :
                cache[k] # NoBrowser /\ u = [of |-> k, key |-> k, left |-> FALSE]
    <2>1. \A u \in Users : ~u.left => OfRequest(u) \/ OfCache(u)
        BY DEF Users
    <2>2. \A r, s \in Requests : hand[r] # NoBrowser /\ hand[s] # NoBrowser => r = s
        BY DEF IInv, Locked, Planned
    <2>3. \A r \in Requests : hand[r] # NoBrowser => \A k \in Keys :
             cache[k] # NoBrowser => kind[r].key # k
        BY DEF IInv, Locked, Apart
    <2>4. CASE OfRequest(x) /\ OfRequest(y)
        BY <2>2, <2>4
    <2>5. CASE OfRequest(x) /\ OfCache(y)
        BY <2>3, <2>5
    <2>6. CASE OfCache(x) /\ OfRequest(y)
        BY <2>3, <2>6
    <2>7. CASE OfCache(x) /\ OfCache(y)
        BY <2>7
    <2> HIDE DEF OfRequest, OfCache
    <2> QED BY <2>1, <2>4, <2>5, <2>6, <2>7
<1> QED BY <1>1, Inductive, PTL

(***************************************************************************)
(* In any session: a browser is launched with another profile than one     *)
(* before only if a request that was dropped as it wrote that profile to   *)
(* the file has done so late (download/browser.rs:1298).                   *)
(***************************************************************************)
THEOREM ProfileStays == Spec => ProfileIsPinned
<1>1. ASSUME IInv, [Next]_vars, served' # served
      PROVE  served \subseteq {None} \/ served' \ served \subseteq landed
    <2>1. PICK r \in Requests : Launch(r)
        BY <1>1 DEF Next, Step, vars, Ask, Lock, ReadProfile, WriteBegins, WriteEnds, Take, Refuse,
           CloseExpired, Succeed, Fail, Store, Close, Drop, LateWrite, LeftEnds, Die, Rest
    <2>2. at[r] \in Planned /\ served' = served \cup {plan[r]}
        BY <1>1, <2>1 DEF Launch, At, Planned
    <2>3. CASE plan[r] = None
        BY <1>1, <2>2, <2>3 DEF IInv, Sources
    <2>4. CASE plan[r] \in landed
        BY <2>2, <2>4
    <2>5. CASE plan[r] # None /\ plan[r] \notin landed
        BY <1>1, <2>2, <2>5 DEF IInv, Settled
    <2> QED BY <2>3, <2>4, <2>5
<1>2. IInv /\ [Next]_vars =>
         [served' # served => served \subseteq {None} \/ served' \ served \subseteq landed]_vars
    BY <1>1
<1> QED BY <1>2, Inductive, PTL DEF Spec, ProfileIsPinned

=============================================================================
