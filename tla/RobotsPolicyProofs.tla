------------------------- MODULE RobotsPolicyProofs -------------------------
(* Theorems about RobotsPolicy, for every value of its constants. *)
EXTENDS RobotsPolicy, TLAPS

-----------------------------------------------------------------------------
(* The inductive invariant. *)

Places == {"due", "load", "fetch", "save", "decided"}

Typed ==
    /\ task \in [Tasks -> [at : Places, found : Policies \cup {None, Fallback},
                           cached : BOOLEAN]]
    /\ site \in Policies
    /\ retry \in 0 .. RetryDelay
    /\ IsEntry(hot) /\ IsEntry(cache)

\* What is in memory is what is stored, or of no use any more.
MemoryFollowsCache ==
    /\ hot.age >= cache.age
    /\ Fresh(hot) => hot.policy = cache.policy

\* What a task knows at each place of its search.
Found ==
    \A t \in Tasks :
        /\ At(t, "load") /\ task[t].cached => Fresh(cache)
        /\ At(t, "fetch") => task[t].found \in Policies \cup {None} /\ ~task[t].cached
        /\ At(t, "save") => task[t].found \in Policies /\ ~task[t].cached

IInv == Typed /\ MemoryFollowsCache /\ Found

-----------------------------------------------------------------------------
(* Entries. *)

LEMMA EntryParts ==
    ASSUME NEW entry, IsEntry(entry)
    PROVE  /\ entry.age \in 0 .. CacheTtl
           /\ Fresh(entry) => entry.policy \in Policies
           /\ entry.policy \in Policies \cup {None}
BY RobotsAssumption DEF IsEntry, NoEntry, Entry, Fresh

LEMMA NewEntry ==
    ASSUME NEW policy \in Policies, NEW age \in 0 .. CacheTtl
    PROVE  /\ IsEntry(Entry(policy, age))
           /\ Entry(policy, age).age = age
           /\ Entry(policy, age).policy = policy
BY DEF IsEntry, Entry

LEMMA NoEntryIsStale ==
    IsEntry(NoEntry) /\ ~Fresh(NoEntry) /\ NoEntry.age = CacheTtl
BY RobotsAssumption DEF IsEntry, NoEntry, Entry, Fresh

LEMMA OlderEntry ==
    ASSUME NEW entry, IsEntry(entry)
    PROVE  /\ IsEntry(Older(entry))
           /\ Older(entry).policy = entry.policy
           /\ Older(entry).age = IF Fresh(entry) THEN entry.age + 1 ELSE entry.age
<1>1. CASE entry = NoEntry
    BY <1>1, RobotsAssumption DEF IsEntry, NoEntry, Entry, Older, Fresh
<1>2. CASE entry \in [policy : Policies, age : 0 .. CacheTtl]
    BY <1>2, RobotsAssumption DEF IsEntry, Older, Fresh
<1> QED BY <1>1, <1>2 DEF IsEntry

-----------------------------------------------------------------------------
(* Each step preserves the invariant. *)

LEMMA Initial == Init => IInv
<1> SUFFICES ASSUME Init PROVE IInv
    OBVIOUS
<1>1. IsEntry(cache)
    BY NewEntry, NoEntryIsStale DEF Init
<1>2. Typed
    BY <1>1, NoEntryIsStale, RobotsAssumption DEF Init, Typed, Task, Places
<1>3. MemoryFollowsCache
    BY <1>1, EntryParts, NoEntryIsStale, RobotsAssumption DEF Init, MemoryFollowsCache
<1>4. Found
    BY DEF Init, Found, At, Task
<1> QED BY <1>2, <1>3, <1>4 DEF IInv

LEMMA CheckKeeps ==
    ASSUME IInv, NEW t \in Tasks, Check(t)
    PROVE  IInv'
<1>1. Fresh(hot) => hot.policy \in Policies
    BY EntryParts DEF IInv, Typed
<1>2. Typed'
    BY <1>1 DEF IInv, Typed, Check, Task, Places, IsEntry, Fresh
<1>3. MemoryFollowsCache'
    BY DEF IInv, MemoryFollowsCache, Check, Fresh
<1>4. Found'
    BY <1>1 DEF IInv, Typed, Found, Check, Task, At, Fresh
<1> QED BY <1>2, <1>3, <1>4 DEF IInv

LEMMA LoadKeeps ==
    ASSUME IInv, NEW t \in Tasks, Load(t)
    PROVE  IInv'
<1>1. /\ IsEntry(hot) /\ IsEntry(cache)
      /\ cache.policy \in Policies \cup {None}
      /\ Fresh(cache) => cache.policy \in Policies
    BY EntryParts DEF IInv, Typed
<1>2. IsEntry(hot') /\ (hot' = cache \/ hot' = hot)
    BY <1>1 DEF Load
<1>3. Typed'
    <2>1. \E at \in Places, found \in Policies \cup {None, Fallback}, cached \in BOOLEAN :
             task' = [task EXCEPT ![t] = Task(at, found, cached)]
        BY <1>1 DEF IInv, Typed, Load, Decide, Places
    <2>2. task' \in [Tasks -> [at : Places, found : Policies \cup {None, Fallback},
                              cached : BOOLEAN]]
        BY <2>1 DEF IInv, Typed, Task
    <2>3. IsEntry(cache')
        BY <1>1 DEF Load
    <2> QED BY <1>2, <2>2, <2>3 DEF IInv, Typed, Load
<1>4. MemoryFollowsCache'
    <2>1. cache.age \in 0 .. CacheTtl
        BY <1>1, EntryParts
    <2> QED BY <1>2, <2>1 DEF IInv, MemoryFollowsCache, Load, Fresh
<1>5. Found'
    BY <1>1 DEF IInv, Typed, Found, Load, Decide, Task, At, Fresh
<1> QED BY <1>3, <1>4, <1>5 DEF IInv

LEMMA FetchKeeps ==
    ASSUME IInv, NEW t \in Tasks, Fetch(t)
    PROVE  IInv'
<1>1. Typed'
    BY RobotsAssumption DEF IInv, Typed, Fetch, Task, Places, IsEntry
<1>2. MemoryFollowsCache'
    BY DEF IInv, MemoryFollowsCache, Fetch, Fresh
<1>3. Found'
    BY DEF IInv, Typed, Found, Fetch, Task, At, Fresh
<1> QED BY <1>1, <1>2, <1>3 DEF IInv

LEMMA SaveKeeps ==
    ASSUME IInv, NEW t \in Tasks, Save(t)
    PROVE  IInv'
<1>1. task[t].found \in Policies
    BY DEF IInv, Found, Save
<1>2. IsEntry(cache') /\ hot' = cache' /\ cache'.age = 0
    BY <1>1, NewEntry, RobotsAssumption DEF Save
<1>3. Typed'
    BY <1>1, <1>2 DEF IInv, Typed, Save, Decide, Task, Places, IsEntry
<1>4. MemoryFollowsCache'
    BY <1>2 DEF MemoryFollowsCache
<1>5. Fresh(cache')
    BY <1>2, RobotsAssumption DEF Fresh
<1>6. Found'
    BY <1>5 DEF IInv, Typed, Found, Save, Decide, Task, At, Fresh
<1> QED BY <1>3, <1>4, <1>6 DEF IInv

LEMMA UnavailableKeeps ==
    ASSUME IInv, NEW t \in Tasks, Unavailable(t)
    PROVE  IInv'
<1> DEFINE old == task[t].found
<1>1. old \in Policies \cup {None}
    BY DEF IInv, Found, Unavailable
<1>2. IsEntry(hot') /\ (hot' = hot \/ hot'.age = CacheTtl)
    <2>1. CASE old = None
        BY <2>1 DEF IInv, Typed, Unavailable
    <2>2. CASE old \in Policies /\ old # None
        BY <2>2, NewEntry, RobotsAssumption DEF Unavailable
    <2> QED BY <1>1, <2>1, <2>2
<1>3. Typed'
    BY <1>1, <1>2, RobotsAssumption
    DEF IInv, Typed, Unavailable, Decide, Task, Places, IsEntry
<1>4. MemoryFollowsCache'
    <2>1. cache.age \in 0 .. CacheTtl
        BY EntryParts DEF IInv, Typed
    <2> QED BY <1>2, <2>1, RobotsAssumption DEF IInv, MemoryFollowsCache, Unavailable, Fresh
<1>5. Found'
    BY DEF IInv, Typed, Found, Unavailable, Decide, Task, At, Fresh
<1> QED BY <1>3, <1>4, <1>5 DEF IInv

LEMMA ChangeKeeps ==
    ASSUME IInv, Change
    PROVE  IInv'
<1>1. Typed'
    BY DEF IInv, Typed, Change, IsEntry
<1>2. MemoryFollowsCache'
    BY DEF IInv, MemoryFollowsCache, Change, Fresh
<1>3. Found'
    BY DEF IInv, Found, Change, At, Fresh
<1> QED BY <1>1, <1>2, <1>3 DEF IInv

LEMMA TickKeeps ==
    ASSUME IInv, Tick
    PROVE  IInv'
<1>1. /\ IsEntry(hot') /\ IsEntry(cache')
      /\ hot'.policy = hot.policy /\ cache'.policy = cache.policy
      /\ hot'.age = IF Fresh(hot) THEN hot.age + 1 ELSE hot.age
      /\ cache'.age = IF Fresh(cache) THEN cache.age + 1 ELSE cache.age
    BY OlderEntry DEF IInv, Typed, Tick
<1>2. hot.age \in 0 .. CacheTtl /\ cache.age \in 0 .. CacheTtl
    BY EntryParts DEF IInv, Typed
<1>3. \A t \in Tasks :
         /\ task'[t] \in [at : Places, found : Policies \cup {None, Fallback}, cached : BOOLEAN]
         /\ task'[t].at \in {"due", "fetch"}
         /\ task'[t].at = "fetch" => task'[t] = task[t]
    BY DEF IInv, Typed, Tick, At, Places
<1>4. Typed'
    BY <1>1, <1>3, RobotsAssumption DEF IInv, Typed, Tick
<1>5. MemoryFollowsCache'
    BY <1>1, <1>2, RobotsAssumption DEF IInv, MemoryFollowsCache, Fresh
<1>6. Found'
    BY <1>3 DEF IInv, Found, At
<1> QED BY <1>4, <1>5, <1>6 DEF IInv

LEMMA NextKeeps == IInv /\ [Next]_vars => IInv'
<1> SUFFICES ASSUME IInv, [Next]_vars PROVE IInv'
    OBVIOUS
<1>1. CASE Next
    BY <1>1, CheckKeeps, LoadKeeps, SaveKeeps, FetchKeeps, UnavailableKeeps, ChangeKeeps,
       TickKeeps DEF Next, Answer
<1>2. CASE UNCHANGED vars
    BY <1>2 DEF vars, IInv, Typed, MemoryFollowsCache, Found, At, Fresh, IsEntry
<1> QED BY <1>1, <1>2

\* The invariant that the theorems below rest on: what is in memory is what is stored or is
\* stale, and a task that fetches found no fresh policy when its check began.
THEOREM Inductive == Spec => []IInv
<1>1. Init => IInv BY Initial
<1>2. IInv /\ [Next]_vars => IInv' BY NextKeeps
<1> QED BY <1>1, <1>2, PTL DEF Spec

-----------------------------------------------------------------------------
\* The variables keep the types of what they stand for (robots::Memory).
THEOREM TypeCorrect == Spec => []TypeOK
<1>1. IInv => TypeOK
    BY DEF IInv, Typed, MemoryFollowsCache, TypeOK, Places
<1> QED BY <1>1, Inductive, PTL

\* However many tasks ask at once, and whichever fetches fail, a check that begins while
\* the cache has a fresh policy is decided by it (policy_for, robots.rs).
THEOREM GoodPoliciesDecide == Spec => GoodPolicyDecides
<1> DEFINE Decided(t) == task'[t] # task[t] /\ task'[t].at = "decided" /\ task'[t].cached
                            => task'[t].found = cache'.policy
<1>1. ASSUME IInv, [Next]_vars, NEW t \in Tasks PROVE Decided(t)
    <2>1. ASSUME NEW u \in Tasks, Check(u) PROVE Decided(t)
        <3>1. hot.age \in 0 .. CacheTtl /\ cache.age \in 0 .. CacheTtl
            BY <1>1, EntryParts DEF IInv, Typed
        <3> QED BY <1>1, <2>1, <3>1, RobotsAssumption
                DEF IInv, Typed, MemoryFollowsCache, Check, Task, At, Fresh
    <2>2. ASSUME NEW u \in Tasks, Load(u) PROVE Decided(t)
        BY <1>1, <2>2 DEF IInv, Typed, Found, Load, Decide, Task, At
    <2>3. ASSUME NEW u \in Tasks, Save(u) PROVE Decided(t)
        BY <1>1, <2>3, NewEntry DEF IInv, Typed, Found, Save, Decide, Task, At
    <2>4. ASSUME NEW u \in Tasks, Fetch(u) PROVE Decided(t)
        BY <1>1, <2>4 DEF IInv, Typed, Fetch, Task, At
    <2>5. ASSUME NEW u \in Tasks, Unavailable(u) PROVE Decided(t)
        BY <1>1, <2>5 DEF IInv, Typed, Found, Unavailable, Decide, Task, At
    <2>6. CASE Change
        BY <2>6 DEF Change
    <2>7. CASE Tick
        BY <1>1, <2>7 DEF IInv, Typed, Tick, At
    <2>8. CASE UNCHANGED vars
        BY <2>8 DEF vars
    <2> QED BY <1>1, <2>1, <2>2, <2>3, <2>4, <2>5, <2>6, <2>7, <2>8 DEF Next, Answer
<1>2. IInv /\ [Next]_vars => [\A t \in Tasks : Decided(t)]_vars
    BY <1>1
<1> QED BY <1>2, Inductive, PTL DEF Spec, GoodPolicyDecides

=============================================================================
