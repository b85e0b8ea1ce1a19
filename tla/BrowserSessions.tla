-------------------------- MODULE BrowserSessions --------------------------
(***************************************************************************)
(* The browser downloader (src/download/browser.rs) at work on the         *)
(* requests of one session: the lock of the session, the device profile    *)
(* that is kept in a file beside its user data dir, and the cache of the   *)
(* browsers that stay open between requests. A request may be dropped at   *)
(* each await, by its timeout or with its lease; a write to the file that  *)
(* has been handed to the runtime is then done all the same. The browser   *)
(* itself is external: it may fail to launch, die, fail any request, and   *)
(* stay on when its request is dropped or the call to close it fails.      *)
(* An error of the disk has the effect of a drop and is left out.          *)
(***************************************************************************)
EXTENDS Naturals

CONSTANTS
    Requests,
    Profiles,       \* the device profiles
    Keys,           \* the keys of the cache of open browsers, Isolated not among them
    Proxies,        \* what else must be the same to share a browser
    MaxUses,        \* keep_alive_max_uses; 0 is none
    Habits          \* the ways to use the session: the kind of each request

None == "none"          \* no profile, no holder
Torn == "torn"          \* a file that is empty or in part
Isolated == "isolated"  \* KeepAlive::Isolated: a browser for this request alone

\* profile: what resolve_device_profile finds in the configuration of the request.
Kind == [profile : Profiles \cup {None}, key : Keys \cup {Isolated}, proxy : Proxies,
         on_error : {"keep", "reset"}, drops : BOOLEAN]

ASSUME BrowserAssumption ==
    /\ MaxUses \in Nat
    /\ Habits \subseteq [Requests -> Kind]
    /\ Isolated \notin Keys /\ {None, Torn} \cap Profiles = {}
    /\ Requests # {} /\ None \notin Requests \cup Proxies /\ Requests \cap Keys = {}

VARIABLES
    kind,       \* kind[r], chosen at the start
    at,         \* at[r]: where request r is
    plan,       \* plan[r]: the profile of its BrowserExecutionPlan
    hand,       \* hand[r]: the browser it has taken or launched
    holder,     \* the request that holds the lock of the session
    saved,      \* the contents of device-profile.json
    late,       \* the writes of dropped requests that are not done yet
    cache,      \* cache[k]: the open browser that waits for a request
    left,       \* the requests of which a browser stays on that nobody has
    landed,     \* the profiles that late writes have put in the file (an observer)
    served      \* the profiles browsers were launched with (an observer)

vars == <<kind, at, plan, hand, holder, saved, late, cache, left, landed, served>>

NoBrowser == [profile |-> None, proxy |-> None, uses |-> 0, idle |-> FALSE, dead |-> FALSE]

Init ==
    /\ kind \in Habits
    /\ at = [r \in Requests |-> "idle"]
    /\ plan = [r \in Requests |-> None]
    /\ hand = [r \in Requests |-> NoBrowser]
    /\ holder = None
    /\ saved = None
    /\ late = {}
    /\ cache = [k \in Keys |-> NoBrowser]
    /\ left = {}
    /\ landed = {}
    /\ served = {}

At(r, place) == at[r] = place
Go(r, place) == at' = [at EXCEPT ![r] = place]

\* The answer, good or bad: the guard of the lock and what the request held are dropped.
Ends(r) ==
    /\ Go(r, "idle")
    /\ holder' = None
    /\ hand' = [hand EXCEPT ![r] = NoBrowser]
    /\ plan' = [plan EXCEPT ![r] = None]

\* Nothing says that the browser of the request is gone.
MayStay(r) == left' = left \/ left' = left \cup {r}

-----------------------------------------------------------------------------
Ask(r) ==
    /\ At(r, "idle")
    /\ Go(r, "waiting")
    /\ UNCHANGED <<kind, plan, hand, holder, saved, late, cache, left, landed, served>>

\* Mutant of Lock: sessions are not serialized.
LockShared(r) ==
    /\ At(r, "waiting")
    /\ holder' = r
    /\ Go(r, "reading")
    /\ UNCHANGED <<kind, plan, hand, saved, late, cache, left, landed, served>>

Lock(r) ==
    /\ At(r, "waiting")
    /\ holder = None
    /\ holder' = r
    /\ Go(r, "reading")
    /\ UNCHANGED <<kind, plan, hand, saved, late, cache, left, landed, served>>

Plans(r, profile) ==
    /\ plan' = [plan EXCEPT ![r] = profile]
    /\ Go(r, "taking")
    /\ UNCHANGED <<hand, holder>>

\* Mutant of ReadProfile: the request's own profile comes first.
ReadOwnProfileFirst(r) ==
    /\ At(r, "reading")
    /\ \/ kind[r].profile = None /\ saved # Torn /\ Plans(r, saved)
       \/ kind[r].profile # None /\ Go(r, "writing") /\ UNCHANGED <<plan, hand, holder>>
       \/ kind[r].profile = None /\ saved = Torn /\ Ends(r)
    /\ UNCHANGED <<kind, saved, late, cache, left, landed, served>>

\* resolve_effective_device_profile up to the write. A file that cannot be decoded, and a
\* profile other than the saved one, are errors.
ReadProfile(r) ==
    /\ At(r, "reading")
    /\ \/ /\ saved # Torn
          /\ kind[r].profile \in {None, saved}
          /\ Plans(r, saved)
       \/ /\ saved = None /\ kind[r].profile # None
          /\ Go(r, "writing")
          /\ UNCHANGED <<plan, hand, holder>>
       \/ /\ saved # None
          /\ saved = Torn \/ kind[r].profile \notin {None, saved}
          /\ Ends(r)
    /\ UNCHANGED <<kind, saved, late, cache, left, landed, served>>

\* tokio::fs::write truncates the file, then fills it.
WriteBegins(r) ==
    /\ At(r, "writing")
    /\ saved' = Torn
    /\ Go(r, "filling")
    /\ UNCHANGED <<kind, plan, hand, holder, late, cache, left, landed, served>>

WriteEnds(r) ==
    /\ At(r, "filling")
    /\ saved' = kind[r].profile
    /\ Plans(r, kind[r].profile)
    /\ UNCHANGED <<kind, late, cache, left, landed, served>>

-----------------------------------------------------------------------------
Expired(browser) == browser.idle \/ (MaxUses > 0 /\ browser.uses >= MaxUses)

\* BrowserSessionSignature, as far as it can differ between requests of a session.
Suits(browser, r) == browser.profile = plan[r] /\ browser.proxy = kind[r].proxy

\* take_browser_keep_alive, and the comparison of the signatures.
Take(r) ==
    /\ At(r, "taking")
    /\ LET key == kind[r].key IN
       IF key = Isolated \/ cache[key] = NoBrowser
       THEN Go(r, "launching") /\ UNCHANGED <<hand, cache>>
       ELSE /\ hand' = [hand EXCEPT ![r] = cache[key]]
            /\ cache' = [cache EXCEPT ![key] = NoBrowser]
            /\ Go(r, IF Expired(cache[key]) THEN "expiring"
                     ELSE IF Suits(cache[key], r) THEN "running" ELSE "refusing")
    /\ UNCHANGED <<kind, plan, holder, saved, late, left, landed, served>>

\* The browser of another signature goes back as it was.
Refuse(r) ==
    /\ At(r, "refusing")
    /\ cache' = [cache EXCEPT ![kind[r].key] = hand[r]]
    /\ Ends(r)
    /\ UNCHANGED <<kind, saved, late, left, landed, served>>

\* The old browser is closed first; if that fails, so does the request.
CloseExpired(r) ==
    /\ At(r, "expiring")
    /\ \/ /\ Go(r, "launching")
          /\ hand' = [hand EXCEPT ![r] = NoBrowser]
          /\ UNCHANGED <<plan, holder, left>>
       \/ Ends(r) /\ MayStay(r)
    /\ UNCHANGED <<kind, saved, late, cache, landed, served>>

Launch(r) ==
    /\ At(r, "launching")
    /\ \/ /\ hand' = [hand EXCEPT ![r] = [profile |-> plan[r], proxy |-> kind[r].proxy,
                                          uses |-> 0, idle |-> FALSE, dead |-> FALSE]]
          /\ served' = served \cup {plan[r]}
          /\ Go(r, "running")
          /\ UNCHANGED <<plan, holder, left>>
       \/ Ends(r) /\ MayStay(r) /\ UNCHANGED served
    /\ UNCHANGED <<kind, saved, late, cache, landed>>

Succeed(r) ==
    /\ At(r, "running")
    /\ ~hand[r].dead
    /\ Go(r, IF kind[r].key = Isolated THEN "closing" ELSE "storing")
    /\ UNCHANGED <<kind, plan, hand, holder, saved, late, cache, left, landed, served>>

Fail(r) ==
    /\ At(r, "running")
    /\ Go(r, IF kind[r].key = Isolated \/ kind[r].on_error = "reset" THEN "closing" ELSE "storing")
    /\ UNCHANGED <<kind, plan, hand, holder, saved, late, cache, left, landed, served>>

\* Mutant of Store: a use that failed is not counted.
StoreCountsGoodUses(r) ==
    /\ At(r, "storing")
    /\ LET uses == hand[r].uses + (IF hand[r].dead THEN 0 ELSE 1) IN
       IF MaxUses > 0 /\ uses >= MaxUses
       THEN Go(r, "closing") /\ UNCHANGED <<plan, hand, holder, cache>>
       ELSE /\ cache' = [cache EXCEPT ![kind[r].key] =
                            [hand[r] EXCEPT !.uses = IF MaxUses > 0 THEN uses ELSE 0,
                                            !.idle = FALSE]]
            /\ Ends(r)
    /\ UNCHANGED <<kind, saved, late, left, landed, served>>

\* store_browser_keep_alive; without a bound the uses are not counted here.
Store(r) ==
    /\ At(r, "storing")
    /\ LET uses == hand[r].uses + 1 IN
       IF MaxUses > 0 /\ uses >= MaxUses
       THEN Go(r, "closing") /\ UNCHANGED <<plan, hand, holder, cache>>
       ELSE /\ cache' = [cache EXCEPT ![kind[r].key] =
                            [hand[r] EXCEPT !.uses = IF MaxUses > 0 THEN uses ELSE 0,
                                            !.idle = FALSE]]
            /\ Ends(r)
    /\ UNCHANGED <<kind, saved, late, left, landed, served>>

\* close_browser_keep_alive, or the end of an isolated request, whatever it answers.
Close(r) ==
    /\ At(r, "closing")
    /\ Ends(r)
    /\ MayStay(r)
    /\ UNCHANGED <<kind, saved, late, cache, landed, served>>

-----------------------------------------------------------------------------
\* The future is dropped, which closes nothing. A write may not have been handed on yet.
Drop(r) ==
    /\ kind[r].drops
    /\ ~At(r, "idle")
    /\ Go(r, "idle")
    /\ holder' = IF At(r, "waiting") THEN holder ELSE None
    /\ hand' = [hand EXCEPT ![r] = NoBrowser]
    /\ plan' = [plan EXCEPT ![r] = None]
    /\ \/ late' = late /\ ~At(r, "filling")
       \/ /\ at[r] \in {"writing", "filling"}
          /\ late' = late \cup {[profile |-> kind[r].profile, begun |-> At(r, "filling")]}
    /\ IF hand[r] # NoBrowser \/ At(r, "launching") THEN MayStay(r) ELSE UNCHANGED left
    /\ UNCHANGED <<kind, saved, cache, landed, served>>

LateWrite ==
    /\ \E write \in late :
          \/ /\ ~write.begun
             /\ saved' = Torn
             /\ late' = (late \ {write}) \cup {[write EXCEPT !.begun = TRUE]}
             /\ UNCHANGED landed
          \/ /\ write.begun
             /\ saved' = write.profile
             /\ late' = late \ {write}
             /\ landed' = landed \cup {write.profile}
    /\ UNCHANGED <<kind, at, plan, hand, holder, cache, left, served>>

\* A browser that nobody has ends by itself.
LeftEnds ==
    /\ \E r \in left : left' = left \ {r}
    /\ UNCHANGED <<kind, at, plan, hand, holder, saved, late, cache, landed, served>>

\* A browser dies, by itself or at the hand of its site.
Die ==
    /\ \/ \E r \in Requests :
             /\ hand[r] # NoBrowser
             /\ hand' = [hand EXCEPT ![r].dead = TRUE]
             /\ UNCHANGED cache
       \/ \E k \in Keys :
             /\ cache[k] # NoBrowser
             /\ cache' = [cache EXCEPT ![k].dead = TRUE]
             /\ UNCHANGED hand
    /\ UNCHANGED <<kind, at, plan, holder, saved, late, left, landed, served>>

\* keep_alive_max_idle passes.
Rest ==
    /\ \E k \in Keys :
          /\ cache[k] # NoBrowser
          /\ cache' = [cache EXCEPT ![k].idle = TRUE]
    /\ UNCHANGED <<kind, at, plan, hand, holder, saved, late, left, landed, served>>

Step(r) ==
    \/ ReadProfile(r) \/ WriteBegins(r) \/ WriteEnds(r)
    \/ Take(r) \/ Refuse(r) \/ CloseExpired(r) \/ Launch(r)
    \/ Succeed(r) \/ Fail(r) \/ Store(r) \/ Close(r)

Next ==
    \/ \E r \in Requests : Ask(r) \/ Lock(r) \/ Step(r) \/ Drop(r)
    \/ LateWrite \/ LeftEnds \/ Die \/ Rest

Spec == Init /\ [][Next]_vars

(***************************************************************************)
(* Requests keep coming; the runtime goes on with each of them, and gives  *)
(* the lock of the session out in the order of arrival (tokio::sync::Mutex *)
(* is fair); every call to the browser comes back, with its own timeout.   *)
(***************************************************************************)
Fairness ==
    /\ \A r \in Requests : WF_vars(Ask(r)) /\ SF_vars(Lock(r)) /\ WF_vars(Step(r))
    /\ WF_vars(LateWrite)

FairSpec == Spec /\ Fairness

-----------------------------------------------------------------------------
\* The browsers that have the user data dir of the session: those of requests, those in the
\* cache, and those that were left.
Users ==
    {[of |-> r, key |-> kind[r].key, left |-> FALSE] : r \in {s \in Requests : hand[s] # NoBrowser}}
    \cup {[of |-> k, key |-> k, left |-> FALSE] : k \in {l \in Keys : cache[l] # NoBrowser}}
    \cup {[of |-> r, key |-> kind[r].key, left |-> TRUE] : r \in left}

(***************************************************************************)
(* A browser shares the user data dir of the session only with browsers of *)
(* another key of the cache, and with those that a request has left there, *)
(* which was dropped (browser.rs:85-96) or failed to close or to launch    *)
(* its own (1313-1326, 1362-1383): never with one that a request of the    *)
(* same key has, or that waits for one, however requests that are dropped, *)
(* refused, or fail as they replace an expired browser follow each other.  *)
(***************************************************************************)
OneBrowserPerKey ==
    \A x, y \in Users : x # y => x.left \/ y.left \/ x.key # y.key

(***************************************************************************)
(* After a browser of the session was launched with a profile, another one *)
(* is launched with another profile only if a request that was dropped as  *)
(* it wrote that profile to the file has done so late (browser.rs:1298):   *)
(* no request gets its own profile by asking for it, nor one without any   *)
(* (resolve_effective_device_profile, 1218-1250).                          *)
(***************************************************************************)
ProfileIsPinned ==
    [][served' # served => served \subseteq {None} \/ served' \ served \subseteq landed]_vars

\* A browser of the key died, and was not given up yet.
HasDead(key) ==
    \/ \E r \in Requests : kind[r].key = key /\ hand[r] # NoBrowser /\ hand[r].dead
    \/ key \in Keys /\ cache[key] # NoBrowser /\ cache[key].dead

(***************************************************************************)
(* A browser that died is given up in the end and no longer fails the      *)
(* requests of its key, as keep_alive_max_uses bounds its uses, also when  *)
(* every request says to keep it on errors.                                *)
(***************************************************************************)
DeadBrowserIsReplaced == \A k \in Keys \cup {Isolated} : HasDead(k) ~> ~HasDead(k)

=============================================================================
