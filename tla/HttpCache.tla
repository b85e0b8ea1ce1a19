------------------------------ MODULE HttpCache ------------------------------
(***************************************************************************)
(* The hooks of the http_cache middleware (src/middleware/http_cache.rs)   *)
(* on one cache. A body is the date the page had when it was answered, and *)
(* the site validates by Last-Modified only: 0 stands for no date and for  *)
(* no body. A hook is one step: only a second request for the same page    *)
(* could tell its load from its save.                                      *)
(***************************************************************************)
EXTENDS Integers, Maps

CONSTANT CacheTtl       \* how long an entry is good for

ASSUME CacheAssumption == CacheTtl \in Nat

\* An entry: last_modified, the body that is kept, and the time since stored_at.
NewEntry(date) == [last_modified |-> date, body |-> date, age |-> 0]

IsStale(entry) == entry.age >= CacheTtl

\* append_header_if_missing: a header the request has already stays.
ApplyConditionals(entry, since) == IF since = 0 THEN entry.last_modified ELSE since

\* What a hook leaves: the cache, and the If-Modified-Since of the request or the body of
\* the response.
Left(cache, value) == [cache |-> cache, value |-> value]

BeforeDownload(cache, page, since) ==
    IF page \notin DOMAIN cache
        THEN Left(cache, since)
    ELSE IF IsStale(cache[page])
        THEN Left(Del(cache, {page}), since)
    ELSE Left(cache, ApplyConditionals(cache[page], since))

\* Mutant of Save: the validators of the answer, the body of the entry that was there.
SaveValidators(cache, page, date) ==
    Put(cache, Field(page, [NewEntry(date) EXCEPT
                                !.body = IF page \in DOMAIN cache THEN cache[page].body ELSE date]))

Save(cache, page, date) == Put(cache, Field(page, NewEntry(date)))

RefreshFromNotModified(entry, date) == [entry EXCEPT !.last_modified = date, !.age = 0]

\* A 304 without a usable entry goes on as it came, without a body.
AfterNotModified(cache, page, date) ==
    IF page \notin DOMAIN cache
        THEN Left(cache, 0)
    ELSE IF IsStale(cache[page])
        THEN Left(Del(cache, {page}), 0)
    ELSE Left(Put(cache, Field(page, RefreshFromNotModified(cache[page], date))),
              cache[page].body)

\* The site answers 304 to a request for a page that has not changed since its date.
NotModified(date, since) == since # 0 /\ date <= since

AfterDownload(cache, page, date, since) ==
    IF NotModified(date, since) THEN AfterNotModified(cache, page, date)
    ELSE Left(Save(cache, page, date), date)

\* Time passes; an entry past its ttl does not get older.
Aged(cache) ==
    [page \in DOMAIN cache |->
        [cache[page] EXCEPT !.age = IF IsStale(cache[page]) THEN @ ELSE @ + 1]]

=============================================================================
