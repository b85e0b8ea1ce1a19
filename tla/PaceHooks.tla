------------------------------ MODULE PaceHooks ------------------------------
(***************************************************************************)
(* The waits before a download, for one bucket and one origin: auto        *)
(* throttle, interval and rate limit, in the order of their hooks          *)
(* (src/settings.rs), then the crawl delay of robots (src/robots.rs). Each *)
(* hook that lets a request pass arms its wait, also when a later hook     *)
(* delays that request. Times are kept as the time left until a moment, or *)
(* the time since.                                                         *)
(***************************************************************************)
EXTENDS Integers, SequencesExt

CONSTANTS
    StartInterval,  \* of auto throttle: the delay to begin with
    MinInterval,    \* its least delay
    MaxInterval,    \* its greatest delay
    ErrorRatio,     \* what an error multiplies the delay with
    Interval,       \* interval; 0 turns it off
    Rate,           \* rate_per_minute
    Minute,         \* the window the rate is counted in
    CrawlDelay      \* crawl delay of the site's robots.txt; 0 is none

ASSUME PaceAssumption ==
    /\ MinInterval \in Nat /\ MaxInterval \in Nat /\ MinInterval <= MaxInterval
    /\ StartInterval \in MinInterval .. MaxInterval
    /\ ErrorRatio \in Nat \ {0}
    /\ Interval \in Nat
    /\ Rate \in Nat \ {0}
    /\ Minute \in Nat \ {0}
    /\ CrawlDelay \in Nat

(***************************************************************************)
(* throttle: the delay of auto throttle and the time left to its           *)
(* next_allowed_at; interval and crawl: the time left to theirs; hits: the *)
(* ages of the hits of rate limit, oldest first.                           *)
(***************************************************************************)
NewPace == [throttle |-> [delay |-> StartInterval, left |-> 0],
            interval |-> 0, hits |-> <<>>, crawl |-> 0]

\* An answer: how long the request must wait (0: it passes), and what the hook leaves.
Pass(pace) == [wait |-> 0, pace |-> pace]
Wait(pace, time) == [wait |-> Max({1, time}), pace |-> pace]

CurrentDelay(throttle) == IF throttle.delay = 0 THEN StartInterval ELSE throttle.delay

AutoThrottle(pace) ==
    IF pace.throttle.left > 0 THEN Wait(pace, pace.throttle.left)
    ELSE Pass([pace EXCEPT !.throttle.left = CurrentDelay(pace.throttle)])

IntervalHook(pace) ==
    IF pace.interval > 0 THEN Wait(pace, pace.interval)
    ELSE Pass([pace EXCEPT !.interval = Interval])

\* The loop that takes the oldest hit until one is in the window.
InWindow(hits) ==
    LET gone == CHOOSE n \in 0 .. Len(hits) :
                    /\ \A k \in 1 .. n : hits[k] > Minute
                    /\ n < Len(hits) => hits[n + 1] <= Minute
    IN  SubSeq(hits, gone + 1, Len(hits))

\* Mutants of RateLimit: it counts the requests it refuses; it admits one too many.
RateLimitAll(pace) ==
    LET hits == InWindow(pace.hits) IN
    IF Len(hits) >= Rate
    THEN Wait([pace EXCEPT !.hits = Append(Tail(hits), 0)], Minute - Head(hits))
    ELSE Pass([pace EXCEPT !.hits = Append(hits, 0)])

RateLimitLate(pace) ==
    LET hits == InWindow(pace.hits) IN
    IF Len(hits) > Rate THEN Wait([pace EXCEPT !.hits = hits], Minute - Head(hits))
    ELSE Pass([pace EXCEPT !.hits = Append(hits, 0)])

RateLimit(pace) ==
    LET hits == InWindow(pace.hits) IN
    IF Len(hits) >= Rate THEN Wait([pace EXCEPT !.hits = hits], Minute - Head(hits))
    ELSE Pass([pace EXCEPT !.hits = Append(hits, 0)])

Crawl(pace) ==
    IF CrawlDelay = 0 THEN Pass(pace)
    ELSE IF pace.crawl > 0 THEN Wait(pace, pace.crawl)
    ELSE Pass([pace EXCEPT !.crawl = CrawlDelay])

\* The chain: a hook that delays the request ends it.
Then(answer, next) == IF answer.wait > 0 THEN answer ELSE next

BeforeFetch(pace) ==
    LET throttled == AutoThrottle(pace)
        spaced == IntervalHook(throttled.pace)
        limited == RateLimit(spaced.pace)
    IN  Then(throttled, Then(spaced, Then(limited, Crawl(limited.pace))))

-----------------------------------------------------------------------------
\* Auto throttle after the download.

Clamp(delay) == Max({MinInterval, Min({MaxInterval, delay})})

\* target_concurrency is 1
SuccessDelay(throttle, latency) ==
    LET current == CurrentDelay(throttle) IN
    IF current = 0 THEN Clamp(latency)
    ELSE Clamp((current + Clamp(latency)) \div 2)

\* Mutant of ErrorDelay: the product is not clamped.
ErrorDelayUnclamped(throttle) ==
    Max({1, MinInterval, CurrentDelay(throttle)}) * ErrorRatio

ErrorDelay(throttle) ==
    Clamp(Max({1, MinInterval, CurrentDelay(throttle)}) * ErrorRatio)

\* Mutant of SetDelay: the last answer says when to go on.
SetDelayOnly(pace, delay) ==
    [pace EXCEPT !.throttle = [delay |-> delay, left |-> delay]]

SetDelay(pace, delay) ==
    [pace EXCEPT !.throttle = [delay |-> delay, left |-> Max({@.left, delay})]]

FinishRequest(pace, failed, latency) ==
    SetDelay(pace, IF failed THEN ErrorDelay(pace.throttle)
                   ELSE SuccessDelay(pace.throttle, latency))

-----------------------------------------------------------------------------
Less(time) == IF time > 0 THEN time - 1 ELSE 0

\* Time passes.
Later(pace) ==
    [throttle |-> [pace.throttle EXCEPT !.left = Less(@)],
     interval |-> Less(pace.interval),
     hits |-> [k \in DOMAIN pace.hits |-> Min({Minute + 1, pace.hits[k] + 1})],
     crawl |-> Less(pace.crawl)]

=============================================================================
