--------------------------- MODULE DownloadHooks ---------------------------
(***************************************************************************)
(* The download stage of the middleware chain                              *)
(* (src/middleware/chain.rs) around the concurrency limit                  *)
(* (src/middleware/concurrency.rs). A hook answers continue, or stops the  *)
(* chain with delay, drop, retry or an error. The Concurrency middleware   *)
(* takes a slot of the request's bucket before the download, marks the     *)
(* request in its metadata, and gives the slot back in a later hook if it  *)
(* finds the mark. The other middlewares are the answers they may give,    *)
(* split by their place: ordered before Concurrency, or after it.          *)
(***************************************************************************)
EXTENDS Integers

CONSTANTS
    Urls,           \* the pages of the site, one request each
    BucketOf,       \* bucket the requests for a page are counted in
    Limited,        \* pages under the limit; the requests for others override it with 0
    Limit,          \* the limit of a bucket
    RetryCount,     \* retries allowed by retry_by_status and retry_by_error
    FirstBefore,    \* how hooks ordered before Concurrency may stop a download
    LastBefore,     \* the same for the hooks ordered after it
    FirstAfter,     \* how hooks ordered before Concurrency may stop an answer
    LastAfter       \* the same for the hooks ordered after it

Stopping == {"delay", "drop", "retry", "error"}

Buckets == {BucketOf[u] : u \in Urls}

ASSUME HooksAssumption ==
    /\ BucketOf \in [Urls -> Buckets]
    /\ Limited \subseteq Urls
    /\ Limit \in Nat \ {0}
    /\ RetryCount \in Nat
    /\ FirstBefore \subseteq Stopping \ {"retry"}
    /\ LastBefore \subseteq Stopping \ {"retry"}
    /\ FirstAfter \subseteq Stopping
    /\ LastAfter \subseteq Stopping

(***************************************************************************)
(* slot is the mark _concurrency_slot in the metadata of the request,      *)
(* retries its _retry_times.                                               *)
(***************************************************************************)
Request == [url : Urls, slot : BOOLEAN, retries : 0 .. RetryCount]

NewRequest(u) == [url |-> u, slot |-> FALSE, retries |-> 0]

\* A link followed from a response inherits the metadata the request had when
\* it was fetched.
FollowRequest(u, fetched) == [fetched EXCEPT !.url = u]

\* An answer of the chain: its flow, the request and the slots it leaves.
Answer(flow, req, slots) == [flow |-> flow, req |-> req, slots |-> slots]

Stops(flows, req, slots) == {Answer(f, req, slots) : f \in flows}

-----------------------------------------------------------------------------
\* The hooks of Concurrency; slots[b] is the number of slots taken in bucket b.

\* Mutant of TakeSlot: one slot too many.
TakeSlotLate(req, slots) ==
    LET b == BucketOf[req.url] IN
    IF req.url \notin Limited
        THEN Answer("continue", req, slots)
    ELSE IF slots[b] > Limit
        THEN Answer("delay", req, slots)
    ELSE Answer("continue", [req EXCEPT !.slot = TRUE], [slots EXCEPT ![b] = @ + 1])

TakeSlot(req, slots) ==
    LET b == BucketOf[req.url] IN
    IF req.url \notin Limited
        THEN Answer("continue", req, slots)
    ELSE IF slots[b] >= Limit
        THEN Answer("delay", req, slots)
    ELSE Answer("continue", [req EXCEPT !.slot = TRUE], [slots EXCEPT ![b] = @ + 1])

ReleaseSlot(req, slots) ==
    LET b == BucketOf[req.url] IN
    Answer("continue", [req EXCEPT !.slot = FALSE],
           IF req.slot /\ slots[b] > 0 THEN [slots EXCEPT ![b] = @ - 1] ELSE slots)

-----------------------------------------------------------------------------
\* The chain: the first hook that does not continue ends it.

BeforeDownload(req, slots) ==
    LET taken == TakeSlot(req, slots) IN
    Stops(FirstBefore, req, slots) \cup {taken} \cup
        (IF taken.flow = "continue" THEN Stops(LastBefore, taken.req, taken.slots) ELSE {})

\* Mutant of Retryable: the retries are not counted.
RetryableForever(flows, req) == flows

\* retry_by_status after an answer, retry_by_error after a failed download.
Retryable(flows, req) == {f \in flows : f = "retry" => req.retries < RetryCount}

\* after_download and download_error
AfterDownload(req, slots) ==
    LET released == ReleaseSlot(req, slots) IN
    Stops(Retryable(FirstAfter, req), req, slots) \cup {released} \cup
        Stops(Retryable(LastAfter, req), released.req, released.slots)

=============================================================================
