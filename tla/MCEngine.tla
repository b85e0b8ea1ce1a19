------------------------------ MODULE MCEngine ------------------------------
(* Small sites for Engine. *)
EXTENDS Engine, TLC

CONSTANTS home, list, item   \* pages

\* The home page links to both others, and the list back to it. The item is a
\* start page as well, outside the allowed domains, and so is home, which skips
\* their filter.
MCLinks == (home :> {list, item}) @@ (list :> {home}) @@ (item :> {})

\* A home page and what it lists.
MCList == [u \in Urls |-> IF u = home THEN Urls \ {home} ELSE {}]

\* Home and list are one bucket, home and item one domain: each pair contends
\* for a limit of its own.
MCBuckets == (home :> "pages") @@ (list :> "pages") @@ (item :> "items")

MCDomains == (home :> "www") @@ (list :> "shop") @@ (item :> "www")

MCOneBucket == [u \in Urls |-> "www"]

MCOneDomain == [u \in Urls |-> "site"]

=============================================================================
