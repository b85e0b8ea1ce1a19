-------------------------------- MODULE Maps --------------------------------
(***************************************************************************)
(* Maps of the code (Redis hashes and sorted sets, HashMap, BTreeMap) as   *)
(* functions: a key has an entry when it is in the domain.                 *)
(***************************************************************************)

\* h with the entries of g, which replace those h has.
Put(h, g) == [x \in DOMAIN h \cup DOMAIN g |-> IF x \in DOMAIN g THEN g[x] ELSE h[x]]

\* h without its entries for the keys in S.
Del(h, S) == [x \in DOMAIN h \ S |-> h[x]]

\* The map with one entry.
Field(x, v) == [y \in {x} |-> v]

\* The map without entries.
Empty == [x \in {} |-> 0]

=============================================================================
