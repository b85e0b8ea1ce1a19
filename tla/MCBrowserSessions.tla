------------------------ MODULE MCBrowserSessions ------------------------
(* Three requests of a session, and the ways to use it.                    *)
EXTENDS BrowserSessions

CONSTANTS r1, r2, r3

MCRequests == {r1, r2, r3}

Of(profile, key, proxy, on_error, drops) ==
    [profile |-> profile, key |-> key, proxy |-> proxy, on_error |-> on_error, drops |-> drops]

By(k1, k2, k3) == [r \in MCRequests |-> CASE r = r1 -> k1 [] r = r2 -> k2 [] r = r3 -> k3]

MCHabits ==
    { \* one profile, named by all; two may be dropped, also as they write it
      By(Of("A", "k", "p", "keep", TRUE), Of("A", "k", "p", "reset", TRUE),
         Of("A", "k", "p", "keep", FALSE)),
      \* two profiles, and two proxies for one of them
      By(Of("A", "k", "p", "keep", FALSE), Of("A", "k", "q", "keep", FALSE),
         Of("B", "k", "p", "keep", FALSE)),
      \* a browser for each request, some of which name no profile
      By(Of("A", Isolated, "p", "keep", FALSE), Of("B", Isolated, "p", "keep", FALSE),
         Of(None, Isolated, "q", "keep", TRUE)),
      \* the same, and one that names a profile may be dropped as it writes it
      By(Of("A", Isolated, "p", "keep", TRUE), Of("B", Isolated, "p", "keep", FALSE),
         Of(None, Isolated, "p", "keep", FALSE)),
      \* two keys, and a browser for one request alone
      By(Of("A", "k", "p", "keep", FALSE), Of("A", "l", "p", "keep", FALSE),
         Of("A", Isolated, "p", "keep", TRUE)) }

=============================================================================
