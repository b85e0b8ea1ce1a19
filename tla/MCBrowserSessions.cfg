SPECIFICATION FairSpec
CONSTANTS
    r1 = r1
    r2 = r2
    r3 = r3
    Requests <- MCRequests
    Profiles = {"A", "B"}
    Keys = {"k", "l"}
    Proxies = {"p", "q"}
    MaxUses = 2
    Habits <- MCHabits
INVARIANT
    OneBrowserPerKey
PROPERTIES
    ProfileIsPinned
    DeadBrowserIsReplaced
