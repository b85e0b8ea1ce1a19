SPECIFICATION FairSpec
CONSTANTS
    a = a
    b = b
    c = c
    open = open
    closed = closed
    Tasks = {a, b, c}
    Policies = {open, closed}
    Fallback = open
    CacheTtl = 2
    RetryDelay = 1
    MaxChanges = 2
    MaxFailures = 2
PROPERTIES
    GoodPolicyDecides
    SitePolicyPrevails
