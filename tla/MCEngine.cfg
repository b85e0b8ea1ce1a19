SPECIFICATION FairSpec
CONSTANTS
    home = home
    list = list
    item = item
    Urls = {home, list, item}
    Seeds = {home, item}
    Allowed = {list}
    Unfiltered = {home}
    Links <- MCLinks
    BucketOf <- MCBuckets
    DomainOf <- MCDomains
    Limited = {home, list, item}
    Limit = 1
    RetryCount = 1
    FirstBefore = {"delay"}
    LastBefore = {"delay", "error"}
    FirstAfter = {"retry"}
    LastAfter = {"retry", "drop"}
    MaxConcurrent = 2
    PerDomain = 1
    Robots = {"allow", "disallow", "delay", "error"}
    Timed = {home, list, item}
    LeasesExpire = TRUE
    Faults = TRUE
    MaxLease = 3
INVARIANTS
    TypeOK
    DownloadsWithinLimit
    EveryLeaseIsWorkedOn
    CleanStop
PROPERTIES
    TaskLeavesWhenDone
    ImplementsTaskPool
    StopEnds
