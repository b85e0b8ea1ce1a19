SPECIFICATION Spec
CONSTANTS
    home = home
    list = list
    item = item
    Seeds = {home}
    Allowed = {home, list, item}
    Unfiltered = {}
    Links <- MCList
    BucketOf <- MCOneBucket
    DomainOf <- MCOneDomain
    Limit = 1
    FirstBefore = {}
    LastBefore = {}
    LastAfter = {}
    MaxConcurrent = 2
    PerDomain = 2
    Robots = {"allow"}
    Faults = FALSE
    Urls = {home, list, item}
    Limited = {home, list, item}
    RetryCount = 1
    FirstAfter = {"retry"}
    Timed = {home, list, item}
    LeasesExpire = FALSE
    MaxLease = 2
INVARIANTS
    FullMeansBusy
