SPECIFICATION FairSpec
CONSTANTS
    home = home
    item = item
    Pages = {home, item}
    RetryCount = 1
    Timeout = 2
    MaxDate = 2
    MaxCrawls = 2
    CacheTtl = 2
    StartInterval = 1
    MinInterval = 1
    MaxInterval = 3
    ErrorRatio = 3
    Interval = 1
    Rate = 2
    Minute = 2
    CrawlDelay = 1
INVARIANTS
    TypeOK
    RateHolds
    BodiesAreCurrent
PROPERTIES
    BackoffHolds
    EveryPageIsDone
CHECK_DEADLOCK FALSE
