SPECIFICATION FairSpec
CONSTANTS
    p = p
    q = q
    a = a
    c = c
    d = d
    None = None
    Procs = {p, q}
    Owners = {p, q}
    Posts = {a}
    Campaigns = {c, d}
    Fires <- Strikes
    PostWindow = 0
    CampaignWindow = 0
    Lead = 1
    Batch = 1
    MissBatch = 1
    MaxSends = 2
    Quota = 1
    MaxTime = 2
    MaxFaults = 1
INVARIANTS
    TypeOK
    AtMostOnce
    SentIsPosted
    StoppedNeverPosts
    QuotaHolds
PROPERTIES
    NoBurst
    PromiseKept
    DueIsResolved
CHECK_DEADLOCK FALSE
