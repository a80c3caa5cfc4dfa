SPECIFICATION FairSpec
CONSTANTS
    p = p
    q = q
    a = a
    c = c
    d = d
    None = None
    Procs = {p, q}
    Owners = {p}
    Posts = {a, c}
    Campaigns = {}
    Fires <- NoStrikes
    PostWindow = 0
    CampaignWindow = 0
    Lead = 1
    Batch = 1
    MissBatch = 1
    MaxSends = 2
    Quota = 1
    MaxTime = 2
    MaxFaults = 1
INVARIANTS
    TypeOK
    AtMostOnce
    SentIsPosted
    StoppedNeverPosts
PROPERTIES
    DueIsResolved
CHECK_DEADLOCK FALSE
