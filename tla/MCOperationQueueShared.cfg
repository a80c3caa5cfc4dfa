SPECIFICATION FairSpec
CONSTANTS
    a = a
    b = b
    x = x
    k1 = k1
    k2 = k2
    k3 = k3
    lane = lane
    wide = wide
    pool = pool
    type = type
    kind = kind
    None = None
    Live = Live
    TypeOf <- TwoTypes
    PoolOf <- OnePool
    Calls = {a, b, x}
    Exclusive = {b, x}
    RejectBusy = {b}
    Cancellable = {}
    CancelTargets = {x}
    KeyOf <- BothWays
    LaneOf <- TwoLanes
    MaxGlobal = 2
    PoolCap <- Cap2
    MaxPerType = 1
    MaxQueue = 1
    MaxCrashes = 0
    MaxFaults = 0
PROPERTIES
    PromiseKept
    AdmittedJobsEnd
CHECK_DEADLOCK FALSE
