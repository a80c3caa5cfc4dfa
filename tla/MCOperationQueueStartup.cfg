SPECIFICATION Spec
CONSTANTS
    a = a
    b = b
    x = x
    k1 = k1
    k2 = k2
    k3 = k3
    lane = lane
    wide = wide
    pool = pool
    type = type
    kind = kind
    None = None
    Live = Live
    TypeOf <- OneType
    PoolOf <- OnePool
    Calls = {a, x}
    Exclusive = {x}
    RejectBusy = {}
    Cancellable = {}
    CancelTargets = {}
    KeyOf <- OwnKeys
    LaneOf <- OneLane
    MaxGlobal = 1
    PoolCap <- Cap1
    MaxPerType = 1
    MaxQueue = 1
    MaxCrashes = 0
    MaxFaults = 0
INVARIANTS
    OnlyDeadJobsExpire
CHECK_DEADLOCK FALSE
