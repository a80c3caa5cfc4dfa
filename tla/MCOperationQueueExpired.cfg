SPECIFICATION Spec
CONSTANTS
    a = a
    b = b
    x = x
    k1 = k1
    k2 = k2
    k3 = k3
    lane = lane
    wide = wide
    pool = pool
    type = type
    kind = kind
    None = None
    Live = Live
    TypeOf <- OneType
    PoolOf <- OnePool
    Calls = {a, b}
    Exclusive = {}
    RejectBusy = {}
    Cancellable = {}
    CancelTargets = {}
    KeyOf <- SameKey
    LaneOf <- OneLane
    MaxGlobal = 1
    PoolCap <- Cap1
    MaxPerType = 1
    MaxQueue = 1
    MaxCrashes = 1
    MaxFaults = 0
INVARIANTS
    ExpiredMayBeResubmitted
CHECK_DEADLOCK FALSE
