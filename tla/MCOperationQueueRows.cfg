SPECIFICATION FairSpec
CONSTANTS
    a = a
    b = b
    x = x
    k1 = k1
    k2 = k2
    k3 = k3
    lane = lane
    wide = wide
    pool = pool
    type = type
    kind = kind
    None = None
    Live = Live
    TypeOf <- OneType
    PoolOf <- OnePool
    Calls = {a}
    Exclusive = {}
    RejectBusy = {}
    Cancellable = {}
    CancelTargets = {a}
    KeyOf <- SameKey
    LaneOf <- OneLane
    MaxGlobal = 1
    PoolCap <- Cap1
    MaxPerType = 1
    MaxQueue = 1
    MaxCrashes = 0
    MaxFaults = 0
PROPERTIES
    RowsSettle
CHECK_DEADLOCK FALSE
