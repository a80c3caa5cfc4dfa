SPECIFICATION Spec
CONSTANTS
    u1 = u1
    u2 = u2
    u3 = u3
    u4 = u4
    s1 = s1
    s2 = s2
    Nobody = Nobody
    Users = {u1,u2,u3,u4}
    Sessions = {s1}
    GameOf <- OneGame
    CapacityOf <- TwoSeats
    Blocks <- OnePair
    MaxActive = 2
    MaxPerMember = 2
    MinPlayers = 1
    ReadyToStart = FALSE
    StaffOverride = TRUE
INVARIANTS
    WithinCapacity
CHECK_DEADLOCK FALSE
