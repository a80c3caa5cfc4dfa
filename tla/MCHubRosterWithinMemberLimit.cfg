SPECIFICATION Spec
CONSTANTS
    u1 = u1
    u2 = u2
    u3 = u3
    u4 = u4
    s1 = s1
    s2 = s2
    Nobody = Nobody
    Users = {u1,u2,u3}
    Sessions = {s1, s2}
    GameOf <- TwoGames
    CapacityOf <- TwoSeats
    Blocks <- OnePair
    MaxActive = 2
    MaxPerMember = 1
    MinPlayers = 1
    ReadyToStart = FALSE
    StaffOverride = TRUE
INVARIANTS
    WithinMemberLimit
CHECK_DEADLOCK FALSE
