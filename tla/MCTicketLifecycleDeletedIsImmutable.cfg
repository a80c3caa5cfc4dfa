SPECIFICATION Spec
CONSTANTS
    s1 = s1  s2 = s2
    Staff = {s1, s2}
    GuildOwner = owner
    Requester = requester
    System = system
    Calls = {c1, c2}
    Sweeper = sweeper
    Swept = TRUE
    Asked <- SomeRequests
    StartRows <- AllStart
    MaxTries = 2
    MaxFaults = 0
    None = none
    Keep = keep
PROPERTY DeletedIsImmutable
CHECK_DEADLOCK FALSE
