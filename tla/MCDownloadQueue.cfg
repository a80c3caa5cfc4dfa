SPECIFICATION FairSpec
CONSTANTS
    m1 = m1
    m2 = m2
    m3 = m3
    g1 = g1
    g2 = g2
    Messages <- MCMessages
    GuildOf <- MCGuildOf
    MemberOf <- MCMemberOf
    NoGuild = NoGuild
    NoMessage = NoMessage
    Starters = {s1}
    NoStarter = NoStarter
    MaxWorkers = 2
    MaxPendingTotal = 2
    MaxPendingPerGuild = 2
    MaxCrashes = 1
    MaxFaults = 1
INVARIANTS
    TypeOK
    OneActivePerGuild
PROPERTIES
    PromiseKept
    RequestsAreResolved
