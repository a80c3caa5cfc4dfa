SPECIFICATION Spec
CONSTANTS
    m1 = m1
    m2 = m2
    m3 = m3
    g1 = g1
    g2 = g2
    Messages <- MCMessages
    GuildOf <- MCGuildOf
    MemberOf <- MCMemberOf
    NoGuild = NoGuild
    NoMessage = NoMessage
    Starters = {s1, s2}
    NoStarter = NoStarter
    MaxWorkers = 2
    MaxPendingTotal = 3
    MaxPendingPerGuild = 2
    MaxCrashes = 0
    MaxFaults = 0
INVARIANTS
    OneActivePerGuild
