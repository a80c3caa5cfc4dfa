SPECIFICATION FairSpec
CONSTANTS
    Rooms = {"voice"}
    MaxCalls = 2
    MaxFaults = 0
    MaxCrashes = 0
PROPERTIES
    EndingIsCleanedUp
CHECK_DEADLOCK FALSE
