SPECIFICATION FairSpec
CONSTANTS
    Rooms = {"voice"}
    MaxCalls = 2
    MaxFaults = 1
    MaxCrashes = 1
PROPERTIES
    EndingIsResolved
    CreatingEnds
CHECK_DEADLOCK FALSE
