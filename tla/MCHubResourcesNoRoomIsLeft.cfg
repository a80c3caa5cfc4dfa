SPECIFICATION FairSpec
CONSTANTS
    Rooms = {"voice"}
    MaxCalls = 2
    MaxFaults = 0
    MaxCrashes = 0
INVARIANTS
    NoRoomIsLeft
CHECK_DEADLOCK FALSE
