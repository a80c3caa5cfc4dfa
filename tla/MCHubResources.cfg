SPECIFICATION Spec
CONSTANTS
    Rooms = {"thread", "voice"}
    MaxCalls = 1
    MaxFaults = 1
    MaxCrashes = 1
INVARIANTS
    TypeOK
    CleanedLeavesNothing
    RoomsAreFound
    DeletedIsGone
CHECK_DEADLOCK FALSE
