SPECIFICATION FairSpec
CONSTANTS
    t1 = t1
    t2 = t2
    t3 = t3
    None = None
    Calls = {t1, t2}
    Abandonable = {t1, t2}
    Legacy = 2
    StartHistory = 1
    StartCounter = 0
    MaxTries = 2
    MaxReadFaults = 1
    MaxWriteFaults = 3
INVARIANTS
    TypeOK
    AboveLegacy
PROPERTIES
    CallsEnd
    NumbersOnlyGrow
    CounterNeverLowered
CHECK_DEADLOCK FALSE
