SPECIFICATION Spec
CONSTANTS
    t1 = t1
    t2 = t2
    t3 = t3
    None = None
    Calls = {t1, t2, t3}
    Abandonable = {t1, t2, t3}
    Legacy = 2
    StartHistory = 1
    StartCounter = 0
    MaxTries = 1
    MaxReadFaults = 0
    MaxWriteFaults = 2
SYMMETRY Alike
INVARIANTS
    TypeOK
    AboveLegacy
PROPERTIES
    NumbersOnlyGrow
    CounterNeverLowered
CHECK_DEADLOCK FALSE
