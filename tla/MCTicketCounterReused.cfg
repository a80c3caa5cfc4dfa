SPECIFICATION Spec
CONSTANTS
    t1 = t1
    t2 = t2
    t3 = t3
    None = None
    Calls = {t1, t2}
    Abandonable = {}
    Legacy = 0
    StartHistory = 0
    StartCounter = None
    MaxTries = 2
    MaxReadFaults = 1
    MaxWriteFaults = 0
SYMMETRY Alike
PROPERTIES
    NeverReused
CHECK_DEADLOCK FALSE
