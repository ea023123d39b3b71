CONSTANTS
    LastVersion = 3
    LastFile = 3
    Finalizers = {w1}
SPECIFICATION MediaSpec
INVARIANTS OriginalIsRestorable
CHECK_DEADLOCK FALSE
