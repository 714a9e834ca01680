SPECIFICATION SafetySpec
CONSTANTS
    QueueLen = 10
    Sessions = 2
    Faults = FALSE
INVARIANTS
    WaitsOnlyForDispatched
CHECK_DEADLOCK FALSE
