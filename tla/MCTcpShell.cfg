SPECIFICATION MCSpec
CONSTANTS
    Ids = {"BATT_GET_SOC", "?"}
    MaxReq = 4
    MaxConn = 3
    AnyReq = 3
    AnyConn = 2
    CanHurry = TRUE
    CanForgo = TRUE
    CanSplit = TRUE
    HalfDay = 2
    Minutes = 2
    Seconds = 3
    MenuTime = 17
    Numbers = {0, 2, 5}
INVARIANTS
    PatientClientServed
    HandlerUndisturbed
    ClockRight
PROPERTIES
    KnownRequestsAnswered
