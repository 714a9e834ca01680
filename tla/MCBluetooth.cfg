SPECIFICATION MCSpec
CONSTANTS
    QueueLen = 5
    Sessions = 2
    Faults = TRUE
    MaxVol = 2
    Step = 1
    MaxQueue = 1
    MaxRsp = 1
    Supported = {"TRACK", "STATUS"}
    QLen = 2
    MaxTexts = 2
INVARIANTS
    SessionsApart
    RegistrationsKept
PROPERTIES
    ImplementsSession
    BluetoothSettles
    OneStepPerPress
    TextsFreed
CHECK_DEADLOCK FALSE
