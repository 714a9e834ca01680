SPECIFICATION MCSpec
CONSTANTS
    Producers = {p1, p2}
    Owners = {o1, o2}
    Second = o2
    Clients = {k1}
    QueueLen = 2
    MaxExternal = 2
    MaxPushes = 2
    MaxCalls = 2
    NULL = NULL
    Plus = Plus
    Pair = Pair
    Off = Off
    Debounce = 1
    Short = 2
    Period = 2
    Width = 6
    TimerQueue = 2
INVARIANTS
    DeliveryRight
    PressesRight
PROPERTIES
    ImplementsBroadcast
    EventsArrive
    HoldRepeats
