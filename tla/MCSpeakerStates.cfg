SPECIFICATION Spec
CONSTANTS
    QueueLen = 2
    Burst = 1
INVARIANTS
    NoTrap
    BtFollowsStates
PROPERTIES
    UsesSession
    ResultShownFullPeriod
    StatesMoveOn
