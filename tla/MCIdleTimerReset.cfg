SPECIFICATION SafetySpec
CONSTANTS
    QueueLen = 2
    Burst = 1
PROPERTIES
    IdleLeftOnlyWhenTimerExpired
