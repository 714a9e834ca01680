SPECIFICATION SafetySpec
CONSTANTS
    HighWater = 8
    Prefetch = 5
    SfxChunks = 2
    Sounds = 2
INVARIANTS
    WorkingWhileProcessing
