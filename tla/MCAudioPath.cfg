SPECIFICATION MCSpec
CONSTANTS
    HighWater = 8
    Prefetch = 5
    SfxChunks = 2
    Sounds = 2
    N = 4
    Lag = 3
    MaxFrames = 5
INVARIANTS
    WakeUpsKept
    BlocksTaken
PROPERTIES
    SamplesProcessed
