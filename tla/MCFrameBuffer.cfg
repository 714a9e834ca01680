SPECIFICATION Spec
CONSTANTS
    Rows = 2
    MaxFrames = 3
    Presses = 2
INVARIANTS
    FramesWhole
PROPERTIES
    ImplementsMailbox
    LastFrameShown
