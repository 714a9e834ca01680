SPECIFICATION MCSpec
CONSTANTS
    None = None
    Boards = {0, 1, 8}
    BoardFaults = 3
    GaugeFaults = 2
    MaxRestarts = 2
    Cols = 2
    SearchWidth = 2
    Names = {1}
    Addresses = {0, 3}
    EyeFrames <- Eyes
    Closed = 2
    EyeUpdates = 6
    ArrowFrames <- Arrows
    Words <- Readings
    Thresholds = {0, 1, 17, 32, 33}
    Voltages <- Limits
INVARIANTS
    LightsRight
    RailsRight
    AlertsHeard
    SettingsRight
PROPERTIES
    PairingShown
    SpeakerStarts
    LowBatteryShown
