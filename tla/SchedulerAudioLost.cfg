SPECIFICATION Spec
CONSTANTS
    Budget = 1
    HighWater = 1
    Capacity = 2
    StallThreshold = 1
    FatalStall = 3
    WallOrigin = 20
    Ahead = 1
    DriftWindow = 2
    DriftLimit = 2
    MaxDelay = 1
    MaxSwitches = 2
    Wrap = 1000
    Origins = {0}
    Events = {"start","suspend"}
    MaxChunks = 4
    MaxTime = 6
PROPERTIES
    DropsOnlyLate
