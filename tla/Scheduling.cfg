SPECIFICATION MCSpec
CONSTANTS
    StallThreshold = 1
    FatalStall = 2
    MaxTime = 8
    Budget = 1
    HighWater = 1
    Capacity = 2
    FatalAfter = 3
    WallOrigin = 20
    Ahead = 1
    DriftWindow = 2
    DriftLimit = 2
    MaxDelay = 1
    Wrap = 1000
    Origins = {0, 40}
    Events = {"start", "suspend", "resume", "restart"}
    MaxSwitches = 1
    MaxChunks = 4
    Horizon = 5
    ClockChunks = 3
    ClockHorizon = 3
INVARIANTS
    FramesAccountedOrOverflowed
    RebufferHonest
PROPERTIES
    FatalIsEarned
    RebasedDropsOnlyLate
    StaysNearLive
    DecodesInOrder
