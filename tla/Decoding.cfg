SPECIFICATION MCSpec
CONSTANTS
    MaxConfigs = 2
    MaxChunks = 3
    HighWater = 3
    HasProbe = TRUE
    ForceSoft = TRUE
    ErrorCloses = TRUE
    MaxSubmitted = 3
    MaxCreates = 3
    MaxUnits = 3
    MaxHevcConfigs = 2
    Ahead = 2
    Durations = {1, 2, 3}
    MaxBuffers = 3
    MaxTime = 5
INVARIANTS
    DecodedInOrder
    NoDecoderLeak
    SoundsInOrder
PROPERTIES
    SilentAfterClose
    HeldChunksAreReleased
    DecodesSafely
    SlicesHaveParameters
CHECK_DEADLOCK FALSE
