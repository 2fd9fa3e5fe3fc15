SPECIFICATION MCSpec
CONSTANTS
    MaxBufferedSegments = 2
    Encrypted = {1, 2}
    MaxSequence = 3
    MaxListed = 3
    MaxTracks = 2
    MaxCandidates = 3
    MaxBlobs = 2
    AttemptLimits = {0, 2}
    ListenerCalls = {"connect", "close"}
    MaxSockets = 4
    DelayCap = 2
    MaxRequests = 2
    FlvHeaderSize = 3
    TagHeaderSize = 2
    PrevTagSize = 2
    Sizes = {0, 1}
    MaxTags = 2
    StartCode = 2
    PsHeaderSize = 3
    PacketKinds = {"pack", "ignored", "params", "badParams", "frame", "decoy", "malformed"}
    Bodies = {1}
    MaxPsPackets = 3
    Pids = {"video", "audio"}
    FrameSize = 2
    CounterModulus = 3
    MaxTsPackets = 4
    ClockModulus = 8
    Frame = 2
    Jumps <- MCJumps
    MaxStamps = 5
INVARIANTS
    PlaysInOrderOnce
    SkipsOnlyPruned
    CandidatesReachServer
    NoStraySocket
    EndReportedOnce
    DialogsAgree
    TagsParsedOnce
    FramesOnce
    FramesHaveNoHoles
    UnwrapsExactly
PROPERTIES
    KeepsReloading
    SourcesKeepContract
    EndIsFinal
    NeverBack
CHECK_DEADLOCK FALSE
