SPECIFICATION Spec
CONSTANTS
    Modes <- MCRefusing
    MaxSessions = 2
    MaxStack = 6
    FrameIds <- MCFrameIds
    MaxFrames = 3
INVARIANTS
    ActiveMeansLive
