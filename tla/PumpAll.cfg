SPECIFICATION FairSpec
CONSTANTS
    FrameIds <- MCFrameIds
    MaxFrames = 2
INVARIANTS
    PumpAlive
    CadenceFollowsTab
PROPERTIES
    KeepsTicking
