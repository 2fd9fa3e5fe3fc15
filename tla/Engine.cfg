SPECIFICATION FairSpec
CONSTANTS
    Modes <- MCModes
    MaxSessions = 3
    MaxStack = 9
    FrameIds <- MCFrameIds
    MaxFrames = 3
INVARIANTS
    NoOrphan
    OneErrorPerSession
    PumpMatchesState
PROPERTIES
    ConnectingEnds
    ImplementsLifecycle
