SPECIFICATION Spec
CONSTANTS
    MaxTracks = 2
    MaxCandidates = 3
INVARIANTS
    EncodedTracksWired
CHECK_DEADLOCK FALSE
