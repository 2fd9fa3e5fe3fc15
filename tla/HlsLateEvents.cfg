SPECIFICATION Spec
CONSTANTS
    MaxBufferedSegments = 2
    Encrypted = {1, 2}
    MaxSequence = 3
    MaxListed = 3
INVARIANTS
    NoEventsAfterStop
CHECK_DEADLOCK FALSE
