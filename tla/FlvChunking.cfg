SPECIFICATION Spec
CONSTANTS
    HeaderSize = 3
    TagHeaderSize = 2
    PrevTagSize = 2
    Sizes = {0, 1}
    MaxTags = 2
INVARIANTS
    TagEmittedOnce
CHECK_DEADLOCK FALSE
