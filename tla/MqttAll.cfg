SPECIFICATION FairSpec
CONSTANTS
    MaxId = 2
    Kinds = {"none", "puback", "pubrec"}
    MaxCalls = 3
    MaxMessages = 1
    Listeners = {"close", "call"}
CHECK_DEADLOCK FALSE
INVARIANTS
    ResolvedMeansAcked
    CloseReportedOnce
    NoCallForgotten
PROPERTIES
    GivesUpOnSilence
    DeadPeerNoticed
