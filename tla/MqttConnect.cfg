SPECIFICATION FairSpec
CONSTANTS
    MaxId = 2
    Kinds = {"none", "puback", "pubrec", "suback"}
    MaxCalls = 0
    MaxMessages = 1
    Listeners = {"close", "call"}
CHECK_DEADLOCK FALSE
PROPERTIES
    ConnectSettles
