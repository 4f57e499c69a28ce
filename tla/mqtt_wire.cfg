SPECIFICATION FairSpec
CONSTANTS
    Scenarios <- AllScenarios
    Chunks = {1, 7, 200}
    MaxPayload = 200
    MaxBuffer = 2
    Prefix <- UserPrefix
CHECK_DEADLOCK FALSE
INVARIANTS
    TypeOK
    InOrder
    NothingWithheld
    RepliesReadable
PROPERTIES
    AllDelivered
