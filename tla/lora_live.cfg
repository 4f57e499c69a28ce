SPECIFICATION FairSpec
CONSTANTS
    Modulus = 16
    Copies = {c1, c2, c3}
    Joins = {}
    Requests = {}
    Gateways = {g1}
    Rssi = {1}
    None = None
    Kinds <- OnlyEmpty
    ClassC = {FALSE}
    LowCount = 0
    Starts = {2}
    Cached = {TRUE}
    MaxFrames = 2
    MaxReorder = 1
    MaxAttempts = 0
    MaxResets = 0
    MaxRestarts = 0
    Faults = FALSE
CHECK_DEADLOCK FALSE
PROPERTIES
    AcceptedIsReported
