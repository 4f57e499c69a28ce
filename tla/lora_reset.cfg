SPECIFICATION Spec
CONSTANTS
    Modulus = 16
    Copies = {c1, c2}
    Joins = {}
    Requests = {}
    Gateways = {g1}
    Rssi = {1}
    None = None
    Kinds <- OnlyPlain
    ClassC = {FALSE}
    LowCount = 2
    Starts = {2}
    Cached = {TRUE}
    MaxFrames = 2
    MaxReorder = 1
    MaxAttempts = 0
    MaxResets = 0
    MaxRestarts = 0
    Faults = FALSE
SYMMETRY Symmetry
CHECK_DEADLOCK FALSE
INVARIANTS
    ResetMeansDeviceReset
