SPECIFICATION Spec
CONSTANTS
    Modulus = 16
    Copies = {c1, c2, c3}
    Joins = {}
    Requests = {}
    Gateways = {g1}
    Rssi = {1, 2}
    None = None
    Kinds <- OnlyPlain
    ClassC = {FALSE}
    LowCount = 2
    Starts = {15}
    Cached = {TRUE}
    MaxFrames = 2
    MaxReorder = 1
    MaxAttempts = 0
    MaxResets = 1
    MaxRestarts = 0
    Faults = FALSE
SYMMETRY Symmetry
CHECK_DEADLOCK FALSE
INVARIANTS
    AtMostOnce
    BestCopyKept
    Resynchronises
