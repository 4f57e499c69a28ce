SPECIFICATION Spec
CONSTANTS
    Modulus = 16
    Copies = {c1,c2}
    Joins = {j1, j2}
    Requests = {}
    Gateways = {g1}
    Rssi = {1}
    None = None
    Kinds <- OnlyEmpty
    ClassC = {FALSE}
    LowCount = 2
    Starts = {0}
    Cached = {TRUE, FALSE}
    MaxFrames = 2
    MaxReorder = 1
    MaxAttempts = 2
    MaxResets = 0
    MaxRestarts = 0
    Faults = TRUE
SYMMETRY Symmetry
CHECK_DEADLOCK FALSE
INVARIANTS
    TypeOK
    SessionConfirmed
    SessionKept
