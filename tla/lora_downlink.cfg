SPECIFICATION Spec
CONSTANTS
    Modulus = 16
    Copies = {c1, c2}
    Joins = {}
    Requests = {r1, r2}
    Gateways = {g1}
    Rssi = {1}
    None = None
    Kinds <- OnlyConfirmed
    ClassC = {TRUE, FALSE}
    LowCount = 0
    Starts = {0}
    Cached = {TRUE}
    MaxFrames = 2
    MaxReorder = 1
    MaxAttempts = 0
    MaxResets = 0
    MaxRestarts = 1
    Faults = TRUE
SYMMETRY Symmetry
CHECK_DEADLOCK FALSE
INVARIANTS
    RequestAccounted
    DownCounterFresh
