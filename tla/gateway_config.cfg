SPECIFICATION FairSpec
CONSTANTS
    Reads = {q1, q2}
    Updates = {p1}
    Gateways = {g1}
    Answers = {a1}
    None = None
CHECK_DEADLOCK FALSE
INVARIANTS
    TypeOK
    NothingLeftBehind
    WaiterReachable
    PoisonedByRead
PROPERTIES EveryRequestEnds
