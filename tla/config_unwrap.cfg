SPECIFICATION Spec
CONSTANTS
    Reads = {q1, q2}
    Updates = {}
    Gateways = {g1}
    Answers = {a1}
    None = None
CHECK_DEADLOCK FALSE
INVARIANTS
    UnwrapHolds
