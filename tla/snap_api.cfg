SPECIFICATION Spec
CONSTANTS
    Slots = {1, 2}
    Names = {"ann", "bob"}
    Euis = {901, 902, 903, 904, 905, 906}
    Addrs = {801, 802}
    MaxCount = 2
    Stride = 100
    Start <- MCStart
    Scenarios <- MCScenarios
INVARIANTS
    TypeOK
    RecordOwned
    StoredWhole
    OneDefault
CHECK_DEADLOCK FALSE
