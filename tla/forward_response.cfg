SPECIFICATION FairSpec
CONSTANTS
    Shorts = {f1, f2, f3}
    Longs = {l1}
    Uplinks = {u1, u2}
    None = None
CHECK_DEADLOCK FALSE
INVARIANTS
    EntryHasOwner
    AloneIsReachable
PROPERTIES
    ShortForwardLeaves
