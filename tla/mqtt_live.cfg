SPECIFICATION FairSpec
CONSTANTS
    p1 = p1  s1 = s1  s2 = s2  b1 = b1  pub = pub  sub = sub  own = own
    f1 = f1  f2 = f2  t1 = t1
    Links = {s1, p1, b1}
    Clients = {sub, pub, own}
    ClientOf <- OfThree
    Clean = {p1, s1, b1}
    Local = {b1}
    Filters = {f1, f2}
    Topics = {t1}
    Matching <- TwoFilters
    Publishers = {pub}
    Subscribers = {sub}
    PublishQos = {2}
    SubscribeQos = {0, 2}
    Retained = {}
    Empty = {}
    Expiring = {}
    Controls = {"Subscribe", "Unsubscribe"}
    MaxConnections = 2
    BufferLimit = 2
    MaxInflight = 1
    MaxRead = 1
    ChannelSize = 1
    MaxDrain = 2
    MaxPoll = 1
    MaxIterations = 1
    MaxPublish = 1
    MaxControls = 2
    SegmentSize = 2
    SegmentCount = 2
    None = None
CHECK_DEADLOCK FALSE

INVARIANTS RoutesComplete
PROPERTIES CatchesUp
