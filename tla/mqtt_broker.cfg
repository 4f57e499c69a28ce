SPECIFICATION FairSpec
CONSTANTS
    p1 = p1  s1 = s1  s2 = s2  b1 = b1  pub = pub  sub = sub  own = own
    f1 = f1  f2 = f2  t1 = t1
    Links = {p1, s1, s2}
    Clients = {pub, sub}
    ClientOf <- OfTwo
    Clean = {p1}
    Local = {p1}
    Filters = {f1}
    Topics = {t1}
    Matching <- OneFilter
    Publishers = {pub}
    Subscribers = {sub}
    PublishQos = {0}
    SubscribeQos = {1}
    Retained = {3}
    Empty = {}
    Expiring = {}
    Controls = {"Subscribe", "PingReq", "Disconnect"}
    MaxConnections = 2
    BufferLimit = 2
    MaxInflight = 2
    MaxRead = 2
    ChannelSize = 1
    MaxDrain = 1
    MaxPoll = 1
    MaxIterations = 1
    MaxPublish = 3
    MaxControls = 1
    SegmentSize = 1
    SegmentCount = 2
    None = None
CHECK_DEADLOCK FALSE
INVARIANTS
    TypeOK
    OneRequest
    ParkedIsCaughtUp
    NoLostWakeup
    InflightDistinct

PROPERTIES ImplementsPubSub
