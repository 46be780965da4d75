SPECIFICATION FairSpec
CONSTANTS
    e1 = e1
    e2 = e2
    Event = {e1, e2}
    MaxConn = 2
    Tablet = {t1, t2}
    Reader = {t1}
    MaxPeers = 1
    Keep = 1
    Batch = 1
    ListLimit = 2
    PageLimit = 1
    MaxAction <- MCMaxAction
    None = None
CHECK_DEADLOCK FALSE
INVARIANTS PeersBounded OneTabletPerConnection CopyComplete ConnectedNotExpired
PROPERTIES CatchesUp
