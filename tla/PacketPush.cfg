SPECIFICATION FairSpec
CONSTANTS
    r1 = r1
    r2 = r2
    p1 = p1
    Reg = {r1, r2}
    Person = {p1, p2}
    InitOwner <- MCOwner
    MaxOp = 2
    MaxEdit = 1
    MaxSiteEdit = 1
    MaxFail = 1
    Sync = {s1, s2}
    Refusable = {1}
    None = None
CHECK_DEADLOCK FALSE
INVARIANTS AcksAreTheSites ClubOfOwner
PROPERTIES PendingEditKept Delivered ClubsAgree
