SPECIFICATION FairSpec
CONSTANTS
    Log = {l1, l2}
    Member = {m1}
    None = None
    Many = Many
    MaxFeed = 2
    MaxTargeted = 1
    Writers = {"native", "edit"}
PROPERTIES CatchesUp
