SPECIFICATION Spec
CONSTANTS
    Log = {l1, l2}
    Member = {m1, m2}
    None = None
    Many = Many
    MaxFeed = 2
    MaxTargeted = 1
    Writers = {"edit", "manual"}
SYMMETRY Symmetric
PROPERTIES StalePlanReplays
