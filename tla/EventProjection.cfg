SPECIFICATION Spec
CONSTANTS
    Log = {l1, l2}
    Member = {m1, m2}
    None = None
    Many = Many
    MaxFeed = 3
    MaxTargeted = 1
    Writers = {"native", "edge", "edit"}
SYMMETRY Symmetric
INVARIANTS ProjectionCurrent
