SPECIFICATION FairSpec
CONSTANTS
    Instance = {i1, i2}
    Endpoint = {e1, e2}
    None = None
    MaxRow = 1
    MaxRevision = 2
    Contended = FALSE
PROPERTIES EventuallyRelayed
