SPECIFICATION Spec
CONSTANTS
    Instance = {i1, i2}
    Endpoint = {e1, e2}
    None = None
    MaxRow = 2
    MaxRevision = 2
    Contended = TRUE
SYMMETRY Symmetric
INVARIANTS SentWithConsent ExclusiveSend
PROPERTIES AckedAtConfigured LeaseProtectsRow
