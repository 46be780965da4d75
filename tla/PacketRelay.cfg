SPECIFICATION Spec
CONSTANTS
    r1 = r1
    r2 = r2
    race1 = race1
    n1 = n1
    None = None
    Id = {r1, r2}
    Minted = {r2}
    Race = {race1}
    Bib = {n1}
    Chip = {}
    PersonId <- MCPersonId
    Text = {"x", "y"}
    Op = {o1, o2}
    Edit = {}
    EditorFields = {"bib", "person"}
    SiteEdit = {s1}
    MaxRebase = 1
    Timed = {}
    Commands = {"edit_person", "issue", "return_to_reserve"}
    InitRoster <- MCRoster
SYMMETRY Symmetric
CHECK_DEADLOCK FALSE
INVARIANTS BaselineTracksSite FeedNeverBlocks Converged
PROPERTIES LocalChangesKept
