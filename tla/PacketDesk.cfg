SPECIFICATION DeskSpec
CONSTANTS
    r1 = r1
    r2 = r2
    r3 = r3
    a = a
    b = b
    n1 = n1
    n2 = n2
    k1 = k1
    None = None
    Id = {r1, r2, r3}
    Minted = {r3}
    Race = {a, b}
    Bib = {n1, n2}
    Chip = {k1}
    PersonId <- MCPersonId
    Text = {"x", "y"}
    Op = {o1, o2}
    Edit = {e1}
    SiteEdit = {}
    EditorFields = {"bib"}
    Timed = {n1}
    Commands = {"create_registration", "return_to_reserve", "assign_number", "clear_number",
                "issue", "release_to_reserve", "edit_person", "change_race", "replace_person",
                "move_race", "assign_reserve", "correct_move"}
    InitRoster <- MCRoster
SYMMETRY Symmetric
CHECK_DEADLOCK FALSE
INVARIANTS FeedReplaysRoster
PROPERTIES NumberedOnce PlacedOnce TimedRowsKept ArchivingKeepsDecisions
