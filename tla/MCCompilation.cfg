SPECIFICATION Spec
CONSTANTS
    e1 = e1
    e2 = e2
    j1 = j1
    j2 = j2
    old = old
    Editors = {e1, e2}
    Jobs = {j1, j2}
    Nobody = Nobody
    NumFiles = 2
    Contents = {old, new, Broken}
    new = new
    Broken = Broken
    NoTree = NoTree
    Missing = Missing
    Damaged = Damaged
    Initial <- MCInitial
    Attempts = 3
    Budgets <- MCBudgets
SYMMETRY MCSymmetry
CHECK_DEADLOCK FALSE
INVARIANTS
    LibraryKept
    LaunchMatchesDigest
    PinsHeld
PROPERTIES
    SavesBuildOnEachOther
