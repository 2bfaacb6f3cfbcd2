SPECIFICATION FairSpec
CONSTANTS
    j1 = j1
    j2 = j2
    Jobs = {j1, j2}
    Nobody = Nobody
    MaxCrashes = 3
INVARIANTS
    Coherent
    CancelledNeverRuns
    PinnedWhileNeeded
PROPERTIES
    EndedStays
    OnlyTheDeadFail
    SubmittedEnds
    StartupResolves
