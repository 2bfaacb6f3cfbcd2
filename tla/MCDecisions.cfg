SPECIFICATION Spec
CONSTANTS
    Jobs = {j1, j2}
    Verdicts = {v1}
    Nobody = Nobody
    NoFile = NoFile
    NoJob = NoJob
    Server = Server
    MaxDeaths = 2
    MaxStops = 2
INVARIANTS
    ShownIsTrue
    LostOnlyByOverlap
    OneActive
    NoJobForgotten
    DecidedHasDecision
    FailedSubmissionIsUndone
    EndIsShown
    StartupShows
SYMMETRY Symmetry
