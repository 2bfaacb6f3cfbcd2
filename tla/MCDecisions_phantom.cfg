SPECIFICATION Spec
CONSTANTS
    Jobs = {j1}
    Verdicts = {}
    Nobody = Nobody
    NoFile = NoFile
    NoJob = NoJob
    Server = Server
    MaxDeaths = 0
    MaxStops = 0
INVARIANTS
    NoPhantomRun
