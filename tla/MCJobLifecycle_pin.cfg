SPECIFICATION Spec
CONSTANTS
    j1 = j1
    j2 = j2
    Jobs = {j1}
    Nobody = Nobody
    MaxCrashes = 0
INVARIANT EndedWorkerLeavesNoPin
