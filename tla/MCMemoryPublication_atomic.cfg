SPECIFICATION Spec
CONSTANTS
    j1 = j1
    j2 = j2
    s1 = s1
    s2 = s2
    memoryMd = memoryMd
    notesMd = notesMd
    blank = blank
    text = text
    Jobs = {j1, j2}
    Saves = {s1, s2}
    Files <- MCFiles
    Data <- MCData
    Absent = Absent
    DefaultFile = memoryMd
    DefaultData = blank
    NoDir = NoDir
    Nobody = Nobody
    Server = Server
    Initial <- MCInitial
    Results <- MCResults
    MaxCrashes = 0
    MaxFaults = 1
PROPERTIES
    IsAtomic
