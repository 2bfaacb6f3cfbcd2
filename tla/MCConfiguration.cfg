SPECIFICATION Spec
CONSTANTS
    g1 = g1
    g2 = g2
    a1 = a1
    r1 = r1
    c1 = c1
    c2 = c2
    Groups = {g1, g2}
    Agents = {a1}
    Routines = {r1}
    Channels = {c1, c2}
    Workspaces <- MCWorkspaces
    GroupRoots <- MCGroupRoots
    ExtraRoots <- MCExtraRoots
    Missing <- MCMissing
    HandWritten <- MCHandWritten
    Absent = Absent
    Malformed = Malformed
    MaxSaves = 3
CHECK_DEADLOCK FALSE
INVARIANTS
    AcceptedResolves
    RunsCannotReachStores
PROPERTIES
    SavesKeepAgentsRunnable
