SPECIFICATION Spec
CONSTANTS
    g1 = g1
    g2 = g2
    a1 = a1
    c1 = c1
    c2 = c2
    k1 = k1
    k2 = k2
    d1 = d1
    d2 = d2
    p1 = p1
    p2 = p2
    j1 = j1
    text = text
    Groups = {g1, g2}
    Agents = {a1}
    Channels = {c1, c2}
    Own = {k1, k2}
    Personal = k1
    Paths = {d1, d2}
    Texts = {text}
    Blank = Blank
    Absent = Absent
    Procs = {p1, p2}
    Jobs = {j1}
    Nobody = Nobody
    Order <- MCOrder
    Initial <- MCInitial
    MaxOps = 2
    MaxFaults = 1
SYMMETRY ProcSymmetry
CHECK_DEADLOCK FALSE
INVARIANTS
    OrderedLocks
    MemoryKept
PROPERTIES
    MoveIsWhole
    JobsKeepHome
