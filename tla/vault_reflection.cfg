\* Four memories, two of them important, three runs in two processes, two hours, one fault.
SPECIFICATION Spec
CONSTANTS
    Memories = {m1, m2, m3, m4}
    Early = {m1, m2, m3}
    Important = {m1, m3}
    Place <- MCPlace
    EdgeLists <- MCEdgeLists
    Processes = {p1, p2}
    Full = 2
    PromoteMin = 2
    ResurrectCeil = 1
    Rate = 1
    Day = 2
    MinCluster = 2
    MaxHours = 2
    MaxRuns = 3
    MaxFaults = 1
    m1 = m1
    m2 = m2
    m3 = m3
    m4 = m4
INVARIANTS
    TypeOK
    CrystalsMatchMarks
    OneCrystalEach
    ClustersAreComponents
CHECK_DEADLOCK FALSE
