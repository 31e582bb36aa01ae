\* One important memory, the documented rate (200 units are 1.0), 24 hours a day.
SPECIFICATION ScheduledSpec
CONSTANTS
    Memories = {m1}
    Early = {}
    Important = {m1}
    Place <- MCOnePlace
    EdgeLists <- MCNoEdges
    Processes = {p1}
    Full = 200
    PromoteMin = 160
    ResurrectCeil = 60
    Rate = 1
    Day = 24
    MinCluster = 4
    MaxHours = 73
    MaxRuns = 100
    MaxFaults = 0
    m1 = m1
    m2 = m2
    m3 = m3
    m4 = m4
INVARIANTS
    ImportantArePromoted
CHECK_DEADLOCK FALSE
