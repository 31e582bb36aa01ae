\* One workload per plan, queries of one row at a time, one crash, one fault.
SPECIFICATION FairSpec
CONSTANTS
    Plans <- MCPlans
    Limit <- MCLimit
    Files = {f1}
    Issues = {n1}
    MaxCrashes = 1
    MaxFaults = 1
INVARIANTS
    TypeOK
    PassedIsKept
PROPERTIES
    ChangesAreRemembered
CHECK_DEADLOCK FALSE
