SPECIFICATION FairSpec
CONSTANTS
    t1 = t1 t2 = t2 t3 = t3
    w1 = w1 w2 = w2 w3 = w3
    a = a b = b
    NoOne = NoOne
    Tasks <- MCTasks
    Workers <- MCWorkers
    Target <- MCTarget
    AgentOf <- MCAgentOf
    Rank <- MCRank
    Limit = 2
    MaxCrashes = 2
    MaxFaults = 1
INVARIANTS
    TypeOK
    ClaimedIsHeld
PROPERTIES
    ImplementsPool
    TasksAreTaken
    ClaimedIsSettled
\* The processes are bounded; the queue may be empty.
CHECK_DEADLOCK FALSE
