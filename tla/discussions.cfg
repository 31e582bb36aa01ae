SPECIFICATION FairSpec
CONSTANTS
    lib = lib x = x y = y z = z wl = wl wx = wx wy = wy wz = wz d1 = d1 d2 = d2
    Agents <- MCAgents
    Librarian = lib
    Workers <- MCWorkers
    AgentOf <- MCAgentOf
    Topics <- MCTopics
    Age <- MCAge
    NoTopic = NoTopic
    Enough = 2
    Limit = 2
    MaxTroubles = 1
INVARIANTS
    TypeOK
    ProposalsAreDeliberated
PROPERTIES
    StatusOnlyAdvances
    EnoughAreProposed
\* The discussions may all be closed.
CHECK_DEADLOCK FALSE
