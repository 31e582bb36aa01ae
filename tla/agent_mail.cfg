SPECIFICATION FairSpec
CONSTANTS
    dario = dario smith = smith wd = wd ws = ws m1 = m1 m2 = m2 m3 = m3
    Agents <- MCAgents
    Workers <- MCWorkers
    AgentOf <- MCAgentOf
    Messages <- MCMessages
    To <- MCTo
    Age <- MCAge
    Inside <- MCInside
    NoMessage = NoMessage
    Limit = 2
    MaxCrashes = 1
    MaxFaults = 1
INVARIANTS
    TypeOK
    DirectMailIsGivenOnce
    MarkedIsGiven
PROPERTIES
    MailIsGiven
\* There may be no mail left.
CHECK_DEADLOCK FALSE
