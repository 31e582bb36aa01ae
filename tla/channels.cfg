\* Channels by themselves, HTTP beside Matrix; two chats, one of them refused.
SPECIFICATION FairSpec
CONSTANTS
    Configurations <- MCConfigurations
    Chats = {c1, c2}
    Refused = {c2}
    Unserved = "cli"
    NoMessage = NoMessage
    MaxSaid <- MCMaxSaid
    MaxFaults <- MCMaxFaults
    CacheMax = 2
    Window = 2
INVARIANTS
    TypeOK
    WaitingIsForSomething
    TypingMeansPending
    ConnectedIsCurrent
    SentOnceInOrder
    HandedOverOnce
PROPERTIES
    NobodyWaitsForEver
CHECK_DEADLOCK FALSE
