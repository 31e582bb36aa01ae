SPECIFICATION FairSpec
CONSTANTS
    c1 = c1
    c2 = c2
    cli = cli
    System = System
    DirectChat = cli
    NoTurn = NoTurn
    Chats <- MCTwoChats
    Served <- MCServed
    Background <- MCNobody
    Explicit <- MCNobody
    MaxIterations = 2
    MaxArrivals = 2
    MaxSpawns = 1
    MaxDirect = 0
INVARIANTS
    TypeOK
    RepliesInOrder
    ToolsActForTheirChat
PROPERTIES
    EveryMessageAnswered
    EverySubagentReported
    ImplementsChatService
CHECK_DEADLOCK FALSE
