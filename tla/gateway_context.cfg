SPECIFICATION Spec
CONSTANTS
    c1 = c1
    c2 = c2
    cli = cli
    System = System
    DirectChat = cli
    NoTurn = NoTurn
    Chats <- MCTwoChats
    Served <- MCServed
    Background <- MCBoth
    Explicit <- MCNobody
    MaxIterations = 1
    MaxArrivals = 1
    MaxSpawns = 0
    MaxDirect = 1
INVARIANTS
    ToolsActForTheirChat
CHECK_DEADLOCK FALSE
