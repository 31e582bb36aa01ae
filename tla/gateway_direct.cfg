SPECIFICATION Spec
CONSTANTS
    c1 = c1
    c2 = c2
    cli = cli
    System = System
    DirectChat = cli
    NoTurn = NoTurn
    Chats <- MCHomeAndCli
    Served <- MCHome
    Background <- MCBoth
    Explicit <- MCHome
    MaxIterations = 2
    MaxArrivals = 1
    MaxSpawns = 1
    MaxDirect = 1
INVARIANTS
    EveryMessageAccounted
    SnapshotMissesOnlyDirectTurns
CHECK_DEADLOCK FALSE
