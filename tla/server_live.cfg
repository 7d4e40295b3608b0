CONSTANTS
    Clients = {c1, c2}
    Wsis = {w1, w2}
    SdkThreads = {s1}
    Lws = Lws
    UI = UI
    Null = Null
    Events <- Locked
    Races = {"lost", "kept", "missed"}
    MaxMsgs = 2
CONSTRAINT InOrder
SPECIFICATION FairSpec
PROPERTIES
    QueueDrains
    ClosingFreed
    StopReturns
    OutboxKept
