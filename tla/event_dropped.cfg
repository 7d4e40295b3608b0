CONSTANTS
    Clients = {c1, c2}
    Wsis = {w1, w2}
    SdkThreads = {s1}
    Lws = Lws
    UI = UI
    Null = Null
    Events <- LockedAndNot
    Races = {}
    MaxMsgs = 1
SPECIFICATION Spec
PROPERTY
    NoEventDropped
