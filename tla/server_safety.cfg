CONSTANTS
    Clients = {c1, c2}
    Wsis = {w1, w2}
    SdkThreads = {s1}
    Lws = Lws
    UI = UI
    Null = Null
    Events <- OneOfEach
    Races = {"missed"}
    MaxMsgs = 2
CONSTRAINT Alive
SYMMETRY Symmetry
SPECIFICATION Spec
INVARIANTS
    QueueFifo
    WakeupKept
    TypeOK
    LockedBroadcastSafe
    RegistrySound
    EveryConnectionServed
    InstanceSound
    StoppedClean
