CONSTANTS
    Procs = {p1, p2, p3}
    MaxModal = 2
SPECIFICATION FairSpec
INVARIANTS
    TypeOK
    OneInstance
    HiddenReachable
    CleanExit
    OrphanOnlyAtEnd
PROPERTIES
    ExitReturns
    LaunchAnswered
