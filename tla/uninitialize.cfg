CONSTANTS
    Pages = {p1}
    CallIds = {k1}
    Null = Null
    UserCmds = {"unInitialize"}
    MaxCmds = 1
    MaxPeer = 0
SPECIFICATION Spec
INVARIANT
    EveryResultReadable
