CONSTANTS
    Pages = {p1}
    CallIds = {k1}
    Null = Null
    UserCmds = {"makeCall", "acceptCall", "pauseCall", "resumeCall", "releaseCall"}
    MaxCmds = 4
    MaxPeer = 0
SPECIFICATION Spec
INVARIANT
    ConsultationDialsOnce
