CONSTANTS
    Pages = {p1, p2}
    CallIds = {k1}
    Null = Null
    UserCmds = {"getCurrentCall", "makeCall", "acceptCall", "pauseCall", "resumeCall", "releaseCall"}
    MaxCmds = 2
    MaxPeer = 1
SPECIFICATION FairSpec
INVARIANTS
    SessionsTracked
PROPERTIES
    AllAnswered
