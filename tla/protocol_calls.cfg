CONSTANTS
    Pages = {p1}
    CallIds = {k1, k2}
    Null = Null
    UserCmds = {"acceptCall", "pauseCall", "resumeCall"}
    MaxCmds = 3
    MaxPeer = 0
SYMMETRY Symmetry
SPECIFICATION Spec
INVARIANTS
    TypeOK
    NoSessionOnlyLate
    CurrentHasSession
    RepliesInOrder
