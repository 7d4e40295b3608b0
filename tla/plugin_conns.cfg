CONSTANTS
    Controls = {c1, c2}
    Wsis = {w1, w2}
    Null = Null
    Patience = 1
    MaxSends = 2
    MaxRecv = 1
SYMMETRY Symmetry
SPECIFICATION Spec
INVARIANTS
    ContextKept
    TypeOK
    RegistrySound
    EventOrder
    OpenUnlessRobbed
    SendWakeKept
