CONSTANTS
    Controls = {c1, c2}
    Wsis = {w1}
    Null = Null
    Patience = 1
    MaxSends = 2
    MaxRecv = 0
CONSTRAINT InOrder
SPECIFICATION FairSpec
PROPERTIES
    SendDrains
    DestroyReturns
    OpenerTold
    OrphanClosed
