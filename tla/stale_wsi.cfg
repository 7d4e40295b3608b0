CONSTANTS
    Controls = {c1, c2}
    Wsis = {w1}
    Null = Null
    Patience = 1
    MaxSends = 0
    MaxRecv = 0
SPECIFICATION Spec
INVARIANT
    OpenIsOpen
