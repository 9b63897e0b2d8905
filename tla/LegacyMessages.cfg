SPECIFICATION Spec

CONSTANTS
    Socket      = {s1, s2}
    MaxMessages = 2
    MaxFaults   = 2
    MaxRetries  = 2

SYMMETRY MCSymmetry

INVARIANTS
    TypeOK
    ShownIsKept
    PagesInOrder
