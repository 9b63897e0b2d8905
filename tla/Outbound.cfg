SPECIFICATION Spec
CONSTANTS
    Caller = {c1, c2}
    Closed = Closed
    FailureThreshold = 2
    RecoveryTimeout = 2
    MaxRetries = 2
    CallTime = 1
    MaxTime = 4
    Url = {l1}
    Address = {a1, a2}
    Blocked = {a2}
    Blank = ""
    Text <- SmallTexts
    Page <- Pages
    Miss = Miss
    Request = {r1}
SYMMETRY Symmetry
INVARIANTS
    TypeOK
    PinnedAddress
    ParserFindsMetadata
    UpIsServed
