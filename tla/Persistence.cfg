SPECIFICATION Spec
CONSTANTS
    Message = {m1}
    Text = {t1}
    Tombstone = Tombstone
    NoRow = NoRow
    Sender = {s1}
    Partition = {p1, p2}
    Consumer = {k1, k2}
    Handler = {h1}
    Nobody = Nobody
    MaxAttempts = 2
    MaxRequests = 2
    MaxFaults = 1
SYMMETRY Symmetry
INVARIANTS
    TypeOK
    CommittedAccounted
PROPERTIES
    OffsetsAdvance
    DeletionSticks
