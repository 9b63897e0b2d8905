SPECIFICATION FairSpec
CONSTANTS
    Message = {m1}
    Text = {t1, t2}
    Tombstone = Tombstone
    NoRow = NoRow
    Sender = {s1}
    Partition = {p1}
    Consumer = {k1}
    Handler = {}
    Nobody = Nobody
    MaxAttempts = 2
    MaxRequests = 3
    MaxFaults = 1
INVARIANT
    ExactlyOnce
PROPERTY
    Accounted
CHECK_DEADLOCK FALSE
