SPECIFICATION NoLeaveSpec
CONSTANTS
    alice = alice
    bob = bob
    a2 = a2
    b1 = b1
    b2 = b2
    lb = lb
    r1 = r1
    r2 = r2
    User = {alice}
    Room = {r1}
    Conn = {a1, a2, la}
    LobbySlot = {la}
    Owner <- ConnOwner
    MaxConns = 5
    CanKick = {}
    Closable = {}
PROPERTY
    DepartureShown
