SPECIFICATION ScenesSpec
CONSTANTS
    alice = alice
    bob = bob
    a2 = a2
    b1 = b1
    b2 = b2
    lb = lb
    r1 = r1
    r2 = r2
    User = {alice, bob}
    Room = {r1, r2}
    Conn = {a1, a2, b1, la}
    LobbySlot = {la}
    Owner <- ConnOwner
    MaxConns = 5
    CanKick <- BobKicksAlice
    Closable = {r1}
ACTION_CONSTRAINT Bounds
INVARIANTS
    TypeOK
    DepartureHasOwner
    NothingLeftOver
    RegisteredIsServed
