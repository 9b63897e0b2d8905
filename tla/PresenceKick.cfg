SPECIFICATION JoinedSpec
CONSTANTS
    alice = alice
    bob = bob
    a2 = a2
    b1 = b1
    b2 = b2
    lb = lb
    r1 = r1
    r2 = r2
    User = {alice, bob}
    Room = {r1}
    Conn = {a1, b1, la, lb}
    LobbySlot = {la, lb}
    Owner <- ConnOwner
    MaxConns = 5
    CanKick <- BobKicksAlice
    Closable = {}
INVARIANT
    KickedDepartureHasOwner
