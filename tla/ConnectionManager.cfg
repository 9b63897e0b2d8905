SPECIFICATION Spec
CONSTANTS
    User = {alice, bob}
    Room = {r1, r2}
    Conn = {c1, c2, c3}
    Broadcaster = {b1}
    NoUser = NoUser
SYMMETRY Symmetry
INVARIANTS
    TypeOK
    RoomsIndexed
    UsersIndexed
    JoinOrderComplete
    SuccessorExists
    BroadcastTargets
PROPERTY
    ImplementsRegistry
