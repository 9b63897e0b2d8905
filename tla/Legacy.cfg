SPECIFICATION RoomsSpec

CONSTANTS
    User      = {u1, u2}
    Room      = {r1, r2}
    WebSocket = {s1, s2, s3}
    Lobby     = lobby
    Nobody    = nobody
    Nowhere   = nowhere

SYMMETRY MCSymmetry

INVARIANTS
    RoomsTypeOK
    MapsAgree
    KicksAreOwed
    RoomHasAdmin

CHECK_DEADLOCK FALSE
