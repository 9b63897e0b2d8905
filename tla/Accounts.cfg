SPECIFICATION Spec
CONSTANTS
    Name = {admin, u1}
    Admin = admin
    Email <- Addresses
    Fold <- ToLower
    NoEmail = NoEmail
    Password = {w1, w2}
    AdminPassword = w1
    Link = {k1, k2}
    Thread = {p1, p2}
    MaxRequests = 5
SYMMETRY Symmetry
INVARIANTS
    TypeOK
    ChangesKept
    EmailsDistinct
CHECK_DEADLOCK FALSE
