SPECIFICATION Spec
CONSTANTS
    User = {u1}
    Secret = {s1, s2}
    NoSecret = NoSecret
    AccessToken = {t1, t2}
    TempToken = {m1, m2}
    Thread = {p1, p2}
    AppEnv = "prod"
    MessageRedis = TRUE
    TokenLife = 5
    TempTokenLife = 4
    ReplayLife = 3
    Window = 1
    MaxTime = 5
    MaxRequests = 4
SYMMETRY Symmetry
INVARIANTS
    TypeOK
    LoggedOutStaysOut
    CodeOnce
CHECK_DEADLOCK FALSE
