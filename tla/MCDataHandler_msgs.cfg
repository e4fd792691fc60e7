SPECIFICATION SafeSpec
CONSTANTS
    Clients = {c1, c2}
    Cfds = {5, 6}
    Users = {1, 2}
    Groups = {1000}
    GroupUser <- AllUsers
    Threads = {t1, t2}
    MySqls = {q1}
    SocketThreads = 2
    Limit = 1
    DbFails = TRUE
    Addressed = {1000}
    Relogin = FALSE
    Mistyped = TRUE
    MaxLogins = 2
    MaxMsgs = 1
    MaxLeaves = 1
SYMMETRY Symmetry
INVARIANTS
    TypeOK
    NoMessageMissed
    PoolExact
CHECK_DEADLOCK FALSE
