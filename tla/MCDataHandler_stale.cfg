SPECIFICATION SafeSpec
CONSTANTS
    Clients = {c1, c2}
    Cfds = {5}
    Users = {1, 2}
    Groups = {1000}
    GroupUser <- AllUsers
    Threads = {t1}
    MySqls = {q1, q2}
    SocketThreads = 1
    Limit = 1
    DbFails = FALSE
    Addressed = {1000}
    Relogin = TRUE
    Mistyped = FALSE
    MaxLogins = 2
    MaxMsgs = 0
    MaxLeaves = 2
SYMMETRY Symmetry
INVARIANTS
    MapNamesUser
CHECK_DEADLOCK FALSE
