\* Two threads in each pool, one of them busy with EpollWork, two requests.
SPECIFICATION Spec
CONSTANTS
    DataThreads = {d1, d2}
    SocketThreads = {s1, s2}
    Junk = 7
    MaxRequests = 2
INVARIANTS
    TypeOK
    CalleesAlive
PROPERTIES
    RequestsHandled
    ShutdownEnds
CHECK_DEADLOCK FALSE
