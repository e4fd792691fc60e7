\* Two connections, three packages to either of them, descriptors reused.
SPECIFICATION SafeSpec
CONSTANTS
    Conns = {c1, c2}
    Fds = {3, 4}
    Listen = Listen
    Nobody = Nobody
    NoFd = NoFd
    Handles = {3, 4, Listen}
    Workers = {w1, w2}
    Senders = {s1}
    WriteBufMax = 2
    Window = 1
    Talkers = {c1, c2}
    MaxData = 1
    MaxSends = 3
SYMMETRY Symmetry
INVARIANTS
    NoUseAfterFree
    OnlineExact
    SingleReader
    NeverUnattended
    RegMatchesFlags
    OneOwner
    NoLostWrite
CHECK_DEADLOCK FALSE
