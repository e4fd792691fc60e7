\* Two connections, one after the other, on one descriptor; one of them sends
\* data, is sent two packages and may read slowly.  No symmetry, because
\* liveness is checked.
SPECIFICATION Spec
CONSTANTS
    Conns = {c1, c2}
    Fds = {3}
    Listen = Listen
    Nobody = Nobody
    NoFd = NoFd
    Handles = {3, Listen}
    Workers = {w1, w2}
    Senders = {s1}
    WriteBufMax = 1
    Window = 1
    Talkers = {c1}
    MaxData = 1
    MaxSends = 2
INVARIANTS
    TypeOK
PROPERTIES
    ReadServed
    ConnectServed
    WriteServed
CHECK_DEADLOCK FALSE
