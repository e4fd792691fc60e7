SPECIFICATION Spec
CONSTANTS
    Conns = {c1, c2}
    Fds = {3, 4}
    Nobody = Nobody
    WriteBufMax = 1
    Window = 1
    MaxData = 1
    MaxSends = 0
PROPERTIES
    EveryServerIsServed
CHECK_DEADLOCK FALSE
