SPECIFICATION Spec
CONSTANTS
    Threads = {t1, t2}
    Sizes = {8, 16}
    Count <- TwoAndOne
    Other = Other
    Mallocs = {x1, x2, x3, x4, x5}
    Requests = {8, 9, 17, 40}
    IntMax = 31
    HeadSize = 3
    MaxHeld = 3
    Null = Null
    Nobody = Nobody
SYMMETRY Symmetry
INVARIANTS
    BlocksExact
    FitsRequest
