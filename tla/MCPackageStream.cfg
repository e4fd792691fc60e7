SPECIFICATION Spec
CONSTANTS
    HeadSize = 2
    WriteMax = 6
    ReadMax = 5
    Wire = 4
    Sizes = {0, 1, 2, 3, 4}
    MaxPackages = 4
INVARIANTS
    StreamIntact
    NeverCutOff
PROPERTIES
    ImplementsChannel
    Arrives
CHECK_DEADLOCK FALSE
