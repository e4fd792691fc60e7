\* Three threads and four lines, so that lines come in while others are
\* written; the exit at any moment after them.  No symmetry: liveness.
SPECIFICATION Spec
CONSTANTS
    Callers = {c1, c2, c3}
    Lines = {l1, l2, l3, l4}
INVARIANTS
    OneLogger
    AllWritten
PROPERTIES
    WritesInOrder
    ExitEnds
CHECK_DEADLOCK FALSE
