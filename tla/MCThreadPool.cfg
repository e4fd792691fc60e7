\* Three threads, three tasks, the destructor at any moment; no symmetry,
\* because liveness is checked.
SPECIFICATION Spec
CONSTANTS
    Workers = {w1, w2, w3}
    Tasks = {t1, t2, t3}
    NoTask = NoTask
INVARIANTS
    TaskOnce
    JoinedMeansDrained
    AvailableIsIdle
PROPERTIES
    ImplementsTaskPool
    DestructorReturns
CHECK_DEADLOCK FALSE
