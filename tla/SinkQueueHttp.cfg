\* An http sink with room for two batches, overloaded: evictions happen while
\* the worker holds a batch, while it waits and while the poll thread flushes.
SPECIFICATION Spec
CONSTANTS
    MaxQueued = 2
    ClampsZero = FALSE
    CanLose = TRUE
    MaxBatches = 5
INVARIANTS
    TypeOK
    Accounting
    NewestKept
    NothingForgotten
    DeliveredInOrder
    NoLostWakeup
    DestructorDrains
    LossIsVisible
PROPERTIES
    FlushSettles
    ImplementsContract
