\* Two sinks, batches of two, four records: full batches, old ones and what is
\* left at the end, with a reload after any turn.
SPECIFICATION Spec
CONSTANTS
    Sinks = {1, 2}
    BatchSize = 2
    FlushInterval = 2
    MaxRecords = 4
INVARIANTS
    EverythingToEverySink
    NothingLeftAtExit
PROPERTIES
    PartialBatchIsYoung
    RemovedSinkMissesPending
    RecordsLeave
