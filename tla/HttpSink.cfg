\* Three batches, requests of two sends, and a server that answers in
\* every framing, interim responses and unannounced bodies included.
SPECIFICATION Spec
CONSTANTS
    Framings = {"length", "close", "chunked", "bare", "body", "interim"}
    Sends = 2
    MaxParts = 2
    MaxBatches = 3
INVARIANTS
    NoSilentLoss
    AtMostTwice
PROPERTIES
    OwnResponse
    WorkerFinishes
