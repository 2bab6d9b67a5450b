\* A request that takes two sends, and a server that closes idle connections.
SPECIFICATION Spec
CONSTANTS
    Framings = {"length"}
    Sends = 2
    MaxParts = 1
    MaxBatches = 2
INVARIANTS
    PeerCloseIsFree
