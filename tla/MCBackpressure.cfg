\* A ring with room for exactly two turns and one without, a turn of at most one
\* tick, a sink that queues one batch, and one new user.
SPECIFICATION Spec
CONSTANTS
    None = "none"
    Rings = {"quiet", "chatty"}
    Rate <- MCRate
    RingSize = 3
    MaxWork = 1
    Sinks = {1}
    Capacity = 1
    Users = 1
INVARIANTS
    Headroom
PROPERTIES
    LossOnlyWhenHeldUp
    EveryRingServed
