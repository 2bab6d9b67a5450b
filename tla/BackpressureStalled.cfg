\* The reload that removes a sink whose destination has stalled, all users known.
SPECIFICATION Spec
CONSTANTS
    None = "none"
    Rings = {"quiet", "chatty"}
    Rate <- MCRate
    RingSize = 3
    MaxWork = 1
    Sinks = {1}
    Capacity = 1
    Users = 0
PROPERTIES
    NoEventLost
