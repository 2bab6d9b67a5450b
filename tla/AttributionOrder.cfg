\* Room for every event: what is left is the order in which the rings are drained.
SPECIFICATION Spec
CONSTANTS
    Ids = {1}
    Grace = 2
    Skew = 0
    RingSize = 8
    MaxCgroups = 2
    MaxTime = 8
PROPERTIES
    EntryBeforeEvent
