\* One id, recycled, and room for every event.
SPECIFICATION Spec
CONSTANTS
    Ids = {1}
    Grace = 2
    Skew = 0
    RingSize = 8
    MaxCgroups = 2
    MaxTime = 8
PROPERTIES
    RecycledIdNotInherited
