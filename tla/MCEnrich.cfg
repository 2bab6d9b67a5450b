\* Two events, two users, a wall clock that jumps either way.
SPECIFICATION Spec
CONSTANTS
    Instances = {"a", "b", "c"}
    PluginOf <- MCPluginOf
    Uids = {0, 1}
    Names = {"root", "alice"}
    Ends <- MCEnds
    Skews = {5, 9}
    MaxTime = 2
    MaxEvents = 2
    None = None
INVARIANTS
    WallKeepsDistance
    OneName
    RecordTells
PROPERTIES
    EveryEventRecorded
