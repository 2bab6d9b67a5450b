\* Two ids, three cgroups, rings of two events: ids are recycled, events outlive
\* their cgroup, rings overflow, and the daemon starts after a wall-clock step.
SPECIFICATION Spec
CONSTANTS
    Ids = {i1, i2}
    Grace = 1
    Skew <- SteppedForward
    RingSize = 2
    MaxCgroups = 3
    MaxTime = 6
    i1 = i1
    i2 = i2
SYMMETRY Symmetry
INVARIANTS
    NeverSuccessor
    LiveJobKnown
    GraceForTheDead
PROPERTIES
    AttributedInGrace
