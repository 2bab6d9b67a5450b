\* Every tree the seven paths allow, and directories made and removed at any time.
SPECIFICATION Spec
CONSTANTS
    Root <- MCRoot
    Paths <- MCPaths
    MaxId = 2
    None = None
INVARIANTS
    EnteredRight
    SteadyFound
PROPERTIES
    ScanEnds
