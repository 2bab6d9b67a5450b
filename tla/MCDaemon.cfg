\* Two probes, one sink, two edits of the file, and a failure at any call.
SPECIFICATION Spec
CONSTANTS
    Width = 12
    PerUnit <- MCPerUnit
    Probes = {"p1", "p2"}
    Sinks = {"s1"}
    Plugins <- MCPlugins
    None = None
    Watcher = Watcher
    Files <- MCFiles
    MaxEdits = 2
INVARIANTS
    NoDangling
    RefsBalanced
    RunningAsConfigured
    InForceAsWritten
PROPERTIES
    StayingSinkUntouched
    StopHonoured
    SighupServed
