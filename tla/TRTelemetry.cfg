SPECIFICATION Spec
CONSTANTS
    a = a
    kept = kept
    changed = changed
    Instances = {a}
    Nodes = {kept, changed}
    Graph <- Graphs
    Changed <- Revisions
    Refused <- Unreadable
    MaximumDevices = 2
    StaleAfter = 2
    MaxGeneration = 4
    MaxFaults = 1
    MaxDelay = 1
    NoNode = NoNode
    NoPage = NoPage
INVARIANTS
    SeriesExpire
PROPERTIES
    OutagesAreNoticed
    RecoveryIsShown
CHECK_DEADLOCK FALSE
