SPECIFICATION Spec
CONSTANTS
    n1 = n1
    n2 = n2
    k1 = k1
    k2 = k2
    r1 = r1
    r2 = r2
    Names = {n1, n2}
    Keys = {k1, k2}
    Resources = {r1, r2}
    Pods = {p1}
    Controllers = {c1}
    Scenarios <- CoreScenarios
    MaxGeneration = 3
    MaxFaults = 1
    Faults = {"crash", "lost-response", "foreign-node"}
    WaveSize = 2
    NoResource = NoResource
    Absent = Absent
    Foreign = Foreign
INVARIANTS
    TypeOK
    PublishedInventory
    ReadyIsTrue
    NoRuntimeLease
    DeletionLeavesNothing
PROPERTIES
    ReplacementBarrier
CHECK_DEADLOCK FALSE
