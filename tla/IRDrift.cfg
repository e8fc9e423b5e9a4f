SPECIFICATION HSpec
CONSTANTS
    n1 = n1
    n2 = n2
    k1 = k1
    k2 = k2
    r1 = r1
    r2 = r2
    Names = {n1, n2}
    Keys = {k1, k2}
    Resources = {r1, r2}
    Pods = {p1}
    Controllers = {c1}
    Scenarios <- SwapScenarios
    MaxGeneration = 2
    MaxFaults = 2
    Faults = {"crash", "uncordon", "not-ready", "delete-node", "delete-lease", "foreign-node", "foreign-lease"}
    WaveSize = 1
    NoResource = NoResource
    Absent = Absent
    Foreign = Foreign
PROPERTIES
    ForeignUntouched
    OnlyBindingsInFlightAreLost
SYMMETRY Symmetry
CHECK_DEADLOCK FALSE
