SPECIFICATION Spec
CONSTANTS
    n1 = n1
    n2 = n2
    k1 = k1
    k2 = k2
    r1 = r1
    r2 = r2
    Names = {n1, n2}
    Keys = {k1, k2}
    Resources = {r1, r2}
    Pods = {}
    Controllers = {c1, c2}
    Scenarios <- SwapScenarios
    MaxGeneration = 2
    MaxFaults = 0
    Faults = {}
    WaveSize = 1
    NoResource = NoResource
    Absent = Absent
    Foreign = Foreign
PROPERTIES
    FenceNeverRegresses
    RetainedNodesSurvive
    ReadyIsCurrent
SYMMETRY Symmetry
CONSTRAINT EarlyDeletion
CHECK_DEADLOCK FALSE
