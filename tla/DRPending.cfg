SPECIFICATION Spec
CONSTANTS
    n1 = n1
    n2 = n2
    h100 = h100
    mi300 = mi300
    Names = {n1, n2}
    Claims = {c1}
    Scenarios <- OneScenario
    SliceSize = 1
    MaxGeneration = 1
    MaxFaults = 0
    Absent = Absent
    Pending = Pending
PROPERTIES
    CompleteInventoryOpens
CHECK_DEADLOCK FALSE
