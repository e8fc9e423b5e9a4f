SPECIFICATION Spec
CONSTANTS
    n1 = n1
    n2 = n2
    h100 = h100
    mi300 = mi300
    Names = {n1, n2}
    Claims = {c1, c2}
    Scenarios <- SomeScenarios
    SliceSize = 1
    MaxGeneration = 2
    MaxFaults = 1
    Absent = Absent
    Pending = Pending
INVARIANTS
    TypeOK
    AllocatedDevicesStay
    ReadyInventoryIsExact
PROPERTIES
    ConvergesWhenIdle
CHECK_DEADLOCK FALSE
