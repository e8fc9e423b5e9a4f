SPECIFICATION Spec
CONSTANTS
    Adapters = {"kubernetes", "memory"}
    Kinds = {"apply", "follow", "delete"}
    HistoryLimit = 2
    BatchLimit = 2
    Absent = Absent
    MaxEvents = 4
    MaxGeneration = 2
    MaxBirths = 2
    MaxFaults = 2
INVARIANTS
    ReadyIsEarned
    DeletionIsEarned
PROPERTIES
    ReadyIsNoticed
    DeletionIsNoticed
    DeadlineEndsWaits
CHECK_DEADLOCK FALSE
