SPECIFICATION Spec
CONSTANTS
    Contracts <- SomeContracts
    Documents <- SomeDocuments
    Releases = 2
    MaxCount = 2
    MaxRevisions = 3
    Reserved = {"hostname"}
    Default = Default
    Total = Total
    Rejected = Rejected
INVARIANTS
    CanonicalIsFixed
    SchedulingScenariosProject
PROPERTIES
    TypedChangesAreExact
CHECK_DEADLOCK FALSE
