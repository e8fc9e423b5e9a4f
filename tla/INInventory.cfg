SPECIFICATION Spec
CONSTANTS
    nodes = nodes
    claims = claims
    SourceSpecs <- Specs
    Nodes = nodes
    Gated = {claims}
    Optional = {claims}
    Viewers = {v1}
    Rights <- SomeRights
    NotYet = NotYet
    MaxVersion <- Versions
    MaxFaults = 1
PROPERTIES
    SnapshotsMoveForward
    ChangesAreShown
    OutageIsShown
CHECK_DEADLOCK FALSE
