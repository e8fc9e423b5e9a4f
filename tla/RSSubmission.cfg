SPECIFICATION Spec
CONSTANTS
    Clients = {u1, u2}
    Contents <- Scenarios
    Fidelity <- Modes
    Changes <- TypedChanges
    Gone = Gone
    NoContent = NoContent
    NoCommand = NoCommand
    NoChange = NoChange
    NoCall = NoCall
    Attempts = 2
    MaxCalls = 4
    MaxVersion = 3
INVARIANTS
    TypeOK
    AcceptedRevisionsStay
    NoRepeatedRevision
    ReceiptsAreTrue
PROPERTIES
    TypedRevisionsCompose
    StatusDriftIsTolerated
    WritesHitTheirTarget
    DeletionIsNoticed
    AtomicCommands
SYMMETRY Symmetry
CHECK_DEADLOCK FALSE
