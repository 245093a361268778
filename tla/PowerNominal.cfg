CONSTANTS
    QueueSize <- Queues
    Inputs <- Input
    Faults = {}
SPECIFICATION Spec
INVARIANTS
    InitializedBeforeOff
PROPERTIES
    RailsSpec
