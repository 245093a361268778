CONSTANTS
    QueueSize <- Queues
    Inputs <- Input
    Faults = {"stray"}
SPECIFICATION Spec
INVARIANTS
    Settled
PROPERTIES
    HeldUntilDown
