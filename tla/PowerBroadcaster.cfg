CONSTANTS
    QueueSize <- Queues
    Inputs <- Input
    Faults = {"stray"}
SPECIFICATION FairSpec
PROPERTIES
    ReceiverFollowsBroadcaster
