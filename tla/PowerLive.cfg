CONSTANTS
    QueueSize <- Queues1
    Inputs = {}
    Faults = {"late", "lost"}
SPECIFICATION FairSpec
INVARIANTS
    DrainedMeansSettled
PROPERTIES
    PowerOffHonoured
