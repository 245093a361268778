CONSTANTS
    Users = {"Audio", "Bluetooth"}
    Retries = 2
    QueueSize = 2
    Scenarios <- SomeEvents
    EarlyIcons = FALSE
    Burst = 2
    Chunks = 3
    Deliveries = 6
    Cuts = 1
    Disorder = {}
    TestKeys = {"power", "bt"}
    PromptWait = 1
    KeyWait = 3
SPECIFICATION MCSpec
CHECK_DEADLOCK FALSE
INVARIANTS
    TasksTypeOK
    OwnCompletion
    RunsWhole
    NeverStuck
    OffIsDark
PROPERTIES
    CallsReturn
    StatusFollows
    LoopEnds
    LedsFollow
    KeyTestEnds
