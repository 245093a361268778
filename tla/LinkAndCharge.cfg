CONSTANTS
    Tags = {volume, avrcp}
    NoTag = NoTag
    IdCount = 6
    MaxCalls = 2
    MaxUnasked = 1
    MaxNoise = 1
    Faults = {"noise"}
    Temperatures <- WarmAndHot
    Voltages <- AllVoltages
    Currents <- AllCurrents
    ChargeInputs = {"charger", "type"}
    ChargeFaults = {}
SPECIFICATION MCSpec
CHECK_DEADLOCK FALSE
INVARIANTS
    ConfirmedMeansReceived
    AtMostTwice
    ReplyMatches
PROPERTIES
    CallsEnd
    AtLeastOnceSpec
    StopsWhenHot
    ChargesWhenLow
