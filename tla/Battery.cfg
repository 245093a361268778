CONSTANTS
    k1 = k1
    k2 = k2
    v1 = v1
    v2 = v2
    Key = {k1, k2}
    Value = {v1, v2}
    NoKey = NoKey
    NoValue = NoValue
    NoPage = NoPage
    Table <- Both
    Slots = 5
    Cuts = {"other"}
    MaxCuts = 1
    Temperatures <- AllTemperatures
    Voltages <- AllVoltages
    Currents <- AllCurrents
    ChargeInputs = {"charger", "type", "powerOn"}
    ChargeFaults = {"setup", "read", "ntc"}
    Factory = 3
    Capacity = 2
    HalfWord = 2
    Bound = 3
SPECIFICATION MCSpec
INVARIANTS
    KnownGood
    StatusIsTrue
    Nested
    CalibratedIsTrue
    StoredTogether
PROPERTIES
    StoreSpec
    ReadBack
    ChargerSpec
