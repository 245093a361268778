CONSTANTS
    Temperatures <- WarmAndHot
    Voltages <- AllVoltages
    Currents <- AllCurrents
    ChargeInputs = {"charger", "type", "powerOn"}
    ChargeFaults = {"setup"}
SPECIFICATION ChargeSpec
INVARIANTS
    NothingBeforeSetUp
