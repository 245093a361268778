----------------------------- MODULE ChargeControl -----------------------------
(***************************************************************************)
(* Charging of the MYND battery: Battery::poll with the temperature        *)
(* protection, the set up of the charger, ChargeController::process and    *)
(* the requests that reach the charger from elsewhere.  All of it runs in  *)
(* the Audio task.  A step ends where that task waits: in the 300 ms that  *)
(* the USB PD controller gets to apply a voltage, or between two calls of  *)
(* poll.  Temperatures are degrees, voltages mV, battery currents mA.      *)
(***************************************************************************)
EXTENDS Integers

CONSTANTS Temperatures,  \* what the NTC can measure
          Voltages,      \* what the ADC can measure of the battery
          Currents,      \* what the current sensor can measure
          ChargeInputs,  \* "charger": it is plugged and unplugged; "type":
                         \* the charge type changes; "powerOn": the speaker
                         \* is switched on
          ChargeFaults   \* "setup", "read": these charger transfers can
                         \* fail; "ntc": the NTC can be lost

ASSUME ChargeAssumption ==
    /\ Temperatures \subseteq Int
    /\ Voltages \subseteq Int
    /\ Currents \subseteq Int
    /\ ChargeInputs \subseteq {"charger", "type", "powerOn"}
    /\ ChargeFaults \subseteq {"setup", "read", "ntc"}

ChargeStatus == {"NotConnected", "Inactive", "Active"}
ChargeType   == {"BatteryFriendly", "FastCharge"}
Protector    == {"chargeOver", "chargeUnder", "dischargeOver", "dischargeUnder"}
Warning      == {"TempOk", "ChargeOverTemp", "ChargeUnderTemp",
                 "DischargeOverTemp", "DischargeUnderTemp", "NTCLost"}

\* The counters are named after their thresholds, in mV and mA.
Counter == {7900, 8100, 500}

VARIABLES
    place,         \* "idle", or where in poll the Audio task is
    initialized,   \* s_battery.is_charger_initialized
    setUp,         \* the charger has accepted its set up
    critical,      \* in_critical of each temperature protector
    ntcLost,       \* s_battery.ntc_lost
    announced,     \* s_battery.critical_temp_status
    voltage,       \* s_battery.last_battery_voltage_mv
    chargerStatus, \* m_charger_status of the controller, "none" before it
                   \* is constructed
    since,         \* the counters: "stopped", "running", "elapsed" (over 5 s)
    published,     \* the property Tus::ChargerStatus
    chargeType,    \* the property Tus::ChargeType
    current,       \* the charge current register: "Zero", "Slow", "Fast",
                   \* "Preset" by the USB PD controller
    source,        \* the voltage asked of the charger: 5 or 20
    ac             \* the charger is plugged

battery == <<initialized, setUp, critical, ntcLost, announced, voltage>>
chargeVars == <<place, initialized, setUp, critical, ntcLost, announced, voltage,
                chargerStatus, since, published, chargeType, current, source, ac>>

ChargeTypeOK ==
    /\ place \in {"idle", "measured", "construct", "constructed", "process", "enable",
               "disable", "settle"}
    /\ initialized \in BOOLEAN
    /\ setUp \in BOOLEAN
    /\ critical \in [Protector -> BOOLEAN]
    /\ ntcLost \in BOOLEAN
    /\ announced \in Warning
    /\ voltage \in Voltages \cup {0}
    /\ chargerStatus \in ChargeStatus \cup {"none"}
    /\ since \in [Counter -> {"stopped", "running", "elapsed"}]
    /\ published \in ChargeStatus
    /\ chargeType \in ChargeType
    /\ current \in {"Zero", "Slow", "Fast", "Preset"}
    /\ source \in {5, 20}
    /\ ac \in BOOLEAN

CountersStopped == [c \in Counter |-> "stopped"]

\* Battery::init tries to set the charger up once.
ChargeInit ==
    /\ place = "idle"
    /\ initialized \in (IF "setup" \in ChargeFaults THEN BOOLEAN ELSE {TRUE})
    /\ setUp = initialized
    /\ critical = [p \in Protector |-> FALSE]
    /\ ntcLost = FALSE
    /\ announced = "TempOk"
    /\ voltage = 0
    /\ chargerStatus = "none"
    /\ since = CountersStopped
    /\ published = "NotConnected"
    /\ chargeType = "BatteryFriendly"
    /\ current = "Preset"
    /\ source \in {5, 20}
    /\ ac \in BOOLEAN

-----------------------------------------------------------------------------
(***************************************************************************)
(* Temperature.                                                            *)
(***************************************************************************)
Threshold == [chargeOver |-> 45, chargeUnder |-> 0,
              dischargeOver |-> 60, dischargeUnder |-> -20]
\* (Mutant of Recovery: the two values of over temperature are swapped.)
RecoverySwapped == [chargeOver |-> 50, chargeUnder |-> 5,
                    dischargeOver |-> 40, dischargeUnder |-> -10]

Recovery  == [chargeOver |-> 40, chargeUnder |-> 5,
              dischargeOver |-> 50, dischargeUnder |-> -10]

Hysteresis(p, t) ==
    IF Threshold[p] > Recovery[p]
    THEN IF critical[p] THEN t > Recovery[p] ELSE t >= Threshold[p]
    ELSE IF critical[p] THEN t < Recovery[p] ELSE t <= Threshold[p]

ChargeCritical    == critical["chargeOver"] \/ critical["chargeUnder"]
DischargeCritical == critical["dischargeOver"] \/ critical["dischargeUnder"]

\* The protectors are asked several times per poll; with the same temperature
\* the answer stays the same.
MeasureTemperature ==
    \/ UNCHANGED <<critical, ntcLost>>
    \/ /\ "ntc" \in ChargeFaults
       /\ ntcLost' = TRUE
       /\ UNCHANGED critical
    \/ \E t \in Temperatures :
          /\ critical' = [p \in Protector |-> Hysteresis(p, t)]
          /\ ntcLost' = FALSE

\* battery_temperature_state, and the NTC that overrules it.
TemperatureState ==
    IF ntcLost THEN "NTCLost"
    ELSE IF critical["chargeUnder"] THEN "ChargeUnderTemp"
    ELSE IF critical["chargeOver"] THEN "ChargeOverTemp"
    ELSE IF critical["dischargeUnder"] THEN "DischargeUnderTemp"
    ELSE IF critical["dischargeOver"] THEN "DischargeOverTemp"
    ELSE "TempOk"

-----------------------------------------------------------------------------
(***************************************************************************)
(* Battery::poll.                                                          *)
(***************************************************************************)
\* First the temperature, every 2000 ms, and the warning that is posted when
\* it changes.
Measure ==
    /\ place = "idle" /\ place' = "measured"
    /\ MeasureTemperature
    /\ announced' = TemperatureState'
    /\ UNCHANGED <<initialized, setUp, voltage, chargerStatus, since, published,
                   chargeType, current, source, ac>>

\* The retry stores what the set up returns, which is 0 when it succeeds.  (Its
\* set_charge_type has no effect on a charger that is not active.)
SetUp ==
    IF initialized
    THEN UNCHANGED <<initialized, setUp>>
    ELSE \E ok \in BOOLEAN :
            /\ ok \/ "setup" \in ChargeFaults
            /\ initialized' = ~ok
            /\ setUp' = (setUp \/ ok)

\* Every 40th poll that gets so far monitors the charger, for the first time
\* by constructing the controller; the others read the battery voltage.
Continue ==
    \/ /\ place' = IF chargerStatus = "none" THEN "construct" ELSE "process"
       /\ UNCHANGED voltage
    \/ /\ place' = "idle"
       /\ voltage' \in IF ntcLost THEN {voltage} ELSE Voltages

\* A battery too hot or too cold to discharge ends the poll here, and so does
\* a charger that is not set up.
Poll ==
    /\ place = "measured"
    /\ \/ DischargeCritical /\ place' = "idle" /\ UNCHANGED <<initialized, setUp, voltage>>
       \/ ~DischargeCritical /\ SetUp /\ initialized' /\ Continue
       \/ ~DischargeCritical /\ SetUp /\ ~initialized' /\ place' = "idle" /\ UNCHANGED voltage
    /\ UNCHANGED <<critical, ntcLost, announced, chargerStatus, since, published,
                   chargeType, current, source, ac>>

\* The constructor of ChargeController disables the charger.
Construct ==
    /\ place = "construct" /\ place' = "constructed"
    /\ source' = 5
    /\ UNCHANGED <<battery, chargerStatus, since, published, chargeType, current, ac>>

Constructed ==
    /\ place = "constructed" /\ place' = "process"
    /\ chargerStatus' = "NotConnected"
    /\ current' = "Zero"
    /\ UNCHANGED <<battery, since, published, chargeType, source, ac>>

-----------------------------------------------------------------------------
(***************************************************************************)
(* ChargeController::process.  Each case is one action: the new status,    *)
(* the counters, and the first half of IChargerLLController::enable or     *)
(* disable, up to its delay.                                               *)
(***************************************************************************)
\* (Mutant of Allowed: the temperature is not looked at.)
AllowedAlways == TRUE

Allowed == ~ChargeCritical

\* The call operator of Counter: it fires on a sample that is not above the
\* threshold when the first such sample is more than 5 s old.  (Mutant: only on
\* a sample below it.)
FiresBelow(c, sample) == sample < c /\ since[c] = "elapsed"

Fires(c, sample) == sample <= c /\ since[c] = "elapsed"

Sampled(counters, c, sample) ==
    [counters EXCEPT ![c] =
        IF sample > c THEN "stopped"
        ELSE IF @ = "stopped" THEN "running" ELSE @]

Processes == /\ place = "process"
             /\ UNCHANGED <<battery, published, chargeType, current, ac>>

Change(to) ==
    /\ chargerStatus' = to
    /\ place' = IF to = "Inactive" THEN "disable" ELSE "enable"
    /\ source' = IF to = "Inactive" THEN 5 ELSE 20

Stay == place' = "idle" /\ UNCHANGED <<chargerStatus, source>>

\* The AC status cannot be read, or nothing is to be done.
NothingToDo ==
    /\ Processes /\ Stay /\ UNCHANGED since
    /\ \/ "read" \in ChargeFaults
       \/ chargerStatus = "NotConnected" /\ ~(ac /\ Allowed)
       \/ chargerStatus = "Inactive" /\ ac /\ ~Allowed

\* (Mutant of Plugged: the charge starts at once.)
PluggedStarts ==
    /\ Processes /\ chargerStatus = "NotConnected" /\ ac /\ Allowed
    /\ Change("Active")
    /\ since' = CountersStopped

Plugged ==
    /\ Processes /\ chargerStatus = "NotConnected" /\ ac /\ Allowed
    /\ Change("Inactive")
    /\ since' = CountersStopped

Unplugged ==
    /\ Processes /\ chargerStatus \in {"Inactive", "Active"} /\ ~ac
    /\ Change("NotConnected")
    /\ UNCHANGED since

StartBelow == IF chargeType = "BatteryFriendly" THEN 7900 ELSE 8100

Waiting ==
    /\ Processes /\ chargerStatus = "Inactive" /\ ac /\ Allowed
    /\ since' = Sampled(since, StartBelow, voltage)
    /\ IF Fires(StartBelow, voltage) THEN Change("Active") ELSE Stay

FullAt == IF chargeType = "BatteryFriendly" THEN 8150 ELSE 8350

\* The check for a full battery follows the temperature check without a
\* break, and samples the current once more after the reset.
TooHot(i) ==
    /\ Processes /\ chargerStatus = "Active" /\ ac /\ ~Allowed
    /\ Change("Inactive")
    /\ since' = Sampled(CountersStopped, 500, i)

FullyCharged(i) ==
    /\ Processes /\ chargerStatus = "Active" /\ ac /\ Allowed
    /\ Fires(500, i) /\ voltage >= FullAt
    /\ Change("Inactive")
    /\ since' = CountersStopped

Charging(i) ==
    /\ Processes /\ chargerStatus = "Active" /\ ac /\ Allowed
    /\ ~(Fires(500, i) /\ voltage >= FullAt)
    /\ Stay
    /\ since' = Sampled(since, 500, i)

ProcessCharger ==
    \/ NothingToDo \/ Plugged \/ Unplugged \/ Waiting
    \/ \E i \in Currents : TooHot(i) \/ FullyCharged(i) \/ Charging(i)

\* The second half, after the delay: the charge current, and the property.
Rate(type) == IF type = "FastCharge" THEN "Fast" ELSE "Slow"

EnableCharger ==
    /\ place = "enable" /\ place' = "idle"
    /\ current' = Rate(chargeType)
    /\ published' = chargerStatus
    /\ UNCHANGED <<battery, chargerStatus, since, chargeType, source, ac>>

Disable ==
    /\ place = "disable" /\ place' = "idle"
    /\ current' = "Zero"
    /\ published' = chargerStatus
    /\ UNCHANGED <<battery, chargerStatus, since, chargeType, source, ac>>

-----------------------------------------------------------------------------
(***************************************************************************)
(* Requests from elsewhere, and the surroundings.                          *)
(***************************************************************************)
\* From the app, a double press, or the factory reset.  (Mutant: the charger
\* is not told.)
SetTypeQuietly ==
    /\ "type" \in ChargeInputs /\ place = "idle"
    /\ chargeType' \in ChargeType
    /\ UNCHANGED <<place, battery, chargerStatus, since, published, current, source, ac>>

SetType ==
    /\ "type" \in ChargeInputs /\ place = "idle"
    /\ chargeType' \in ChargeType
    /\ current' = IF published = "Active" THEN Rate(chargeType') ELSE current
    /\ UNCHANGED <<place, battery, chargerStatus, since, published, source, ac>>

\* Battery::set_power_state(On): swapping the role resets the configuration
\* of the charger; when it is not charging it is switched off again.
PowerOnSwaps ==
    /\ "powerOn" \in ChargeInputs /\ place = "idle"
    /\ current' \in {current, "Preset"}
    /\ IF published = "Active"
       THEN UNCHANGED <<place, source>>
       ELSE place' = "settle" /\ source' = 5
    /\ UNCHANGED <<battery, chargerStatus, since, published, chargeType, ac>>

\* (Mutant of Settle: it publishes the controller's status.)
SettlePublishes ==
    /\ place = "settle" /\ place' = "idle"
    /\ current' = "Zero"
    /\ published' = chargerStatus
    /\ UNCHANGED <<battery, chargerStatus, since, chargeType, source, ac>>

Settle ==
    /\ place = "settle" /\ place' = "idle"
    /\ current' = "Zero"
    /\ UNCHANGED <<battery, chargerStatus, since, published, chargeType, source, ac>>

Charger ==
    /\ "charger" \in ChargeInputs
    /\ ac' = ~ac
    /\ UNCHANGED <<place, battery, chargerStatus, since, published, chargeType, current,
                   source>>

\* More than 5 s have passed since a counter's first sample.
Time(c) ==
    /\ since[c] = "running"
    /\ since' = [since EXCEPT ![c] = "elapsed"]
    /\ UNCHANGED <<place, battery, chargerStatus, published, chargeType, current, source,
                   ac>>

ChargeNext ==
    \/ Measure \/ Poll \/ Construct \/ Constructed \/ ProcessCharger \/ EnableCharger \/ Disable
    \/ SetType \/ PowerOnSwaps \/ Settle
    \/ Charger \/ \E c \in Counter : Time(c)

ChargeSpec == ChargeInit /\ [][ChargeNext]_chargeVars

(***************************************************************************)
(* Fairness.  The Audio task calls poll whenever its queue stays empty for *)
(* 25 ms, every 40th poll that gets so far monitors the charger (hence the *)
(* strong fairness: the others end before), delays end, and time passes.   *)
(***************************************************************************)
ChargeFairness ==
    /\ WF_chargeVars(Measure) /\ WF_chargeVars(Poll)
    /\ SF_chargeVars(Poll /\ place' # "idle")
    /\ WF_chargeVars(Construct \/ Constructed \/ ProcessCharger \/ EnableCharger \/ Disable \/ Settle)
    /\ \A c \in Counter : WF_chargeVars(Time(c))

ChargeFairSpec == ChargeSpec /\ ChargeFairness

-----------------------------------------------------------------------------
(***************************************************************************)
(* Properties.                                                             *)
(***************************************************************************)
\* Whenever Audio is between two polls the published status is the
\* controller's, and the charger is set as it says: Inactive draws nothing
\* and asks for 5 V, Active charges at the rate of the current charge type
\* and asks for 20 V, whoever changed the type and when.  (A role swap may
\* preset the rate, and it must not lift an inactive charger's voltage.)
StatusIsTrue ==
    place = "idle" =>
      /\ chargerStatus # "none" => published = chargerStatus
      /\ published = "Inactive" => current = "Zero" /\ source = 5
      /\ published = "Active" =>
           /\ source = 20
           /\ current \in {Rate(chargeType)}
                \cup (IF "powerOn" \in ChargeInputs THEN {"Preset"} ELSE {})

\* The protectors are nested: a battery too hot or too cold to discharge is
\* too hot or too cold to charge, whatever the temperature did before.
Nested ==
    /\ critical["dischargeOver"]  => critical["chargeOver"]
    /\ critical["dischargeUnder"] => critical["chargeUnder"]

\* What holds at every point of poll and of the requests, StatusIsTrue among
\* it: before the controller exists nothing is published, and inside a delay
\* the voltage is already the new one, the rate and the property the old ones.
ChargeInv ==
    /\ ChargeTypeOK
    /\ Nested
    /\ place \in {"construct", "constructed"} => chargerStatus = "none"
    /\ place \in {"process", "enable", "disable"} => chargerStatus # "none"
    /\ chargerStatus = "none" => published = "NotConnected"
    /\ chargerStatus # "none" /\ place \notin {"enable", "disable"} => published = chargerStatus
    /\ place = "enable" =>
         /\ source = 20
         /\ \/ chargerStatus = "Active" /\ published = "Inactive"
            \/ chargerStatus = "NotConnected" /\ published # "NotConnected"
    /\ place = "disable" =>
         chargerStatus = "Inactive" /\ published # "Inactive" /\ source = 5
    /\ place = "settle" => published # "Active" /\ source = 5
    /\ published = "Inactive" /\ place \notin {"enable", "settle"} =>
         current = "Zero" /\ source = 5
    /\ published = "Active" =>
         /\ place # "disable" => source = 20
         /\ current \in {Rate(chargeType)}
              \cup (IF "powerOn" \in ChargeInputs THEN {"Preset"} ELSE {})

\* Published status, charge type and charge current follow the state diagram.
States == INSTANCE ChargerStates
ChargerSpec == States!Spec

\* A battery that stays too hot or too cold to be charged is not charged for
\* long, as long as it may be discharged.
StopsWhenHot ==
    <>[](ChargeCritical /\ ~DischargeCritical) => <>[](published # "Active")

\* A plugged charger charges a battery that is low and neither hot nor cold,
\* even if somebody plays with the charge type.
ChargesWhenLow ==
    <>[](ac /\ voltage <= 7900 /\ ~ChargeCritical /\ ~DischargeCritical)
      => <>[](published = "Active")

-----------------------------------------------------------------------------
(***************************************************************************)
(* What comments and docs say and the code does not keep.                  *)
(***************************************************************************)
\* "If it still fails, don't do anything and try again on next poll."
NothingBeforeSetUp == place \in {"construct", "process"} => setUp
=============================================================================
