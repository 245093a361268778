--------------------------- MODULE Battery_proofs ---------------------------
(***************************************************************************)
(* Proofs about the battery: its charging (ChargeControl), for every set   *)
(* of temperatures, voltages, currents, inputs and faults, and its coulomb *)
(* counter (SocEstimator), for every capacity: what a cut leaves of a save *)
(* and that what was learned is the battery's.                             *)
(***************************************************************************)
EXTENDS ChargeControl, SocEstimator, SequenceTheorems, TLAPS

-----------------------------------------------------------------------------
(***************************************************************************)
(* ChargeControl: types, the inductive invariant with its consequences,    *)
(* and that the controller implements ChargerStates.                       *)
(***************************************************************************)
\* A reading of the NTC leaves the protectors nested: the thresholds and the
\* recovery values of charging lie inside those of discharging.
LEMMA HysteresisNests ==
    ASSUME NEW t \in Int, Nested, critical \in [Protector -> BOOLEAN]
    PROVE  /\ Hysteresis("dischargeOver", t)  => Hysteresis("chargeOver", t)
           /\ Hysteresis("dischargeUnder", t) => Hysteresis("chargeUnder", t)
BY DEF Nested, Hysteresis, Threshold, Recovery, Protector

\* What a reading of the NTC does to the protectors and the warning.
LEMMA Measured ==
    ASSUME ChargeInv, MeasureTemperature
    PROVE  /\ critical' \in [Protector -> BOOLEAN]
           /\ ntcLost' \in BOOLEAN
           /\ Nested'
<1>1. CASE UNCHANGED <<critical, ntcLost>>
  BY <1>1 DEF ChargeInv, ChargeTypeOK, Nested
<1>2. CASE ntcLost' = TRUE /\ UNCHANGED critical
  BY <1>2 DEF ChargeInv, ChargeTypeOK, Nested
<1>3. ASSUME NEW t \in Temperatures,
             critical' = [p \in Protector |-> Hysteresis(p, t)],
             ntcLost' = FALSE
      PROVE  /\ critical' \in [Protector -> BOOLEAN]
             /\ ntcLost' \in BOOLEAN
             /\ Nested'
  <2>1. t \in Int
    BY <1>3, ChargeAssumption
  <2>2. \A p \in Protector : Hysteresis(p, t) \in BOOLEAN
    <3>1. SUFFICES ASSUME NEW p \in Protector
                   PROVE  Hysteresis(p, t) \in BOOLEAN
      OBVIOUS
    <3>2. Threshold[p] \in Int /\ Recovery[p] \in Int
      BY DEF Threshold, Recovery, Protector
    <3>3. (t > Recovery[p]) \in BOOLEAN /\ (t >= Threshold[p]) \in BOOLEAN
          /\ (t < Recovery[p]) \in BOOLEAN /\ (t <= Threshold[p]) \in BOOLEAN
      BY <2>1, <3>2
    <3> QED
      BY <3>3, Zenon DEF Hysteresis
  <2>3. critical' \in [Protector -> BOOLEAN]
    BY <1>3, <2>2
  <2>4. Nested'
    BY <1>3, <2>1, HysteresisNests DEF ChargeInv, ChargeTypeOK, Nested, Protector
  <2> QED
    BY <1>3, <2>3, <2>4
<1> QED
  BY <1>1, <1>2, <1>3 DEF MeasureTemperature

\* A sample leaves the counters counters.
LEMMA SampledType ==
    ASSUME NEW counters \in [Counter -> {"stopped", "running", "elapsed"}],
           NEW c \in Counter, NEW sample
    PROVE  Sampled(counters, c, sample)
             \in [Counter -> {"stopped", "running", "elapsed"}]
BY DEF Sampled

\* The invariant holds initially.
LEMMA ChargeInitial == ChargeInit => ChargeInv
<1> SUFFICES ASSUME ChargeInit PROVE ChargeInv
  OBVIOUS
<1>1. initialized \in BOOLEAN /\ setUp \in BOOLEAN
  BY DEF ChargeInit
<1>2. ChargeTypeOK
  BY <1>1 DEF ChargeInit, ChargeTypeOK, ChargeStatus, ChargeType, Warning, CountersStopped
<1> QED
  BY <1>2 DEF ChargeInit, ChargeInv, Nested, Protector

\* Every step preserves it.
LEMMA ChargeInductive == ChargeInv /\ [ChargeNext]_chargeVars => ChargeInv'
<1> SUFFICES ASSUME ChargeInv, [ChargeNext]_chargeVars
             PROVE  ChargeInv'
  OBVIOUS
<1> USE DEF ChargeInv, ChargeTypeOK, Nested, battery, Rate
<1>1. CASE Measure
  <2>1. TemperatureState' \in Warning
    BY DEF TemperatureState, Warning
  <2>2. /\ critical' \in [Protector -> BOOLEAN]
        /\ ntcLost' \in BOOLEAN
        /\ Nested'
    BY <1>1, Measured DEF Measure
  <2>3. /\ place = "idle" /\ place' = "measured" /\ announced' \in Warning
        /\ UNCHANGED <<initialized, setUp, voltage, chargerStatus, since, published,
                       chargeType, current, source, ac>>
    BY <1>1, <2>1 DEF Measure
  <2>4. ChargeTypeOK'
    BY <2>2, <2>3
  <2> QED
    BY <2>2, <2>3, <2>4
<1>2. CASE Poll
  <2>1. place = "measured"
        /\ UNCHANGED <<critical, ntcLost, announced, chargerStatus, since, published,
                       chargeType, current, source, ac>>
    BY <1>2 DEF Poll
  <2>2. initialized' \in BOOLEAN /\ setUp' \in BOOLEAN
    <3>1. SetUp \/ UNCHANGED <<initialized, setUp>>
      BY <1>2 DEF Poll
    <3>2. ASSUME SetUp PROVE initialized' \in BOOLEAN /\ setUp' \in BOOLEAN
      BY <3>2 DEF SetUp
    <3> QED
      BY <3>1, <3>2
  <2>3. /\ place' \in {"idle", "construct", "process"}
        /\ place' = "construct" => chargerStatus = "none"
        /\ place' = "process" => chargerStatus # "none"
        /\ voltage' \in Voltages \cup {0}
    BY <1>2 DEF Poll, Continue
  <2> QED
    BY <2>1, <2>2, <2>3
<1>3. CASE Construct
  BY <1>3 DEF Construct
<1>4. CASE Constructed
  BY <1>4 DEF Constructed, ChargeStatus
<1>5. CASE ProcessCharger
  <2> USE DEF Processes, Change, Stay, ChargeStatus
  <2>1. CASE NothingToDo
    BY <2>1 DEF NothingToDo
  <2>2. CASE Plugged
    BY <2>2 DEF Plugged, CountersStopped
  <2>3. CASE Unplugged
    BY <2>3 DEF Unplugged
  <2>4. CASE Waiting
    <3>1. since' \in [Counter -> {"stopped", "running", "elapsed"}]
      BY <2>4, SampledType DEF Waiting, StartBelow, Counter
    <3> QED
      BY <2>4, <3>1 DEF Waiting
  <2>5. ASSUME NEW i \in Currents, TooHot(i) PROVE ChargeInv'
    <3>1. since' \in [Counter -> {"stopped", "running", "elapsed"}]
      BY <2>5, SampledType DEF TooHot, CountersStopped, Counter
    <3> QED
      BY <2>5, <3>1 DEF TooHot
  <2>6. ASSUME NEW i \in Currents, FullyCharged(i) PROVE ChargeInv'
    BY <2>6 DEF FullyCharged, CountersStopped
  <2>7. ASSUME NEW i \in Currents, Charging(i) PROVE ChargeInv'
    <3>1. since' \in [Counter -> {"stopped", "running", "elapsed"}]
      BY <2>7, SampledType DEF Charging, Counter
    <3> QED
      BY <2>7, <3>1 DEF Charging
  <2> QED
    BY <1>5, <2>1, <2>2, <2>3, <2>4, <2>5, <2>6, <2>7 DEF ProcessCharger
<1>6. CASE EnableCharger
  BY <1>6 DEF EnableCharger, Rate, ChargeStatus
<1>7. CASE Disable
  BY <1>7 DEF Disable, ChargeStatus
<1>8. CASE SetType
  BY <1>8 DEF SetType, Rate
<1>9. CASE PowerOnSwaps
  BY <1>9 DEF PowerOnSwaps
<1>10. CASE Settle
  BY <1>10 DEF Settle
<1>11. CASE Charger
  BY <1>11 DEF Charger
<1>12. ASSUME NEW c \in Counter, Time(c) PROVE ChargeInv'
  BY <1>12 DEF Time
<1>13. CASE UNCHANGED chargeVars
  BY <1>13 DEF chargeVars
<1> QED
  BY <1>1, <1>2, <1>3, <1>4, <1>5, <1>6, <1>7, <1>8, <1>9, <1>10, <1>11, <1>12,
     <1>13 DEF ChargeNext

\* The inductive invariant of charging: at each point of poll and of the
\* requests, what is published, what the controller believes and what the
\* charger was told belong together.
THEOREM ChargeInvariance == ChargeSpec => []ChargeInv
BY ChargeInitial, ChargeInductive, PTL DEF ChargeSpec

\* Every variable of the charge control keeps its type, also when the set up,
\* the AC status or the NTC fails.
THEOREM ChargeTypeCorrect == ChargeSpec => []ChargeTypeOK
<1>1. ChargeInv => ChargeTypeOK
  BY DEF ChargeInv
<1> QED
  BY <1>1, ChargeInvariance, PTL

\* Between two polls the published status tells the truth about the charger.
THEOREM PublishedStatusIsTrue == ChargeSpec => []StatusIsTrue
<1>1. ChargeInv => StatusIsTrue
  BY DEF ChargeInv, StatusIsTrue
<1> QED
  BY <1>1, ChargeInvariance, PTL

\* A battery that may not be discharged may not be charged either, for every
\* sequence of temperatures.
THEOREM ProtectorsNested == ChargeSpec => []Nested
<1>1. ChargeInv => Nested
  BY DEF ChargeInv
<1> QED
  BY <1>1, ChargeInvariance, PTL

-----------------------------------------------------------------------------
(***************************************************************************)
(* Refinement of ChargerStates.                                            *)
(***************************************************************************)
\* The charger starts in an initial state of ChargerStates.
LEMMA ChargerInitial == ChargeInit => States!Init
BY DEF ChargeInit, States!Init

\* The end of each delay, a change of type and a role swap are steps of
\* ChargerStates; every other step of the Audio task leaves it alone.
LEMMA ChargerStep == ChargeInv /\ [ChargeNext]_chargeVars => [States!Next]_(States!vars)
<1> SUFFICES ASSUME ChargeInv, [ChargeNext]_chargeVars
             PROVE  States!Next \/ UNCHANGED States!vars
  OBVIOUS
<1> USE DEF States!vars, States!Next, States!Become
<1>1. CASE Constructed
  BY <1>1 DEF Constructed, ChargeInv, States!TakeAway, battery
<1>2. CASE EnableCharger
  BY <1>2 DEF EnableCharger, ChargeInv, ChargeTypeOK, ChargeStatus, Rate, States!Rate,
              States!Start, States!Disconnect
<1>3. CASE Disable
  BY <1>3 DEF Disable, ChargeInv, ChargeTypeOK, ChargeStatus, States!Connect, States!Stop
<1>4. CASE SetType
  BY <1>4 DEF SetType, ChargeType, Rate, States!Rate, States!ChangeType
<1>5. CASE PowerOnSwaps
  BY <1>5 DEF PowerOnSwaps, States!Preset
<1>6. CASE Settle
  BY <1>6 DEF Settle, ChargeInv, States!TakeAway
<1>7. CASE Measure \/ Poll \/ Construct \/ Charger
  BY <1>7 DEF Measure, Poll, Construct, Charger
<1>8. CASE ProcessCharger
  BY <1>8 DEF ProcessCharger, NothingToDo, Plugged, Unplugged, Waiting, TooHot, FullyCharged,
              Charging, Processes
<1>9. ASSUME NEW c \in Counter, Time(c) PROVE UNCHANGED States!vars
  BY <1>9 DEF Time
<1>10. CASE UNCHANGED chargeVars
  BY <1>10 DEF chargeVars
<1> QED
  BY <1>1, <1>2, <1>3, <1>4, <1>5, <1>6, <1>7, <1>8, <1>9, <1>10 DEF ChargeNext

\* What the LEDs and the app are told follows the state diagram of the
\* charger, and outside a delay the charge current is the one of that state.
THEOREM ChargerRefinement == ChargeSpec => ChargerSpec
<1>1. ChargeInit => States!Init
  BY ChargerInitial
<1>2. ChargeInv /\ [ChargeNext]_chargeVars => [States!Next]_(States!vars)
  BY ChargerStep
<1> QED
  BY <1>1, <1>2, ChargeInvariance, PTL DEF ChargeSpec, ChargerSpec, States!Spec


-----------------------------------------------------------------------------
(***************************************************************************)
(* SocEstimator: what a cut leaves of a save.                              *)
(***************************************************************************)
SaveOrder == <<"chargeMsb", "chargeLsb", "capacityMsb", "capacityLsb", "algo">>

\* The writes that are left are the last ones of a save, and those before them
\* have been made.
SaveInv ==
    /\ writes \in Seq(SocKey \X Int) /\ Len(writes) <= 5
    /\ \A i \in 1..Len(writes) : writes[i][1] = SaveOrder[5 - Len(writes) + i]
    /\ \A j \in 1..5 : Len(writes) > 0 /\ j <= 5 - Len(writes) => SaveOrder[j] \in DOMAIN stored
    /\ DOMAIN stored \subseteq SocKey
    /\ StoredTogether

\* A state that is in use or stored is never Reset.
StateInv ==
    /\ algo \in FirstStart..Normal
    /\ Len(writes) > 0 => writes[Len(writes)][2] \in FirstStart..Normal
    /\ "algo" \in DOMAIN stored => stored["algo"] \in FirstStart..Normal

SocValues ==
    /\ charge \in Int /\ capacity \in Int
    /\ \A k \in DOMAIN stored : stored[k] \in Int

SocInv == SaveInv /\ StateInv /\ SocValues

\* The two halves of the charge and of the capacity.
Halved(s, c, k) == /\ s[1][2] = c \div HalfWord /\ s[2][2] = c % HalfWord
                   /\ s[3][2] = k \div HalfWord /\ s[4][2] = k % HalfWord

\* A save is five writes, in the order of save_persistent_parameters.
LEMMA SavingIsOrdered ==
  ASSUME NEW a \in Int, NEW c \in Int, NEW k \in Int
  PROVE  /\ Saving(a, c, k) \in Seq(SocKey \X Int) /\ Len(Saving(a, c, k)) = 5
         /\ \A i \in 1..5 : Saving(a, c, k)[i][1] = SaveOrder[i]
         /\ Saving(a, c, k)[5][2] = a
         /\ Halved(Saving(a, c, k), c, k)
<1>1. HalfWord \in Nat /\ HalfWord > 0
  BY SocAssumption
<1>2. \A v \in Int : v \div HalfWord \in Int /\ v % HalfWord \in Int
  BY <1>1
<1> DEFINE T == SocKey \X Int
           p == Stores("chargeMsb", "chargeLsb", c)
           q == Stores("capacityMsb", "capacityLsb", k)
           r == <<<<"algo", a>>>>
<1>3. /\ p \in Seq(T) /\ Len(p) = 2 /\ p[1][1] = "chargeMsb" /\ p[2][1] = "chargeLsb"
      /\ p[1][2] = c \div HalfWord /\ p[2][2] = c % HalfWord
  BY <1>2 DEF Stores, SocKey
<1>4. /\ q \in Seq(T) /\ Len(q) = 2 /\ q[1][1] = "capacityMsb" /\ q[2][1] = "capacityLsb"
      /\ q[1][2] = k \div HalfWord /\ q[2][2] = k % HalfWord
  BY <1>2 DEF Stores, SocKey
<1>5. r \in Seq(T) /\ Len(r) = 1 /\ r[1][1] = "algo" /\ r[1][2] = a
  BY DEF SocKey
<1> HIDE DEF T, p, q, r
<1>6. /\ p \o q \in Seq(T) /\ Len(p \o q) = 4
      /\ \A i \in 1..4 : (p \o q)[i] = IF i <= 2 THEN p[i] ELSE q[i - 2]
  <2>1. /\ p \o q \in Seq(T) /\ Len(p \o q) = Len(p) + Len(q)
        /\ \A i \in 1..Len(p) + Len(q) :
              (p \o q)[i] = IF i <= Len(p) THEN p[i] ELSE q[i - Len(p)]
    BY <1>3, <1>4, ConcatProperties, Zenon
  <2> QED
    BY <2>1, <1>3, <1>4
<1>7. /\ (p \o q) \o r \in Seq(T) /\ Len((p \o q) \o r) = 5
      /\ \A i \in 1..5 : ((p \o q) \o r)[i] = IF i <= 4 THEN (p \o q)[i] ELSE r[i - 4]
  <2>1. /\ (p \o q) \o r \in Seq(T) /\ Len((p \o q) \o r) = Len((p \o q)) + Len(r)
        /\ \A i \in 1..Len((p \o q)) + Len(r) :
              ((p \o q) \o r)[i] = IF i <= Len((p \o q)) THEN (p \o q)[i] ELSE r[i - Len((p \o q))]
    BY <1>5, <1>6, ConcatProperties, Zenon
  <2> QED
    BY <2>1, <1>5, <1>6
<1>8. Saving(a, c, k) = (p \o q) \o r
  BY DEF Saving, p, q, r
<1> DEFINE z == (p \o q) \o r
<1>9. /\ z[1] = p[1] /\ z[2] = p[2] /\ z[3] = q[1] /\ z[4] = q[2] /\ z[5] = r[1]
  BY <1>6, <1>7
<1> HIDE DEF z
<1>10. /\ z[1][1] = SaveOrder[1] /\ z[2][1] = SaveOrder[2] /\ z[3][1] = SaveOrder[3]
       /\ z[4][1] = SaveOrder[4] /\ z[5][1] = SaveOrder[5]
  BY <1>3, <1>4, <1>5, <1>9 DEF SaveOrder
<1>11. \A i \in 1..5 : i = 1 \/ i = 2 \/ i = 3 \/ i = 4 \/ i = 5
  OBVIOUS
<1>12. \A i \in 1..5 : z[i][1] = SaveOrder[i]
  BY <1>10, <1>11
<1>13. z[5][2] = a
  BY <1>5, <1>9
<1>14. Halved(z, c, k)
  BY <1>3, <1>4, <1>9 DEF Halved
<1> QED
  BY <1>7, <1>8, <1>12, <1>13, <1>14 DEF T, z

\* A new save begins.
LEMMA UpdateKeeps ==
  ASSUME SocInv, NEW a \in FirstStart..Normal, NEW c \in Int, NEW k \in Int,
         Update(a, c, k), UNCHANGED stored
  PROVE  SocInv'
<1>1. a \in Int
  BY DEF FirstStart, Normal
<1>2. algo' = a /\ charge' = c /\ capacity' = k /\ writes' = Saving(a, c, k)
  BY DEF Update, Assign
<1>3. /\ writes' \in Seq(SocKey \X Int) /\ Len(writes') = 5
      /\ \A i \in 1..5 : writes'[i][1] = SaveOrder[i]
      /\ writes'[5][2] = a
  <2>1. /\ Saving(a, c, k) \in Seq(SocKey \X Int) /\ Len(Saving(a, c, k)) = 5
        /\ \A i \in 1..5 : Saving(a, c, k)[i][1] = SaveOrder[i]
        /\ Saving(a, c, k)[5][2] = a
        /\ Halved(Saving(a, c, k), c, k)
    BY <1>1, SavingIsOrdered, Zenon
  <2> QED
    BY <1>2, <2>1, Zenon
<1>4. SaveInv'
  BY <1>3 DEF SocInv, SaveInv, StoredTogether
<1>5. StateInv'
  BY <1>2, <1>3 DEF SocInv, StateInv
<1>6. SocValues'
  BY <1>2 DEF SocInv, SocValues
<1> QED
  BY <1>4, <1>5, <1>6 DEF SocInv

\* Nothing that a save is about changes.
LEMMA NoSaveKeeps ==
  ASSUME SocInv, UNCHANGED <<algo, capacity, writes, stored>>, charge' \in Int
  PROVE  SocInv'
<1>1. algo' = algo /\ capacity' = capacity /\ writes' = writes /\ stored' = stored
  OBVIOUS
<1>2. SaveInv'
  BY <1>1 DEF SocInv, SaveInv, StoredTogether
<1>3. StateInv'
  BY <1>1 DEF SocInv, StateInv
<1>4. SocValues'
  BY <1>1 DEF SocInv, SocValues
<1> QED
  BY <1>2, <1>3, <1>4 DEF SocInv

LEMMA OnChargeKeeps == ASSUME SocInv, OnCharge, UNCHANGED stored PROVE SocInv'
<1>1. Factory \in Int /\ charge \in Int /\ capacity \in Int /\ (capacity + charge) \div 2 \in Int
  BY SocAssumption DEF SocInv, SocValues
<1>2. FirstStart..Normal = {FirstStart, FullCharge, FullDischarge, Normal}
  BY DEF FirstStart, FullCharge, FullDischarge, Normal
<1>3. CASE algo \in {FirstStart, FullCharge}
  <2>1. Update(FullCharge, Factory, capacity)
    BY <1>3 DEF OnCharge, FirstStart, FullCharge, FullDischarge, Normal
  <2> QED
    BY <1>1, <1>2, <2>1, UpdateKeeps
<1>4. CASE algo = FullDischarge
  <2>1. Update(Normal, charge, charge)
    BY <1>4 DEF OnCharge, FirstStart, FullCharge, FullDischarge, Normal
  <2> QED
    BY <1>1, <1>2, <2>1, UpdateKeeps
<1>5. CASE algo = Normal
  <2>1. Update(Normal, (capacity + charge) \div 2, (capacity + charge) \div 2)
    BY <1>5 DEF OnCharge, FirstStart, FullCharge, FullDischarge, Normal
  <2> QED
    BY <1>1, <1>2, <2>1, UpdateKeeps
<1> QED
  BY <1>2, <1>3, <1>4, <1>5 DEF SocInv, StateInv

LEMMA OnDischargeKeeps == ASSUME SocInv, OnDischarge, UNCHANGED stored PROVE SocInv'
<1>1. /\ 0 \in Int /\ charge \in Int /\ capacity \in Int
      /\ Factory - charge \in Int /\ capacity - charge \div 2 \in Int
  BY SocAssumption DEF SocInv, SocValues
<1>2. FirstStart..Normal = {FirstStart, FullCharge, FullDischarge, Normal}
  BY DEF FirstStart, FullCharge, FullDischarge, Normal
<1>3. CASE algo \in {FirstStart, FullDischarge}
  <2>1. Update(FullDischarge, 0, capacity)
    BY <1>3 DEF OnDischarge, FirstStart, FullCharge, FullDischarge, Normal
  <2> QED
    BY <1>1, <1>2, <2>1, UpdateKeeps
<1>4. CASE algo = FullCharge
  <2>1. Update(Normal, 0, Factory - charge)
    BY <1>4 DEF OnDischarge, FirstStart, FullCharge, FullDischarge, Normal
  <2> QED
    BY <1>1, <1>2, <2>1, UpdateKeeps
<1>5. CASE algo = Normal
  <2>1. Update(Normal, 0, capacity - charge \div 2)
    BY <1>5 DEF OnDischarge, FirstStart, FullCharge, FullDischarge, Normal
  <2> QED
    BY <1>1, <1>2, <2>1, UpdateKeeps
<1> QED
  BY <1>2, <1>3, <1>4, <1>5 DEF SocInv, StateInv

\* One key is written.
LEMMA WriteKeeps == ASSUME SocInv, WriteParameter PROVE SocInv'
<1> DEFINE T == SocKey \X Int
           n == Len(writes)
           key == writes[1][1]
           value == writes[1][2]
<1>1. writes \in Seq(T) /\ writes # <<>> /\ n <= 5
  BY DEF SocInv, SaveInv, WriteParameter
<1>2. /\ n \in 1..5 /\ Head(writes) = writes[1] /\ writes[1] \in T
      /\ Tail(writes) \in Seq(T) /\ Len(Tail(writes)) = n - 1
      /\ \A i \in 1..n - 1 : Tail(writes)[i] = writes[i + 1]
  <2> HIDE DEF T
  <2>1. Tail(writes) \in Seq(T) /\ Len(Tail(writes)) = n - 1
        /\ \A i \in 1..Len(Tail(writes)) : Tail(writes)[i] = writes[i + 1]
    BY <1>1, HeadTailProperties, Zenon
  <2>2. n \in Nat /\ n # 0
    BY <1>1, LenProperties, EmptySeq
  <2>3. Head(writes) = writes[1]
    BY <1>1
  <2>4. n \in 1..5
    <3> HIDE DEF n
    <3> QED
      BY <1>1, <2>2
  <2>5. writes[1] \in T
    BY <1>1, <2>4
  <2> QED
    BY <2>1, <2>3, <2>4, <2>5
<1>3. key \in SocKey /\ value \in Int
  BY <1>2
<1>4. /\ writes' \in Seq(T) /\ Len(writes') = n - 1
      /\ \A i \in 1..n - 1 : writes'[i] = writes[i + 1]
      /\ stored' = [k \in DOMAIN stored \cup {key} |-> IF k = key THEN value ELSE stored[k]]
      /\ algo' = algo /\ charge' = charge /\ capacity' = capacity
  <2> HIDE DEF T
  <2> QED
    BY <1>2 DEF WriteParameter
<1>5. /\ \A i \in 1..n : writes[i][1] = SaveOrder[5 - n + i]
      /\ \A j \in 1..5 - n : SaveOrder[j] \in DOMAIN stored
  <2>1. \A j \in 1..5 - n : j \in 1..5 /\ j <= 5 - n
    BY <1>2
  <2> QED
    BY <1>2, <2>1 DEF SocInv, SaveInv
<1> HIDE DEF T, n, key, value
<1>6. DOMAIN stored' = DOMAIN stored \cup {key}
  BY <1>4
<1>7. \/ n = 1 /\ key = "algo"
      \/ n = 2 /\ key = "capacityLsb"
      \/ n = 3 /\ key = "capacityMsb"
      \/ n = 4 /\ key = "chargeLsb"
      \/ n = 5 /\ key = "chargeMsb"
  <2>1. key = SaveOrder[5 - n + 1]
    BY <1>2, <1>5 DEF key
  <2>2. n = 1 \/ n = 2 \/ n = 3 \/ n = 4 \/ n = 5
    BY <1>2
  <2>3. /\ SaveOrder[5] = "algo" /\ SaveOrder[4] = "capacityLsb" /\ SaveOrder[3] = "capacityMsb"
        /\ SaveOrder[2] = "chargeLsb" /\ SaveOrder[1] = "chargeMsb"
    BY DEF SaveOrder
  <2> QED
    BY <2>1, <2>2, <2>3
<1>8. key = SaveOrder[6 - n]
  BY <1>2, <1>5 DEF key
<1>9. SaveInv'
  <2>1. \A i \in 1..n - 1 : writes'[i][1] = SaveOrder[5 - (n - 1) + i]
    <3> SUFFICES ASSUME NEW i \in 1..n - 1 PROVE writes'[i][1] = SaveOrder[5 - (n - 1) + i]
      OBVIOUS
    <3>1. i + 1 \in 1..n /\ 5 - n + (i + 1) = 5 - (n - 1) + i
      BY <1>2
    <3>2. writes[i + 1][1] = SaveOrder[5 - n + (i + 1)]
      BY <1>5, <3>1
    <3> QED
      BY <1>4, <3>1, <3>2
  <2>2. \A j \in 1..5 : j <= 5 - (n - 1) => SaveOrder[j] \in DOMAIN stored'
    <3> SUFFICES ASSUME NEW j \in 1..5, j <= 5 - (n - 1) PROVE SaveOrder[j] \in DOMAIN stored'
      OBVIOUS
    <3>1. j \in 1..5 - n \/ j = 6 - n
      BY <1>2
    <3> QED
      BY <1>5, <1>6, <1>8, <3>1
  <2>3. DOMAIN stored' \subseteq SocKey
    BY <1>3, <1>6 DEF SocInv, SaveInv
  <2>4. StoredTogether'
    <3>1. CASE n = 1
      <4>1. /\ SaveOrder[1] \in DOMAIN stored' /\ SaveOrder[2] \in DOMAIN stored'
            /\ SaveOrder[3] \in DOMAIN stored' /\ SaveOrder[4] \in DOMAIN stored'
            /\ SaveOrder[5] \in DOMAIN stored'
        BY <2>2, <3>1
      <4> QED
        BY <2>3, <4>1 DEF StoredTogether, SocKey, SaveOrder
    <3>2. CASE n # 1
      BY <1>3, <1>6, <1>7, <3>2 DEF StoredTogether, SocInv, SaveInv
    <3> QED
      BY <3>1, <3>2
  <2>5. writes' \in Seq(SocKey \X Int) /\ Len(writes') <= 5
    BY <1>2, <1>4 DEF T
  <2>6. \A i \in 1..Len(writes') : writes'[i][1] = SaveOrder[5 - Len(writes') + i]
    BY <1>4, <2>1
  <2>7. \A j \in 1..5 : Len(writes') > 0 /\ j <= 5 - Len(writes') => SaveOrder[j] \in DOMAIN stored'
    BY <1>4, <2>2
  <2> QED
    BY <2>3, <2>4, <2>5, <2>6, <2>7 DEF SaveInv
<1>10. StateInv'
  <2>1. Len(writes') > 0 => writes'[Len(writes')] = writes[n]
    BY <1>2, <1>4
  <2>2. writes[n][2] \in FirstStart..Normal
    BY <1>2 DEF SocInv, StateInv, n
  <2>3. "algo" \in DOMAIN stored' => stored'["algo"] \in FirstStart..Normal
    <3>1. CASE key = "algo"
      <4>1. value = writes[n][2]
        BY <1>7, <3>1 DEF value
      <4> QED
        BY <1>4, <2>2, <3>1, <4>1
    <3>2. CASE key # "algo"
      BY <1>4, <1>6, <3>2 DEF SocInv, StateInv
    <3> QED
      BY <3>1, <3>2
  <2> QED
    BY <1>4, <2>1, <2>2, <2>3 DEF SocInv, StateInv
<1>11. SocValues'
  BY <1>3, <1>4, <1>6 DEF SocInv, SocValues
<1> QED
  BY <1>9, <1>10, <1>11 DEF SocInv

LEMMA SocInit_Inv == SocInit => SocInv
<1> SUFFICES ASSUME SocInit PROVE SocInv
  OBVIOUS
<1>1. algo = FirstStart /\ charge = 0 /\ capacity = 0 /\ stored = <<>> /\ writes = <<>>
  BY DEF SocInit
<1>2. DOMAIN stored = {} /\ Len(writes) = 0 /\ writes \in Seq(SocKey \X Int)
  BY <1>1
<1>3. SaveInv
  BY <1>2 DEF SaveInv, StoredTogether
<1>4. StateInv
  BY <1>1, <1>2 DEF StateInv, FirstStart, Normal
<1>5. SocValues
  BY <1>1, <1>2 DEF SocValues
<1> QED
  BY <1>3, <1>4, <1>5 DEF SocInv

LEMMA SocNext_Inv == SocInv /\ [SocNext]_soc => SocInv'
<1> SUFFICES ASSUME SocInv, [SocNext]_soc PROVE SocInv'
  OBVIOUS
<1>0. charge \in Int /\ capacity \in Int /\ algo \in FirstStart..Normal /\ Factory \in Int
  BY SocAssumption DEF SocInv, SocValues, StateInv
<1>1. CASE Sample
  <2>1. charge' \in Int
    BY <1>0, <1>1 DEF Sample
  <2> QED
    BY <1>1, <2>1, NoSaveKeeps DEF Sample
<1>2. CASE BecomesStable
  <2>1. CASE level = 0
    BY <1>2, <2>1, OnDischargeKeeps DEF BecomesStable
  <2>2. CASE level # 0
    BY <1>0, <1>2, <2>2, NoSaveKeeps DEF BecomesStable
  <2> QED
    BY <2>1, <2>2
<1>3. CASE Initialise
  <2>1. CASE LoadAlgo = Reset
    <3>1. PICK guess \in 0..Factory : Update(FirstStart, guess, Factory)
      BY <1>3, <2>1 DEF Initialise
    <3>2. FirstStart \in FirstStart..Normal /\ guess \in Int /\ stored' = stored
      BY <1>0, <1>3 DEF Initialise, FirstStart, Normal
    <3> QED
      BY <1>0, <3>1, <3>2, UpdateKeeps
  <2>2. CASE LoadAlgo # Reset
    <3>1. /\ algo' = LoadAlgo
          /\ charge' = Load("chargeMsb", "chargeLsb", 0)
          /\ capacity' = Load("capacityMsb", "capacityLsb", Factory)
          /\ writes' = writes /\ stored' = stored
      BY <1>3, <2>2 DEF Initialise, Assign
    <3>2. algo' \in FirstStart..Normal
      BY <2>2, <3>1 DEF LoadAlgo, SocInv, StateInv
    <3>3. charge' \in Int /\ capacity' \in Int
      BY <1>0, <3>1, SocAssumption DEF Load, SocInv, SocValues
    <3>4. SaveInv'
      BY <3>1 DEF SocInv, SaveInv, StoredTogether
    <3>5. StateInv'
      BY <3>1, <3>2 DEF SocInv, StateInv
    <3>6. SocValues'
      BY <3>1, <3>3 DEF SocInv, SocValues
    <3> QED
      BY <3>4, <3>5, <3>6 DEF SocInv
  <2> QED
    BY <2>1, <2>2
<1>4. CASE Charged
  BY <1>4, OnChargeKeeps DEF Charged
<1>5. CASE Empty
  BY <1>5, OnDischargeKeeps DEF Empty
<1>6. CASE Save
  BY <1>0, <1>6, UpdateKeeps DEF Save
<1>7. CASE FactoryReset
  <2>1. PICK guess \in 0..Factory : Update(FirstStart, guess, Factory)
    BY <1>7 DEF FactoryReset
  <2>2. FirstStart \in FirstStart..Normal /\ guess \in Int /\ stored' = stored
    BY <1>0, <1>7 DEF FactoryReset, FirstStart, Normal
  <2> QED
    BY <1>0, <2>1, <2>2, UpdateKeeps
<1>8. CASE WriteParameter
  BY <1>8, WriteKeeps
<1>9. CASE Restart
  <2>1. algo' = FirstStart /\ charge' = 0 /\ capacity' = 0 /\ writes' = <<>> /\ stored' = stored
    BY <1>9 DEF Restart, Assign
  <2>2. Len(writes') = 0 /\ writes' \in Seq(SocKey \X Int)
    BY <2>1
  <2>3. SaveInv'
    BY <2>1, <2>2 DEF SocInv, SaveInv, StoredTogether
  <2>4. StateInv'
    BY <2>1, <2>2 DEF SocInv, StateInv, FirstStart, Normal
  <2>5. SocValues'
    BY <2>1 DEF SocInv, SocValues
  <2> QED
    BY <2>3, <2>4, <2>5 DEF SocInv
<1>10. CASE UNCHANGED soc
  BY <1>0, <1>10, NoSaveKeeps DEF soc
<1> QED
  BY <1>1, <1>2, <1>3, <1>4, <1>5, <1>6, <1>7, <1>8, <1>9, <1>10 DEF SocNext

(* A cut at any point of save_persistent_parameters, in any sequence of     *)
(* saves and restarts, leaves the state of the algorithm only beside both   *)
(* halves of both numbers: the state is the last of the five writes.        *)
THEOREM CalibrationStoredTogether == SocSpec => []StoredTogether
<1>1. SocInv => StoredTogether
  BY DEF SocInv, SaveInv
<1> QED
  BY <1>1, SocInit_Inv, SocNext_Inv, PTL DEF SocSpec
-----------------------------------------------------------------------------
(***************************************************************************)
(* SocEstimator: what the counter means.                                   *)
(***************************************************************************)

\* What an algorithm state promises of the two numbers: after a full charge the
\* counter says how far the battery is from the factory's capacity, after a
\* full discharge how far it is from empty.
Means(a, c, k) ==
    /\ a = FullCharge => c = Factory - (Capacity - level)
    /\ a = FullDischarge => c = level
    /\ a = Normal => c = level /\ k = Capacity

StoredMeans ==
    "algo" \in DOMAIN stored =>
        Means(stored["algo"], Load("chargeMsb", "chargeLsb", 0), Load("capacityMsb", "capacityLsb", Factory))

SaveValues == <<charge \div HalfWord, charge % HalfWord, capacity \div HalfWord, capacity % HalfWord, algo>>

\* A save under way is one of what the estimator holds now.
SavesHeld ==
    /\ \A i \in 1..Len(writes) : writes[i][2] = SaveValues[5 - Len(writes) + i]
    /\ \A j \in 1..5 : Len(writes) > 0 /\ j <= 5 - Len(writes) => stored[SaveOrder[j]] = SaveValues[j]

CalibrationInv ==
    /\ level \in 0..Capacity
    /\ phase \in Phase
    /\ phase = "Measuring" => algo = FirstStart
    /\ exact => Means(algo, charge, capacity)
    /\ exact /\ phase # "Initialised" => IF Len(writes) = 0 THEN StoredMeans ELSE SavesHeld

LEMMA Halves == ASSUME NEW v \in Int PROVE (v \div HalfWord) * HalfWord + (v % HalfWord) = v
<1>1. HalfWord \in Nat /\ HalfWord > 0
  BY SocAssumption
<1> QED
  BY <1>1

\* A new save holds what it is about.
LEMMA NewSaveHolds ==
  ASSUME NEW a \in FirstStart..Normal, NEW c \in Int, NEW k \in Int, Update(a, c, k)
  PROVE  /\ algo' = a /\ charge' = c /\ capacity' = k
         /\ Len(writes') = 5 /\ SavesHeld'
<1>1. a \in Int
  BY DEF FirstStart, Normal
<1>2. algo' = a /\ charge' = c /\ capacity' = k /\ writes' = Saving(a, c, k)
  BY DEF Update, Assign
<1>3. Len(writes') = 5 /\ writes'[5][2] = a /\ Halved(writes', c, k)
  <2>1. Len(Saving(a, c, k)) = 5 /\ Saving(a, c, k)[5][2] = a /\ Halved(Saving(a, c, k), c, k)
    BY <1>1, SavingIsOrdered, Zenon
  <2> QED
    BY <1>2, <2>1, Zenon
<1>4. /\ SaveValues'[1] = c \div HalfWord /\ SaveValues'[2] = c % HalfWord
      /\ SaveValues'[3] = k \div HalfWord /\ SaveValues'[4] = k % HalfWord
      /\ SaveValues'[5] = a
  BY <1>2 DEF SaveValues
<1>5. ASSUME NEW i \in 1..5 PROVE writes'[i][2] = SaveValues'[i]
  <2>1. i = 1 \/ i = 2 \/ i = 3 \/ i = 4 \/ i = 5
    OBVIOUS
  <2> QED
    BY <1>3, <1>4, <2>1 DEF Halved
<1>6. \A i \in 1..Len(writes') : writes'[i][2] = SaveValues'[5 - Len(writes') + i]
  BY <1>3, <1>5
<1>7. SavesHeld'
  BY <1>3, <1>6 DEF SavesHeld
<1> QED
  BY <1>2, <1>3, <1>7

LEMMA NewSaveMeans ==
  ASSUME CalibrationInv, NEW a \in FirstStart..Normal, NEW c \in Int, NEW k \in Int, Update(a, c, k),
         exact' => Means(a, c, k), level' = level, phase' \in Phase, phase' = "Measuring" => a = FirstStart
  PROVE  CalibrationInv'
<1>1. /\ algo' = a /\ charge' = c /\ capacity' = k /\ Len(writes') = 5 /\ SavesHeld'
  BY NewSaveHolds
<1>2. exact' => Means(algo, charge, capacity)'
  BY <1>1 DEF Means
<1>3. exact' /\ phase' # "Initialised" => IF Len(writes') = 0 THEN StoredMeans' ELSE SavesHeld'
  BY <1>1
<1> QED
  BY <1>1, <1>2, <1>3 DEF CalibrationInv

\* The first of the writes that are left.
LEMMA OneWrite ==
  ASSUME SocInv, WriteParameter
  PROVE  /\ Len(writes) \in 1..5 /\ Len(writes') = Len(writes) - 1
         /\ \A i \in 1..Len(writes) - 1 : writes'[i] = writes[i + 1]
         /\ DOMAIN stored' = DOMAIN stored \cup {SaveOrder[6 - Len(writes)]}
         /\ stored'[SaveOrder[6 - Len(writes)]] = writes[1][2]
         /\ \A x \in DOMAIN stored : x # SaveOrder[6 - Len(writes)] => stored'[x] = stored[x]
<1> DEFINE T == SocKey \X Int
           n == Len(writes)
           key == SaveOrder[6 - n]
<1>1. writes \in Seq(T) /\ writes # <<>> /\ n <= 5
  BY DEF SocInv, SaveInv, WriteParameter
<1>2. n \in Nat /\ n # 0
  <2> HIDE DEF T
  <2> QED
    BY <1>1, LenProperties, EmptySeq
<1>3. n \in 1..5 /\ Head(writes) = writes[1]
  <2>1. Head(writes) = writes[1]
    BY <1>1
  <2> HIDE DEF n, T
  <2> QED
    BY <1>1, <1>2, <2>1
<1>4. Len(Tail(writes)) = n - 1 /\ \A i \in 1..n - 1 : Tail(writes)[i] = writes[i + 1]
  <2> HIDE DEF T
  <2>1. Len(Tail(writes)) = n - 1
        /\ \A i \in 1..Len(Tail(writes)) : Tail(writes)[i] = writes[i + 1]
    BY <1>1, HeadTailProperties, Zenon
  <2> QED
    BY <2>1
<1>5. writes[1][1] = key
  <2>1. 1 \in 1..n /\ 5 - n + 1 = 6 - n
    BY <1>3
  <2>2. writes[1][1] = SaveOrder[5 - n + 1]
    BY <2>1 DEF SocInv, SaveInv
  <2> QED
    BY <2>1, <2>2
<1>6. /\ writes' = Tail(writes)
      /\ stored' = [x \in DOMAIN stored \cup {key} |-> IF x = key THEN writes[1][2] ELSE stored[x]]
  BY <1>3, <1>5 DEF WriteParameter
<1>7. DOMAIN stored' = DOMAIN stored \cup {key} /\ stored'[key] = writes[1][2]
      /\ \A x \in DOMAIN stored : x # key => stored'[x] = stored[x]
  <2> HIDE DEF key
  <2> QED
    BY <1>6
<1> QED
  BY <1>3, <1>4, <1>6, <1>7

\* A save that is done stores what the estimator holds.
LEMMA SavedMeans ==
  ASSUME Means(algo, charge, capacity)', charge' \in Int, capacity' \in Int, SocKey \subseteq DOMAIN stored',
         \A j \in 1..5 : stored'[SaveOrder[j]] = SaveValues'[j]
  PROVE  StoredMeans'
<1>1. 1 \in 1..5 /\ 2 \in 1..5 /\ 3 \in 1..5 /\ 4 \in 1..5 /\ 5 \in 1..5
  OBVIOUS
<1>2. /\ stored'["chargeMsb"] = charge' \div HalfWord /\ stored'["chargeLsb"] = charge' % HalfWord
      /\ stored'["capacityMsb"] = capacity' \div HalfWord /\ stored'["capacityLsb"] = capacity' % HalfWord
      /\ stored'["algo"] = algo'
  <2>1. /\ SaveOrder[1] = "chargeMsb" /\ SaveOrder[2] = "chargeLsb" /\ SaveOrder[3] = "capacityMsb"
        /\ SaveOrder[4] = "capacityLsb" /\ SaveOrder[5] = "algo"
    BY DEF SaveOrder
  <2>2. /\ SaveValues'[1] = charge' \div HalfWord /\ SaveValues'[2] = charge' % HalfWord
        /\ SaveValues'[3] = capacity' \div HalfWord /\ SaveValues'[4] = capacity' % HalfWord
        /\ SaveValues'[5] = algo'
    BY DEF SaveValues
  <2>3. /\ stored'[SaveOrder[1]] = SaveValues'[1] /\ stored'[SaveOrder[2]] = SaveValues'[2]
        /\ stored'[SaveOrder[3]] = SaveValues'[3] /\ stored'[SaveOrder[4]] = SaveValues'[4]
        /\ stored'[SaveOrder[5]] = SaveValues'[5]
    BY <1>1
  <2> QED
    BY <2>1, <2>2, <2>3
<1>3. (charge' \div HalfWord) * HalfWord + (charge' % HalfWord) = charge'
  BY Halves
<1>4. (capacity' \div HalfWord) * HalfWord + (capacity' % HalfWord) = capacity'
  BY Halves
<1>5. Load("chargeMsb", "chargeLsb", 0)' = charge'
  BY <1>2, <1>3 DEF Load, SocKey
<1>6. Load("capacityMsb", "capacityLsb", Factory)' = capacity'
  BY <1>2, <1>4 DEF Load, SocKey
<1> QED
  BY <1>2, <1>5, <1>6 DEF StoredMeans, Means

LEMMA WriteMeans == ASSUME SocInv, SocInv', CalibrationInv, WriteParameter PROVE CalibrationInv'
<1> DEFINE n == Len(writes)
<1>1. /\ n \in 1..5 /\ Len(writes') = n - 1
      /\ \A i \in 1..n - 1 : writes'[i] = writes[i + 1]
      /\ stored'[SaveOrder[6 - n]] = writes[1][2]
      /\ \A x \in DOMAIN stored : x # SaveOrder[6 - n] => stored'[x] = stored[x]
  BY OneWrite
<1>2. UNCHANGED <<level, algo, charge, capacity, phase, exact>>
  BY DEF WriteParameter
<1> HIDE DEF n
<1>3. SaveValues' = SaveValues /\ (Means(algo, charge, capacity)' <=> Means(algo, charge, capacity))
  BY <1>2 DEF SaveValues, Means
<1>4. ASSUME exact, phase # "Initialised" PROVE IF Len(writes') = 0 THEN StoredMeans' ELSE SavesHeld'
  <2>1. /\ \A i \in 1..n : writes[i][2] = SaveValues[5 - n + i]
        /\ \A j \in 1..5 : j <= 5 - n => stored[SaveOrder[j]] = SaveValues[j]
    BY <1>1, <1>4 DEF CalibrationInv, SavesHeld, n
  <2>2. ASSUME NEW i \in 1..n - 1 PROVE writes'[i][2] = SaveValues[5 - (n - 1) + i]
    <3>1. i + 1 \in 1..n /\ 5 - n + (i + 1) = 5 - (n - 1) + i
      BY <1>1
    <3>2. writes[i + 1][2] = SaveValues[5 - n + (i + 1)]
      BY <2>1, <3>1
    <3> QED
      BY <1>1, <3>1, <3>2
  <2>3. ASSUME NEW j \in 1..5, j <= 5 - (n - 1) PROVE stored'[SaveOrder[j]] = SaveValues[j]
    <3>1. CASE j = 6 - n
      <4>1. 1 \in 1..n /\ 5 - n + 1 = 6 - n
        BY <1>1
      <4>2. writes[1][2] = SaveValues[5 - n + 1]
        BY <2>1, <4>1
      <4> QED
        BY <1>1, <3>1, <4>1, <4>2
    <3>2. CASE j <= 5 - n
      <4>1. SaveOrder[j] \in DOMAIN stored
        <5>1. \A i \in 1..5 : n > 0 /\ i <= 5 - n => SaveOrder[i] \in DOMAIN stored
          BY DEF SocInv, SaveInv, n
        <5> QED
          BY <1>1, <3>2, <5>1
      <4>2. 6 - n \in 1..5 /\ j # 6 - n
        BY <1>1, <3>2
      <4>3. SaveOrder[j] # SaveOrder[6 - n]
        <5> DEFINE m == 6 - n
        <5> HIDE DEF m
        <5>1. m \in 1..5 /\ j # m
          BY <4>2 DEF m
        <5>2. SaveOrder[j] # SaveOrder[m]
          BY <5>1 DEF SaveOrder
        <5> QED
          BY <5>2 DEF m
      <4> QED
        BY <1>1, <2>1, <3>2, <4>1, <4>3
    <3> QED
      BY <1>1, <2>3, <3>1, <3>2
  <2>4. CASE n = 1
    <3>1. \A j \in 1..5 : stored'[SaveOrder[j]] = SaveValues'[j]
      BY <1>3, <2>3, <2>4
    <3>2. "algo" \in DOMAIN stored'
      <4>1. SaveOrder[6 - n] = "algo"
        BY <2>4 DEF SaveOrder
      <4> QED
        BY <4>1, OneWrite DEF n
    <3>3. SocKey \subseteq DOMAIN stored' /\ charge' \in Int /\ capacity' \in Int
      BY <3>2 DEF SocInv, SaveInv, StoredTogether, SocValues
    <3>4. Means(algo, charge, capacity)'
      BY <1>3, <1>4 DEF CalibrationInv
    <3>5. StoredMeans'
      BY <3>1, <3>3, <3>4, SavedMeans
    <3> QED
      BY <1>1, <2>4, <3>5
  <2>5. CASE n # 1
    <3>1. Len(writes') # 0
      BY <1>1, <2>5
    <3>2. \A i \in 1..Len(writes') : writes'[i][2] = SaveValues'[5 - Len(writes') + i]
      BY <1>1, <1>3, <2>2
    <3>3. \A j \in 1..5 : Len(writes') > 0 /\ j <= 5 - Len(writes') => stored'[SaveOrder[j]] = SaveValues'[j]
      BY <1>1, <1>3, <2>3
    <3>4. SavesHeld'
      BY <3>2, <3>3 DEF SavesHeld
    <3> QED
      BY <3>1, <3>4
  <2> QED
    BY <2>4, <2>5
<1> QED
  BY <1>2, <1>3, <1>4 DEF CalibrationInv

\* A full charge to the full voltage, and a full discharge, keep the meaning.
LEMMA OnChargeMeans ==
  ASSUME SocInv, CalibrationInv, OnCharge, level' = level, phase' = phase, phase # "Measuring",
         exact' => exact /\ level = Capacity
  PROVE  CalibrationInv'
<1>1. /\ Factory \in Int /\ Capacity \in Int /\ charge \in Int /\ capacity \in Int
      /\ (capacity + charge) \div 2 \in Int
  BY SocAssumption DEF SocInv, SocValues
<1>2. FirstStart..Normal = {FirstStart, FullCharge, FullDischarge, Normal}
  BY DEF FirstStart, FullCharge, FullDischarge, Normal
<1>3. exact' => Means(algo, charge, capacity) /\ level = Capacity
  BY DEF CalibrationInv
<1>4. phase' \in Phase /\ phase' # "Measuring"
  BY DEF CalibrationInv
<1>5. CASE algo \in {FirstStart, FullCharge}
  <2>1. Update(FullCharge, Factory, capacity)
    BY <1>5 DEF OnCharge, FirstStart, FullCharge, FullDischarge, Normal
  <2>2. exact' => Means(FullCharge, Factory, capacity)
    BY <1>1, <1>3 DEF Means, FullCharge, FullDischarge, Normal
  <2> QED
    BY <1>1, <1>2, <1>4, <2>1, <2>2, NewSaveMeans
<1>6. CASE algo = FullDischarge
  <2>1. Update(Normal, charge, charge)
    BY <1>6 DEF OnCharge, FirstStart, FullCharge, FullDischarge, Normal
  <2>2. exact' => Means(Normal, charge, charge)
    BY <1>1, <1>3, <1>6 DEF Means, FullCharge, FullDischarge, Normal
  <2> QED
    BY <1>1, <1>2, <1>4, <2>1, <2>2, NewSaveMeans
<1>7. CASE algo = Normal
  <2> DEFINE k == (capacity + charge) \div 2
  <2>1. Update(Normal, k, k)
    BY <1>7 DEF OnCharge, FirstStart, FullCharge, FullDischarge, Normal
  <2>2. ASSUME exact' PROVE k = Capacity /\ level = Capacity
    BY <1>1, <1>3, <1>7, <2>2 DEF Means
  <2>3. k \in Int
    BY <1>1
  <2> HIDE DEF k
  <2>4. exact' => Means(Normal, k, k)
    BY <2>2 DEF Means, FullCharge, FullDischarge, Normal
  <2> QED
    BY <1>2, <1>4, <2>1, <2>3, <2>4, NewSaveMeans
<1> QED
  BY <1>2, <1>5, <1>6, <1>7 DEF SocInv, StateInv

LEMMA OnDischargeMeans ==
  ASSUME SocInv, CalibrationInv, OnDischarge, level = 0, level' = level, exact' = exact,
         phase' \in {"Stable", "Initialised"}
  PROVE  CalibrationInv'
<1>1. /\ Factory \in Int /\ Capacity \in Int /\ charge \in Int /\ capacity \in Int
      /\ Factory - charge \in Int /\ capacity - charge \div 2 \in Int /\ 0 \in Int
  BY SocAssumption DEF SocInv, SocValues
<1>2. FirstStart..Normal = {FirstStart, FullCharge, FullDischarge, Normal}
  BY DEF FirstStart, FullCharge, FullDischarge, Normal
<1>3. exact' => Means(algo, charge, capacity)
  BY DEF CalibrationInv
<1>4. phase' \in Phase /\ phase' # "Measuring"
  BY DEF Phase
<1>5. CASE algo \in {FirstStart, FullDischarge}
  <2>1. Update(FullDischarge, 0, capacity)
    BY <1>5 DEF OnDischarge, FirstStart, FullCharge, FullDischarge, Normal
  <2>2. exact' => Means(FullDischarge, 0, capacity)
    BY DEF Means, FullCharge, FullDischarge, Normal
  <2> QED
    BY <1>1, <1>2, <1>4, <2>1, <2>2, NewSaveMeans
<1>6. CASE algo = FullCharge
  <2>1. Update(Normal, 0, Factory - charge)
    BY <1>6 DEF OnDischarge, FirstStart, FullCharge, FullDischarge, Normal
  <2>2. exact' => Means(Normal, 0, Factory - charge)
    BY <1>1, <1>3, <1>6 DEF Means, FullCharge, FullDischarge, Normal
  <2> QED
    BY <1>1, <1>2, <1>4, <2>1, <2>2, NewSaveMeans
<1>7. CASE algo = Normal
  <2> DEFINE k == capacity - charge \div 2
  <2>1. Update(Normal, 0, k)
    BY <1>7 DEF OnDischarge, FirstStart, FullCharge, FullDischarge, Normal
  <2>2. ASSUME exact' PROVE k = Capacity
    BY <1>1, <1>3, <1>7, <2>2 DEF Means
  <2>3. k \in Int
    BY <1>1
  <2> HIDE DEF k
  <2>4. exact' => Means(Normal, 0, k)
    BY <2>2 DEF Means, FullCharge, FullDischarge, Normal
  <2> QED
    BY <1>1, <1>2, <1>4, <2>1, <2>3, <2>4, NewSaveMeans
<1> QED
  BY <1>2, <1>5, <1>6, <1>7 DEF SocInv, StateInv

LEMMA CalibrationInit == SocInit => CalibrationInv
<1> SUFFICES ASSUME SocInit PROVE CalibrationInv
  OBVIOUS
<1>1. Means(algo, charge, capacity) /\ algo = FirstStart /\ phase = "Measuring" /\ level \in 0..Capacity
  BY DEF SocInit, Means, FirstStart, FullCharge, FullDischarge, Normal
<1>2. Len(writes) = 0 /\ StoredMeans
  BY DEF SocInit, StoredMeans
<1> QED
  BY <1>1, <1>2 DEF CalibrationInv, Phase

LEMMA CalibrationNext == SocInv /\ SocInv' /\ CalibrationInv /\ [SocNext]_soc => CalibrationInv'
<1> SUFFICES ASSUME SocInv, SocInv', CalibrationInv, [SocNext]_soc PROVE CalibrationInv'
  OBVIOUS
<1>0. /\ charge \in Int /\ capacity \in Int /\ algo \in FirstStart..Normal /\ Factory \in Int
      /\ FirstStart \in FirstStart..Normal /\ phase \in Phase
      /\ \A c, k : Means(FirstStart, c, k)
  BY SocAssumption DEF SocInv, SocValues, StateInv, CalibrationInv, FirstStart, Normal, Means, FullCharge, FullDischarge
<1>1. CASE Sample
  <2>1. PICK d \in {-1, 1} : \E measured \in BOOLEAN :
          /\ level' = level + d /\ level' \in 0..Capacity
          /\ charge' = IF measured THEN charge + d ELSE charge
          /\ exact' = (exact /\ measured /\ phase = "Initialised")
          /\ UNCHANGED <<algo, capacity, phase, stored, writes>>
    BY <1>1 DEF Sample
  <2>2. exact' => /\ exact /\ phase = "Initialised" /\ charge' = charge + d
                  /\ Means(algo, charge, capacity)
    BY <2>1 DEF CalibrationInv
  <2>3. level \in Int /\ Capacity \in Int
    BY SocAssumption DEF CalibrationInv
  <2>4. exact' => Means(algo, charge, capacity)'
    BY <1>0, <2>1, <2>2, <2>3 DEF Means
  <2> QED
    BY <2>1, <2>2, <2>4 DEF CalibrationInv
<1>2. CASE BecomesStable
  <2>1. CASE level = 0
    BY <1>2, <2>1, OnDischargeMeans DEF BecomesStable
  <2>2. CASE level # 0
    <3>1. UNCHANGED <<level, algo, charge, capacity, stored, exact, writes>> /\ phase' = "Stable"
      BY <1>2, <2>2 DEF BecomesStable
    <3>2. writes = <<>> /\ Len(writes) = 0 /\ phase # "Initialised"
      BY <1>2 DEF BecomesStable
    <3>3. exact => StoredMeans
      BY <3>2 DEF CalibrationInv
    <3>4. exact' => StoredMeans'
      BY <3>1, <3>3 DEF StoredMeans, Means, Load
    <3>5. exact' => Means(algo, charge, capacity)'
      BY <3>1 DEF CalibrationInv, Means
    <3> QED
      BY <3>1, <3>2, <3>4, <3>5 DEF CalibrationInv, Phase
  <2> QED
    BY <2>1, <2>2
<1>3. CASE Initialise
  <2>0. phase' = "Initialised" /\ phase' \in Phase /\ level' = level /\ exact' = exact /\ stored' = stored
        /\ phase = "Stable" /\ Len(writes) = 0
    BY <1>3 DEF Initialise, Phase
  <2>1. CASE LoadAlgo = Reset
    <3>1. PICK guess \in 0..Factory : Update(FirstStart, guess, Factory)
      BY <1>3, <2>1 DEF Initialise
    <3>2. guess \in Int
      BY <1>0
    <3> QED
      BY <1>0, <2>0, <3>1, <3>2, NewSaveMeans
  <2>2. CASE LoadAlgo # Reset
    <3>1. /\ algo' = LoadAlgo
          /\ charge' = Load("chargeMsb", "chargeLsb", 0)
          /\ capacity' = Load("capacityMsb", "capacityLsb", Factory)
      BY <1>3, <2>2 DEF Initialise, Assign
    <3>2. "algo" \in DOMAIN stored /\ LoadAlgo = stored["algo"]
      BY <2>2 DEF LoadAlgo
    <3>3. exact => StoredMeans
      BY <2>0 DEF CalibrationInv
    <3>4. exact => Means(algo', charge', capacity')
      BY <3>1, <3>2, <3>3 DEF StoredMeans
    <3>5. exact' => Means(algo, charge, capacity)'
      BY <2>0, <3>4 DEF Means
    <3> QED
      BY <2>0, <3>5 DEF CalibrationInv
  <2> QED
    BY <2>1, <2>2
<1>4. CASE Charged
  <2>1. exact' => exact /\ level = Capacity
    BY <1>4 DEF Charged
  <2> QED
    BY <1>4, <2>1, OnChargeMeans DEF Charged
<1>5. CASE Empty
  BY <1>5, OnDischargeMeans DEF Empty
<1>6. CASE Save
  <2>1. /\ Update(algo, charge, capacity) /\ UNCHANGED <<level, phase, stored, exact>>
    BY <1>6 DEF Save
  <2>2. exact' => Means(algo, charge, capacity)
    BY <2>1 DEF CalibrationInv
  <2>3. phase' \in Phase /\ (phase' = "Measuring" => algo = FirstStart)
    BY <2>1 DEF CalibrationInv
  <2> QED
    BY <1>0, <2>1, <2>2, <2>3, NewSaveMeans
<1>7. CASE FactoryReset
  <2>1. PICK guess \in 0..Factory : Update(FirstStart, guess, Factory)
    BY <1>7 DEF FactoryReset
  <2>2. guess \in Int /\ level' = level /\ phase' = phase
    BY <1>0, <1>7 DEF FactoryReset
  <2> QED
    BY <1>0, <2>1, <2>2, NewSaveMeans
<1>8. CASE WriteParameter
  BY <1>8, WriteMeans
<1>9. CASE Restart
  <2>1. /\ algo' = FirstStart /\ charge' = 0 /\ capacity' = 0 /\ writes' = <<>> /\ stored' = stored
        /\ level' = level /\ phase' = "Measuring"
        /\ exact' = (exact /\ writes = <<>> /\ (phase = "Initialised" => IsStored))
    BY <1>9 DEF Restart, Assign
  <2>2. Means(algo, charge, capacity)'
    BY <2>1 DEF Means, FirstStart, FullCharge, FullDischarge, Normal
  <2>3. ASSUME exact' PROVE StoredMeans
    <3>0. exact /\ Len(writes) = 0 /\ (phase = "Initialised" => IsStored)
      BY <2>1, <2>3
    <3>1. CASE phase = "Initialised"
      <4>1. Means(LoadAlgo, Load("chargeMsb", "chargeLsb", 0), Load("capacityMsb", "capacityLsb", Factory))
        BY <3>0, <3>1 DEF IsStored, CalibrationInv
      <4> QED
        BY <4>1 DEF StoredMeans, LoadAlgo
    <3>2. CASE phase # "Initialised"
      BY <3>0, <3>2 DEF CalibrationInv
    <3> QED
      BY <3>1, <3>2
  <2>4. exact' => StoredMeans'
    BY <2>1, <2>3 DEF StoredMeans, Means, Load
  <2>5. Len(writes') = 0
    BY <2>1
  <2> QED
    BY <2>1, <2>2, <2>4, <2>5 DEF CalibrationInv, Phase
<1>10. CASE UNCHANGED soc
  BY <1>10 DEF soc, CalibrationInv, Means, StoredMeans, Load, SavesHeld, SaveValues
<1> QED
  BY <1>1, <1>2, <1>3, <1>4, <1>5, <1>6, <1>7, <1>8, <1>9, <1>10 DEF SocNext

(* As long as every sample was measured, every full charge went to the full *)
(* voltage and every shutdown saved what was counted, an estimator in       *)
(* normal operation knows the capacity and the charge of the battery, for   *)
(* any capacities, any split of the stored numbers and any number of        *)
(* charges, discharges, saves and restarts: what a stored number means      *)
(* depends on the state stored beside it, and both are of one save.         *)
THEOREM CalibratedKnows == SocSpec => []CalibratedIsTrue
<1>1. CalibrationInv => CalibratedIsTrue
  BY DEF CalibrationInv, CalibratedIsTrue, Means, Normal, FullCharge, FullDischarge
<1> QED
  BY <1>1, SocInit_Inv, SocNext_Inv, CalibrationInit, CalibrationNext, PTL DEF SocSpec
=============================================================================
