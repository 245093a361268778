---------------------------- MODULE SocEstimator ----------------------------
(***************************************************************************)
(* The coulomb counter of src/Projects/Mynd/src/battery/soc_estimator:     *)
(* what it learns of the battery's capacity, and what of that survives in  *)
(* the five keys of the persistent storage.                                *)
(*                                                                         *)
(* Three actors: the battery, whose charge is `level'; the FreeRTOS timer  *)
(* task, which adds a sample every 10 ms and may come between any two      *)
(* steps of the others; and the Audio task, which polls the battery, saves *)
(* and resets.  A save writes key after key, and the power may be cut      *)
(* between any two.                                                        *)
(***************************************************************************)
EXTENDS Integers, Sequences

CONSTANTS
    Factory,   \* m_battery_factory_capacity, in units of charge
    Capacity,  \* the charge that this battery really takes
    HalfWord,  \* the number of values of the low half of a stored float
    Bound      \* how far the counter and the capacity may run away

ASSUME SocAssumption ==
    /\ {Factory, Capacity, HalfWord, Bound} \subseteq Nat \ {0}
    /\ Capacity <= Factory

VARIABLES
    level,     \* the charge in the battery
    algo, charge, capacity, \* m_algo_state, m_integrated_charge, m_capacity
    phase,     \* how far Battery::poll came: the voltage, then the estimator
    stored,    \* the persistent storage: the cells of the keys that were written
    writes,    \* the writes that are left of the save under way
    exact      \* history: nothing has yet made the counter differ from the battery

soc == <<level, algo, charge, capacity, phase, stored, writes, exact>>

\* BatterySoCAlgoState
Reset == 0    FirstStart == 1    FullCharge == 2    FullDischarge == 3    Normal == 4

SocKey   == {"algo", "chargeMsb", "chargeLsb", "capacityMsb", "capacityLsb"}
Phase == {"Measuring", "Stable", "Initialised"}

SocTypeOK ==
    /\ level \in 0..Capacity
    /\ algo \in Reset..Normal
    /\ charge \in Int /\ capacity \in Int
    /\ phase \in Phase
    /\ DOMAIN stored \subseteq SocKey /\ \A k \in DOMAIN stored : stored[k] \in Int
    /\ writes \in Seq(SocKey \X Int)
    /\ exact \in BOOLEAN
-----------------------------------------------------------------------------
(* Storage::load and Storage::save of a float: two keys, the high half first. *)
Load(msb, lsb, default) ==
    IF {msb, lsb} \subseteq DOMAIN stored THEN stored[msb] * HalfWord + stored[lsb] ELSE default

LoadAlgo == IF "algo" \in DOMAIN stored THEN stored["algo"] ELSE Reset

Stores(msb, lsb, v) == <<<<msb, v \div HalfWord>>, <<lsb, v % HalfWord>>>>

\* mutant: the algorithm state comes first
SavingStateFirst(a, c, k) ==
    <<<<"algo", a>>>> \o Stores("chargeMsb", "chargeLsb", c) \o Stores("capacityMsb", "capacityLsb", k)

\* save_persistent_parameters: the algorithm state comes last.
Saving(a, c, k) == Stores("chargeMsb", "chargeLsb", c)
                   \o Stores("capacityMsb", "capacityLsb", k) \o <<<<"algo", a>>>>

Assign(a, c, k) == algo' = a /\ charge' = c /\ capacity' = k

Update(a, c, k) == /\ k \in -Bound..Bound
                   /\ Assign(a, c, k)
                   /\ writes' = Saving(a, c, k)
-----------------------------------------------------------------------------
\* The static initialisation of the estimator: not the state Reset.
SocInit ==
    /\ level \in 0..Capacity
    /\ algo = FirstStart /\ charge = 0 /\ capacity = 0
    /\ phase = "Measuring"
    /\ stored = << >>
    /\ writes = <<>>
    /\ exact = TRUE

\* The soc_timer callback. A current that the ADC does not give counts as none.
Sample ==
    \E d \in {-1, 1}, measured \in BOOLEAN :
        /\ level' = level + d /\ level' \in 0..Capacity
        /\ charge' = IF measured THEN charge + d ELSE charge
        /\ charge' \in -Bound..Bound
        /\ exact' = (exact /\ measured /\ phase = "Initialised")
        /\ UNCHANGED <<algo, capacity, phase, stored, writes>>

OnCharge ==
    \/ algo \in {FirstStart, FullCharge} /\ Update(FullCharge, Factory, capacity)
    \/ algo = FullDischarge /\ Update(Normal, charge, charge)
    \/ algo = Normal /\ LET k == (capacity + charge) \div 2 IN Update(Normal, k, k)

\* mutant: what was taken from a full battery is not related to its capacity
OnDischargePlain ==
    \/ algo \in {FirstStart, FullDischarge} /\ Update(FullDischarge, 0, capacity)
    \/ algo = FullCharge /\ Update(Normal, 0, charge)
    \/ algo = Normal /\ Update(Normal, 0, capacity - charge \div 2)

OnDischarge ==
    \/ algo \in {FirstStart, FullDischarge} /\ Update(FullDischarge, 0, capacity)
    \/ algo = FullCharge /\ Update(Normal, 0, Factory - charge)
    \/ algo = Normal /\ Update(Normal, 0, capacity - charge \div 2)

\* Ten voltages have been read: this poll goes on with an estimator that only
\* the next one initialises.
BecomesStable ==
    /\ phase = "Measuring" /\ writes = <<>>
    /\ phase' = "Stable"
    /\ IF level = 0 THEN OnDischarge ELSE UNCHANGED <<algo, charge, capacity, writes>>
    /\ UNCHANGED <<level, stored, exact>>

\* SocEstimator::init, called once. The voltage gives the charge only roughly.
Initialise ==
    /\ phase = "Stable" /\ writes = <<>>
    /\ phase' = "Initialised"
    /\ IF LoadAlgo = Reset
       THEN \E guess \in 0..Factory : Update(FirstStart, guess, Factory)
       ELSE /\ Assign(LoadAlgo, Load("chargeMsb", "chargeLsb", 0),
                      Load("capacityMsb", "capacityLsb", Factory))
            /\ UNCHANGED writes
    /\ UNCHANGED <<level, stored, exact>>

\* ChargeController found the battery full. In battery friendly mode that is
\* at 8150 mV and not at 8350 mV.
Charged ==
    /\ phase = "Initialised" /\ writes = <<>>
    /\ \E friendly \in BOOLEAN :
          /\ level = IF friendly THEN Capacity - 1 ELSE Capacity
          /\ exact' = (exact /\ ~friendly)
    /\ OnCharge
    /\ UNCHANGED <<level, phase, stored>>

\* monitor_battery_level at 6200 mV or less: in every poll, until the power is off.
Empty ==
    /\ phase = "Initialised" /\ writes = <<>> /\ level = 0
    /\ OnDischarge
    /\ UNCHANGED <<level, phase, stored, exact>>

\* Once a minute while Off, and when Audio is told PreOff: whatever the phase.
Save ==
    /\ writes = <<>>
    /\ Update(algo, charge, capacity)
    /\ UNCHANGED <<level, phase, stored, exact>>

\* SocEstimator::reset by a factory reset.
FactoryReset ==
    /\ writes = <<>>
    /\ \E guess \in 0..Factory : Update(FirstStart, guess, Factory)
    /\ exact' = TRUE
    /\ UNCHANGED <<level, phase, stored>>

WriteParameter ==
    /\ writes # <<>>
    /\ LET key == Head(writes)[1] IN
       stored' = [k \in DOMAIN stored \cup {key} |-> IF k = key THEN Head(writes)[2] ELSE stored[k]]
    /\ writes' = Tail(writes)
    /\ UNCHANGED <<level, algo, charge, capacity, phase, exact>>

IsStored == /\ LoadAlgo = algo
            /\ Load("chargeMsb", "chargeLsb", 0) = charge
            /\ Load("capacityMsb", "capacityLsb", Factory) = capacity

\* The supply is gone, after a save or without one, and comes back.
Restart ==
    /\ Assign(FirstStart, 0, 0)
    /\ phase' = "Measuring" /\ writes' = <<>>
    /\ exact' = (exact /\ writes = <<>> /\ (phase = "Initialised" => IsStored))
    /\ UNCHANGED <<level, stored>>

SocNext == \/ Sample \/ BecomesStable \/ Initialise \/ Charged \/ Empty
        \/ Save \/ FactoryReset \/ WriteParameter \/ Restart

SocSpec == SocInit /\ [][SocNext]_soc
-----------------------------------------------------------------------------
(* As long as every sample was measured, every full charge was one to the   *)
(* full voltage and every shutdown saved what was counted, an estimator in   *)
(* normal operation knows the battery's capacity and charge: on_charge,      *)
(* on_discharge, the saves and init agree on what a charge means in each     *)
(* state, over any number of cycles and restarts (docs/soc.puml).            *)
CalibratedIsTrue ==
    phase = "Initialised" /\ exact /\ algo = Normal =>
        charge = level /\ capacity = Capacity

(* A power cut at any point of a save leaves an algorithm state only beside  *)
(* whole numbers: init never mixes a stored state with defaults.             *)
StoredTogether == "algo" \in DOMAIN stored => DOMAIN stored = SocKey

(* docs/soc.puml: NormalOperation is left by no transition but to itself. A  *)
(* save that is not of a factory reset keeps what the battery has taught.    *)
NormalIsKept ==
    [][ writes = <<>> /\ writes' # <<>> /\ LoadAlgo = Normal /\ ~FactoryReset
        => writes'[Len(writes')][2] = Normal ]_soc
=============================================================================
