------------------------------- MODULE MCTasks -------------------------------
(***************************************************************************)
(* The components whose liveness is checked, and those that are as small,  *)
(* for TLC: they share no state, so one run checks them all, and in a      *)
(* behaviour only the one that `moving' names moves.                       *)
(***************************************************************************)
EXTENDS I2cBus, BluetoothTask, Leds, Update, FactoryTests

VARIABLE moving

\* What happens to the Bluetooth task in one behaviour, besides the passing of
\* time and the power: the hazards are in the pairs.
SomeEvents == { {"pairing", "startPairing"}, {"stream", "startPairing", "clear"},
                {"csb", "icons"}, {"usb", "source"}, {"usb", "jack"},
                {"device", "state"}, {"dfu", "ready", "command"}, {"ready", "command", "reset"} }
EarlyEvents == { {"state", "activate"} }

MCVars == <<moving, i2c, bt, ledVars, updateVars, tests>>

\* A component that does not move starts in one state, in which none of its
\* fair actions is enabled.
MCInit ==
    /\ moving \in {"i2c", "bluetooth", "leds", "update", "tests"}
    /\ I2cInit /\ RadioInit /\ LedInit /\ UpdateInit /\ TestsInit
    /\ moving # "bluetooth" => iconsOn /\ scenario = CHOOSE s \in Scenarios : TRUE
    /\ moving # "leds" => watched = "status"
    /\ moving # "tests" => above

MCNext ==
    \/ moving = "i2c"       /\ I2cNext    /\ UNCHANGED <<moving, bt, ledVars, updateVars, tests>>
    \/ moving = "bluetooth" /\ RadioNext  /\ UNCHANGED <<moving, i2c, ledVars, updateVars, tests>>
    \/ moving = "leds"      /\ LedNext    /\ UNCHANGED <<moving, i2c, bt, updateVars, tests>>
    \/ moving = "update"    /\ UpdateNext /\ UNCHANGED <<moving, i2c, bt, ledVars, tests>>
    \/ moving = "tests"     /\ TestsNext  /\ UNCHANGED <<moving, i2c, bt, ledVars, updateVars>>

MCSpec == MCInit /\ [][MCNext]_MCVars /\ I2cFairness /\ RadioFairness /\ TestsFairness

\* Every component keeps its types.
TasksTypeOK == I2cTypeOK /\ RadioTypeOK /\ LedTypeOK /\ UpdateTypeOK /\ TestsTypeOK
=============================================================================
