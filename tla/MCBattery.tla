------------------------------ MODULE MCBattery ------------------------------
(***************************************************************************)
(* The battery and the storage that keeps its calibration, for TLC: the    *)
(* three components share no state, so one run checks their safety, and in *)
(* a behaviour only the one that `moving' names moves.                     *)
(***************************************************************************)
EXTENDS MCVEeprom, MCChargeControl, SocEstimator

VARIABLE moving

\* A component that does not move starts in one state.
MCInit ==
    /\ moving \in {"eeprom", "charging", "soc"}
    /\ Init /\ ChargeInit /\ SocInit
    /\ moving # "charging" => ~ac /\ source = 5 /\ initialized
    /\ moving # "soc" => level = 0

MCNext ==
    \/ moving = "eeprom"   /\ Next       /\ UNCHANGED <<moving, chargeVars, soc>>
    \/ moving = "charging" /\ ChargeNext /\ UNCHANGED <<moving, vars, soc>>
    \/ moving = "soc"      /\ SocNext    /\ UNCHANGED <<moving, vars, chargeVars>>

MCSpec == MCInit /\ [][MCNext]_<<moving, vars, chargeVars, soc>>
=============================================================================
