---------------------------- MODULE MCActionsLink ----------------------------
(***************************************************************************)
(* The link with the Bluetooth module and charging for TLC: the two share  *)
(* no state, so one run checks the liveness of both, and in a behaviour    *)
(* only the one that `moving' names moves.                                 *)
(***************************************************************************)
EXTENDS LinkInvariant, MCChargeControl

VARIABLE moving

\* Charging that does not move starts in one state, with nothing to do.
MCInit ==
    /\ moving \in {"link", "charging"}
    /\ Init /\ ChargeInit
    /\ moving # "charging" => ~ac /\ source = 5

MCNext ==
    \/ moving = "link"     /\ Next       /\ UNCHANGED <<moving, chargeVars>>
    \/ moving = "charging" /\ ChargeNext /\ UNCHANGED <<moving, vars>>

\* ChargeFairness, for the behaviours in which charging moves: Battery::poll is
\* called from the start.
FairWhileMoving ==
    /\ WF_chargeVars(moving = "charging" /\ Measure) /\ WF_chargeVars(moving = "charging" /\ Poll)
    /\ SF_chargeVars(moving = "charging" /\ Poll /\ place' # "idle")
    /\ WF_chargeVars(Construct \/ Constructed \/ ProcessCharger \/ EnableCharger \/ Disable \/ Settle)
    /\ \A c \in Counter : WF_chargeVars(Time(c))

MCSpec ==
    MCInit /\ [][MCNext]_<<moving, vars, chargeVars>> /\ WF_vars(Mcu) /\ FairWhileMoving
=============================================================================
