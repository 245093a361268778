----------------------------- MODULE ChargerStates -----------------------------
(***************************************************************************)
(* What the charger driver promises its readers (the LEDs, the app, the    *)
(* power bank mode): a published status that moves only along the state    *)
(* diagram of the charger, and a charge current that belongs to it.  While *)
(* the charger is not connected the current is of no interest.             *)
(***************************************************************************)
VARIABLES published,    \* "NotConnected", "Inactive", "Active"
          chargeType,   \* "BatteryFriendly", "FastCharge"
          current       \* "Zero", "Slow", "Fast", "Preset"

vars == <<published, chargeType, current>>

Rate(type) == IF type = "FastCharge" THEN "Fast" ELSE "Slow"

Init ==
    /\ published = "NotConnected"
    /\ chargeType = "BatteryFriendly"
    /\ current = "Preset"

Become(status, rate) ==
    /\ published' = status
    /\ current' = rate
    /\ UNCHANGED chargeType

Connect    == published = "NotConnected" /\ Become("Inactive", "Zero")
Start      == published = "Inactive" /\ Become("Active", Rate(chargeType))
Stop       == published = "Active" /\ Become("Inactive", "Zero")
Disconnect == published # "NotConnected"
              /\ Become("NotConnected", Rate(chargeType))

ChangeType ==
    /\ chargeType' \in {"BatteryFriendly", "FastCharge"}
    /\ current' = IF published = "Active" THEN Rate(chargeType') ELSE current
    /\ UNCHANGED published

\* Outside a charge the current may be taken away again; the USB PD
\* controller presets it when it swaps its role.
TakeAway == published # "Active" /\ Become(published, "Zero")
Preset   == Become(published, "Preset")

Next ==
    \/ Connect \/ Start \/ Stop \/ Disconnect
    \/ ChangeType \/ TakeAway \/ Preset

Spec == Init /\ [][Next]_vars
=============================================================================
