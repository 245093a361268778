------------------------------ MODULE PowerRails ------------------------------
(***************************************************************************)
(* What the power sequence promises, without tasks, queues or time: the    *)
(* amplifiers are enabled before the radio module starts and configured    *)
(* while it runs, they are off again before it stops, and the speaker is   *)
(* reported On or Off only when both have got there.                       *)
(***************************************************************************)
VARIABLES phase,   \* "Boot", "Off", "Rising", "On", "Falling"
          amps,    \* "off", "enabled", "configured"
          radio    \* the module has power

vars == <<phase, amps, radio>>

Init == phase = "Boot" /\ amps = "off" /\ radio = FALSE

Change(from, to) == phase = from /\ phase' = to /\ UNCHANGED <<amps, radio>>

Booted == Change("Boot", "Off")
Rise   == Change("Off", "Rising")
Risen  == amps = "configured" /\ radio /\ Change("Rising", "On")
Fall   == Change("On", "Falling")
Fallen == amps = "off" /\ ~radio /\ Change("Falling", "Off")

EnableAmps ==
    /\ phase = "Rising" /\ amps = "off" /\ ~radio
    /\ amps' = "enabled"
    /\ UNCHANGED <<phase, radio>>

StartRadio ==
    /\ phase = "Rising" /\ amps = "enabled" /\ ~radio
    /\ radio' = TRUE
    /\ UNCHANGED <<phase, amps>>

ConfigureAmps ==
    /\ phase = "Rising" /\ amps = "enabled" /\ radio
    /\ amps' = "configured"
    /\ UNCHANGED <<phase, radio>>

DisableAmps ==
    /\ phase = "Falling" /\ amps = "configured" /\ radio
    /\ amps' = "off"
    /\ UNCHANGED <<phase, radio>>

StopRadio ==
    /\ phase = "Falling" /\ amps = "off" /\ radio
    /\ radio' = FALSE
    /\ UNCHANGED <<phase, amps>>

Restart == phase' = "Boot" /\ amps' = "off" /\ radio' = FALSE

Next ==
    \/ Booted \/ Rise \/ Risen \/ Fall \/ Fallen \/ Restart
    \/ EnableAmps \/ StartRadio \/ ConfigureAmps \/ DisableAmps \/ StopRadio

Spec == Init /\ [][Next]_vars
=============================================================================
