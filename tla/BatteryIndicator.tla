-------------------------- MODULE BatteryIndicator --------------------------
(***************************************************************************)
(* What follows from the battery level: the two indications of             *)
(* BatteryIndicator and the power bank protection of battery.cpp.  All of  *)
(* it runs in the Audio task; the clock is the system tick, counted in     *)
(* steps of five seconds modulo its width.                                 *)
(***************************************************************************)
EXTENDS Integers, Sequences

CONSTANTS
    Levels,   \* the battery levels that occur, in percent
    Wrap      \* the system tick counts modulo Wrap (2^32 ms in the code)

ASSUME IndicatorAssumption == Levels \subseteq 0..100 /\ Wrap \in Nat \ {0}

VARIABLES
    now,      \* get_systick()
    shown,    \* the property BatteryLevel
    status,   \* m_charger_status
    isOn, onTs, \* m_power_is_on, m_power_on_ts
    low5, low10, \* m_is_low5_indicated, m_is_low10_indicated
    bankLow, bank, \* the hysteresis, is_power_bank
    said      \* history: the indications since the flags were last cleared

indicator == <<now, shown, status, isOn, onTs, low5, low10, bankLow, bank, said>>

Statuses == {"Active", "Inactive", "NotConnected"}

IndicatorTypeOK ==
    /\ now \in 0..Wrap-1 /\ onTs \in 0..Wrap-1
    /\ shown \in 0..100 /\ status \in Statuses
    /\ {isOn, low5, low10, bankLow, bank} \subseteq BOOLEAN
    /\ said \in Seq({5, 10})

IndicatorInit ==
    /\ now = 0 /\ shown = 100 /\ status = "NotConnected"
    /\ isOn = FALSE /\ onTs = Wrap - 1
    /\ low5 = FALSE /\ low10 = FALSE /\ said = <<>>
    /\ bankLow = FALSE /\ bank = FALSE

Tick == /\ now' = (now + 1) % Wrap
        /\ UNCHANGED <<shown, status, isOn, onTs, low5, low10, bankLow, bank, said>>

\* m_check_battery_level: the first ten seconds of the tick are those after a
\* boot, and five seconds after the power came on no sound may overlap.
EmptyAtBoot(l) == l = 0 /\ now < 2
Listening(l)   == /\ ~EmptyAtBoot(l) /\ isOn /\ status # "Active"
                  /\ (now - onTs) % Wrap >= 1

Warn5(l)  == Listening(l) /\ l < 5 /\ ~low5
Warn10(l) == Listening(l) /\ ~Warn5(l) /\ l < 10 /\ ~low10

\* mutant: a warning of 5 % leaves that of 10 % to be given
IndicateOneOnly(l) ==
    /\ low5'  = (low5 \/ EmptyAtBoot(l) \/ Warn5(l))
    /\ low10' = (low10 \/ EmptyAtBoot(l) \/ Warn10(l))
    /\ onTs'  = IF EmptyAtBoot(l) THEN Wrap - 1 ELSE onTs
    /\ said'  = IF Warn5(l) THEN Append(said, 5) ELSE IF Warn10(l) THEN Append(said, 10) ELSE said

Indicate(l) ==
    /\ low5'  = (low5 \/ EmptyAtBoot(l) \/ Warn5(l))
    /\ low10' = (low10 \/ EmptyAtBoot(l) \/ Warn5(l) \/ Warn10(l))
    /\ onTs'  = IF EmptyAtBoot(l) THEN Wrap - 1 ELSE onTs
    /\ said'  = IF Warn5(l) THEN Append(said, 5) ELSE IF Warn10(l) THEN Append(said, 10) ELSE said

NewLevel(l) ==
    /\ l # shown /\ shown' = l
    /\ Indicate(l)
    /\ UNCHANGED <<now, status, isOn, bankLow, bank>>

Clear == low5' = FALSE /\ low10' = FALSE /\ said' = <<>>

NewStatus(s) ==
    /\ s # status /\ status' = s
    /\ IF s = "Active" THEN Clear ELSE UNCHANGED <<low5, low10, said>>
    /\ UNCHANGED <<now, shown, isOn, onTs, bankLow, bank>>

PowerOn ==
    /\ isOn' = TRUE /\ onTs' = now /\ Clear
    /\ UNCHANGED <<now, shown, status, bankLow, bank>>

PowerOff ==
    /\ isOn' = FALSE
    /\ UNCHANGED <<now, shown, status, onTs, low5, low10, bankLow, bank, said>>

\* monitor_power_bank_mode: from 20 % down until 40 % nothing is sourced.
CheckBank ==
    /\ bankLow' = IF bankLow THEN shown < 40 ELSE shown <= 20
    /\ bank' = ~bankLow'
    /\ UNCHANGED <<now, shown, status, isOn, onTs, low5, low10, said>>

IndicatorNext ==
    \/ Tick \/ PowerOn \/ PowerOff \/ CheckBank
    \/ \E l \in Levels : NewLevel(l)
    \/ \E s \in Statuses : NewStatus(s)

IndicatorSpec == IndicatorInit /\ [][IndicatorNext]_indicator
-----------------------------------------------------------------------------
(* Between two times the flags are cleared, the user hears each warning at   *)
(* most once, and never that of 10 % after that of 5 %, whatever the level   *)
(* jumps to (the comment at battery_indicator.cpp:61).                       *)
IndicatedOnce == said \in {<<>>, <<5>>, <<10>>, <<10, 5>>}
=============================================================================
