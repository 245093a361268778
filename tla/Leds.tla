--------------------------------- MODULE Leds ---------------------------------
(***************************************************************************)
(* The two LEDs (leds/leds.cpp) and what the Audio task asks of them.      *)
(* Every LED has an engine that runs one pattern: once, a few times or for *)
(* ever, between an optional ramp up and ramp down.  In its idle callback  *)
(* the Audio task starts the pattern that the charger, the moisture sensor *)
(* and the Bluetooth status call for, and then executes one step.          *)
(***************************************************************************)
EXTENDS Integers, Sequences

VARIABLES
    watched,     \* the LED, or the brightness, whose inputs change in a behaviour
    power,       \* of the power sequence; PowerState is On in "on" only
    btStatus,    \* Ux::Bluetooth::Status
    moist, charging, level, \* the conditions of the status LED
    statusLed, sourceLed,   \* the engines
    dim, bright, idleFor,   \* m_cur_brightness; the brightness shown; user activity 60 s ago
    pressed      \* history: BT was pressed since the speaker left On

ledVars == <<watched, power, btStatus, moist, charging, level, statusLed, sourceLed, dim, bright, idleFor, pressed>>

Levels == {"low", "half", "full"}
Connected == {"BluetoothDisconnected", "BluetoothConnected", "AuxConnected", "UsbConnected"}
PairingStatus == {"BluetoothPairing", "SlavePairing"}
BtStatuses == Connected \cup PairingStatus \cup {"CsbChainMaster", "ChainSlave", "DfuMode"}

\* is_long_pattern: those with an identity; all others have a generated one.
Long == BtStatuses \cup Levels \cup {"moisture"}
Patterns == Long \cup {"short", "none"}
Engines == [state : {"stopped", "once", "few", "inf", "terminating"}, stage : {"pre", "core", "post"},
            core : Patterns, ramp : BOOLEAN]

LedTypeOK ==
    /\ watched \in {"status", "source", "brightness"}
    /\ power \in {"off", "preOn", "on", "preOff"} /\ btStatus \in BtStatuses /\ level \in Levels
    /\ {statusLed, sourceLed} \subseteq Engines /\ dim \in {"no", "dimming", "dimmed"}
    /\ {moist, charging, bright, idleFor, pressed} \subseteq BOOLEAN
-----------------------------------------------------------------------------
(* The engine (IEngine/IndicationEngine.h).                                *)

Stopped == [state |-> "stopped", stage |-> "core", core |-> "none", ramp |-> FALSE]
Run(state, p, preload, postload) ==
    [state |-> state, stage |-> IF preload THEN "pre" ELSE "core", core |-> p, ramp |-> postload]
Running(e) == e.state # "stopped"
RunningIt(e, p) == Running(e) /\ e.core = p
FinishGently(e) == IF e.state \in {"once", "few", "inf"} THEN [e EXCEPT !.state = "terminating"] ELSE e

\* What a step may leave: the pattern goes on, or its current part ends.
AfterCore(e) == IF e.ramp THEN [e EXCEPT !.stage = "post"] ELSE Stopped
Exec(e) ==
    {e} \cup CASE ~Running(e)       -> {}
               [] e.stage = "pre"   -> {[e EXCEPT !.stage = "core"]}
               [] e.stage = "post"  -> {Stopped}
               [] e.state = "inf"   -> {}
               [] OTHER             -> {AfterCore(e)}
-----------------------------------------------------------------------------
(* update_infinite_patterns.                                               *)

StatusPatterns == <<"moisture", "low", "half", "full">>
SourcePatterns == <<"UsbConnected", "AuxConnected", "BluetoothConnected", "BluetoothPairing", "SlavePairing",
                    "CsbChainMaster", "ChainSlave", "BluetoothDisconnected", "DfuMode">>

Due(p) == \/ p = "moisture" /\ moist
          \/ p \in Levels /\ charging /\ level = p
          \/ p = btStatus
Ramped(p) == p \in Levels \cup {"UsbConnected", "AuxConnected", "BluetoothConnected"}

\* Mutant: a pattern that is not due any more is left running.
StartedLeft(e, p) == IF ~Running(e) /\ Due(p) THEN Run("inf", p, Ramped(p), p \in Levels) ELSE e
Started(e, p) ==
    IF ~RunningIt(e, p) /\ Due(p) THEN Run("inf", p, Ramped(p), p \in Levels)
    ELSE IF RunningIt(e, p) /\ ~Due(p) THEN FinishGently(e)
    ELSE e

Free(e) == ~Running(e) \/ e.core \in Long
AfterFirst(e, patterns) ==
    LET run[n \in 0..Len(patterns)] == IF n = 0 THEN e ELSE Started(run[n - 1], patterns[n]) IN run
Updated(e, patterns) == IF Free(e) THEN AfterFirst(e, patterns)[Len(patterns)] ELSE e

\* DimmingController::tick, 60 s after the last press
Dim == CASE dim = "no"      -> dim' = IF idleFor THEN "dimming" ELSE "no"
         [] dim = "dimming" -> dim' \in {"dimming", "dimmed"}
         [] OTHER           -> dim' = dim
DimTick == Dim /\ bright' = (bright /\ dim' # "dimmed")

\* Callback_Idle: tick and run_engines
Tick ==
    /\ statusLed' \in Exec(Updated(statusLed, StatusPatterns))
    /\ sourceLed' \in Exec(IF power = "on" THEN Updated(sourceLed, SourcePatterns) ELSE sourceLed)
    /\ DimTick
    /\ UNCHANGED <<watched, power, btStatus, moist, charging, level, idleFor, pressed>>
-----------------------------------------------------------------------------
(* What the Audio task shows.                                              *)

Show(statusE, sourceE) == statusLed' = statusE /\ sourceLed' = sourceE
Static == <<watched, btStatus, moist, charging, level, dim, bright, idleFor>>

\* indicate_battery_level, indicate_low_battery_level, indicate_charge_type,
\* indicate_temperature_warning and indicate_factory_reset
Indicated == {Run("few", "short", ~Running(statusLed), TRUE), Run("few", "short", TRUE, FALSE),
              Run("few", "short", FALSE, FALSE), Run("once", "short", TRUE, FALSE), Run("once", "short", FALSE, FALSE)}

IndicateStatus ==
    /\ watched = "status" /\ \E e \in Indicated : Show(e, sourceLed)
    /\ UNCHANGED <<Static, power, pressed>>

\* PositiveFeedback, EcoModeOn and EcoModeOff
IndicateSource ==
    /\ watched = "source" /\ \E n \in {"once", "few"} : Show(statusLed, Run(n, "short", FALSE, FALSE))
    /\ UNCHANGED <<Static, power, pressed>>

\* A press of the BT button shows the source again (get_connected_source_pattern);
\* the pattern of another status is ended and started anew by the next tick.
PressBt ==
    /\ power # "off" /\ btStatus \notin PairingStatus \cup {"ChainSlave"}
    /\ Show(statusLed, IF btStatus \in Connected
                       THEN Run("inf", btStatus, Ramped(btStatus) /\ ~Running(sourceLed), FALSE)
                       ELSE FinishGently(sourceLed))
    /\ idleFor' = FALSE /\ dim' = "no" /\ bright' = TRUE
    /\ pressed' = (pressed \/ power = "preOff")
    /\ UNCHANGED <<watched, power, btStatus, moist, charging, level>>

\* The messages of the power sequence. Mutant: the source pattern is left to the tick.
PreOffSourceLeft == sourceLed
PreOffSource == Run("once", "short", FALSE, FALSE)

PowerStep ==
    \/ power = "off" /\ power' = "preOn" /\ (\E e \in {Run("few", "short", ~Running(statusLed), TRUE), statusLed} : Show(e, sourceLed))
    \/ power = "preOn" /\ power' = "on" /\ Show(statusLed, sourceLed)
    \/ power = "on" /\ power' = "preOff" /\ (\E e \in Indicated \cup {statusLed} : Show(e, PreOffSource))
    \/ power = "preOff" /\ power' = "off" /\ Show(statusLed, sourceLed)

Power == PowerStep /\ pressed' = (pressed /\ power' = "off") /\ UNCHANGED Static

\* The conditions change; the app sets the brightness; time passes.
Environment ==
    /\ \/ watched = "source" /\ btStatus' \in BtStatuses /\ UNCHANGED <<moist, charging, level, bright, idleFor>>
       \/ watched = "status" /\ moist' \in BOOLEAN /\ charging' \in BOOLEAN /\ level' \in Levels
          /\ UNCHANGED <<btStatus, bright, idleFor>>
       \/ watched = "brightness" /\ bright' \in {TRUE, bright} /\ idleFor' \in {TRUE, idleFor}
          /\ UNCHANGED <<btStatus, moist, charging, level>>
    /\ UNCHANGED <<watched, power, statusLed, sourceLed, dim, pressed>>

LedInit ==
    /\ watched \in {"status", "source", "brightness"}
    /\ power = "off" /\ btStatus = "BluetoothDisconnected" /\ moist = FALSE /\ charging = FALSE /\ level = "half"
    /\ statusLed = Stopped /\ sourceLed = Stopped
    /\ dim = "no" /\ bright = TRUE /\ idleFor = FALSE /\ pressed = FALSE

LedNext == Tick \/ IndicateStatus \/ IndicateSource \/ PressBt \/ Power \/ Environment

LedSpec == LedInit /\ [][LedNext]_ledVars
-----------------------------------------------------------------------------
(* No pattern for ever is left on the source LED of a speaker that is off,  *)
(* where no tick would end it: the one of the status is replaced at PreOff, *)
(* and only a press of BT between PreOff and Off starts another.            *)
OffIsDark == power = "off" => sourceLed.state # "inf" \/ pressed

(* After the tick the source LED shows the status and the status LED a      *)
(* condition that holds, whatever was shown before; a short pattern is      *)
(* shown to its end first.                                                  *)
LedsFollow ==
    [][Tick => /\ power = "on" /\ sourceLed.core # "short" => sourceLed'.core \in {btStatus, "none"}
               /\ statusLed'.state = "inf" => Due(statusLed'.core)]_ledVars
=============================================================================
