------------------------------ MODULE MCDevices ------------------------------
(***************************************************************************)
(* Components that share no state, for TLC: one run checks their safety,   *)
(* and in a behaviour only the one that `moving' names moves.              *)
(***************************************************************************)
EXTENDS BatteryIndicator, Amps, Inputs, IdleTimer, Shell, MCVEeprom

VARIABLE moving

SomeLevels == {0, 4, 9, 20, 30, 40}

\* What is asked of the amplifiers in one behaviour: the equaliser between the
\* eco mode's switches, the bypass of the production test, and the mutes of the
\* Bluetooth task.
SomeScenarios == {{"eco", "tone", "jack"}, {"bypass"}, {"usb"}, {"jack", "usb"}}
EcoScenario   == {{"eco"}}
ToneScenario  == {{"tone", "usb"}}

SomeChords == {{"power", "bt"}, {"bt", "plus"}, {"power", "plus"}}

\* One command that another one continues, one whose handler stands above
\* another, and one that takes a number.
SomeWords    == {"power", "off", "b", "7", HelpWord}
SomeTree     == {<<"power">>, <<"power", "off">>, <<"b">>, <<"b", "b">>, <<"b", "b", "off">>}
SomeHandlers == {<<"power", "off">>, <<"b", "b">>, <<"b", "b", "off">>}
SomeHelped   == {<<"power", "off">>, <<"b">>}
SomeNumeric  == {<<"b", "b", "off">>}

MCVars == <<moving, indicator, ampVars, inputs, idle, shell, vars>>

\* A component that does not move starts in one state.
MCInit ==
    /\ moving \in {"indicator", "amps", "inputs", "idle", "shell", "eeprom"}
    /\ IndicatorInit /\ AmpInit /\ InputInit /\ IdleInit /\ ShellInit /\ Init
    /\ moving # "amps" => eco /\ asks = CHOOSE s \in AmpScenarios : TRUE
    /\ moving # "inputs" => held = {} /\ hand = CHOOSE s \in Chords : TRUE

MCNext ==
    \/ moving = "indicator" /\ IndicatorNext /\ UNCHANGED <<moving, ampVars, inputs, idle, shell, vars>>
    \/ moving = "amps"      /\ AmpNext       /\ UNCHANGED <<moving, indicator, inputs, idle, shell, vars>>
    \/ moving = "inputs"    /\ InputNext     /\ UNCHANGED <<moving, indicator, ampVars, idle, shell, vars>>
    \/ moving = "idle"      /\ IdleNext      /\ UNCHANGED <<moving, indicator, ampVars, inputs, shell, vars>>
    \/ moving = "shell"     /\ ShellNext     /\ UNCHANGED <<moving, indicator, ampVars, inputs, idle, vars>>
    \/ moving = "eeprom"    /\ Next          /\ UNCHANGED <<moving, indicator, ampVars, inputs, idle, shell>>

MCSpec == MCInit /\ [][MCNext]_MCVars

\* Every component keeps its types.
DevicesTypeOK ==
    IndicatorTypeOK /\ AmpTypeOK /\ InputTypeOK /\ IdleTypeOK /\ ShellTypeOK /\ TypeOK
=============================================================================
