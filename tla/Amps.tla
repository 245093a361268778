--------------------------------- MODULE Amps ---------------------------------
(***************************************************************************)
(* The registers of the two amplifiers and the tables that the Audio task  *)
(* loads into them (board/amps).  A register is reached through a page: it *)
(* is selected in one transaction and written in another, and only the     *)
(* transaction is exclusive.  The Bluetooth task mutes the amplifiers too, *)
(* when the USB source goes away, and runs before the Audio task.          *)
(*                                                                         *)
(* A register stands for all those that the same tables write; its value   *)
(* is the mode for which it is right.  A program is a sequence of loads, a *)
(* load a sequence of transactions; the first that fails ends its load.    *)
(***************************************************************************)
EXTENDS Naturals, Sequences

CONSTANTS
    AmpScenarios, \* sets of requests: one of them occurs in a behaviour
    AmpAsks       \* bound: requests in a behaviour

ASSUME AmpAssumption == AmpAsks \in Nat

VARIABLES
    asks,          \* what may be asked of the tasks besides powering on and off, and whether the bus fails
    ampPower,      \* "off", "preOn" (enabled) or "on", as handled by the Audio task
    page, reg,     \* of the amplifiers
    ctrl,          \* their DEVICE_CTRL_2: state and mute bit
    eco, bass, treble, \* the properties
    profile,       \* history: what the amplifiers were set up for since the power on
    tuned,         \* history: the tones set since eco mode was turned on
    ampTodo, data, \* of each task: its program, and the register it has read
    ampAsked, ampFailed, raced \* history: a load failed, two tasks interfered, since the power on

ampVars == <<asks, ampPower, page, reg, ctrl, eco, bass, treble, profile, tuned, ampTodo, data, ampAsked, ampFailed, raced>>

Chips == {"woofer", "tweeter"}
Callers == {"Audio", "Bluetooth"}
Tones == {"0dB", "6dB"}
Registers == {"program", "left", "right", "bands", "drc", "path", "bassEq", "bypassEq", "gpio",
              "tVolume", "tDrc", "trebleEq", "misc"}
Values == Tones \cup {"lost", "normal", "eco", "low", "bypass"}
\* The pages, and that there is no power to select one.
Pages == {"none", "control", "program", "volume", "bands", "tone", "drc", "path"}
ControlRegister == [state : {"hiZ", "play"}, mute : {"muted", "unmuted"}]

AmpTypeOK ==
    /\ ampPower \in {"off", "preOn", "on"} /\ page \in [Chips -> Pages] /\ reg \in [Registers -> Values]
    /\ ctrl \in [Chips -> ControlRegister] /\ data \in [Callers -> ControlRegister]
    /\ {bass, treble} \subseteq Tones /\ profile \in {"normal", "bypass", "tested"} /\ tuned \subseteq {"bassEq", "trebleEq"}
    /\ DOMAIN ampTodo = Callers /\ ampAsked \in 0..AmpAsks
    /\ {eco, ampFailed, raced} \subseteq BOOLEAN
-----------------------------------------------------------------------------
(* Loads (tas5825p_load_configuration and its like).                       *)

Op(chip, p, kind, register, value) == [chip |-> chip, page |-> p, kind |-> kind, register |-> register, value |-> value]

\* Every entry <<page, register, value>> of a table: select the page, write.
ConfigTable(chip, entries) ==
    [i \in 1..2 * Len(entries) |->
        LET entry == entries[(i + 1) \div 2] IN
        IF i % 2 = 1 THEN Op(chip, entry[1], "select", "", "") ELSE Op(chip, entry[1], "write", entry[2], entry[3])]

\* Reads DEVICE_CTRL_2, changes the state or the mute bit, and writes it back.
Modify(chip, bits, value) ==
    << Op(chip, "control", "select", "", ""), Op(chip, "control", "read", "", ""), Op(chip, "control", bits, "", value) >>

\* The last entries of both configurations set DEVICE_CTRL_2 to 3: playing, not muted.
Plays == <<"control", "ctrl", "play">>
\* The parts of the two configurations, in their order.
WooferProgram  == << <<"program", "program", "normal">> >>
WooferVolumes  == << <<"volume", "left", "normal">>, <<"volume", "right", "normal">>, <<"volume", "bypassEq", "normal">> >>
WooferBands    == << <<"bands", "bands", "normal">>, <<"tone", "bassEq", "0dB">> >>
WooferDrc      == << <<"drc", "drc", "normal">> >>
WooferPath     == << <<"path", "path", "normal">> >>
TweeterVolumes == << <<"volume", "tVolume", "normal">> >>
TweeterBands   == << <<"tone", "trebleEq", "0dB">> >>
TweeterDrc     == << <<"drc", "tDrc", "normal">> >>

tas5825p_config_registers ==
    WooferProgram \o WooferVolumes \o WooferBands \o WooferDrc \o WooferPath \o << <<"control", "gpio", "normal">>, Plays >>
tas5805m_config_registers ==
    TweeterVolumes \o TweeterBands \o TweeterDrc \o << <<"control", "misc", "normal">>, Plays >>

tas5825p_bypass_config_registers == << <<"drc", "drc", "bypass">>, <<"path", "path", "bypass">> >>
tas5805m_bypass_config_registers == << <<"control", "misc", "bypass">> >>

tas5825p_normal_to_eco_mode_config_1 == << <<"bands", "bands", "eco">> >>
tas5825p_normal_to_eco_mode_config_2 == << <<"drc", "drc", "eco">> >>
tas5825p_normal_to_eco_mode_config_3 == << <<"volume", "left", "eco">>, <<"volume", "right", "eco">> >>
tas5805m_normal_to_eco_mode_config_1 == << <<"volume", "tVolume", "eco">> >>
tas5805m_normal_to_eco_mode_config_2 == << <<"drc", "tDrc", "eco">> >>

tas5825p_eco_to_normal_mode_config_1 == << <<"bands", "bands", "normal">> >>
tas5825p_eco_to_normal_mode_config_2 == << <<"drc", "drc", "normal">> >>
\* 0x012f892c for the left channel and 0x002f892c for the right one
tas5825p_eco_to_normal_mode_config_3 == << <<"volume", "left", "normal">>, <<"volume", "right", "low">> >>
tas5805m_eco_to_normal_mode_config_1 == << <<"volume", "tVolume", "normal">> >>
tas5805m_eco_to_normal_mode_config_2 == << <<"drc", "tDrc", "normal">> >>
-----------------------------------------------------------------------------
(* Programs (board_link_amps.c).                                           *)

Woofer(entries) == << ConfigTable("woofer", entries) >>
Tweeter(entries) == << ConfigTable("tweeter", entries) >>

\* board_link_amps_setup_woofer, with the envelope tracking off in bypass mode
SetupWoofer(mode) ==
    << Modify("woofer", "state", "hiZ") >> \o Woofer(tas5825p_config_registers)
    \o (IF mode = "bypass"
        THEN Woofer(tas5825p_bypass_config_registers) \o Woofer(<< <<"volume", "bypassEq", "bypass">> >>)
             \o Woofer(<< <<"control", "gpio", "bypass">> >>)
        ELSE <<>>)
    \o << Modify("woofer", "state", "play") >>

SetupTweeter(mode) ==
    << Modify("tweeter", "state", "hiZ") >> \o Tweeter(tas5805m_config_registers)
    \o (IF mode = "bypass"
        THEN Tweeter(tas5805m_bypass_config_registers) \o Tweeter(<< <<"control", "misc", "bypass">> >>)
        ELSE <<>>)
    \o << Modify("tweeter", "state", "play") >>

EnableEcoMode(on) ==
    IF on
    THEN Woofer(tas5825p_normal_to_eco_mode_config_1) \o Woofer(tas5825p_normal_to_eco_mode_config_2)
         \o Woofer(tas5825p_normal_to_eco_mode_config_3)
         \o Tweeter(tas5805m_normal_to_eco_mode_config_1) \o Tweeter(tas5805m_normal_to_eco_mode_config_2)
    ELSE Woofer(tas5825p_eco_to_normal_mode_config_1) \o Woofer(tas5825p_eco_to_normal_mode_config_2)
         \o Woofer(tas5825p_eco_to_normal_mode_config_3)
         \o Tweeter(tas5805m_eco_to_normal_mode_config_1) \o Tweeter(tas5805m_eco_to_normal_mode_config_2)

\* The page (the preconfiguration), then one of the 13 sets of coefficients.
SetBass(db) == Woofer(<< <<"tone", "bassEq", db>> >>)
SetTreble(db) == Tweeter(<< <<"tone", "trebleEq", db>> >>)

Mute(value) == << Modify("tweeter", "mute", value), Modify("woofer", "mute", value) >>
Enable(on) == << << Op("woofer", "none", "enable", "", on) >> >>

\* Mutant: the tones are left as they are when eco mode goes on or off.
TonesLeft(on) == <<>>
EcoTones(on) == SetBass(IF on THEN "0dB" ELSE bass) \o SetTreble(IF on THEN "0dB" ELSE treble)
-----------------------------------------------------------------------------
(* The handlers that write to the amplifiers.                              *)

AmpIdle == \A t \in Callers : ampTodo[t] = <<>>
Gives(t, program) == ampTodo' = [ampTodo EXCEPT ![t] = program]
Does(program) == Gives("Audio", program)

\* What the Bluetooth task was doing when the power went off has ended by then:
\* its task goes first, and switching off and on takes seconds.
PreOnAmps ==
    /\ ampPower = "off" /\ ampTodo["Bluetooth"] = <<>>
    /\ ampPower' = "preOn" /\ Does(Enable("on")) /\ UNCHANGED <<eco, bass, treble, profile, tuned>>
OnAmps ==
    /\ ampPower = "preOn" /\ ampPower' = "on" /\ profile' = "normal" /\ tuned' = {}
    /\ Does(SetupWoofer("normal") \o SetupTweeter("normal") \o (IF eco THEN EnableEcoMode(TRUE) ELSE <<>>) \o EcoTones(eco))
    /\ UNCHANGED <<eco, bass, treble>>
DisableAmps == ampPower = "on" /\ ampPower' = "off" /\ Does(Mute("muted") \o Enable("off")) /\ UNCHANGED <<eco, bass, treble, profile, tuned>>

HandleEcoMode ==
    /\ "eco" \in asks
    /\ \E on \in BOOLEAN : eco' = on /\ Does(EnableEcoMode(on) \o EcoTones(on))
    /\ tuned' = {} /\ UNCHANGED <<ampPower, bass, treble, profile>>
HandleTone ==
    /\ "tone" \in asks
    /\ \E db \in Tones : \/ bass' = db /\ Does(SetBass(db)) /\ tuned' = tuned \cup {"bassEq"} /\ UNCHANGED treble
                         \/ treble' = db /\ Does(SetTreble(db)) /\ tuned' = tuned \cup {"trebleEq"} /\ UNCHANGED bass
    /\ UNCHANGED <<ampPower, eco, profile>>
\* The plug detection: 200 ms between the two.
HandleJack ==
    /\ "jack" \in asks /\ ampPower = "on"
    /\ Does(Mute("muted") \o Mute("unmuted")) /\ UNCHANGED <<ampPower, eco, bass, treble, profile, tuned>>

\* on_notify_usb_connected, in the Bluetooth task
UsbGone ==
    /\ "usb" \in asks /\ ampPower # "off"
    /\ Gives("Bluetooth", Mute("muted") \o Mute("unmuted")) /\ UNCHANGED <<ampPower, eco, bass, treble, profile, tuned>>
\* AudioBypassProdTest, a command of the production tests; given while nothing else goes on
BypassTest ==
    /\ "bypass" \in asks /\ ampPower = "on" /\ AmpIdle
    /\ \E mode \in {"normal", "bypass"} :
          /\ Gives("Bluetooth", SetupWoofer(mode) \o SetupTweeter(mode))
          /\ profile' = IF mode = "normal" THEN "tested" ELSE "bypass"
    /\ UNCHANGED <<ampPower, eco, bass, treble, tuned>>

AmpAsk ==
    /\ ampAsked < AmpAsks /\ ampAsked' = ampAsked + 1
    /\ \/ ampTodo["Audio"] = <<>> /\ (PreOnAmps \/ OnAmps \/ DisableAmps \/ HandleEcoMode \/ HandleTone \/ HandleJack)
       \/ ampTodo["Bluetooth"] = <<>> /\ (UsbGone \/ BypassTest)
    /\ UNCHANGED <<asks, page, reg, ctrl, data, ampFailed, raced>>
-----------------------------------------------------------------------------
(* One transaction of a task.                                              *)

enabled == page["woofer"] # "none"
Drop(t) == LET load == ampTodo[t][1] IN
           Gives(t, (IF Len(load) = 1 THEN <<>> ELSE <<Tail(load)>>) \o Tail(ampTodo[t]))
Lost == [r \in Registers |-> "lost"]
AfterReset == [c \in Chips |-> [state |-> "hiZ", mute |-> "unmuted"]]

\* The other task has selected another page, or has changed what was read.
\* Nothing is known of the registers from then on.
Races(t, op) ==
    /\ op.kind # "select"
    /\ \/ page[op.chip] # op.page
       \/ op.kind \in {"state", "mute"} /\ data[t] # ctrl[op.chip]

Select(op) == op.kind = "select" /\ page' = [page EXCEPT ![op.chip] = op.page] /\ UNCHANGED <<reg, ctrl, data>>
ReadControl(t, op) == op.kind = "read" /\ data' = [data EXCEPT ![t] = ctrl[op.chip]] /\ UNCHANGED <<page, reg, ctrl>>
WriteBack(t, op) ==
    /\ op.kind \in {"state", "mute"}
    /\ ctrl' = [ctrl EXCEPT ![op.chip] = [data[t] EXCEPT ![op.kind] = op.value]] /\ UNCHANGED <<page, reg, data>>
WriteRegister(op) ==
    /\ op.kind = "write"
    /\ IF op.register = "ctrl"
       THEN ctrl' = [ctrl EXCEPT ![op.chip] = [state |-> "play", mute |-> "unmuted"]] /\ UNCHANGED reg
       ELSE reg' = [reg EXCEPT ![op.register] = op.value] /\ UNCHANGED ctrl
    /\ UNCHANGED <<page, data>>
Interfere ==
    /\ raced' = TRUE /\ reg' = Lost /\ ctrl' = AfterReset /\ data' = [c \in Callers |-> AfterReset["woofer"]]
    /\ UNCHANGED page

AmpSettings == <<asks, ampPower, eco, bass, treble, profile, tuned, ampAsked>>
Transact(t) ==
    /\ ampTodo[t] # <<>> /\ ampTodo[t][1][1].kind # "enable" /\ enabled /\ Drop(t)
    /\ LET op == ampTodo[t][1][1] IN
       IF raced \/ Races(t, op) THEN Interfere
       ELSE (Select(op) \/ ReadControl(t, op) \/ WriteBack(t, op) \/ WriteRegister(op)) /\ UNCHANGED raced
    /\ UNCHANGED <<AmpSettings, ampFailed>>
\* The power down pin; without power the registers are lost.
SetPin(t) ==
    /\ ampTodo[t] # <<>> /\ ampTodo[t][1][1].kind = "enable" /\ Drop(t)
    /\ page' = [c \in Chips |-> IF ampTodo[t][1][1].value = "on" THEN "control" ELSE "none"]
    /\ reg' = Lost /\ ctrl' = AfterReset
    /\ ampFailed' = FALSE /\ raced' = FALSE /\ UNCHANGED <<AmpSettings, data>>
\* The bus fails, or the amplifiers have no power: the rest of the load is left out.
FailLoad(t) ==
    /\ ampTodo[t] # <<>> /\ ampTodo[t][1][1].kind # "enable" /\ ("fault" \in asks \/ ~enabled)
    /\ Gives(t, Tail(ampTodo[t])) /\ ampFailed' = TRUE
    /\ UNCHANGED <<AmpSettings, page, reg, ctrl, data, raced>>

AmpInit ==
    /\ asks \in AmpScenarios
    /\ ampPower = "off" /\ page = [c \in Chips |-> "none"] /\ reg = Lost
    /\ ctrl = AfterReset /\ data = [t \in Callers |-> AfterReset["woofer"]]
    /\ eco \in BOOLEAN /\ bass = "6dB" /\ treble = "6dB" /\ profile = "normal" /\ tuned = {}
    /\ ampTodo = [t \in Callers |-> <<>>] /\ ampAsked = 0 /\ ampFailed = FALSE /\ raced = FALSE

AmpNext == AmpAsk \/ \E t \in Callers : Transact(t) \/ SetPin(t) \/ FailLoad(t)

AmpSpec == AmpInit /\ [][AmpNext]_ampVars
-----------------------------------------------------------------------------
AmpsSettled == AmpIdle /\ ampPower = "on" /\ ~ampFailed /\ ~raced
Expected(r) ==
    CASE r = "bassEq"   -> IF eco /\ r \notin tuned THEN "0dB" ELSE bass
      [] r = "trebleEq" -> IF eco /\ r \notin tuned THEN "0dB" ELSE treble
      [] r \in {"program", "path", "bypassEq", "gpio", "misc"} -> "normal"
      [] OTHER          -> IF eco THEN "eco" ELSE "normal"

(* Whatever was asked since the power on, in whatever order, the registers   *)
(* are those of the present settings and the amplifiers play, unmuted: no    *)
(* table leaves out what another has changed. A load that failed, the other  *)
(* task's writes in between and the bypass test are the exceptions; so is    *)
(* the woofer's right channel (NormalVolume).                                *)
RegistersFollow ==
    AmpsSettled /\ profile = "normal" =>
        /\ \A r \in Registers \ {"right"} : reg[r] = Expected(r)
        /\ \A c \in Chips : ctrl[c] = [state |-> "play", mute |-> "unmuted"]

(* "TAS5825P from ECO-Mode to normal-Mode (set Volume to 7.5dB)"              *)
(* (eco_5825_eco_mode_config.h:352): both channels of the woofer, as in the   *)
(* configuration. Violated: the right channel is given 0x002f892c, -8.6 dB.   *)
NormalVolume == AmpsSettled /\ profile = "normal" => reg["right"] = Expected("right")

(* "This configuration needs to be loaded before setting the coefficients"   *)
(* (eco_5825_bass_config.h:6): nothing is written to another page than the   *)
(* one selected for it, and nothing that was written in between is undone.   *)
(* Violated when the Bluetooth task mutes during a load of the Audio task.   *)
OwnPage == ~raced
=============================================================================
