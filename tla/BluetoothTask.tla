---------------------------- MODULE BluetoothTask ----------------------------
(***************************************************************************)
(* The Bluetooth task between two power transitions: what the module       *)
(* notifies, the status that follows from it, the sound icons and the      *)
(* messages of the other tasks (tasks/bluetooth/task_bluetooth.cpp).       *)
(*                                                                         *)
(* A notification is handled in actionslink_tick or while the task waits   *)
(* for a response, so between any two steps as long as the link is up.  It *)
(* marks the status as out of date; the idle callback, which runs only     *)
(* when the queue stays empty, derives it 200 ms later.  No status is      *)
(* derived while the power on icon plays.                                  *)
(***************************************************************************)
EXTENDS Integers, Sequences

CONSTANTS
    QueueSize,   \* QUEUE_SIZE
    Scenarios,   \* sets of inputs: one of them occurs in a behaviour
    Burst,       \* bound: messages posted between two times the queue is empty for 10 ms
    EarlyIcons   \* the app may change SoundIconsActive before the power on icon ended

ASSUME RadioAssumption == {QueueSize, Burst} \subseteq Nat \ {0} /\ EarlyIcons \in BOOLEAN

VARIABLES
    scenario,
    phase,       \* of the power sequence, as far as this task sees it
    queue,
    radio,       \* what the module has notified
    jack,        \* board_link_plug_detection_is_jack_connected()
    dirty,       \* update_bt_state, and whether its time stamp is 200 ms old
    powerOnIcon, \* power_on_sound_icon_ts: none is 0, played UINT32_MAX
    icon, over,  \* curr_sound_icon, and whether its length has passed
    iconsOn,     \* the property SoundIconsActive
    status,      \* the property Status
    streaming, wasStreaming,
    devices,     \* number_of_connected_devices
    posted,      \* how much of Burst is used
    stale        \* history: a notification since the status was derived

bt == <<scenario, phase, queue, radio, jack, dirty, powerOnIcon, icon, over, iconsOn,
        status, streaming, wasStreaming, devices, posted, stale>>

Infinite == {"pairing", "slavePairing"}
Statuses == {"BluetoothDisconnected", "BluetoothConnected", "BluetoothPairing", "SlavePairing",
             "CsbChainMaster", "ChainSlave", "AuxConnected", "UsbConnected", "DfuMode"}
PairingStates == {"idle", "pairing", "csbBroadcasting", "csbReceiving"}
CsbStates == {"disabled", "broadcasting", "connected", "receiverPairing"}
Sources == {"a2dp", "usb", "analog"}
NotYet == "not yet"
Icons == Infinite \cup {"powerOn", "powerOff", "connected", "disconnected", "master", "chain", "chainEnd", "feedback", "nothing"}
Messages == {"play", "stop"} \X Icons \cup {"startPairing", "clear", "reset", "ready", "command"} \X {""}

RadioTypeOK ==
    /\ phase \in {"off", "starting", "configuring", "on", "stopping"}
    /\ queue \in Seq(Messages) /\ Len(queue) <= QueueSize
    /\ radio \in [source : Sources \cup {NotYet}, pairing : PairingStates, csb : CsbStates,
                  connected : BOOLEAN, usb : BOOLEAN, dfu : BOOLEAN]
    /\ dirty \in {"no", "fresh", "ripe"}
    /\ powerOnIcon \in {"none", "early", "mid", "late", "over", "played"}
    /\ icon \in Icons /\ status \in Statuses
    /\ {jack, over, iconsOn, streaming, wasStreaming, stale} \subseteq BOOLEAN
    /\ devices \in 0..2 /\ posted \in 0..Burst

RadioInit ==
    /\ scenario \in Scenarios
    /\ phase = "off" /\ queue = <<>>
    /\ radio = [source |-> NotYet, pairing |-> "idle", csb |-> "disabled",
                connected |-> FALSE, usb |-> FALSE, dfu |-> FALSE]
    /\ jack = FALSE /\ dirty = "no" /\ powerOnIcon = "none"
    /\ icon = "nothing" /\ over = TRUE /\ iconsOn \in BOOLEAN
    /\ status = "BluetoothDisconnected"
    /\ streaming = FALSE /\ wasStreaming = FALSE /\ devices = 0 /\ posted = 0
    /\ stale = FALSE

\* Mutant: the queue takes one message more.
PostedLate(q, ms) == LET all == q \o ms IN SubSeq(all, 1, IF Len(all) <= QueueSize THEN Len(all) ELSE QueueSize + 1)
\* A task that posts to its own full queue waits for 100 ticks, in vain.
Posted(q, ms) == LET all == q \o ms IN SubSeq(all, 1, IF Len(all) < QueueSize THEN Len(all) ELSE QueueSize)
Post(ms) == queue' = Posted(queue, ms)

\* An input that posts messages.
Spend == posted < Burst /\ posted' = posted + 1
-----------------------------------------------------------------------------
(* The power sequence and the time.                                        *)

LinkUp == phase # "off"

StartLink ==
    /\ phase = "off" /\ queue = <<>>
    /\ phase' = "starting"
    /\ UNCHANGED <<scenario, queue, radio, jack, dirty, powerOnIcon, icon, over, iconsOn, status, streaming, wasStreaming, devices, posted, stale>>

LinkStarted ==
    /\ phase = "starting" /\ radio.source # NotYet
    /\ phase' = "configuring"
    /\ UNCHANGED <<scenario, queue, radio, jack, dirty, powerOnIcon, icon, over, iconsOn, status, streaming, wasStreaming, devices, posted, stale>>

\* The System task announces the power on, then sets PowerState::On.
Announce ==
    /\ phase = "configuring" /\ Len(queue) < QueueSize
    /\ phase' = "on" /\ Post(<< <<"play", "powerOn">> >>)
    /\ UNCHANGED <<scenario, radio, jack, dirty, powerOnIcon, icon, over, iconsOn, status, streaming, wasStreaming, devices, posted, stale>>

GoOff ==
    /\ phase = "on" /\ Len(queue) < QueueSize
    /\ phase' = "stopping" /\ Post(<< <<"play", "powerOff">> >>)
    /\ UNCHANGED <<scenario, radio, jack, dirty, powerOnIcon, icon, over, iconsOn, status, streaming, wasStreaming, devices, posted, stale>>

StopLink ==
    /\ phase = "stopping" /\ queue = <<>>
    /\ phase' = "off" /\ powerOnIcon' = "none"
    /\ UNCHANGED <<scenario, queue, radio, jack, dirty, icon, over, iconsOn, status, streaming, wasStreaming, devices, posted, stale>>

\* 200 ms after an update; 500, 1000 and 1670 ms of the power on icon; the
\* length of the current icon.
Ripen  == dirty = "fresh" /\ dirty' = "ripe" /\ UNCHANGED <<powerOnIcon, over>>
PlayOn == /\ powerOnIcon \in {"early", "mid", "late"}
          /\ powerOnIcon' = CASE powerOnIcon = "early" -> "mid" [] powerOnIcon = "mid" -> "late" [] OTHER -> "over"
          /\ UNCHANGED <<dirty, over>>
EndIcon == ~over /\ over' = TRUE /\ UNCHANGED <<dirty, powerOnIcon>>

Timer(A) == A /\ UNCHANGED <<scenario, phase, queue, radio, jack, icon, iconsOn, status, streaming, wasStreaming, devices, posted, stale>>
Elapse == Timer(Ripen) \/ Timer(PlayOn) \/ Timer(EndIcon)
-----------------------------------------------------------------------------
(* handle_new_bt_state.                                                    *)

Derived(r) ==
    CASE r.csb = "broadcasting"    -> "CsbChainMaster"
      [] r.csb = "connected"       -> "ChainSlave"
      [] r.csb = "receiverPairing" -> "SlavePairing"
      [] r.csb = "disabled" /\ r.pairing = "pairing"         -> "BluetoothPairing"
      [] r.csb = "disabled" /\ r.pairing = "csbBroadcasting" -> "CsbChainMaster"
      [] r.csb = "disabled" /\ r.pairing = "csbReceiving"    -> "SlavePairing"
      [] OTHER -> IF r.source = "analog" /\ jack  THEN "AuxConnected"
                  ELSE IF r.dfu                   THEN "DfuMode"
                  ELSE IF r.source = "usb" /\ r.usb THEN "UsbConnected"
                  ELSE IF r.connected             THEN "BluetoothConnected"
                  ELSE "BluetoothDisconnected"

Chain == {"CsbChainMaster", "ChainSlave"}
Pairing == {"BluetoothPairing", "SlavePairing"}

StatusIcon(old, new) ==
    CASE new = "CsbChainMaster" -> << <<"play", "master">> >>
      [] new = "ChainSlave"     -> << <<"play", "chain">> >>
      [] new = "SlavePairing"   -> << <<"play", "slavePairing">> >>
      [] old \in Chain /\ new \notin Chain \cup {"SlavePairing"} -> << <<"play", "chainEnd">> >>
      [] OTHER -> <<>>

\* continue_streaming_check
Resumes(new) == wasStreaming /\ new \notin Pairing

\* Mutant: inactive icons do not count as played.
CanDeriveLate(ts) == radio.source # NotYet /\ ts = "played"
CanDerive(ts) == radio.source # NotYet /\ (ts = "played" \/ ~iconsOn)

HandleNewState(q) ==
    LET new == Derived(radio) IN
    /\ stale' = FALSE
    /\ IF status = new /\ new \in Chain
       THEN queue' = q /\ UNCHANGED <<status, wasStreaming>>
       ELSE /\ status' = new
            /\ wasStreaming' = (wasStreaming /\ ~Resumes(new))
            /\ queue' = Posted(q, StatusIcon(status, new) \o IF Resumes(new) THEN << <<"command", "">> >> ELSE <<>>)

\* update_infinite_sound_icons; mutant: the loop is renewed and never stopped
StatusOf(i) == IF i = "pairing" THEN "BluetoothPairing" ELSE "SlavePairing"
RenewedOnly(i) == IF icon # i /\ status = StatusOf(i) /\ over THEN << <<"play", i>> >> ELSE <<>>
Renewed(i) == IF icon # i /\ status = StatusOf(i) /\ over THEN << <<"play", i>> >>
              ELSE IF icon = i /\ status # StatusOf(i)    THEN << <<"stop", i>> >>
              ELSE <<>>

\* update_bt_state after an idle callback: the end of the power on icon marks it
\* again (mutant: it does not).
StillDirtyForgets(ended, due) == IF due THEN "no" ELSE dirty
StillDirty(ended, due) == IF ended THEN "fresh" ELSE IF due THEN "no" ELSE dirty

\* Callback_Idle.
Idle ==
    /\ phase \notin {"starting"} /\ queue = <<>>
    /\ LET ended == powerOnIcon = "over"
           posts == Posted(<<>>, Renewed("pairing") \o Renewed("slavePairing"))
           due   == ~ended /\ dirty = "ripe" /\ powerOnIcon \notin {"early", "mid"}
       IN /\ powerOnIcon' = IF ended THEN "played" ELSE powerOnIcon
          /\ dirty' = StillDirty(ended, due)
          /\ IF due /\ CanDerive(powerOnIcon)
             THEN HandleNewState(posts)
             ELSE queue' = posts /\ UNCHANGED <<status, wasStreaming, stale>>
    /\ posted' = 0
    /\ UNCHANGED <<scenario, phase, radio, jack, icon, over, iconsOn, streaming, devices>>
-----------------------------------------------------------------------------
(* The notifications of the module.                                        *)

Update(r) == radio' = r /\ dirty' = "fresh" /\ stale' = TRUE /\ UNCHANGED <<queue, posted>>

NewSource == \E s \in Sources : s # radio.source /\ Update([radio EXCEPT !.source = s])
NewPairingState == \E p \in PairingStates : Update([radio EXCEPT !.pairing = p])
NewConnectionState == \E c \in BOOLEAN : Update([radio EXCEPT !.connected = c])
NewCsbState == \E c \in CsbStates : Update([radio EXCEPT !.csb = c])
NewDfuMode == \E d \in BOOLEAN : Update([radio EXCEPT !.dfu = d])

\* A USB source ends the pairing; it alone does not renew the status.
UsbSource == \E u \in BOOLEAN :
    /\ Spend
    /\ radio' = [radio EXCEPT !.usb = u]
    /\ IF u /\ status \notin Chain THEN Post(<< <<"command", "">> >>) ELSE UNCHANGED queue
    /\ UNCHANGED <<dirty, stale>>

SystemReady == /\ Spend /\ Post(<< <<"ready", "">>, <<"command", "">>, <<"command", "">>, <<"command", "">>, <<"command", "">> >>)
               /\ UNCHANGED <<radio, dirty, stale>>

Notification ==
    /\ LinkUp
    /\ \/ "source"  \in scenario /\ NewSource
       \/ "source" \notin scenario /\ radio.source = NotYet /\ Update([radio EXCEPT !.source = "a2dp"])
       \/ "pairing" \in scenario /\ NewPairingState
       \/ "state"   \in scenario /\ NewConnectionState
       \/ "csb"     \in scenario /\ NewCsbState
       \/ "dfu"     \in scenario /\ NewDfuMode
       \/ "usb"     \in scenario /\ UsbSource
       \/ "ready"   \in scenario /\ SystemReady
    /\ UNCHANGED <<scenario, phase, jack, powerOnIcon, icon, over, iconsOn, status, streaming, wasStreaming, devices>>

\* on_notify_bt_connection and on_notify_bt_disconnection
DeviceConnected ==
    /\ devices' = IF devices < 2 THEN devices + 1 ELSE devices
    /\ Post(<< <<"play", "connected">> >>)
DeviceDisconnected ==
    /\ devices' = IF devices > 0 THEN devices - 1 ELSE devices
    /\ IF devices > 0 THEN Post(<< <<"play", "disconnected">> >>) ELSE UNCHANGED queue

Device ==
    /\ LinkUp /\ "device" \in scenario /\ Spend /\ (DeviceConnected \/ DeviceDisconnected)
    /\ UNCHANGED <<scenario, phase, radio, jack, dirty, powerOnIcon, icon, over, iconsOn, status, streaming, wasStreaming, stale>>

Stream ==
    /\ LinkUp /\ "stream" \in scenario /\ streaming' = ~streaming
    /\ UNCHANGED <<scenario, phase, queue, radio, jack, dirty, powerOnIcon, icon, over, iconsOn, status, wasStreaming, devices, posted, stale>>

\* The requests of the module: an answer and a message to another task. Only
\* that of set_sound_icons comes back to this one, as a property.
SetSoundIcons ==
    /\ phase = "on" /\ {"icons", "activate"} \cap scenario # {}
    /\ EarlyIcons \/ powerOnIcon = "played"
    /\ iconsOn' = ("icons" \in scenario => ~iconsOn)
    /\ UNCHANGED <<scenario, phase, queue, radio, jack, dirty, powerOnIcon, icon, over, status, streaming, wasStreaming, devices, posted, stale>>
-----------------------------------------------------------------------------
(* The messages.                                                           *)

\* RequestSoundIcon: an icon of a device that connects before or while the
\* power on icon starts is posted once more, and played all the same.
HasLength(i) == i \in Infinite \cup {"powerOn", "master", "feedback"}

Play(i, rest) ==
    IF iconsOn
    THEN /\ queue' = IF i = "connected" /\ powerOnIcon \in {"none", "early"}
                     THEN Posted(rest, << <<"play", i>> >>) ELSE rest
         /\ powerOnIcon' = IF i = "powerOn" THEN "early" ELSE powerOnIcon
         /\ icon' = i /\ over' = ~HasLength(i)
    ELSE queue' = rest /\ UNCHANGED <<powerOnIcon, icon, over>>

\* StopPlayingSoundIcon
Stop(rest) ==
    /\ queue' = rest
    /\ IF iconsOn THEN icon' = "nothing" /\ over' = TRUE ELSE UNCHANGED <<icon, over>>
    /\ UNCHANGED powerOnIcon

HandleIcon ==
    /\ phase # "starting" /\ queue # <<>>
    /\ \/ Head(queue)[1] = "play" /\ Play(Head(queue)[2], Tail(queue))
       \/ Head(queue)[1] = "stop" /\ Stop(Tail(queue))
    /\ UNCHANGED <<scenario, phase, radio, jack, dirty, iconsOn, status, streaming, wasStreaming, devices, posted, stale>>

\* StartPairing and MultichainPairing; ClearDeviceList; FactoryReset; ActionsReady;
\* the rest only passes a command on to the module.
StartPairing(rest) == queue' = rest /\ wasStreaming' = streaming /\ UNCHANGED <<radio, devices>>
ClearDeviceList(rest) ==
    /\ queue' = Posted(rest, << <<"play", "feedback">>, <<"startPairing", "">> >>)
    /\ UNCHANGED <<radio, devices, wasStreaming>>
FactoryReset(rest) ==
    /\ devices' = 0 /\ queue' = Posted(rest, << <<"play", "feedback">> >>)
    /\ UNCHANGED <<radio, wasStreaming>>
ActionsReady(rest) ==
    /\ radio' = [radio EXCEPT !.dfu = FALSE] /\ queue' = rest
    /\ UNCHANGED <<devices, wasStreaming>>
Command(rest) == queue' = rest /\ UNCHANGED <<radio, devices, wasStreaming>>

HandleMessage ==
    /\ phase # "starting" /\ queue # <<>>
    /\ LET m == Head(queue)[1] rest == Tail(queue) IN
       \/ m = "startPairing" /\ StartPairing(rest)
       \/ m = "clear"        /\ ClearDeviceList(rest)
       \/ m = "reset"        /\ FactoryReset(rest)
       \/ m = "ready"        /\ ActionsReady(rest)
       \/ m = "command"      /\ Command(rest)
    /\ UNCHANGED <<scenario, phase, jack, dirty, powerOnIcon, icon, over, iconsOn, status, streaming, posted, stale>>

\* What the other tasks post, and the jack, which Audio reports to the module.
Asked ==
    /\ Spend
    /\ \E m \in {"startPairing", "clear", "reset", "command"} \cap scenario :
          Len(queue) < QueueSize /\ Post(<< <<m, "">> >>)
    /\ UNCHANGED <<scenario, phase, radio, jack, dirty, powerOnIcon, icon, over, iconsOn, status, streaming, wasStreaming, devices, stale>>

Jack ==
    /\ Spend /\ phase = "on" /\ "jack" \in scenario /\ Len(queue) < QueueSize
    /\ jack' = ~jack /\ Post(<< <<"command", "">> >>)
    /\ UNCHANGED <<scenario, phase, radio, dirty, powerOnIcon, icon, over, iconsOn, status, streaming, wasStreaming, devices, stale>>

RadioNext ==
    \/ StartLink \/ LinkStarted \/ Announce \/ GoOff \/ StopLink \/ Elapse
    \/ Idle \/ Notification \/ Device \/ Stream \/ SetSoundIcons
    \/ HandleIcon \/ HandleMessage \/ Asked \/ Jack

\* The task runs, time passes, and the queue is empty for 10 ms again and again
\* unless it is filled by a message that posts itself.
RadioFairness ==
    /\ WF_bt(HandleIcon \/ HandleMessage) /\ WF_bt(Announce) /\ SF_bt(Idle)
    /\ WF_bt(Timer(Ripen)) /\ WF_bt(Timer(PlayOn)) /\ WF_bt(Timer(EndIcon))

RadioSpec == RadioInit /\ [][RadioNext]_bt /\ RadioFairness
-----------------------------------------------------------------------------
(* Once the speaker is on, the status takes up every notification, unless   *)
(* new ones keep coming within 200 ms (the idle callback): it is enough     *)
(* that an update survives the power on icon, the early returns of          *)
(* handle_new_bt_state and the queue.                                       *)
StatusFollows == []<>(~stale \/ phase # "on" \/ dirty = "fresh")

(* Why it does: an update that is not pending any more was made, or waits   *)
(* for the end of the power on icon, which marks it again.                  *)
NothingForgotten ==
    stale => \/ dirty # "no" \/ radio.source = NotYet
             \/ iconsOn /\ powerOnIcon # "played"

(* An icon that is played for ever is stopped once its status is left, as    *)
(* long as the speaker is on and the sound icons stay active                 *)
(* (update_infinite_sound_icons).                                            *)
LoopEnds == \A i \in Infinite : []<>(icon # i \/ status = StatusOf(i) \/ ~iconsOn \/ phase # "on")
=============================================================================
