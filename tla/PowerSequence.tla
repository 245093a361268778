---------------------------- MODULE PowerSequence ----------------------------
(***************************************************************************)
(* The power-on and power-off sequence of the MYND firmware.  Three        *)
(* FreeRTOS tasks take part: System runs the sequence, Audio owns the      *)
(* amplifiers, Bluetooth owns the radio module.  System posts              *)
(* SetPowerState messages into the bounded queues of its peers and waits,  *)
(* with a timeout, for a task notification of theirs.                      *)
(*                                                                         *)
(* A step of System is what it does between two points where it can block  *)
(* (a post into a full queue, SyncPrimitive::await, vTaskDelay, the wait   *)
(* for the next message); a peer takes a message in one step and finishes  *)
(* its handler in another.  Time is abstract: an await or a blocked post   *)
(* may expire whenever it has nothing to take, if Faults allows it.        *)
(***************************************************************************)
EXTENDS Naturals, Sequences

CONSTANTS QueueSize,   \* QUEUE_SIZE of each task
          Inputs,      \* which of the optional inputs an instance has
          Faults       \* which of the faults may happen

Task  == {"System", "Audio", "Bluetooth"}
Peer  == {"Audio", "Bluetooth"}

(***************************************************************************)
(* late: an await timed out.  lost: a post timed out on a full queue.      *)
(* stray: the broadcaster of a CSB chain reported that it powered off.     *)
(***************************************************************************)
Fault == {"late", "lost", "stray"}

(***************************************************************************)
(* charger: it is plugged and unplugged; without this input it stays       *)
(* plugged.  module: events of the Bluetooth module that post.  reset:     *)
(* factory reset requests.                                                 *)
(***************************************************************************)
Input == {"charger", "module", "reset"}

ASSUME PowerAssumption ==
    /\ QueueSize \in [Task -> Nat \ {0}]
    /\ Inputs \subseteq Input
    /\ Faults \subseteq Fault

(***************************************************************************)
(* The values of SetPowerState.to, and the other messages: those that      *)
(* matter to the sequence by name, the rest as "Other".                    *)
(***************************************************************************)
PowerMsg == {"PreOn", "On", "PreOff", "Off"}
Msg      == PowerMsg \cup {"FactoryResetRequest", "HardReset", "Other"}

(***************************************************************************)
(* Where System is: at rest between two messages ("idle"), about to do     *)
(* the step of that name, or inside the await that follows it.             *)
(***************************************************************************)
OnPoint    == {"onAmps", "onAmpsWait", "onRadio", "onRadioWait",
               "onConfigure", "onConfigureWait", "onIcon"}
OffPoint   == {"offStart", "offPrepare", "offPrepareWait", "offIcon",
               "offAnnounce", "offAnnounceWait", "offAmps", "offAmpsWait",
               "offRadio", "offRadioWait", "offRelease"}
BootPoint  == {"boot", "bootAudioWait", "bootRadioWait", "bootDecide"}
ResetPoint == {"resetRadio", "resetAudio", "resetHard"}
Point      == OnPoint \cup OffPoint \cup BootPoint \cup ResetPoint \cup {"idle"}

(***************************************************************************)
(* What a peer is doing: not created yet, in Callback_Init, at rest,       *)
(* handling a message, blocked in a post to System ("blocked"), or in the  *)
(* delay before it lets the power supply go ("release").                   *)
(***************************************************************************)
Doing == {"down", "init", "idle", "blocked", "release"} \cup Msg

VARIABLES
    pc,            \* where System is
    powerState,    \* p_power_state.m_current
    powerStateFn,  \* s_system.power_state_fn
    queue,         \* the message queue of each task
    doing,         \* what each peer is doing
    note,          \* System's notification value, one index for each peer
    faults,        \* the faults this boot has seen
    amps,          \* "off", "enabled" (PVDD up, PDN high), "configured"
    radio,         \* the Bluetooth module has power
    i2s,           \* the module drives the I2S clocks
    audioSource,   \* s_bluetooth.audio_source.has_value()
    held,          \* the power hold pin
    ac,            \* the external supply is there
    acLost         \* pwr_ac_debouncer.m_last_change_ts: "zero", "young", "old"

supply == <<held, ac, acLost>>
audio  == <<i2s, audioSource>>
vars   == <<pc, powerState, powerStateFn, queue, doing, note, faults,
            amps, radio, i2s, audioSource, held, ac, acLost>>

TypeOK ==
    /\ pc \in Point
    /\ powerState \in {"Transition", "Off", "On"}
    /\ powerStateFn \in {"power_state_off", "power_state_on"}
    /\ queue \in [Task -> Seq(Msg)]
    /\ \A t \in Task : Len(queue[t]) <= QueueSize[t]
    /\ doing \in [Peer -> Doing]
    /\ note \in [Peer -> 0..1]
    /\ faults \subseteq Faults
    /\ amps \in {"off", "enabled", "configured"}
    /\ radio \in BOOLEAN
    /\ i2s \in BOOLEAN
    /\ audioSource \in BOOLEAN
    /\ held \in BOOLEAN
    /\ ac \in BOOLEAN
    /\ acLost \in {"zero", "young", "old"}

Supplies == IF "charger" \in Inputs THEN BOOLEAN ELSE {TRUE}

(***************************************************************************)
(* The MCU gets power: from the button, from the charger, or by a reset.   *)
(***************************************************************************)
Init ==
    /\ pc = "boot"
    /\ powerState = "Transition"
    /\ powerStateFn = "power_state_off"
    /\ queue = [t \in Task |-> <<>>]
    /\ doing = [p \in Peer |-> "down"]
    /\ note = [p \in Peer |-> 0]
    /\ faults = {}
    /\ amps = "off"
    /\ radio = FALSE
    /\ i2s = FALSE
    /\ audioSource = FALSE
    /\ held = FALSE
    /\ ac \in Supplies
    /\ acLost = "zero"

\* System is inside SyncPrimitive::await for peer p.
Waits(p) ==
    IF p = "Audio"
    THEN pc \in {"bootAudioWait", "onAmpsWait", "onConfigureWait",
                 "offPrepareWait", "offAmpsWait"}
    ELSE pc \in {"bootRadioWait", "onRadioWait", "offAnnounceWait",
                 "offRadioWait"}

-----------------------------------------------------------------------------
(***************************************************************************)
(* GenericThread::PostMsg and SyncPrimitive.                               *)
(***************************************************************************)
Started(t) == IF t = "System" THEN TRUE ELSE doing[t] # "down"

\* (Mutant of Room: one message too many.)
RoomMutant(t) == Len(queue[t]) <= QueueSize[t]

Room(t) == Len(queue[t]) < QueueSize[t]

Happens(f) == f \in Faults /\ faults' = faults \cup {f}

\* xQueueSend waits for room; when it stops waiting the message is gone.  A
\* task that is not created yet has no queue, and the post fails at once.
PostMsg(t, m) ==
    \/ /\ Started(t) /\ Room(t)
       /\ queue' = [queue EXCEPT ![t] = Append(@, m)]
       /\ UNCHANGED faults
    \/ /\ Started(t) /\ ~Room(t)
       /\ Happens("lost")
       /\ UNCHANGED queue
    \/ /\ ~Started(t)
       /\ UNCHANGED <<queue, faults>>

\* (Mutants of await: the notification is not cleared; no timeout.)
awaitKeeps(p) == UNCHANGED <<note, faults>> /\ note[p] > 0
awaitForever(p) ==
    note[p] > 0 /\ note' = [note EXCEPT ![p] = 0] /\ UNCHANGED faults

\* ulTaskNotifyTakeIndexed(.., pdTRUE, ..): takes whatever has been given and
\* clears it, or times out with nothing.  The callers ignore which it was.
await(p) ==
    \/ /\ note[p] > 0
       /\ note' = [note EXCEPT ![p] = 0]
       /\ UNCHANGED faults
    \/ /\ note[p] = 0
       /\ Happens("late")
       /\ UNCHANGED note

\* Two notifications before an await count as one: await takes all of them.
notify(p) == note' = [note EXCEPT ![p] = 1]

-----------------------------------------------------------------------------
(***************************************************************************)
(* The System task.                                                        *)
(***************************************************************************)
Goto(from, to) == pc = from /\ pc' = to

Post(from, t, m, to) ==
    /\ Goto(from, to)
    /\ PostMsg(t, m)
    /\ UNCHANGED <<powerState, powerStateFn, doing, note, amps, radio,
                   audio, supply>>

Await(from, p, to) ==
    /\ Goto(from, to)
    /\ await(p)
    /\ UNCHANGED <<powerState, powerStateFn, queue, doing, amps, radio,
                   audio, supply>>

\* Callback_Init up to Audio::start().  The supply is held on when the power
\* button is down at both samples.
Boot ==
    /\ Goto("boot", "bootAudioWait")
    /\ held' \in BOOLEAN
    /\ doing' = [doing EXCEPT !["Audio"] = "init"]
    /\ UNCHANGED <<powerState, powerStateFn, queue, note, faults, amps, radio,
                   audio, ac, acLost>>

\* (Mutant of BootRadio: Audio's initialisation is not waited for.)
BootRadioUnawaited ==
    /\ Goto("bootAudioWait", "bootRadioWait")
    /\ doing' = [doing EXCEPT !["Bluetooth"] = "init"]
    /\ UNCHANGED <<powerState, powerStateFn, queue, note, faults, amps, radio,
                   audio, supply>>

BootRadio ==
    /\ Goto("bootAudioWait", "bootRadioWait")
    /\ await("Audio")
    /\ doing' = [doing EXCEPT !["Bluetooth"] = "init"]
    /\ UNCHANGED <<powerState, powerStateFn, queue, amps, radio, audio, supply>>

\* The end of Callback_Init: a boot by the button, or after an update (which
\* only the bootloader knows), asks System itself to power on; a boot by the
\* charger holds the supply until the charger goes.
BootDecide ==
    /\ Goto("bootDecide", "idle")
    /\ powerState' = "Off"
    /\ \E updated \in BOOLEAN :
          IF updated \/ held
          THEN PostMsg("System", "On") /\ UNCHANGED held
          ELSE held' = ac /\ UNCHANGED <<queue, faults>>
    /\ UNCHANGED <<powerStateFn, doing, note, amps, radio, audio, ac, acLost>>

\* The next message: power_state_fn decides whether a SetPowerState starts a
\* sequence, every other one is dealt with on the spot.
SystemNext ==
    /\ pc = "idle" /\ queue["System"] # <<>>
    /\ queue' = [queue EXCEPT !["System"] = Tail(@)]
    /\ LET m == Head(queue["System"]) IN
          pc' = CASE m = "On"  /\ powerStateFn = "power_state_off" -> "onAmps"
                  [] m = "Off" /\ powerStateFn = "power_state_on"  -> "offStart"
                  [] m = "FactoryResetRequest"                     -> "resetRadio"
                  [] OTHER                                         -> "idle"
    /\ UNCHANGED <<powerState, powerStateFn, doing, note, faults, amps, radio,
                   audio, supply>>

\* Callback_Idle runs when no message is there.  Whether the off timer has
\* elapsed is left open.
IdleTimeout ==
    /\ pc = "idle" /\ queue["System"] = <<>>
    /\ powerState = "On"
    /\ pc' = IF powerStateFn = "power_state_on" THEN "offStart" ELSE "idle"
    /\ UNCHANGED <<powerState, powerStateFn, queue, doing, note, faults, amps,
                   radio, audio, supply>>

\* power_state_off(On)
OnAmps ==
    /\ Goto("onAmps", "onAmpsWait")
    /\ powerState' = "Transition"
    /\ held' = TRUE
    /\ PostMsg("Audio", "PreOn")
    /\ UNCHANGED <<powerStateFn, doing, note, amps, radio, audio, ac, acLost>>

\* (Mutants of the waits: the amplifiers are not waited for on the way up;
\* not waited for, not told, or left out on the way down.)
Unawaited(from, to) ==
    /\ Goto(from, to)
    /\ UNCHANGED <<powerState, powerStateFn, queue, doing, note, faults, amps,
                   radio, audio, supply>>
OnAmpsUnawaited  == Unawaited("onAmpsWait", "onRadio")
OffAmpsUnawaited == Unawaited("offAmpsWait", "offRadio")
OffAmpsUntold    == Unawaited("offAmps", "offAmpsWait")
OffAmpsSkipped   == Await("offAnnounceWait", "Bluetooth", "offRadio")

OnAmpsWait      == Await("onAmpsWait", "Audio", "onRadio")
OnRadio         == Post("onRadio", "Bluetooth", "On", "onRadioWait")
OnRadioWait     == Await("onRadioWait", "Bluetooth", "onConfigure")
OnConfigure     == Post("onConfigure", "Audio", "On", "onConfigureWait")
OnConfigureWait == Await("onConfigureWait", "Audio", "onIcon")

OnIcon ==
    /\ Goto("onIcon", "idle")
    /\ PostMsg("Bluetooth", "Other")
    /\ powerState' = "On"
    /\ powerStateFn' = "power_state_on"
    /\ UNCHANGED <<doing, note, amps, radio, audio, supply>>

\* power_state_on(Off).  A speaker in a CSB chain first leaves the chain, and
\* the off timer plays no sound icon: neither is known here.
OffStart ==
    \/ Post("offStart", "Bluetooth", "Other", "offPrepare")
    \/ /\ Goto("offStart", "offPrepare")
       /\ UNCHANGED <<powerState, powerStateFn, queue, doing, note, faults,
                      amps, radio, audio, supply>>

OffPrepare ==
    /\ Goto("offPrepare", "offPrepareWait")
    /\ powerState' = "Transition"
    /\ PostMsg("Audio", "PreOff")
    /\ UNCHANGED <<powerStateFn, doing, note, amps, radio, audio, supply>>

OffPrepareWait  == Await("offPrepareWait", "Audio", "offIcon")

OffIcon ==
    \/ Post("offIcon", "Bluetooth", "Other", "offAnnounce")
    \/ /\ Goto("offIcon", "offAnnounce")
       /\ UNCHANGED <<powerState, powerStateFn, queue, doing, note, faults,
                      amps, radio, audio, supply>>

OffAnnounce     == Post("offAnnounce", "Bluetooth", "PreOff", "offAnnounceWait")
OffAnnounceWait == Await("offAnnounceWait", "Bluetooth", "offAmps")
OffAmps         == Post("offAmps", "Audio", "Off", "offAmpsWait")
OffAmpsWait     == Await("offAmpsWait", "Audio", "offRadio")
OffRadio        == Post("offRadio", "Bluetooth", "Off", "offRadioWait")
OffRadioWait    == Await("offRadioWait", "Bluetooth", "offRelease")

OffRelease ==
    /\ Goto("offRelease", "idle")
    /\ held' = FALSE
    /\ powerState' = "Off"
    /\ powerStateFn' = "power_state_off"
    /\ UNCHANGED <<queue, doing, note, faults, amps, radio, audio, ac, acLost>>

\* FactoryResetRequest: both peers restore their defaults, Audio resets the MCU.
ResetRadio      == Post("resetRadio", "Bluetooth", "Other", "resetAudio")
ResetAudio      == Post("resetAudio", "Audio", "Other", "resetHard")
ResetHard       == Post("resetHard", "Audio", "HardReset", "idle")

System ==
    \/ Boot \/ BootRadio \/ Await("bootRadioWait", "Bluetooth", "bootDecide")
    \/ BootDecide \/ SystemNext \/ IdleTimeout
    \/ OnAmps \/ OnAmpsWait \/ OnRadio \/ OnRadioWait
    \/ OnConfigure \/ OnConfigureWait \/ OnIcon
    \/ OffStart \/ OffPrepare \/ OffPrepareWait \/ OffIcon \/ OffAnnounce
    \/ OffAnnounceWait \/ OffAmps \/ OffAmpsWait \/ OffRadio \/ OffRadioWait
    \/ OffRelease
    \/ ResetRadio \/ ResetAudio \/ ResetHard

-----------------------------------------------------------------------------
(***************************************************************************)
(* The two peers.                                                          *)
(***************************************************************************)
Becomes(p, d) == doing' = [doing EXCEPT ![p] = d]

\* GenericThread::task_loop takes the next message and enters Callback.
Take(p, m) ==
    /\ doing[p] = "idle" /\ queue[p] # <<>> /\ Head(queue[p]) = m
    /\ queue' = [queue EXCEPT ![p] = Tail(@)]
    /\ Becomes(p, m)

\* Callback_Init ends; Audio's waits for the USB PD controller before that.
PeerInit(p) ==
    /\ doing[p] = "init"
    /\ Becomes(p, "idle")
    /\ notify(p)
    /\ UNCHANGED <<pc, powerState, powerStateFn, queue, faults, amps, radio,
                   audio, supply>>

AudioTake ==
    /\ \E m \in Msg : Take("Audio", m)
    /\ UNCHANGED <<pc, powerState, powerStateFn, note, faults, amps, radio,
                   audio, supply>>

AmpsAfter(m) ==
    CASE m = "Off"                    -> "off"
      [] m = "PreOn" /\ amps = "off"  -> "enabled"
      [] m = "On" /\ amps # "off"     -> "configured"
      [] OTHER                        -> amps

\* PreOff may ask for the battery-low icon, On reports the AUX jack to
\* Bluetooth; whatever was asked for, every SetPowerState ends in notify.
AudioSetPowerState ==
    /\ doing["Audio"] \in PowerMsg
    /\ amps' = AmpsAfter(doing["Audio"])
    /\ \/ doing["Audio"] \in {"PreOff", "On"} /\ PostMsg("Bluetooth", "Other")
       \/ doing["Audio"] # "On" /\ UNCHANGED <<queue, faults>>
    /\ Becomes("Audio", "idle")
    /\ notify("Audio")
    /\ UNCHANGED <<pc, powerState, powerStateFn, radio, audio, supply>>

AudioOther ==
    /\ doing["Audio"] = "Other"
    /\ Becomes("Audio", "idle")
    /\ UNCHANGED <<pc, powerState, powerStateFn, queue, note, faults, amps,
                   radio, audio, supply>>

\* What the button handlers and Battery::poll ask of System: power on only
\* when the speaker is off, power off and a factory reset at any time.
Requests ==
    {"Off"} \cup (IF "reset" \in Inputs THEN {"FactoryResetRequest"} ELSE {})
            \cup (IF powerState = "Off" THEN {"On"} ELSE {})

AudioRequest ==
    /\ doing["Audio"] = "idle" /\ Room("System")
    /\ \E m \in Requests : queue' = [queue EXCEPT !["System"] = Append(@, m)]
    /\ UNCHANGED <<pc, powerState, powerStateFn, doing, note, faults, amps,
                   radio, audio, supply>>

\* The power off of an empty battery, repeated at every poll, meets a full
\* queue: Audio waits in xQueueSend, and does nothing else, until there is
\* room or the post is given up.
AudioBlocks ==
    /\ doing["Audio"] = "idle" /\ ~Room("System")
    /\ Happens("lost")
    /\ Becomes("Audio", "blocked")
    /\ UNCHANGED <<pc, powerState, powerStateFn, queue, note, amps, radio,
                   audio, supply>>

AudioUnblocks ==
    /\ doing["Audio"] = "blocked"
    /\ Becomes("Audio", "idle")
    /\ \/ UNCHANGED queue
       \/ Room("System") /\ queue' = [queue EXCEPT !["System"] = Append(@, "Off")]
    /\ UNCHANGED <<pc, powerState, powerStateFn, note, faults, amps, radio,
                   audio, supply>>

\* (Mutant of AudioSamplesSupply: in any power state.)
AudioSamplesSupplyAlways ==
    /\ doing["Audio"] = "idle" /\ queue["Audio"] = <<>> /\ ~ac
    /\ \/ acLost = "zero" /\ acLost' = "young" /\ UNCHANGED doing
       \/ /\ acLost = "old" /\ acLost' = "zero"
          /\ IF held THEN Becomes("Audio", "release") ELSE UNCHANGED doing
    /\ UNCHANGED <<pc, powerState, powerStateFn, queue, note, faults, amps,
                   radio, audio, held, ac>>

\* Callback_Idle in the Off state samples AC OK through the debouncer.  A
\* second bad sample 2000 ms after the first ends in the 1000 ms delay before
\* the supply is let go; good samples in between leave the timestamp alone.
AudioSamplesSupply ==
    /\ doing["Audio"] = "idle" /\ queue["Audio"] = <<>>
    /\ powerState = "Off" /\ ~ac
    /\ \/ /\ acLost = "zero"
          /\ acLost' = "young"
          /\ UNCHANGED doing
       \/ /\ acLost = "old"
          /\ acLost' = "zero"
          /\ IF held THEN Becomes("Audio", "release") ELSE UNCHANGED doing
    /\ UNCHANGED <<pc, powerState, powerStateFn, queue, note, faults, amps,
                   radio, audio, held, ac>>

AudioReleases ==
    /\ doing["Audio"] = "release"
    /\ held' = FALSE
    /\ Becomes("Audio", "idle")
    /\ UNCHANGED <<pc, powerState, powerStateFn, queue, note, faults, amps,
                   radio, audio, ac, acLost>>

Audio ==
    \/ PeerInit("Audio") \/ AudioTake \/ AudioSetPowerState \/ AudioOther
    \/ AudioRequest \/ AudioBlocks \/ AudioUnblocks
    \/ AudioSamplesSupply \/ AudioReleases

\* SetPowerState{On} powers the module before it waits for it.
BluetoothTake ==
    /\ \E m \in Msg : Take("Bluetooth", m)
    /\ radio' = (radio \/ doing'["Bluetooth"] = "On")
    /\ UNCHANGED <<pc, powerState, powerStateFn, note, faults, amps, audio,
                   supply>>

\* On waits for an audio source, without a timeout.  Off gives up waiting for
\* the confirmation of the module and cuts its power.
BluetoothSetPowerState ==
    /\ doing["Bluetooth"] \in PowerMsg
    /\ doing["Bluetooth"] = "On" => audioSource
    /\ IF doing["Bluetooth"] = "Off"
       THEN radio' = FALSE /\ i2s' = FALSE
       ELSE UNCHANGED <<radio, i2s>>
    /\ Becomes("Bluetooth", "idle")
    /\ notify("Bluetooth")
    /\ UNCHANGED <<pc, powerState, powerStateFn, queue, faults, amps,
                   audioSource, supply>>

BluetoothOther ==
    /\ doing["Bluetooth"] = "Other"
    /\ Becomes("Bluetooth", "idle")
    /\ UNCHANGED <<pc, powerState, powerStateFn, queue, note, faults, amps,
                   radio, audio, supply>>

\* Events of the module are handled inside actionslink_tick(): in
\* Callback_Idle when the speaker is on, and in the loops of On and Off.
Ticking ==
    /\ radio
    /\ \/ doing["Bluetooth"] = "idle" /\ queue["Bluetooth"] = <<>> /\ powerState = "On"
       \/ doing["Bluetooth"] \in {"On", "Off"}

\* The module starts the I2S clocks and reports its audio source.
BluetoothSource ==
    /\ Ticking /\ ~i2s
    /\ i2s' = TRUE /\ audioSource' = TRUE
    /\ UNCHANGED <<pc, powerState, powerStateFn, queue, doing, note, faults,
                   amps, radio, supply>>

\* Events that post: UserActivity to System, a volume to Audio, a sound icon
\* to Bluetooth itself.
BluetoothEvent ==
    /\ "module" \in Inputs
    /\ Ticking
    /\ \E t \in Task : Room(t) /\ PostMsg(t, "Other")
    /\ UNCHANGED <<pc, powerState, powerStateFn, doing, note, amps, radio,
                   audio, supply>>

\* on_notify_csb_state, the broadcaster powered off: SetPowerState{Off} goes
\* into the queue of the Bluetooth task itself.
BroadcasterPowerOff ==
    /\ Ticking
    /\ Room("Bluetooth")
    /\ Happens("stray")
    /\ queue' = [queue EXCEPT !["Bluetooth"] = Append(@, "Off")]
    /\ UNCHANGED <<pc, powerState, powerStateFn, doing, note, amps, radio,
                   audio, supply>>

Bluetooth ==
    \/ PeerInit("Bluetooth") \/ BluetoothTake \/ BluetoothSetPowerState
    \/ BluetoothOther \/ BluetoothSource \/ BluetoothEvent
    \/ BroadcasterPowerOff

-----------------------------------------------------------------------------
(***************************************************************************)
(* The surroundings.                                                       *)
(***************************************************************************)
\* The charger is plugged or unplugged.
Supply ==
    /\ "charger" \in Inputs
    /\ ac' = ~ac
    /\ UNCHANGED <<pc, powerState, powerStateFn, queue, doing, note, faults,
                   amps, radio, audio, held, acLost>>

\* 2000 ms pass while System waits: it does not leave a message unread, or
\* stay between two steps, that long.
Time ==
    /\ acLost = "young" /\ acLost' = "old"
    /\ \/ pc = "idle" /\ queue["System"] = <<>>
       \/ \E p \in Peer : Waits(p) /\ note[p] = 0
    /\ UNCHANGED <<pc, powerState, powerStateFn, queue, doing, note, faults,
                   amps, radio, audio, held, ac>>

\* Every variable starts again.
Restart ==
    /\ pc' = "boot"
    /\ powerState' = "Transition"
    /\ powerStateFn' = "power_state_off"
    /\ queue' = [t \in Task |-> <<>>]
    /\ doing' = [p \in Peer |-> "down"]
    /\ note' = [p \in Peer |-> 0]
    /\ faults' = {}
    /\ amps' = "off"
    /\ radio' = FALSE
    /\ i2s' = FALSE
    /\ audioSource' = FALSE
    /\ held' = FALSE
    /\ ac' \in Supplies
    /\ acLost' = "zero"

\* Nothing supplies the MCU: the button, which may do so too, is up.
PowerLost == pc # "boot" /\ ~held /\ ~ac /\ Restart

\* Audio handles HardReset: amplifiers off, NVIC_SystemReset.
HardReset == doing["Audio"] = "HardReset" /\ Restart

Next ==
    \/ System \/ Audio \/ Bluetooth
    \/ Supply \/ Time \/ PowerLost \/ HardReset

Spec == Init /\ [][Next]_vars

(***************************************************************************)
(* Fairness.  FreeRTOS runs every ready task; a handler that has what it   *)
(* waits for ends, and the module reports its audio source while Bluetooth *)
(* waits for it.  A sender that waits for room is served although others   *)
(* may fill the queue again: hence the strong fairness of System.  Nobody  *)
(* has to press a button, and no timeout has to expire.                    *)
(***************************************************************************)
SystemRuns == System /\ ~(pc = "idle" /\ queue["System"] = <<>>)

AudioRuns ==
    \/ PeerInit("Audio") \/ AudioTake \/ AudioSetPowerState \/ AudioOther
    \/ AudioUnblocks \/ AudioReleases

BluetoothRuns ==
    \/ PeerInit("Bluetooth") \/ BluetoothTake \/ BluetoothSetPowerState
    \/ BluetoothOther \/ (doing["Bluetooth"] = "On" /\ BluetoothSource)

Fairness ==
    /\ SF_vars(SystemRuns)
    /\ WF_vars(AudioRuns)
    /\ WF_vars(BluetoothRuns)
    /\ WF_vars(HardReset)

FairSpec == Spec /\ Fairness

-----------------------------------------------------------------------------
(***************************************************************************)
(* Properties.                                                             *)
(***************************************************************************)
\* Audio and System agree on what was asked and answered while nobody has
\* been late and no message was lost; Bluetooth may also be told to power off
\* behind System's back.
Undisturbed(p) ==
    faults \cap {"late", "lost"} = {} /\ (p = "Bluetooth" => "stray" \notin faults)

IsPower(m) == m \in PowerMsg

Queued(p)   == {i \in DOMAIN queue[p] : IsPower(queue[p][i])}
Handling(p) == IsPower(doing[p]) \/ doing[p] = "init"

\* The handshake keeps step: while System waits for a peer, the one request
\* it has made is in the queue, in the handler or answered, and at no other
\* time does the peer have a request to answer or an answer to give.  An
\* answer left over is taken by the wrong await.
InStep ==
    \A p \in Peer : Undisturbed(p) =>
        IF Waits(p)
        THEN \/ /\ note[p] = 0 /\ Handling(p) /\ Queued(p) = {}
             \/ /\ note[p] = 0 /\ ~Handling(p)
                /\ \E i \in Queued(p) : Queued(p) = {i}
             \/ /\ note[p] = 1 /\ ~Handling(p) /\ Queued(p) = {}
        ELSE note[p] = 0 /\ ~Handling(p) /\ Queued(p) = {}

\* Amplifiers that play have a module that clocks them: it starts before they
\* are configured and, on the way down, stops after they are off.
AmpsNeedRadio == faults = {} => (amps = "configured" => radio)

\* The published power state tells the truth about the hardware.
Settled ==
    /\ Undisturbed("Audio") =>
          /\ powerState = "On"  => amps = "configured"
          /\ powerState = "Off" => amps = "off"
    /\ Undisturbed("Bluetooth") =>
          /\ powerState = "On"  => radio
          /\ powerState = "Off" => ~radio

\* The state leaves Transition only when both tasks have been initialised.
InitializedBeforeOff ==
    "late" \notin faults =>
      (powerState # "Transition" =>
         \A p \in Peer : doing[p] \notin {"down", "init"})

LetsGoDown ==
    held /\ ~held' => /\ Undisturbed("Audio")     => amps' = "off"
                      /\ Undisturbed("Bluetooth") => ~radio'

\* The supply is let go only when amplifiers and module are down, whichever
\* of System and Audio does it: after Audio's delay as well, although System
\* may have begun to power on.
HeldUntilDown == [][LetsGoDown]_vars

\* However late the answers come, a peer that has worked through its queue is
\* in the state System ended in.  (A lost request is not made good.)
DrainedMeansSettled ==
    (/\ faults \subseteq {"late"} /\ pc = "idle"
     /\ \A p \in Peer : doing[p] = "idle" /\ queue[p] = <<>>)
      => /\ powerState = "On"  => amps = "configured" /\ radio
         /\ powerState = "Off" => amps = "off" /\ ~radio

\* A power off that System's queue has accepted is carried out, even when it
\* arrives in the middle of a power on, the peers answer late and Audio waits
\* for room in that very queue; only a restart of the MCU may come first.
PowerOffHonoured ==
    (\E i \in DOMAIN queue["System"] : queue["System"][i] = "Off")
      ~> (powerState = "Off" \/ pc = "boot")

\* The sequence keeps the promise of PowerRails.
phase ==
    IF powerState # "Transition" THEN powerState
    ELSE CASE pc \in BootPoint -> "Boot"
           [] pc \in OnPoint   -> "Rising"
           [] OTHER            -> "Falling"

Rails == INSTANCE PowerRails

RailsSpec == Rails!Spec

-----------------------------------------------------------------------------
(***************************************************************************)
(* What comments of the code say and the code does not keep.               *)
(***************************************************************************)
\* "CSB_Receiver power off when broadcaster power off."
ReceiverFollowsBroadcaster ==
    "stray" \in faults ~> (powerState = "Off" \/ pc = "boot")
=============================================================================
