---------------------------- MODULE PowerInvariant ----------------------------
(***************************************************************************)
(* The inductive invariant behind InStep, Settled, AmpsNeedRadio and       *)
(* HeldUntilDown: where System is tells what each peer has been asked, and *)
(* with the answer, what the amplifiers and the module are doing.          *)
(***************************************************************************)
EXTENDS PowerSequence

(***************************************************************************)
(* System's own bookkeeping, whatever the faults.                          *)
(***************************************************************************)
AtRest == {"idle"} \cup ResetPoint

Control ==
    /\ pc \in BootPoint \cup OnPoint  => powerStateFn = "power_state_off"
    /\ pc \in OffPoint                => powerStateFn = "power_state_on"
    /\ powerState = "On"  => /\ pc \in AtRest \cup {"offStart", "offPrepare"}
                             /\ powerStateFn = "power_state_on"
    /\ powerState = "Off" => /\ pc \in AtRest \cup {"onAmps"}
                             /\ powerStateFn = "power_state_off"
    /\ pc \in AtRest \cup {"onAmps", "offStart", "offPrepare"} =>
         powerState # "Transition"

\* A task that is not created or not initialised has not answered anything.
Booting ==
    /\ doing["Audio"] = "down"     => pc = "boot"
    /\ doing["Bluetooth"] = "down" => pc \in {"boot", "bootAudioWait"}
    /\ pc = "boot"                 => doing["Audio"] = "down"
    /\ pc \in {"boot", "bootAudioWait"} => doing["Bluetooth"] = "down"
    /\ \A p \in Peer : doing[p] \in {"down", "init"} => note[p] = 0

InitAwaited ==
    "late" \notin faults =>
      /\ doing["Audio"] = "init"     => pc = "bootAudioWait"
      /\ doing["Bluetooth"] = "init" => pc = "bootRadioWait"

(***************************************************************************)
(* The handshake with one peer.                                            *)
(***************************************************************************)
NoPower(q) == \A i \in DOMAIN q : ~IsPower(q[i])

OnlyPower(q, m) ==
    \E i \in DOMAIN q : q[i] = m /\ \A j \in DOMAIN q : IsPower(q[j]) => j = i

Quiet(p)      == note[p] = 0 /\ ~Handling(p) /\ NoPower(queue[p])
InQueue(p, m) == note[p] = 0 /\ ~Handling(p) /\ OnlyPower(queue[p], m)
InHand(p, m)  == note[p] = 0 /\ doing[p] = m /\ NoPower(queue[p])
Answered(p)   == note[p] = 1 /\ ~Handling(p) /\ NoPower(queue[p])

\* What System has asked of the peer it waits for: SetPowerState{to}, or, at
\* the start of the task, its initialisation.
Asked ==
    CASE pc \in {"bootAudioWait", "bootRadioWait"}    -> "init"
      [] pc = "onAmpsWait"                            -> "PreOn"
      [] pc \in {"onRadioWait", "onConfigureWait"}    -> "On"
      [] pc \in {"offPrepareWait", "offAnnounceWait"} -> "PreOff"
      [] OTHER                                        -> "Off"

AskedOf(p, m) == InQueue(p, m) \/ InHand(p, m) \/ Answered(p)

Agrees(p) ==
    Undisturbed(p) => IF Waits(p) THEN AskedOf(p, Asked) ELSE Quiet(p)

(***************************************************************************)
(* The hardware at each point of the sequence.                             *)
(***************************************************************************)
AmpsOff        == BootPoint \cup {"onAmps", "offRadio", "offRadioWait", "offRelease"}
AmpsEnabled    == {"onRadio", "onRadioWait", "onConfigure"}
AmpsConfigured == {"onIcon", "offStart", "offPrepare", "offPrepareWait", "offIcon",
                   "offAnnounce", "offAnnounceWait", "offAmps"}

AmpsFit ==
    Undisturbed("Audio") =>
      /\ pc \in AmpsOff        => amps = "off"
      /\ pc \in AmpsEnabled    => amps = "enabled"
      /\ pc \in AmpsConfigured => amps = "configured"
      /\ pc \in AtRest =>
           amps = IF powerStateFn = "power_state_on" THEN "configured" ELSE "off"
      /\ pc = "onAmpsWait" =>
           amps = IF note["Audio"] = 1 THEN "enabled" ELSE "off"
      /\ pc = "onConfigureWait" =>
           amps = IF note["Audio"] = 1 THEN "configured" ELSE "enabled"
      /\ pc = "offAmpsWait" =>
           amps = IF note["Audio"] = 1 THEN "off" ELSE "configured"

RadioOff == BootPoint \cup {"onAmps", "onAmpsWait", "onRadio", "offRelease"}
RadioOn  == {"onConfigure", "onConfigureWait", "offAmpsWait", "offRadio"}
              \cup AmpsConfigured

RadioFit ==
    Undisturbed("Bluetooth") =>
      /\ pc \in RadioOff => ~radio
      /\ pc \in RadioOn  => radio
      /\ pc \in AtRest   => (radio <=> powerStateFn = "power_state_on")
      /\ pc = "onRadioWait" =>
           (radio <=> doing["Bluetooth"] = "On" \/ note["Bluetooth"] = 1)
      /\ pc = "offRadioWait" => (radio <=> note["Bluetooth"] = 0)

\* While Audio is in the delay before it lets the supply go, System may have
\* begun to power on, but cannot get past the first answer of Audio.
Releasing ==
    Undisturbed("Audio") =>
      (doing["Audio"] = "release" =>
         /\ pc \in AtRest \cup {"onAmps", "onAmpsWait"}
         /\ powerStateFn = "power_state_off"
         /\ note["Audio"] = 0)

(***************************************************************************)
(* At each point of the sequence, the handshake is where System believes   *)
(* it is, and the hardware is where that point says.                       *)
(***************************************************************************)
Inv ==
    /\ Control /\ Booting /\ InitAwaited
    /\ \A p \in Peer : Agrees(p)
    /\ AmpsFit /\ RadioFit /\ Releasing

(***************************************************************************)
(* Late answers.  The handshake loses its step, and what a peer is doing   *)
(* tells nothing about where System is.  What remains is where the peer's  *)
(* hardware will be when it has worked through its queue: h tells through  *)
(* which states its messages lead it.                                      *)
(***************************************************************************)
Hardware(p) == IF p = "Audio" THEN amps ELSE IF radio THEN "powered" ELSE "off"

HardwareState(p) == IF p = "Audio" THEN {"off", "enabled", "configured"}
                                   ELSE {"off", "powered"}

Effect(p, m, s) ==
    IF p = "Audio"
    THEN CASE m = "Off"                -> "off"
           [] m = "PreOn" /\ s = "off" -> "enabled"
           [] m = "On" /\ s # "off"    -> "configured"
           [] OTHER                    -> s
    ELSE CASE m = "Off" -> "off"
           [] m = "On"  -> "powered"
           [] OTHER     -> s

Leads(p, from, q, to) ==
    \E h \in [1 .. Len(q) + 1 -> HardwareState(p)] :
        /\ h[1] = from
        /\ \A i \in 1 .. Len(q) : h[i + 1] = Effect(p, q[i], h[i])
        /\ h[Len(q) + 1] = to

\* Where the last message that System has posted leaves the hardware, when
\* System is at that point.
AmpsTarget(point, fn) ==
    CASE point \in AtRest /\ fn = "power_state_on"         -> "configured"
      [] point \in {"onAmpsWait"} \cup AmpsEnabled         -> "enabled"
      [] point \in {"onConfigureWait"} \cup AmpsConfigured -> "configured"
      [] OTHER                                             -> "off"

RadioTarget(point, fn) ==
    CASE point \in AtRest /\ fn = "power_state_on" -> "powered"
      [] point \in {"onRadioWait"} \cup RadioOn    -> "powered"
      [] OTHER                                     -> "off"

Target(p) == IF p = "Audio" THEN AmpsTarget(pc, powerStateFn)
                            ELSE RadioTarget(pc, powerStateFn)

WorksOff(p) == Leads(p, Effect(p, doing[p], Hardware(p)), queue[p], Target(p))

LateInv ==
    /\ faults \subseteq {"late"} => \A p \in Peer : WorksOff(p)
    /\ doing["Bluetooth"] = "On" => radio
=============================================================================
