------------------------- MODULE PowerSequence_proofs -------------------------
(***************************************************************************)
(* Proofs about PowerSequence, for every queue length, every set of inputs *)
(* and every set of faults: Inv is an invariant, and with it InStep,       *)
(* Settled, AmpsNeedRadio, InitializedBeforeOff and HeldUntilDown.  When   *)
(* answers are late: DrainedMeansSettled.  Without faults: PowerRails.     *)
(***************************************************************************)
EXTENDS PowerInvariant, SequenceTheorems, TLAPS

-----------------------------------------------------------------------------
(***************************************************************************)
(* Type correctness.                                                       *)
(***************************************************************************)
QueueOK ==
    /\ queue \in [Task -> Seq(Msg)]
    /\ \A t \in Task : Len(queue[t]) <= QueueSize[t]

\* The names of the messages.
LEMMA MsgNames ==
    /\ PowerMsg \subseteq Msg
    /\ {"FactoryResetRequest", "HardReset", "Other"} \subseteq Msg
    /\ {"PreOn", "On", "PreOff", "Off"} \subseteq Msg
    /\ Msg \subseteq Doing
  BY DEF PowerMsg, Msg, Doing

\* A message that finds room leaves well-formed queues.
LEMMA AppendType ==
  ASSUME QueueOK, NEW t \in Task, NEW m \in Msg, Room(t),
         queue' = [queue EXCEPT ![t] = Append(@, m)]
  PROVE  QueueOK'
<1>1. queue[t] \in Seq(Msg)
  BY DEF QueueOK
<1>2. /\ Append(queue[t], m) \in Seq(Msg)
      /\ Len(Append(queue[t], m)) = Len(queue[t]) + 1
      /\ Len(queue[t]) \in Nat
  BY <1>1
<1>3. QueueSize[t] \in Nat
  BY PowerAssumption
<1>4. queue' \in [Task -> Seq(Msg)]
  BY <1>2 DEF QueueOK
<1>5. \A u \in Task : Len(queue'[u]) <= QueueSize[u]
  <2> SUFFICES ASSUME NEW u \in Task PROVE Len(queue'[u]) <= QueueSize[u]
    OBVIOUS
  <2>1. CASE u = t
    <3>1. queue'[u] = Append(queue[t], m)
      BY <2>1 DEF QueueOK
    <3> QED
      BY <3>1, <2>1, <1>2, <1>3 DEF Room
  <2>2. CASE u # t
    <3>1. queue'[u] = queue[u]
      BY <2>2 DEF QueueOK
    <3> QED
      BY <3>1 DEF QueueOK
  <2> QED
    BY <2>1, <2>2
<1> QED
  BY <1>4, <1>5 DEF QueueOK

\* Taking the first message leaves well-formed queues, and yields a message.
LEMMA TailType ==
  ASSUME QueueOK, NEW t \in Task, queue[t] # <<>>,
         queue' = [queue EXCEPT ![t] = Tail(@)]
  PROVE  QueueOK' /\ Head(queue[t]) \in Msg
<1>1. queue[t] \in Seq(Msg)
  BY DEF QueueOK
<1>2. /\ Tail(queue[t]) \in Seq(Msg)
      /\ Head(queue[t]) \in Msg
      /\ Len(Tail(queue[t])) = Len(queue[t]) - 1
      /\ Len(queue[t]) \in Nat
  BY <1>1, HeadTailProperties
<1>3. \A u \in Task : QueueSize[u] \in Nat
  BY PowerAssumption
<1>4. queue' \in [Task -> Seq(Msg)]
  BY <1>2 DEF QueueOK
<1>5. \A u \in Task : Len(queue'[u]) <= QueueSize[u]
  <2> SUFFICES ASSUME NEW u \in Task PROVE Len(queue'[u]) <= QueueSize[u]
    OBVIOUS
  <2>1. CASE u = t
    <3>1. queue'[u] = Tail(queue[t]) /\ Len(queue[t]) <= QueueSize[t]
      BY <2>1 DEF QueueOK
    <3> QED
      BY <3>1, <2>1, <1>2, <1>3
  <2>2. CASE u # t
    <3>1. queue'[u] = queue[u]
      BY <2>2 DEF QueueOK
    <3> QED
      BY <3>1 DEF QueueOK
  <2> QED
    BY <2>1, <2>2
<1> QED
  BY <1>2, <1>4, <1>5 DEF QueueOK

LEMMA PostMsgType ==
  ASSUME QueueOK, faults \subseteq Faults, NEW t \in Task, NEW m \in Msg,
         PostMsg(t, m)
  PROVE  QueueOK' /\ faults' \subseteq Faults
<1>1. CASE Room(t) /\ queue' = [queue EXCEPT ![t] = Append(@, m)]
           /\ UNCHANGED faults
  BY <1>1, AppendType
<1>2. CASE Happens("lost") /\ UNCHANGED queue
  BY <1>2 DEF Happens, QueueOK
<1>3. CASE UNCHANGED <<queue, faults>>
  BY <1>3 DEF QueueOK
<1> QED
  BY <1>1, <1>2, <1>3 DEF PostMsg

LEMMA awaitType ==
  ASSUME note \in [Peer -> 0..1], faults \subseteq Faults, NEW p \in Peer,
         await(p)
  PROVE  note' \in [Peer -> 0..1] /\ faults' \subseteq Faults
  BY DEF await, Happens

LEMMA notifyType ==
  ASSUME note \in [Peer -> 0..1], NEW p \in Peer, notify(p)
  PROVE  note' \in [Peer -> 0..1]
  BY DEF notify

\* The names of the points.
LEMMA PointNames ==
    /\ {"boot", "bootAudioWait", "bootRadioWait", "bootDecide", "idle"}
         \subseteq Point
    /\ {"onAmps", "onAmpsWait", "onRadio", "onRadioWait", "onConfigure",
        "onConfigureWait", "onIcon"} \subseteq Point
    /\ {"offStart", "offPrepare", "offPrepareWait", "offIcon", "offAnnounce",
        "offAnnounceWait", "offAmps", "offAmpsWait", "offRadio",
        "offRadioWait", "offRelease"} \subseteq Point
    /\ {"resetRadio", "resetAudio", "resetHard"} \subseteq Point
  BY DEF Point, OnPoint, OffPoint, BootPoint, ResetPoint

LEMMA PostStepType ==
  ASSUME TypeOK, NEW from, NEW to \in Point, NEW t \in Task, NEW m \in Msg,
         Post(from, t, m, to)
  PROVE  TypeOK'
<1>1. QueueOK' /\ faults' \subseteq Faults
  BY PostMsgType DEF Post, TypeOK, QueueOK
<1> QED
  BY <1>1 DEF Post, Goto, TypeOK, QueueOK, audio, supply

LEMMA AwaitStepType ==
  ASSUME TypeOK, NEW from, NEW to \in Point, NEW p \in Peer,
         Await(from, p, to)
  PROVE  TypeOK'
<1>1. note' \in [Peer -> 0..1] /\ faults' \subseteq Faults
  BY awaitType DEF Await, TypeOK
<1> QED
  BY <1>1 DEF Await, Goto, TypeOK, audio, supply

LEMMA SystemType ==
  ASSUME TypeOK, System
  PROVE  TypeOK'
<1> USE MsgNames, PointNames DEF Task, Peer
<1>q. QueueOK /\ faults \subseteq Faults /\ note \in [Peer -> 0..1]
  BY DEF TypeOK, QueueOK
<1>1. CASE Boot
  BY <1>1 DEF Boot, Goto, TypeOK, audio, supply, Doing
<1>2. CASE BootRadio
  <2>1. note' \in [Peer -> 0..1] /\ faults' \subseteq Faults
    BY <1>2, <1>q, awaitType DEF BootRadio
  <2> QED
    BY <2>1, <1>2 DEF BootRadio, Goto, TypeOK, audio, supply, Doing
<1>3. CASE Await("bootRadioWait", "Bluetooth", "bootDecide")
  BY <1>3, AwaitStepType
<1>4. CASE BootDecide
  <2>1. QueueOK' /\ faults' \subseteq Faults
    BY <1>4, <1>q, PostMsgType DEF BootDecide, QueueOK
  <2>2. held' \in BOOLEAN
    BY <1>4 DEF BootDecide, TypeOK
  <2> QED
    BY <2>1, <2>2, <1>4 DEF BootDecide, Goto, TypeOK, QueueOK, audio, supply
<1>5. CASE SystemNext
  <2>1. QueueOK'
    BY <1>5, <1>q, TailType DEF SystemNext
  <2>2. pc' \in Point
    BY <1>5 DEF SystemNext
  <2> QED
    BY <2>1, <2>2, <1>5 DEF SystemNext, TypeOK, QueueOK, audio, supply
<1>6. CASE IdleTimeout
  BY <1>6 DEF IdleTimeout, TypeOK, audio, supply
<1>7. CASE OnAmps
  <2>1. QueueOK' /\ faults' \subseteq Faults
    BY <1>7, <1>q, PostMsgType DEF OnAmps
  <2> QED
    BY <2>1, <1>7 DEF OnAmps, Goto, TypeOK, QueueOK, audio
<1>8. CASE OnAmpsWait \/ OnRadioWait \/ OnConfigureWait
  BY <1>8, AwaitStepType DEF OnAmpsWait, OnRadioWait, OnConfigureWait
<1>9. CASE OnRadio \/ OnConfigure
  BY <1>9, PostStepType DEF OnRadio, OnConfigure
<1>10. CASE OnIcon
  <2>1. QueueOK' /\ faults' \subseteq Faults
    BY <1>10, <1>q, PostMsgType DEF OnIcon
  <2> QED
    BY <2>1, <1>10 DEF OnIcon, Goto, TypeOK, QueueOK, audio, supply
<1>11. CASE OffStart
  <2>1. CASE Post("offStart", "Bluetooth", "Other", "offPrepare")
    BY <2>1, PostStepType
  <2> QED
    BY <2>1, <1>11 DEF OffStart, Goto, TypeOK, audio, supply
<1>12. CASE OffPrepare
  <2>1. QueueOK' /\ faults' \subseteq Faults
    BY <1>12, <1>q, PostMsgType DEF OffPrepare
  <2> QED
    BY <2>1, <1>12 DEF OffPrepare, Goto, TypeOK, QueueOK, audio, supply
<1>13. CASE OffIcon
  <2>1. CASE Post("offIcon", "Bluetooth", "Other", "offAnnounce")
    BY <2>1, PostStepType
  <2> QED
    BY <2>1, <1>13 DEF OffIcon, Goto, TypeOK, audio, supply
<1>14. CASE OffPrepareWait \/ OffAnnounceWait \/ OffAmpsWait \/ OffRadioWait
  BY <1>14, AwaitStepType
     DEF OffPrepareWait, OffAnnounceWait, OffAmpsWait, OffRadioWait
<1>15. CASE OffAnnounce \/ OffAmps \/ OffRadio
  BY <1>15, PostStepType DEF OffAnnounce, OffAmps, OffRadio
<1>16. CASE OffRelease
  BY <1>16 DEF OffRelease, Goto, TypeOK, audio
<1>17. CASE ResetRadio \/ ResetAudio \/ ResetHard
  BY <1>17, PostStepType DEF ResetRadio, ResetAudio, ResetHard
<1> QED
  BY <1>1, <1>2, <1>3, <1>4, <1>5, <1>6, <1>7, <1>8, <1>9, <1>10, <1>11,
     <1>12, <1>13, <1>14, <1>15, <1>16, <1>17 DEF System

LEMMA BecomesType ==
  ASSUME doing \in [Peer -> Doing], NEW p \in Peer, NEW d \in Doing,
         Becomes(p, d)
  PROVE  doing' \in [Peer -> Doing]
  BY DEF Becomes

LEMMA TakeType ==
  ASSUME QueueOK, doing \in [Peer -> Doing], NEW p \in Peer, NEW m \in Msg,
         Take(p, m)
  PROVE  QueueOK' /\ doing' \in [Peer -> Doing]
<1>1. p \in Task
  BY DEF Peer, Task
<1>2. QueueOK'
  BY <1>1, TailType DEF Take
<1>3. doing' \in [Peer -> Doing]
  BY BecomesType, MsgNames DEF Take
<1> QED
  BY <1>2, <1>3

LEMMA PeerInitType ==
  ASSUME TypeOK, NEW p \in Peer, PeerInit(p)
  PROVE  TypeOK'
<1>1. note' \in [Peer -> 0..1]
  BY notifyType DEF PeerInit, TypeOK
<1>2. doing' \in [Peer -> Doing]
  BY DEF PeerInit, Becomes, TypeOK, Doing
<1> QED
  BY <1>1, <1>2 DEF PeerInit, TypeOK, audio, supply

LEMMA AudioType ==
  ASSUME TypeOK, Audio
  PROVE  TypeOK'
<1> USE MsgNames DEF Task, Peer
<1>q. /\ QueueOK /\ faults \subseteq Faults /\ note \in [Peer -> 0..1]
      /\ doing \in [Peer -> Doing]
  BY DEF TypeOK, QueueOK
<1>d. {"idle", "blocked", "release"} \subseteq Doing
  BY DEF Doing
<1>1. CASE PeerInit("Audio")
  BY <1>1, PeerInitType
<1>2. CASE AudioTake
  <2>1. QueueOK' /\ doing' \in [Peer -> Doing]
    BY <1>2, <1>q, TakeType DEF AudioTake
  <2> QED
    BY <2>1, <1>2 DEF AudioTake, TypeOK, QueueOK, audio, supply
<1>3. CASE AudioSetPowerState
  <2>1. QueueOK' /\ faults' \subseteq Faults
    BY <1>3, <1>q, PostMsgType DEF AudioSetPowerState, QueueOK
  <2>2. note' \in [Peer -> 0..1]
    BY <1>3, <1>q, notifyType DEF AudioSetPowerState
  <2>3. doing' \in [Peer -> Doing]
    BY <1>3, <1>q, <1>d, BecomesType DEF AudioSetPowerState
  <2>4. amps' \in {"off", "enabled", "configured"}
    BY <1>3 DEF AudioSetPowerState, AmpsAfter, TypeOK
  <2> QED
    BY <2>1, <2>2, <2>3, <2>4, <1>3
       DEF AudioSetPowerState, TypeOK, QueueOK, audio, supply
<1>4. CASE AudioOther
  <2>1. doing' \in [Peer -> Doing]
    BY <1>4, <1>q, <1>d, BecomesType DEF AudioOther
  <2> QED
    BY <2>1, <1>4 DEF AudioOther, TypeOK, audio, supply
<1>5. CASE AudioRequest
  <2>1. Requests \subseteq Msg
    BY DEF Requests
  <2>2. QueueOK'
    BY <2>1, <1>5, <1>q, AppendType DEF AudioRequest
  <2> QED
    BY <2>2, <1>5 DEF AudioRequest, TypeOK, QueueOK, audio, supply
<1>6. CASE AudioBlocks
  <2>1. doing' \in [Peer -> Doing]
    BY <1>6, <1>q, <1>d, BecomesType DEF AudioBlocks
  <2> QED
    BY <2>1, <1>6 DEF AudioBlocks, Happens, TypeOK, audio, supply
<1>7. CASE AudioUnblocks
  <2>1. doing' \in [Peer -> Doing]
    BY <1>7, <1>q, <1>d, BecomesType DEF AudioUnblocks
  <2>2. QueueOK'
    BY <1>7, <1>q, AppendType DEF AudioUnblocks, QueueOK
  <2> QED
    BY <2>1, <2>2, <1>7 DEF AudioUnblocks, TypeOK, QueueOK, audio, supply
<1>8. CASE AudioSamplesSupply
  <2>1. doing' \in [Peer -> Doing]
    BY <1>8, <1>q, <1>d, BecomesType DEF AudioSamplesSupply
  <2> QED
    BY <2>1, <1>8 DEF AudioSamplesSupply, TypeOK, audio
<1>9. CASE AudioReleases
  <2>1. doing' \in [Peer -> Doing]
    BY <1>9, <1>q, <1>d, BecomesType DEF AudioReleases
  <2> QED
    BY <2>1, <1>9 DEF AudioReleases, TypeOK, audio
<1> QED
  BY <1>1, <1>2, <1>3, <1>4, <1>5, <1>6, <1>7, <1>8, <1>9 DEF Audio

LEMMA BluetoothType ==
  ASSUME TypeOK, Bluetooth
  PROVE  TypeOK'
<1> USE MsgNames DEF Task, Peer
<1>q. /\ QueueOK /\ faults \subseteq Faults /\ note \in [Peer -> 0..1]
      /\ doing \in [Peer -> Doing] /\ "idle" \in Doing
  BY DEF TypeOK, QueueOK, Doing
<1>1. CASE PeerInit("Bluetooth")
  BY <1>1, PeerInitType
<1>2. CASE BluetoothTake
  <2>1. QueueOK' /\ doing' \in [Peer -> Doing]
    BY <1>2, <1>q, TakeType DEF BluetoothTake
  <2>2. radio' \in BOOLEAN
    BY <1>2 DEF BluetoothTake
  <2> QED
    BY <2>1, <2>2, <1>2 DEF BluetoothTake, TypeOK, QueueOK, audio, supply
<1>3. CASE BluetoothSetPowerState
  <2>1. note' \in [Peer -> 0..1]
    BY <1>3, <1>q, notifyType DEF BluetoothSetPowerState
  <2>2. doing' \in [Peer -> Doing]
    BY <1>3, <1>q, BecomesType DEF BluetoothSetPowerState
  <2> QED
    BY <2>1, <2>2, <1>3 DEF BluetoothSetPowerState, TypeOK, supply
<1>4. CASE BluetoothOther
  <2>1. doing' \in [Peer -> Doing]
    BY <1>4, <1>q, BecomesType DEF BluetoothOther
  <2> QED
    BY <2>1, <1>4 DEF BluetoothOther, TypeOK, audio, supply
<1>5. CASE BluetoothSource
  BY <1>5 DEF BluetoothSource, TypeOK, supply
<1>6. CASE BluetoothEvent
  <2>1. QueueOK' /\ faults' \subseteq Faults
    BY <1>6, <1>q, PostMsgType DEF BluetoothEvent
  <2> QED
    BY <2>1, <1>6 DEF BluetoothEvent, TypeOK, QueueOK, audio, supply
<1>7. CASE BroadcasterPowerOff
  <2>1. QueueOK'
    BY <1>7, <1>q, AppendType DEF BroadcasterPowerOff
  <2> QED
    BY <2>1, <1>7
       DEF BroadcasterPowerOff, Happens, TypeOK, QueueOK, audio, supply
<1> QED
  BY <1>1, <1>2, <1>3, <1>4, <1>5, <1>6, <1>7 DEF Bluetooth

\* The empty queues of a start are well formed.
LEMMA StartType == [t \in Task |-> <<>>] \in [Task -> Seq(Msg)]
  OBVIOUS

LEMMA InitType == Init => TypeOK
<1> SUFFICES ASSUME Init PROVE TypeOK
  OBVIOUS
<1>1. queue \in [Task -> Seq(Msg)]
  BY StartType DEF Init
<1>2. \A t \in Task : Len(queue[t]) <= QueueSize[t]
  <2> SUFFICES ASSUME NEW t \in Task PROVE Len(queue[t]) <= QueueSize[t]
    OBVIOUS
  <2>1. queue[t] = <<>> /\ QueueSize[t] \in Nat
    BY PowerAssumption DEF Init
  <2> QED
    BY <2>1
<1>3. ac \in BOOLEAN
  BY DEF Init, Supplies
<1>4. doing \in [Peer -> Doing] /\ note \in [Peer -> 0..1]
  BY DEF Init, Doing
<1>5. pc \in Point
  BY PointNames DEF Init
<1> QED
  BY <1>1, <1>2, <1>3, <1>4, <1>5 DEF Init, TypeOK

LEMMA RestartType ==
  ASSUME Restart
  PROVE  TypeOK'
<1>1. queue' \in [Task -> Seq(Msg)]
  BY StartType DEF Restart
<1>2. \A t \in Task : Len(queue'[t]) <= QueueSize[t]
  <2> SUFFICES ASSUME NEW t \in Task PROVE Len(queue'[t]) <= QueueSize[t]
    OBVIOUS
  <2>1. queue'[t] = <<>> /\ QueueSize[t] \in Nat
    BY PowerAssumption DEF Restart
  <2> QED
    BY <2>1
<1>3. ac' \in BOOLEAN
  BY DEF Restart, Supplies
<1>4. doing' \in [Peer -> Doing] /\ note' \in [Peer -> 0..1]
  BY DEF Restart, Doing
<1>5. pc' \in Point
  BY PointNames DEF Restart
<1> QED
  BY <1>1, <1>2, <1>3, <1>4, <1>5 DEF Restart, TypeOK

LEMMA NextType ==
  ASSUME TypeOK, [Next]_vars
  PROVE  TypeOK'
<1>1. CASE System
  BY <1>1, SystemType
<1>2. CASE Audio
  BY <1>2, AudioType
<1>3. CASE Bluetooth
  BY <1>3, BluetoothType
<1>4. CASE Supply
  BY <1>4 DEF Supply, TypeOK, audio
<1>5. CASE Time
  BY <1>5 DEF Time, TypeOK, audio
<1>6. CASE PowerLost \/ HardReset
  BY <1>6, RestartType DEF PowerLost, HardReset
<1>7. CASE UNCHANGED vars
  BY <1>7 DEF vars, TypeOK
<1> QED
  BY <1>1, <1>2, <1>3, <1>4, <1>5, <1>6, <1>7 DEF Next

\* Every variable keeps its type, and no queue outgrows its size: whatever
\* the three tasks and the surroundings do, in any order.
THEOREM TypeCorrect == Spec => []TypeOK
<1>1. Init => TypeOK
  BY InitType
<1>2. TypeOK /\ [Next]_vars => TypeOK'
  BY NextType
<1> QED
  BY <1>1, <1>2, PTL DEF Spec

-----------------------------------------------------------------------------
(***************************************************************************)
(* What a queue holds after a message is appended or taken.                *)
(***************************************************************************)
LEMMA AppendNoPower ==
  ASSUME NEW q \in Seq(Msg), NEW m \in Msg, NoPower(q), ~IsPower(m)
  PROVE  NoPower(Append(q, m))
  BY DEF NoPower

LEMMA AppendOther ==
  ASSUME NEW q \in Seq(Msg), NEW m \in Msg, ~IsPower(m),
         NEW x, OnlyPower(q, x)
  PROVE  OnlyPower(Append(q, m), x)
  BY DEF OnlyPower

LEMMA AppendPower ==
  ASSUME NEW q \in Seq(Msg), NEW m \in Msg, NoPower(q)
  PROVE  OnlyPower(Append(q, m), m)
<1>1. /\ Append(q, m)[Len(q) + 1] = m
      /\ Len(q) + 1 \in DOMAIN Append(q, m)
      /\ \A j \in DOMAIN Append(q, m) : j # Len(q) + 1 =>
            j \in DOMAIN q /\ Append(q, m)[j] = q[j]
  OBVIOUS
<1> QED
  BY <1>1 DEF NoPower, OnlyPower

LEMMA TailNoPower ==
  ASSUME NEW q \in Seq(Msg), q # <<>>, NoPower(q)
  PROVE  NoPower(Tail(q)) /\ ~IsPower(Head(q))
<1>1. /\ Head(q) = q[1] /\ 1 \in DOMAIN q
      /\ \A j \in DOMAIN Tail(q) : j + 1 \in DOMAIN q /\ Tail(q)[j] = q[j + 1]
  OBVIOUS
<1> QED
  BY <1>1 DEF NoPower

LEMMA TailOnlyPower ==
  ASSUME NEW q \in Seq(Msg), q # <<>>, NEW x, OnlyPower(q, x)
  PROVE  \/ Head(q) = x /\ NoPower(Tail(q))
         \/ ~IsPower(Head(q)) /\ OnlyPower(Tail(q), x)
<1>1. /\ Head(q) = q[1] /\ 1 \in DOMAIN q
      /\ \A j \in DOMAIN Tail(q) : j \in Nat /\ j > 0
                                   /\ j + 1 \in DOMAIN q /\ Tail(q)[j] = q[j + 1]
      /\ \A i \in DOMAIN q : i \in Nat /\ i > 0 /\ (i # 1 => i - 1 \in DOMAIN Tail(q))
  OBVIOUS
<1>2. PICK i \in DOMAIN q : q[i] = x /\ \A j \in DOMAIN q : IsPower(q[j]) => j = i
  BY DEF OnlyPower
<1>3. CASE i = 1
  BY <1>1, <1>2, <1>3 DEF NoPower
<1>4. CASE i # 1
  <2>1. ~IsPower(Head(q))
    BY <1>1, <1>2, <1>4
  <2>2. i - 1 \in DOMAIN Tail(q) /\ Tail(q)[i - 1] = x
    BY <1>1, <1>2, <1>4
  <2>3. \A j \in DOMAIN Tail(q) : IsPower(Tail(q)[j]) => j = i - 1
    BY <1>1, <1>2
  <2> QED
    BY <2>1, <2>2, <2>3 DEF OnlyPower
<1> QED
  BY <1>3, <1>4
-----------------------------------------------------------------------------
(***************************************************************************)
(* What a step means for the handshake with one peer.                      *)
(***************************************************************************)
Ask == PowerMsg \cup {"init"}

\* The queue of p is left alone, or gains a message of no importance.
Keeps(p) ==
    /\ NoPower(queue[p]) => NoPower(queue'[p])
    /\ \A x \in Ask : OnlyPower(queue[p], x) => OnlyPower(queue'[p], x)

\* The handshake does not go back: what was asked is still asked, or done.
Carried(p) ==
    /\ Quiet(p) => Quiet(p)'
    /\ \A x \in Ask : AskedOf(p, x) => AskedOf(p, x)'

LEMMA PostKeeps ==
  ASSUME QueueOK, NEW t \in Task, NEW m \in Msg, PostMsg(t, m),
         NEW p \in Peer, t # p \/ ~IsPower(m)
  PROVE  Keeps(p)
<1>1. p \in Task /\ queue[p] \in Seq(Msg)
  BY DEF QueueOK, Peer, Task
<1>2. CASE queue'[p] = queue[p]
  BY <1>2 DEF Keeps
<1>3. CASE t = p /\ queue' = [queue EXCEPT ![t] = Append(@, m)]
  <2>1. queue'[p] = Append(queue[p], m)
    BY <1>3, <1>1 DEF QueueOK
  <2> QED
    BY <2>1, <1>1, <1>3, AppendNoPower, AppendOther DEF Keeps
<1> QED
  BY <1>1, <1>2, <1>3 DEF PostMsg, QueueOK

\* A queue that does not change is kept.
LEMMA SameKeeps ==
  ASSUME NEW p \in Peer, queue'[p] = queue[p]
  PROVE  Keeps(p)
  BY DEF Keeps

LEMMA KeptIsCarried ==
  ASSUME NEW p \in Peer, Keeps(p),
         note'[p] = note[p], doing'[p] = doing[p]
  PROVE  Carried(p)
  BY DEF Keeps, Carried, Quiet, AskedOf, InQueue, InHand, Answered, Handling

\* A peer that turns to something that is neither a SetPowerState nor its
\* initialisation has not touched the handshake.
LEMMA IdleIsCarried ==
  ASSUME NEW p \in Peer, Keeps(p), note'[p] = note[p],
         ~Handling(p), ~IsPower(doing'[p]), doing'[p] # "init"
  PROVE  Carried(p)
<1>1. \A x \in Ask : ~InHand(p, x)
  BY DEF InHand, Handling, Ask, IsPower
<1> QED
  BY <1>1
     DEF Keeps, Carried, Quiet, AskedOf, InQueue, Answered, Handling

\* A peer that has done what it was asked has answered.
LEMMA DoneIsCarried ==
  ASSUME NEW p \in Peer, Keeps(p), Handling(p),
         note'[p] = 1, doing'[p] = "idle"
  PROVE  Carried(p)
<1>1. ~Handling(p)'
  BY DEF Handling, IsPower, PowerMsg
<1> QED
  BY <1>1 DEF Keeps, Carried, Quiet, AskedOf, InQueue, InHand, Answered

LEMMA TakeIsCarried ==
  ASSUME QueueOK, NEW p \in Peer, doing \in [Peer -> Doing],
         NEW m \in Msg, Take(p, m), UNCHANGED note
  PROVE  Carried(p)
<1>1. /\ p \in Task /\ queue[p] \in Seq(Msg) /\ queue[p] # <<>>
      /\ queue'[p] = Tail(queue[p])
      /\ m = Head(queue[p])
      /\ doing[p] = "idle" /\ doing'[p] = m /\ m # "init"
  BY DEF QueueOK, Peer, Task, Take, Becomes, Msg, PowerMsg
<1>2. ASSUME NoPower(queue[p])
      PROVE  NoPower(queue'[p]) /\ ~Handling(p)'
  BY <1>1, <1>2, TailNoPower DEF Handling
<1>3. ASSUME NEW x \in Ask, OnlyPower(queue[p], x)
      PROVE  \/ doing'[p] = x /\ NoPower(queue'[p])
             \/ ~Handling(p)' /\ OnlyPower(queue'[p], x)
  BY <1>1, <1>3, TailOnlyPower DEF Handling
<1>4. \A x \in Ask : ~InHand(p, x)
  BY <1>1 DEF InHand, Ask, PowerMsg
<1> QED
  BY <1>2, <1>3, <1>4
     DEF Carried, Quiet, AskedOf, InQueue, InHand, Answered

\* While it is not late, an await ends with the answer.
LEMMA AwaitTakesAnswer ==
  ASSUME NEW p \in Peer, note \in [Peer -> 0..1], await(p), Undisturbed(p)',
         NEW x \in Ask, AskedOf(p, x),
         queue'[p] = queue[p], doing'[p] = doing[p]
  PROVE  Quiet(p)'
<1>1. note[p] = 1 /\ note'[p] = 0
  BY DEF await, Happens, Undisturbed
<1> QED
  BY <1>1 DEF AskedOf, InQueue, InHand, Answered, Quiet, Handling

\* While none is lost, a request reaches the queue of a peer that runs.
LEMMA PostAsks ==
  ASSUME NEW p \in Peer, QueueOK, NEW m \in PowerMsg, PostMsg(p, m),
         Undisturbed(p)', Quiet(p), Started(p),
         note'[p] = note[p], doing'[p] = doing[p]
  PROVE  InQueue(p, m)'
<1>1. p \in Task /\ queue[p] \in Seq(Msg)
  BY DEF QueueOK, Peer, Task
<1>2. queue' = [queue EXCEPT ![p] = Append(@, m)]
  BY DEF PostMsg, Happens, Undisturbed
<1>3. queue'[p] = Append(queue[p], m)
  BY <1>1, <1>2 DEF QueueOK
<1>4. OnlyPower(queue'[p], m)
  BY <1>1, <1>3, AppendPower, MsgNames DEF Quiet
<1> QED
  BY <1>4 DEF InQueue, Quiet, Handling

-----------------------------------------------------------------------------
(***************************************************************************)
(* Agrees is preserved by every step of System.                            *)
(***************************************************************************)
LEMMA FaultsGrow ==
  ASSUME faults \subseteq faults', NEW p \in Peer, Undisturbed(p)'
  PROVE  Undisturbed(p)
  BY DEF Undisturbed

LEMMA PostGrows ==
  ASSUME NEW t, NEW m, PostMsg(t, m)
  PROVE  faults \subseteq faults'
  BY DEF PostMsg, Happens

LEMMA awaitGrows ==
  ASSUME NEW p, await(p)
  PROVE  faults \subseteq faults'
  BY DEF await, Happens

\* A post is the request that the next point waits for, or no request.
LEMMA PostAgrees ==
  ASSUME QueueOK, NEW p \in Peer, Agrees(p),
         NEW t \in Task, NEW m \in Msg, PostMsg(t, m),
         note'[p] = note[p], doing'[p] = doing[p], ~Waits(p),
         IF Waits(p)' THEN t = p /\ m = Asked' /\ IsPower(m) /\ Started(p)
                      ELSE t # p \/ ~IsPower(m)
  PROVE  Agrees(p)'
<1> SUFFICES ASSUME Undisturbed(p)'
             PROVE  IF Waits(p)' THEN AskedOf(p, Asked)' ELSE Quiet(p)'
  BY DEF Agrees
<1>1. Quiet(p)
  BY PostGrows, FaultsGrow DEF Agrees
<1>2. CASE Waits(p)'
  <2>1. InQueue(p, m)'
    BY <1>1, <1>2, PostAsks DEF IsPower
  <2> QED
    BY <2>1, <1>2 DEF AskedOf, InQueue, Handling
<1>3. CASE ~Waits(p)'
  <2>1. Carried(p)
    BY <1>3, PostKeeps, KeptIsCarried
  <2> QED
    BY <2>1, <1>1, <1>3 DEF Carried
<1> QED
  BY <1>2, <1>3

LEMMA AskedIsAsk == Asked \in Ask
  BY DEF Asked, Ask, PowerMsg

\* An await leaves the handshake it waits for quiet, and the other alone.
LEMMA AwaitAgrees ==
  ASSUME note \in [Peer -> 0..1], NEW p \in Peer, Agrees(p),
         NEW q \in Peer, await(q),
         queue'[p] = queue[p], doing'[p] = doing[p],
         Waits(p) <=> p = q, ~Waits(p)'
  PROVE  Agrees(p)'
<1> SUFFICES ASSUME Undisturbed(p)' PROVE Quiet(p)'
  BY DEF Agrees
<1>1. Undisturbed(p)
  BY awaitGrows, FaultsGrow
<1>2. CASE p = q
  BY <1>1, <1>2, AwaitTakesAnswer, AskedIsAsk DEF Agrees
<1>3. CASE p # q
  <2>1. note'[p] = note[p]
    BY <1>3 DEF await
  <2> QED
    BY <2>1, <1>1, <1>3, SameKeeps, KeptIsCarried DEF Agrees, Carried
<1> QED
  BY <1>2, <1>3

\* Nothing of p moves, and System does not wait for p.
LEMMA RestAgrees ==
  ASSUME NEW p \in Peer, Agrees(p), queue'[p] = queue[p],
         note'[p] = note[p], doing'[p] = doing[p], faults \subseteq faults',
         ~Waits(p), ~Waits(p)'
  PROVE  Agrees(p)'
  BY SameKeeps, KeptIsCarried, FaultsGrow DEF Agrees, Carried

LEMMA SystemAgrees ==
  ASSUME TypeOK, Booting, \A p \in Peer : Agrees(p), System
  PROVE  \A p \in Peer : Agrees(p)'
<1> USE MsgNames
<1>q. /\ QueueOK /\ note \in [Peer -> 0..1] /\ doing \in [Peer -> Doing]
      /\ "Audio" \in Peer /\ "Bluetooth" \in Peer
      /\ Peer \subseteq Task /\ "System" \in Task
  BY DEF TypeOK, QueueOK, Peer, Task
<1>p. /\ \A p \in Peer : p = "Audio" \/ p = "Bluetooth"
      /\ ~IsPower("Other") /\ ~IsPower("HardReset")
      /\ IsPower("PreOn") /\ IsPower("On") /\ IsPower("PreOff") /\ IsPower("Off")
  BY DEF Peer, IsPower, PowerMsg
<1>s. pc \notin {"boot", "bootAudioWait"} => \A p \in Peer : Started(p)
  BY <1>p DEF Booting, Started
<1>1. CASE Boot
  <2>1. pc = "boot" /\ pc' = "bootAudioWait"
    BY <1>1 DEF Boot, Goto
  <2>2. Agrees("Audio")'
    <3>1. Undisturbed("Audio")' => Quiet("Audio")
      BY <1>1, <1>q, <2>1 DEF Boot, Agrees, Waits, Undisturbed
    <3>2. Undisturbed("Audio")' => InHand("Audio", "init")'
      BY <1>1, <1>q, <3>1 DEF Boot, Quiet, InHand
    <3>3. Asked' = "init"
      BY <2>1 DEF Asked
    <3>4. Waits("Audio")'
      BY <2>1 DEF Waits
    <3> QED
      BY <3>2, <3>3, <3>4 DEF Agrees, AskedOf, InHand
  <2>3. Agrees("Bluetooth")'
    BY <1>1, <1>q, <2>1, RestAgrees DEF Boot, Waits
  <2> QED
    BY <2>2, <2>3, <1>p
<1>2. CASE BootRadio
  <2>1. pc = "bootAudioWait" /\ pc' = "bootRadioWait"
    BY <1>2 DEF BootRadio, Goto
  <2>2. Agrees("Audio")'
    BY <1>2, <1>q, <2>1, AwaitAgrees DEF BootRadio, Waits
  <2>3. Agrees("Bluetooth")'
    <3>1. Undisturbed("Bluetooth")' => Quiet("Bluetooth")
      BY <1>2, <1>q, <2>1, awaitGrows, FaultsGrow DEF BootRadio, Agrees, Waits
    <3>2. Undisturbed("Bluetooth")' => InHand("Bluetooth", "init")'
      BY <1>2, <1>q, <3>1 DEF BootRadio, Quiet, InHand, await
    <3>3. Asked' = "init"
      BY <2>1 DEF Asked
    <3>4. Waits("Bluetooth")'
      BY <2>1 DEF Waits
    <3> QED
      BY <3>2, <3>3, <3>4 DEF Agrees, AskedOf, InHand
  <2> QED
    BY <2>2, <2>3, <1>p
<1>3. CASE Await("bootRadioWait", "Bluetooth", "bootDecide")
  <2>1. pc = "bootRadioWait" /\ pc' = "bootDecide"
    BY <1>3 DEF Await, Goto
  <2>2. Agrees("Audio")' /\ Agrees("Bluetooth")'
    BY <1>3, <1>q, <2>1, AwaitAgrees DEF Await, Waits
  <2> QED
    BY <2>2, <1>p
<1>4. CASE BootDecide
  <2>1. pc = "bootDecide" /\ pc' = "idle"
    BY <1>4 DEF BootDecide, Goto
  <2>2. CASE PostMsg("System", "On")
    BY <1>4, <1>q, <1>p, <2>1, <2>2, PostAgrees DEF BootDecide, Waits
  <2>3. CASE UNCHANGED <<queue, faults>>
    BY <1>4, <1>q, <1>p, <2>1, <2>3, RestAgrees DEF BootDecide, Waits
  <2> QED
    BY <1>4, <2>2, <2>3 DEF BootDecide
<1>5. CASE SystemNext \/ IdleTimeout \/ OffRelease
  <2>1. \A p \in Peer : ~Waits(p) /\ ~Waits(p)'
    BY <1>5, <1>p DEF SystemNext, IdleTimeout, OffRelease, Goto, Waits
  <2>2. \A p \in Peer : queue'[p] = queue[p]
    BY <1>5, <1>q, <1>p
       DEF SystemNext, IdleTimeout, OffRelease, QueueOK
  <2> QED
    BY <1>5, <2>1, <2>2, RestAgrees DEF SystemNext, IdleTimeout, OffRelease
<1>6. CASE OnAmps
  <2>1. pc = "onAmps" /\ pc' = "onAmpsWait"
    BY <1>6 DEF OnAmps, Goto
  <2>2. Asked' = "PreOn"
    BY <2>1 DEF Asked
  <2>3. Agrees("Audio")' /\ Agrees("Bluetooth")'
    BY <1>6, <1>q, <1>p, <1>s, <2>1, <2>2, PostAgrees DEF OnAmps, Waits
  <2> QED
    BY <2>3, <1>p
<1>7. CASE OnRadio
  <2>1. pc = "onRadio" /\ pc' = "onRadioWait"
    BY <1>7 DEF OnRadio, Post, Goto
  <2>2. Asked' = "On"
    BY <2>1 DEF Asked
  <2>3. Agrees("Audio")' /\ Agrees("Bluetooth")'
    BY <1>7, <1>q, <1>p, <1>s, <2>1, <2>2, PostAgrees DEF OnRadio, Post, Waits
  <2> QED
    BY <2>3, <1>p
<1>8. CASE OnConfigure
  <2>1. pc = "onConfigure" /\ pc' = "onConfigureWait"
    BY <1>8 DEF OnConfigure, Post, Goto
  <2>2. Asked' = "On"
    BY <2>1 DEF Asked
  <2>3. Agrees("Audio")' /\ Agrees("Bluetooth")'
    BY <1>8, <1>q, <1>p, <1>s, <2>1, <2>2, PostAgrees DEF OnConfigure, Post, Waits
  <2> QED
    BY <2>3, <1>p
<1>9. CASE OnIcon
  <2>1. pc = "onIcon" /\ pc' = "idle"
    BY <1>9 DEF OnIcon, Goto
  <2>3. Agrees("Audio")' /\ Agrees("Bluetooth")'
    BY <1>9, <1>q, <1>p, <1>s, <2>1, PostAgrees DEF OnIcon, Waits
  <2> QED
    BY <2>3, <1>p
<1>10. CASE OffPrepare
  <2>1. pc = "offPrepare" /\ pc' = "offPrepareWait"
    BY <1>10 DEF OffPrepare, Goto
  <2>2. Asked' = "PreOff"
    BY <2>1 DEF Asked
  <2>3. Agrees("Audio")' /\ Agrees("Bluetooth")'
    BY <1>10, <1>q, <1>p, <1>s, <2>1, <2>2, PostAgrees DEF OffPrepare, Waits
  <2> QED
    BY <2>3, <1>p
<1>11. CASE OffAnnounce
  <2>1. pc = "offAnnounce" /\ pc' = "offAnnounceWait"
    BY <1>11 DEF OffAnnounce, Post, Goto
  <2>2. Asked' = "PreOff"
    BY <2>1 DEF Asked
  <2>3. Agrees("Audio")' /\ Agrees("Bluetooth")'
    BY <1>11, <1>q, <1>p, <1>s, <2>1, <2>2, PostAgrees DEF OffAnnounce, Post, Waits
  <2> QED
    BY <2>3, <1>p
<1>12. CASE OffAmps
  <2>1. pc = "offAmps" /\ pc' = "offAmpsWait"
    BY <1>12 DEF OffAmps, Post, Goto
  <2>2. Asked' = "Off"
    BY <2>1 DEF Asked
  <2>3. Agrees("Audio")' /\ Agrees("Bluetooth")'
    BY <1>12, <1>q, <1>p, <1>s, <2>1, <2>2, PostAgrees DEF OffAmps, Post, Waits
  <2> QED
    BY <2>3, <1>p
<1>13. CASE OffRadio
  <2>1. pc = "offRadio" /\ pc' = "offRadioWait"
    BY <1>13 DEF OffRadio, Post, Goto
  <2>2. Asked' = "Off"
    BY <2>1 DEF Asked
  <2>3. Agrees("Audio")' /\ Agrees("Bluetooth")'
    BY <1>13, <1>q, <1>p, <1>s, <2>1, <2>2, PostAgrees DEF OffRadio, Post, Waits
  <2> QED
    BY <2>3, <1>p
<1>14. CASE ResetRadio
  <2>1. pc = "resetRadio" /\ pc' = "resetAudio"
    BY <1>14 DEF ResetRadio, Post, Goto
  <2>3. Agrees("Audio")' /\ Agrees("Bluetooth")'
    BY <1>14, <1>q, <1>p, <1>s, <2>1, PostAgrees DEF ResetRadio, Post, Waits
  <2> QED
    BY <2>3, <1>p
<1>15. CASE ResetAudio
  <2>1. pc = "resetAudio" /\ pc' = "resetHard"
    BY <1>15 DEF ResetAudio, Post, Goto
  <2>3. Agrees("Audio")' /\ Agrees("Bluetooth")'
    BY <1>15, <1>q, <1>p, <1>s, <2>1, PostAgrees DEF ResetAudio, Post, Waits
  <2> QED
    BY <2>3, <1>p
<1>16. CASE ResetHard
  <2>1. pc = "resetHard" /\ pc' = "idle"
    BY <1>16 DEF ResetHard, Post, Goto
  <2>3. Agrees("Audio")' /\ Agrees("Bluetooth")'
    BY <1>16, <1>q, <1>p, <1>s, <2>1, PostAgrees DEF ResetHard, Post, Waits
  <2> QED
    BY <2>3, <1>p
<1>17. CASE OnAmpsWait
  <2>1. pc = "onAmpsWait" /\ pc' = "onRadio"
    BY <1>17 DEF OnAmpsWait, Await, Goto
  <2>2. Agrees("Audio")' /\ Agrees("Bluetooth")'
    BY <1>17, <1>q, <2>1, AwaitAgrees DEF OnAmpsWait, Await, Waits
  <2> QED
    BY <2>2, <1>p
<1>18. CASE OnRadioWait
  <2>1. pc = "onRadioWait" /\ pc' = "onConfigure"
    BY <1>18 DEF OnRadioWait, Await, Goto
  <2>2. Agrees("Audio")' /\ Agrees("Bluetooth")'
    BY <1>18, <1>q, <2>1, AwaitAgrees DEF OnRadioWait, Await, Waits
  <2> QED
    BY <2>2, <1>p
<1>19. CASE OnConfigureWait
  <2>1. pc = "onConfigureWait" /\ pc' = "onIcon"
    BY <1>19 DEF OnConfigureWait, Await, Goto
  <2>2. Agrees("Audio")' /\ Agrees("Bluetooth")'
    BY <1>19, <1>q, <2>1, AwaitAgrees DEF OnConfigureWait, Await, Waits
  <2> QED
    BY <2>2, <1>p
<1>20. CASE OffPrepareWait
  <2>1. pc = "offPrepareWait" /\ pc' = "offIcon"
    BY <1>20 DEF OffPrepareWait, Await, Goto
  <2>2. Agrees("Audio")' /\ Agrees("Bluetooth")'
    BY <1>20, <1>q, <2>1, AwaitAgrees DEF OffPrepareWait, Await, Waits
  <2> QED
    BY <2>2, <1>p
<1>21. CASE OffAnnounceWait
  <2>1. pc = "offAnnounceWait" /\ pc' = "offAmps"
    BY <1>21 DEF OffAnnounceWait, Await, Goto
  <2>2. Agrees("Audio")' /\ Agrees("Bluetooth")'
    BY <1>21, <1>q, <2>1, AwaitAgrees DEF OffAnnounceWait, Await, Waits
  <2> QED
    BY <2>2, <1>p
<1>22. CASE OffAmpsWait
  <2>1. pc = "offAmpsWait" /\ pc' = "offRadio"
    BY <1>22 DEF OffAmpsWait, Await, Goto
  <2>2. Agrees("Audio")' /\ Agrees("Bluetooth")'
    BY <1>22, <1>q, <2>1, AwaitAgrees DEF OffAmpsWait, Await, Waits
  <2> QED
    BY <2>2, <1>p
<1>23. CASE OffRadioWait
  <2>1. pc = "offRadioWait" /\ pc' = "offRelease"
    BY <1>23 DEF OffRadioWait, Await, Goto
  <2>2. Agrees("Audio")' /\ Agrees("Bluetooth")'
    BY <1>23, <1>q, <2>1, AwaitAgrees DEF OffRadioWait, Await, Waits
  <2> QED
    BY <2>2, <1>p
<1>24. CASE OffStart
  <2>1. pc = "offStart" /\ pc' = "offPrepare"
    BY <1>24 DEF OffStart, Post, Goto
  <2>2. CASE Post("offStart", "Bluetooth", "Other", "offPrepare")
    BY <1>q, <1>p, <2>1, <2>2, PostAgrees DEF Post, Waits
  <2>3. CASE UNCHANGED <<queue, doing, note, faults>>
    BY <1>q, <1>p, <2>1, <2>3, RestAgrees DEF Waits
  <2> QED
    BY <1>24, <2>2, <2>3 DEF OffStart
<1>25. CASE OffIcon
  <2>1. pc = "offIcon" /\ pc' = "offAnnounce"
    BY <1>25 DEF OffIcon, Post, Goto
  <2>2. CASE Post("offIcon", "Bluetooth", "Other", "offAnnounce")
    BY <1>q, <1>p, <2>1, <2>2, PostAgrees DEF Post, Waits
  <2>3. CASE UNCHANGED <<queue, doing, note, faults>>
    BY <1>q, <1>p, <2>1, <2>3, RestAgrees DEF Waits
  <2> QED
    BY <1>25, <2>2, <2>3 DEF OffIcon
<1> QED
  BY <1>1, <1>2, <1>3, <1>4, <1>5, <1>6, <1>7, <1>8, <1>9, <1>10, <1>11,
     <1>12, <1>13, <1>14, <1>15, <1>16, <1>17, <1>18, <1>19, <1>20, <1>21,
     <1>22, <1>23, <1>24, <1>25 DEF System

-----------------------------------------------------------------------------
(***************************************************************************)
(* Agrees is preserved by every step of the peers.                         *)
(***************************************************************************)
LEMMA StayAgrees ==
  ASSUME NEW p \in Peer, Agrees(p), Carried(p), pc' = pc,
         faults \subseteq faults'
  PROVE  Agrees(p)'
<1>1. (Waits(p)' <=> Waits(p)) /\ Asked' = Asked
  BY DEF Waits, Asked
<1> QED
  BY <1>1, FaultsGrow, AskedIsAsk DEF Agrees, Carried

LEMMA PeerInitCarried ==
  ASSUME TypeOK, NEW p \in Peer, PeerInit(p), NEW q \in Peer
  PROVE  Carried(q)
<1>1. CASE q = p
  <2>1. Handling(q) /\ doing'[q] = "idle" /\ note'[q] = 1
    BY <1>1 DEF PeerInit, Becomes, notify, Handling, TypeOK
  <2> QED
    BY <2>1, SameKeeps, DoneIsCarried DEF PeerInit
<1>2. CASE q # p
  BY <1>2, SameKeeps, KeptIsCarried DEF PeerInit, Becomes, notify, TypeOK
<1> QED
  BY <1>1, <1>2

\* A peer that is not at a SetPowerState turns to another such thing.
LEMMA TurnCarried ==
  ASSUME TypeOK, NEW p \in Peer, NEW d, Becomes(p, d), UNCHANGED note,
         doing[p] # "init", ~IsPower(doing[p]), d # "init", ~IsPower(d),
         \A q \in Peer : Keeps(q), NEW q \in Peer
  PROVE  Carried(q)
<1>1. CASE q = p
  <2>1. ~Handling(q) /\ doing'[q] = d
    BY <1>1 DEF Becomes, Handling, TypeOK
  <2> QED
    BY <2>1, IdleIsCarried
<1>2. CASE q # p
  BY <1>2, KeptIsCarried DEF Becomes, TypeOK
<1> QED
  BY <1>1, <1>2

LEMMA AudioCarries ==
  ASSUME TypeOK, Audio, NEW p \in Peer
  PROVE  Carried(p) /\ pc' = pc /\ faults \subseteq faults'
<1> USE MsgNames
<1>q. /\ QueueOK /\ note \in [Peer -> 0..1] /\ doing \in [Peer -> Doing]
      /\ "Audio" \in Peer /\ "Bluetooth" \in Peer
      /\ Peer \subseteq Task /\ "System" \in Task
  BY DEF TypeOK, QueueOK, Peer, Task
<1>p. /\ \A q \in Peer : q = "Audio" \/ q = "Bluetooth"
      /\ ~IsPower("Other") /\ ~IsPower("idle") /\ ~IsPower("blocked")
      /\ ~IsPower("release")
      /\ \A q \in Peer : q # "System"
  BY DEF Peer, IsPower, PowerMsg
<1>0. pc' = pc /\ faults \subseteq faults'
  BY PostGrows
     DEF Audio, PeerInit, AudioTake, AudioSetPowerState, AudioOther,
         AudioRequest, AudioBlocks, AudioUnblocks, AudioSamplesSupply,
         AudioReleases, Happens
<1> SUFFICES Carried(p)
  BY <1>0
<1>1. CASE PeerInit("Audio")
  BY <1>1, <1>q, PeerInitCarried
<1>2. CASE AudioTake
  <2>1. CASE p = "Audio"
    BY <2>1, <1>2, <1>q, TakeIsCarried DEF AudioTake
  <2>2. CASE p # "Audio"
    <3>1. queue'[p] = queue[p] /\ doing'[p] = doing[p] /\ note'[p] = note[p]
      BY <2>2, <1>2, <1>q DEF AudioTake, Take, Becomes, QueueOK
    <3> QED
      BY <3>1, SameKeeps, KeptIsCarried
  <2> QED
    BY <2>1, <2>2
<1>3. CASE AudioSetPowerState
  <2>1. Keeps(p)
    BY <1>3, <1>q, <1>p, PostKeeps, SameKeeps DEF AudioSetPowerState
  <2>2. CASE p = "Audio"
    <3>1. Handling(p) /\ doing'[p] = "idle" /\ note'[p] = 1
      BY <2>2, <1>3, <1>q
         DEF AudioSetPowerState, Becomes, notify, Handling, IsPower
    <3> QED
      BY <3>1, <2>1, DoneIsCarried
  <2>3. CASE p # "Audio"
    <3>1. doing'[p] = doing[p] /\ note'[p] = note[p]
      BY <2>3, <1>3, <1>q DEF AudioSetPowerState, Becomes, notify
    <3> QED
      BY <3>1, <2>1, KeptIsCarried
  <2> QED
    BY <2>2, <2>3
<1>4. CASE AudioOther
  BY <1>4, <1>q, <1>p, TurnCarried, SameKeeps DEF AudioOther
<1>5. CASE AudioRequest
  <2>1. queue'[p] = queue[p]
    BY <1>5, <1>q, <1>p DEF AudioRequest, QueueOK
  <2> QED
    BY <2>1, <1>5, SameKeeps, KeptIsCarried DEF AudioRequest
<1>6. CASE AudioBlocks
  BY <1>6, <1>q, <1>p, TurnCarried, SameKeeps DEF AudioBlocks
<1>7. CASE AudioUnblocks
  <2>1. \A q \in Peer : queue'[q] = queue[q]
    BY <1>7, <1>q, <1>p DEF AudioUnblocks, QueueOK
  <2> QED
    BY <2>1, <1>7, <1>q, <1>p, TurnCarried, SameKeeps DEF AudioUnblocks
<1>8. CASE AudioSamplesSupply
  <2>1. CASE Becomes("Audio", "release")
    BY <2>1, <1>8, <1>q, <1>p, TurnCarried, SameKeeps DEF AudioSamplesSupply
  <2>2. CASE UNCHANGED doing
    BY <2>2, <1>8, SameKeeps, KeptIsCarried DEF AudioSamplesSupply
  <2> QED
    BY <2>1, <2>2, <1>8 DEF AudioSamplesSupply
<1>9. CASE AudioReleases
  BY <1>9, <1>q, <1>p, TurnCarried, SameKeeps DEF AudioReleases
<1> QED
  BY <1>1, <1>2, <1>3, <1>4, <1>5, <1>6, <1>7, <1>8, <1>9 DEF Audio

LEMMA BluetoothAgrees ==
  ASSUME TypeOK, Bluetooth, NEW p \in Peer, Agrees(p)
  PROVE  Agrees(p)'
<1> USE MsgNames
<1>q. /\ QueueOK /\ note \in [Peer -> 0..1] /\ doing \in [Peer -> Doing]
      /\ "Audio" \in Peer /\ "Bluetooth" \in Peer
      /\ Peer \subseteq Task /\ "System" \in Task
  BY DEF TypeOK, QueueOK, Peer, Task
<1>p. /\ \A q \in Peer : q = "Audio" \/ q = "Bluetooth"
      /\ ~IsPower("Other") /\ ~IsPower("idle")
  BY DEF Peer, IsPower, PowerMsg
<1>0. pc' = pc /\ faults \subseteq faults'
  BY PostGrows
     DEF Bluetooth, PeerInit, BluetoothTake, BluetoothSetPowerState,
         BluetoothOther, BluetoothSource, BluetoothEvent,
         BroadcasterPowerOff, Happens
<1>1. CASE PeerInit("Bluetooth")
  BY <1>0, <1>1, <1>q, PeerInitCarried, StayAgrees
<1>2. CASE BluetoothTake
  <2>1. CASE p = "Bluetooth"
    BY <1>0, <2>1, <1>2, <1>q, TakeIsCarried, StayAgrees DEF BluetoothTake
  <2>2. CASE p # "Bluetooth"
    <3>1. queue'[p] = queue[p] /\ doing'[p] = doing[p] /\ note'[p] = note[p]
      BY <2>2, <1>2, <1>q DEF BluetoothTake, Take, Becomes, QueueOK
    <3> QED
      BY <1>0, <3>1, SameKeeps, KeptIsCarried, StayAgrees
  <2> QED
    BY <2>1, <2>2
<1>3. CASE BluetoothSetPowerState
  <2>1. Keeps(p)
    BY <1>3, SameKeeps DEF BluetoothSetPowerState
  <2>2. CASE p = "Bluetooth"
    <3>1. Handling(p) /\ doing'[p] = "idle" /\ note'[p] = 1
      BY <2>2, <1>3, <1>q
         DEF BluetoothSetPowerState, Becomes, notify, Handling, IsPower
    <3> QED
      BY <1>0, <3>1, <2>1, DoneIsCarried, StayAgrees
  <2>3. CASE p # "Bluetooth"
    <3>1. doing'[p] = doing[p] /\ note'[p] = note[p]
      BY <2>3, <1>3, <1>q DEF BluetoothSetPowerState, Becomes, notify
    <3> QED
      BY <1>0, <3>1, <2>1, KeptIsCarried, StayAgrees
  <2> QED
    BY <2>2, <2>3
<1>4. CASE BluetoothOther
  BY <1>0, <1>4, <1>q, <1>p, TurnCarried, SameKeeps, StayAgrees
     DEF BluetoothOther
<1>5. CASE BluetoothSource
  BY <1>0, <1>5, SameKeeps, KeptIsCarried, StayAgrees DEF BluetoothSource
<1>6. CASE BluetoothEvent
  <2>1. Keeps(p)
    BY <1>6, <1>q, <1>p, PostKeeps DEF BluetoothEvent
  <2> QED
    BY <1>0, <2>1, <1>6, KeptIsCarried, StayAgrees DEF BluetoothEvent
<1>7. CASE BroadcasterPowerOff
  <2>1. CASE p = "Audio"
    <3>1. queue'[p] = queue[p]
      BY <2>1, <1>7, <1>q DEF BroadcasterPowerOff, QueueOK
    <3> QED
      BY <1>0, <3>1, <1>7, SameKeeps, KeptIsCarried, StayAgrees
         DEF BroadcasterPowerOff
  <2>2. CASE p = "Bluetooth"
    BY <2>2, <1>7 DEF BroadcasterPowerOff, Happens, Agrees, Undisturbed
  <2> QED
    BY <2>1, <2>2, <1>p
<1> QED
  BY <1>1, <1>2, <1>3, <1>4, <1>5, <1>6, <1>7 DEF Bluetooth

-----------------------------------------------------------------------------
(***************************************************************************)
(* System's bookkeeping.                                                   *)
(***************************************************************************)
\* No step of the peers or of the surroundings moves System.
LEMMA OthersLeaveSystem ==
  ASSUME Audio \/ Bluetooth \/ Supply \/ Time
  PROVE  UNCHANGED <<pc, powerState, powerStateFn>> /\ faults \subseteq faults'
  BY PostGrows
     DEF Audio, PeerInit, AudioTake, AudioSetPowerState, AudioOther,
         AudioRequest, AudioBlocks, AudioUnblocks, AudioSamplesSupply,
         AudioReleases, Bluetooth, BluetoothTake, BluetoothSetPowerState,
         BluetoothOther, BluetoothSource, BluetoothEvent,
         BroadcasterPowerOff, Supply, Time, Happens

LEMMA SystemGrows ==
  ASSUME System
  PROVE  faults \subseteq faults'
  BY PostGrows, awaitGrows
     DEF System, Boot, BootRadio, BootDecide, SystemNext, IdleTimeout, OnAmps,
         OnAmpsWait, OnRadio, OnRadioWait, OnConfigure, OnConfigureWait,
         OnIcon, OffStart, OffPrepare, OffPrepareWait, OffIcon, OffAnnounce,
         OffAnnounceWait, OffAmps, OffAmpsWait, OffRadio, OffRadioWait,
         OffRelease, ResetRadio, ResetAudio, ResetHard, Post, Await

LEMMA SystemControl ==
  ASSUME TypeOK, Control, System
  PROVE  Control'
<1> USE DEF Control, AtRest, BootPoint, OnPoint, OffPoint, ResetPoint, Goto
<1>1. CASE Boot \/ BootRadio \/ Await("bootRadioWait", "Bluetooth", "bootDecide")
           \/ BootDecide
  BY <1>1 DEF Boot, BootRadio, Await, BootDecide
<1>2. CASE SystemNext
  BY <1>2 DEF SystemNext, TypeOK
<1>3. CASE IdleTimeout
  BY <1>3 DEF IdleTimeout, TypeOK
<1>4. CASE OnAmps \/ OnIcon \/ OffPrepare \/ OffRelease
  BY <1>4 DEF OnAmps, OnIcon, OffPrepare, OffRelease
<1>5. CASE OnRadio \/ OnConfigure \/ OffAnnounce \/ OffAmps \/ OffRadio
  BY <1>5 DEF OnRadio, OnConfigure, OffAnnounce, OffAmps, OffRadio, Post
<1>6. CASE OnAmpsWait \/ OnRadioWait \/ OnConfigureWait
  BY <1>6 DEF OnAmpsWait, OnRadioWait, OnConfigureWait, Await
<1>7. CASE OffPrepareWait \/ OffAnnounceWait \/ OffAmpsWait \/ OffRadioWait
  BY <1>7 DEF OffPrepareWait, OffAnnounceWait, OffAmpsWait, OffRadioWait, Await
<1>8. CASE OffStart \/ OffIcon
  BY <1>8 DEF OffStart, OffIcon, Post
<1>9. CASE ResetRadio \/ ResetAudio \/ ResetHard
  BY <1>9 DEF ResetRadio, ResetAudio, ResetHard, Post
<1> QED
  BY <1>1, <1>2, <1>3, <1>4, <1>5, <1>6, <1>7, <1>8, <1>9 DEF System

\* What System does to the peers directly: it creates them.
LEMMA SystemCreates ==
  ASSUME System
  PROVE  \/ Boot \/ BootRadio
         \/ UNCHANGED doing /\ {pc, pc'} \cap {"boot", "bootAudioWait"} = {}
  BY DEF System, BootDecide, SystemNext, IdleTimeout, OnAmps, OnAmpsWait,
         OnRadio, OnRadioWait, OnConfigure, OnConfigureWait, OnIcon, OffStart,
         OffPrepare, OffPrepareWait, OffIcon, OffAnnounce, OffAnnounceWait,
         OffAmps, OffAmpsWait, OffRadio, OffRadioWait, OffRelease, ResetRadio,
         ResetAudio, ResetHard, Post, Await, Goto

\* System takes notifications and gives none.
LEMMA SystemTakes ==
  ASSUME TypeOK, System, NEW p \in Peer
  PROVE  note'[p] \in {0, note[p]}
  BY DEF System, Boot, BootRadio, BootDecide, SystemNext, IdleTimeout, OnAmps,
         OnAmpsWait, OnRadio, OnRadioWait, OnConfigure, OnConfigureWait,
         OnIcon, OffStart, OffPrepare, OffPrepareWait, OffIcon, OffAnnounce,
         OffAnnounceWait, OffAmps, OffAmpsWait, OffRadio, OffRadioWait,
         OffRelease, ResetRadio, ResetAudio, ResetHard, Post, Await, await,
         TypeOK, Peer

LEMMA SystemBooting ==
  ASSUME TypeOK, Booting, System
  PROVE  Booting'
<1>1. CASE Boot
  BY <1>1 DEF Boot, Booting, Goto, TypeOK, Peer
<1>2. CASE BootRadio
  BY <1>2 DEF BootRadio, Booting, Goto, TypeOK, Peer, await
<1>3. CASE UNCHANGED doing /\ {pc, pc'} \cap {"boot", "bootAudioWait"} = {}
  <2>1. \A p \in Peer : note'[p] \in {0, note[p]}
    BY SystemTakes
  <2> QED
    BY <1>3, <2>1 DEF Booting
<1> QED
  BY <1>1, <1>2, <1>3, SystemCreates

LEMMA SystemInitAwaited ==
  ASSUME TypeOK, Booting, InitAwaited, System
  PROVE  InitAwaited'
<1> SUFFICES ASSUME "late" \notin faults'
             PROVE  /\ doing'["Audio"] = "init"     => pc' = "bootAudioWait"
                    /\ doing'["Bluetooth"] = "init" => pc' = "bootRadioWait"
  BY DEF InitAwaited
<1>0. "late" \notin faults
  BY SystemGrows
<1>1. CASE Boot
  BY <1>1 DEF Boot, Booting, Goto, TypeOK, Peer
<1>2. CASE BootRadio
  <2>1. note["Audio"] > 0
    BY <1>2 DEF BootRadio, await, Happens
  <2> QED
    BY <1>0, <1>2, <2>1 DEF BootRadio, Booting, InitAwaited, Goto, TypeOK, Peer
<1>3. CASE Await("bootRadioWait", "Bluetooth", "bootDecide")
  <2>1. note["Bluetooth"] > 0
    BY <1>3 DEF Await, await, Happens
  <2> QED
    BY <1>0, <1>3, <2>1 DEF Await, Booting, InitAwaited, Goto, TypeOK, Peer
<1>4. CASE UNCHANGED doing /\ {pc, pc'} \cap {"boot", "bootAudioWait"} = {}
           /\ pc # "bootRadioWait"
  BY <1>0, <1>4 DEF InitAwaited
<1>5. pc = "bootRadioWait" => Await("bootRadioWait", "Bluetooth", "bootDecide")
  BY DEF System, Boot, BootRadio, BootDecide, SystemNext, IdleTimeout, OnAmps,
         OnAmpsWait, OnRadio, OnRadioWait, OnConfigure, OnConfigureWait,
         OnIcon, OffStart, OffPrepare, OffPrepareWait, OffIcon, OffAnnounce,
         OffAnnounceWait, OffAmps, OffAmpsWait, OffRadio, OffRadioWait,
         OffRelease, ResetRadio, ResetAudio, ResetHard, Post, Await, Goto
<1> QED
  BY <1>1, <1>2, <1>3, <1>4, <1>5, SystemCreates

\* The peers never go back to their creation or initialisation.
LEMMA PeersBooting ==
  ASSUME TypeOK, Booting, InitAwaited, Audio \/ Bluetooth
  PROVE  Booting' /\ InitAwaited'
<1>1. \A p \in Peer : \/ doing'[p] = doing[p] /\ note'[p] = note[p]
                      \/ doing[p] # "down" /\ doing'[p] \notin {"down", "init"}
  <2>1. \A m \in Msg : m \notin {"down", "init"}
    BY DEF Msg, PowerMsg
  <2> QED
    BY <2>1
       DEF Audio, PeerInit, AudioTake, AudioSetPowerState, AudioOther,
         AudioRequest, AudioBlocks, AudioUnblocks, AudioSamplesSupply,
         AudioReleases, Bluetooth, BluetoothTake, BluetoothSetPowerState,
         BluetoothOther, BluetoothSource, BluetoothEvent,
         BroadcasterPowerOff, Take, Becomes, notify, TypeOK, Peer, PowerMsg
<1>2. UNCHANGED pc /\ faults \subseteq faults'
  BY OthersLeaveSystem
<1>3. "Audio" \in Peer /\ "Bluetooth" \in Peer
  BY DEF Peer
<1>4. pc = "boot" => doing'["Audio"] = doing["Audio"]
  BY <1>1, <1>3 DEF Booting
<1>5. pc \in {"boot", "bootAudioWait"} => doing'["Bluetooth"] = doing["Bluetooth"]
  BY <1>1, <1>3 DEF Booting
<1> QED
  BY <1>1, <1>2, <1>3, <1>4, <1>5 DEF Booting, InitAwaited

-----------------------------------------------------------------------------
(***************************************************************************)
(* The amplifiers.                                                         *)
(***************************************************************************)
\* While Audio is undisturbed, an await for it ends with its answer.
LEMMA AudioAnswered ==
  ASSUME TypeOK, await("Audio"), Undisturbed("Audio")'
  PROVE  note["Audio"] = 1
<1>1. note["Audio"] \in 0..1
  BY DEF TypeOK, Peer
<1>2. note["Audio"] # 0
  BY DEF await, Happens, Undisturbed
<1> QED
  BY <1>1, <1>2

LEMMA SystemAmps ==
  ASSUME TypeOK, Control, \A p \in Peer : Agrees(p), AmpsFit, System
  PROVE  AmpsFit'
<1> SUFFICES ASSUME Undisturbed("Audio")' PROVE AmpsFit'
  BY DEF AmpsFit
<1>0. Undisturbed("Audio") /\ "Audio" \in Peer /\ "Bluetooth" \in Peer
  BY SystemGrows, FaultsGrow DEF Peer
<1>q. ~Waits("Audio") => note["Audio"] = 0
  BY <1>0 DEF Agrees, Quiet
<1> USE <1>0 DEF AmpsFit, AmpsOff, AmpsEnabled, AmpsConfigured, AtRest,
                 BootPoint, ResetPoint, Goto
<1>1. CASE Boot \/ BootRadio \/ Await("bootRadioWait", "Bluetooth", "bootDecide")
           \/ BootDecide
  BY <1>1 DEF Boot, BootRadio, Await, BootDecide, Control
<1>2. CASE SystemNext
  <2>1. /\ pc = "idle" /\ UNCHANGED <<amps, powerStateFn>>
        /\ \/ pc' \in {"idle", "resetRadio"}
           \/ pc' = "onAmps"   /\ powerStateFn = "power_state_off"
           \/ pc' = "offStart" /\ powerStateFn = "power_state_on"
    BY <1>2 DEF SystemNext
  <2> QED
    BY <2>1
<1>3. CASE IdleTimeout
  <2>1. /\ pc = "idle" /\ UNCHANGED <<amps, powerStateFn>>
        /\ \/ pc' = "idle"
           \/ pc' = "offStart" /\ powerStateFn = "power_state_on"
    BY <1>3 DEF IdleTimeout
  <2> QED
    BY <2>1
<1>4. CASE OnAmps \/ OnIcon \/ OffPrepare \/ OffRelease
  BY <1>4, <1>q DEF OnAmps, OnIcon, OffPrepare, OffRelease, Waits, Control,
                    OnPoint
<1>5. CASE OnRadio \/ OnConfigure \/ OffAnnounce \/ OffAmps \/ OffRadio
  BY <1>5, <1>q
     DEF OnRadio, OnConfigure, OffAnnounce, OffAmps, OffRadio, Post, Waits
<1>6. CASE OnAmpsWait \/ OnConfigureWait \/ OffPrepareWait \/ OffAmpsWait
  BY <1>6, AudioAnswered
     DEF OnAmpsWait, OnConfigureWait, OffPrepareWait, OffAmpsWait, Await
<1>7. CASE OnRadioWait \/ OffAnnounceWait \/ OffRadioWait
  BY <1>7 DEF OnRadioWait, OffAnnounceWait, OffRadioWait, Await
<1>8. CASE OffStart \/ OffIcon
  BY <1>8 DEF OffStart, OffIcon, Post
<1>9. CASE ResetRadio \/ ResetAudio \/ ResetHard
  BY <1>9 DEF ResetRadio, ResetAudio, ResetHard, Post
<1> QED
  BY <1>1, <1>2, <1>3, <1>4, <1>5, <1>6, <1>7, <1>8, <1>9 DEF System

\* What Audio has in hand while it is undisturbed is what was asked of it.
LEMMA AudioInHand ==
  ASSUME Agrees("Audio"), Undisturbed("Audio"), Handling("Audio")
  PROVE  Waits("Audio") /\ note["Audio"] = 0 /\ doing["Audio"] = Asked
  BY DEF Agrees, Quiet, AskedOf, InQueue, InHand, Answered

LEMMA AudioAmps ==
  ASSUME TypeOK, \A p \in Peer : Agrees(p), AmpsFit, Audio
  PROVE  AmpsFit'
<1>0. /\ UNCHANGED <<pc, powerState, powerStateFn>>
      /\ Undisturbed("Audio")' => Undisturbed("Audio")
      /\ "Audio" \in Peer
  BY OthersLeaveSystem, FaultsGrow DEF Peer
<1>1. CASE PeerInit("Audio")
  <2>1. doing["Audio"] = "init" /\ UNCHANGED amps
    BY <1>1 DEF PeerInit
  <2>2. Undisturbed("Audio") => pc = "bootAudioWait"
    BY <2>1, <1>0, AudioInHand DEF Handling, Asked, Waits
  <2> QED
    BY <2>1, <2>2, <1>0
       DEF AmpsFit, AmpsOff, AmpsEnabled, AmpsConfigured, AtRest, BootPoint,
           ResetPoint
<1>2. CASE AudioSetPowerState
  <2>1. /\ Handling("Audio") /\ note'["Audio"] = 1
        /\ amps' = AmpsAfter(doing["Audio"])
    BY <1>2 DEF AudioSetPowerState, Handling, IsPower, notify, TypeOK, Peer
  <2>2. Undisturbed("Audio") =>
          /\ pc \in {"bootAudioWait", "onAmpsWait", "onConfigureWait",
                     "offPrepareWait", "offAmpsWait"}
          /\ note["Audio"] = 0 /\ doing["Audio"] = Asked
    BY <2>1, <1>0, AudioInHand DEF Waits
  <2>3. doing["Audio"] # "init"
    BY <1>2 DEF AudioSetPowerState, PowerMsg
  <2>4. Undisturbed("Audio") => pc # "bootAudioWait"
    BY <2>2, <2>3 DEF Asked
  <2>5. Undisturbed("Audio") =>
          /\ pc = "onAmpsWait" => amps' = "enabled"
          /\ pc = "onConfigureWait" => amps' = "configured"
          /\ pc = "offPrepareWait" => amps' = "configured"
          /\ pc = "offAmpsWait" => amps' = "off"
    BY <2>1, <2>2
       DEF AmpsFit, AmpsConfigured, AmpsAfter, Asked
  <2> QED
    BY <2>1, <2>2, <2>4, <2>5, <1>0
       DEF AmpsFit, AmpsOff, AmpsEnabled, AmpsConfigured, AtRest, BootPoint,
           ResetPoint
<1>3. CASE UNCHANGED <<amps, note>>
  BY <1>3, <1>0 DEF AmpsFit
<1> QED
  BY <1>1, <1>2, <1>3
     DEF Audio, AudioTake, AudioOther, AudioRequest, AudioBlocks,
         AudioUnblocks, AudioSamplesSupply, AudioReleases

LEMMA BluetoothAmps ==
  ASSUME TypeOK, AmpsFit, Bluetooth
  PROVE  AmpsFit'
<1>1. /\ UNCHANGED <<pc, powerState, powerStateFn>>
      /\ Undisturbed("Audio")' => Undisturbed("Audio")
  BY OthersLeaveSystem, FaultsGrow DEF Peer
<1>2. UNCHANGED amps /\ note'["Audio"] = note["Audio"]
  BY DEF Bluetooth, PeerInit, BluetoothTake, BluetoothSetPowerState,
         BluetoothOther, BluetoothSource, BluetoothEvent,
         BroadcasterPowerOff, notify, TypeOK, Peer
<1> QED
  BY <1>1, <1>2 DEF AmpsFit

-----------------------------------------------------------------------------
(***************************************************************************)
(* The radio module.                                                       *)
(***************************************************************************)
LEMMA BluetoothAnswered ==
  ASSUME TypeOK, await("Bluetooth"), Undisturbed("Bluetooth")'
  PROVE  note["Bluetooth"] = 1
<1>1. note["Bluetooth"] \in 0..1
  BY DEF TypeOK, Peer
<1>2. note["Bluetooth"] # 0
  BY DEF await, Happens, Undisturbed
<1> QED
  BY <1>1, <1>2

LEMMA BluetoothInHand ==
  ASSUME Agrees("Bluetooth"), Undisturbed("Bluetooth"), Handling("Bluetooth")
  PROVE  /\ Waits("Bluetooth") /\ note["Bluetooth"] = 0
         /\ doing["Bluetooth"] = Asked
  BY DEF Agrees, Quiet, AskedOf, InQueue, InHand, Answered

LEMMA SystemRadio ==
  ASSUME TypeOK, Control, \A p \in Peer : Agrees(p), RadioFit, System
  PROVE  RadioFit'
<1> SUFFICES ASSUME Undisturbed("Bluetooth")' PROVE RadioFit'
  BY DEF RadioFit
<1>0. Undisturbed("Bluetooth") /\ "Audio" \in Peer /\ "Bluetooth" \in Peer
  BY SystemGrows, FaultsGrow DEF Peer
<1>q. ~Waits("Bluetooth") =>
        note["Bluetooth"] = 0 /\ doing["Bluetooth"] # "On"
  BY <1>0 DEF Agrees, Quiet, Handling, IsPower, PowerMsg
<1> USE <1>0 DEF RadioFit, RadioOff, RadioOn, AmpsConfigured, AtRest,
                 BootPoint, ResetPoint, Goto
<1>1. CASE Boot \/ BootRadio \/ Await("bootRadioWait", "Bluetooth", "bootDecide")
           \/ BootDecide
  BY <1>1 DEF Boot, BootRadio, Await, BootDecide, Control
<1>2. CASE SystemNext
  <2>1. /\ pc = "idle" /\ UNCHANGED <<radio, powerStateFn>>
        /\ \/ pc' \in {"idle", "resetRadio"}
           \/ pc' = "onAmps"   /\ powerStateFn = "power_state_off"
           \/ pc' = "offStart" /\ powerStateFn = "power_state_on"
    BY <1>2 DEF SystemNext
  <2> QED
    BY <2>1
<1>3. CASE IdleTimeout
  <2>1. /\ pc = "idle" /\ UNCHANGED <<radio, powerStateFn>>
        /\ \/ pc' = "idle"
           \/ pc' = "offStart" /\ powerStateFn = "power_state_on"
    BY <1>3 DEF IdleTimeout
  <2> QED
    BY <2>1
<1>4. CASE OnAmps \/ OnIcon \/ OffPrepare \/ OffRelease
  BY <1>4 DEF OnAmps, OnIcon, OffPrepare, OffRelease, Control, OnPoint
<1>5. CASE OnRadio \/ OnConfigure \/ OffAnnounce \/ OffAmps \/ OffRadio
  BY <1>5, <1>q
     DEF OnRadio, OnConfigure, OffAnnounce, OffAmps, OffRadio, Post, Waits
<1>6. CASE OnRadioWait \/ OffAnnounceWait \/ OffRadioWait
  BY <1>6, BluetoothAnswered
     DEF OnRadioWait, OffAnnounceWait, OffRadioWait, Await
<1>7. CASE OnAmpsWait \/ OnConfigureWait \/ OffPrepareWait \/ OffAmpsWait
  BY <1>7 DEF OnAmpsWait, OnConfigureWait, OffPrepareWait, OffAmpsWait, Await
<1>8. CASE OffStart \/ OffIcon
  BY <1>8 DEF OffStart, OffIcon, Post
<1>9. CASE ResetRadio \/ ResetAudio \/ ResetHard
  BY <1>9 DEF ResetRadio, ResetAudio, ResetHard, Post
<1> QED
  BY <1>1, <1>2, <1>3, <1>4, <1>5, <1>6, <1>7, <1>8, <1>9 DEF System

LEMMA AudioRadio ==
  ASSUME TypeOK, RadioFit, Audio
  PROVE  RadioFit'
<1>1. /\ UNCHANGED <<pc, powerState, powerStateFn>>
      /\ Undisturbed("Bluetooth")' => Undisturbed("Bluetooth")
  BY OthersLeaveSystem, FaultsGrow DEF Peer
<1>2. UNCHANGED radio /\ note'["Bluetooth"] = note["Bluetooth"]
  BY DEF Audio, PeerInit, AudioTake, AudioSetPowerState, AudioOther,
         AudioRequest, AudioBlocks, AudioUnblocks, AudioSamplesSupply,
         AudioReleases, notify, TypeOK, Peer
<1>3. doing'["Bluetooth"] = doing["Bluetooth"]
  BY DEF Audio, PeerInit, AudioTake, AudioSetPowerState, AudioOther,
         AudioRequest, AudioBlocks, AudioUnblocks, AudioSamplesSupply,
         AudioReleases, Take, Becomes, TypeOK, Peer
<1> QED
  BY <1>1, <1>2, <1>3 DEF RadioFit

LEMMA BluetoothRadio ==
  ASSUME TypeOK, \A p \in Peer : Agrees(p), RadioFit, Bluetooth
  PROVE  RadioFit'
<1>0. /\ UNCHANGED <<pc, powerState, powerStateFn>>
      /\ Undisturbed("Bluetooth")' => Undisturbed("Bluetooth")
      /\ "Bluetooth" \in Peer
  BY OthersLeaveSystem, FaultsGrow DEF Peer
<1>w. Waits("Bluetooth") => pc \in {"bootRadioWait", "onRadioWait",
                                   "offAnnounceWait", "offRadioWait"}
  BY DEF Waits
<1> USE DEF RadioOff, RadioOn, AmpsConfigured, AtRest, BootPoint, ResetPoint
<1>1. CASE PeerInit("Bluetooth")
  <2>1. doing["Bluetooth"] = "init" /\ UNCHANGED radio
    BY <1>1 DEF PeerInit
  <2>2. Undisturbed("Bluetooth") => pc = "bootRadioWait"
    BY <2>1, <1>0, <1>w, BluetoothInHand DEF Handling, Asked
  <2> QED
    BY <2>1, <2>2, <1>0 DEF RadioFit
<1>2. CASE BluetoothTake
  <2>1. /\ doing["Bluetooth"] = "idle" /\ UNCHANGED note
        /\ radio' = (radio \/ doing'["Bluetooth"] = "On")
    BY <1>2 DEF BluetoothTake, Take
  <2>2. Carried("Bluetooth")
    BY <1>2, <1>0, TakeIsCarried DEF BluetoothTake, TypeOK, QueueOK
  <2>3. Agrees("Bluetooth")'
    BY <2>2, <1>0, StayAgrees, OthersLeaveSystem
  <2>4. Undisturbed("Bluetooth")' =>
          (doing'["Bluetooth"] = "On" => pc = "onRadioWait")
    <3> SUFFICES ASSUME Undisturbed("Bluetooth")', doing'["Bluetooth"] = "On"
                 PROVE  pc = "onRadioWait"
      OBVIOUS
    <3>1. Handling("Bluetooth")'
      BY DEF Handling, IsPower, PowerMsg
    <3>2. Waits("Bluetooth")' /\ Asked' = "On"
      BY <2>3, <3>1 DEF Agrees, Quiet, AskedOf, InQueue, InHand, Answered
    <3> QED
      BY <3>2, <1>0, <1>w DEF Asked, Waits
  <2> QED
    BY <2>1, <2>4, <1>0 DEF RadioFit
<1>3. CASE BluetoothSetPowerState
  <2>1. /\ Handling("Bluetooth") /\ doing["Bluetooth"] # "init"
        /\ note'["Bluetooth"] = 1 /\ doing'["Bluetooth"] = "idle"
    BY <1>3 DEF BluetoothSetPowerState, Handling, IsPower, PowerMsg, notify,
                Becomes, TypeOK, Peer
  <2>2. radio' = (radio /\ doing["Bluetooth"] # "Off")
    BY <1>3 DEF BluetoothSetPowerState, TypeOK
  <2>3. Undisturbed("Bluetooth") =>
          /\ note["Bluetooth"] = 0 /\ doing["Bluetooth"] = Asked
          /\ pc \in {"onRadioWait", "offAnnounceWait", "offRadioWait"}
    BY <2>1, <1>0, <1>w, BluetoothInHand DEF Asked
  <2>4. Undisturbed("Bluetooth") =>
          /\ pc \in {"onRadioWait", "offAnnounceWait"} => radio /\ radio'
          /\ pc = "offRadioWait" => ~radio'
    BY <2>2, <2>3 DEF RadioFit, Asked
  <2> QED
    BY <2>1, <2>3, <2>4, <1>0 DEF RadioFit
<1>4. CASE BluetoothOther
  <2>1. doing["Bluetooth"] = "Other" /\ doing'["Bluetooth"] = "idle"
    BY <1>4 DEF BluetoothOther, Becomes, TypeOK, Peer
  <2> QED
    BY <2>1, <1>4, <1>0 DEF BluetoothOther, RadioFit
<1>5. CASE UNCHANGED <<radio, note, doing>>
  BY <1>5, <1>0 DEF RadioFit
<1> QED
  BY <1>1, <1>2, <1>3, <1>4, <1>5
     DEF Bluetooth, BluetoothSource, BluetoothEvent, BroadcasterPowerOff

-----------------------------------------------------------------------------
(***************************************************************************)
(* Audio's delay before it lets the supply go.                             *)
(***************************************************************************)
LEMMA SystemReleasing ==
  ASSUME TypeOK, Control, Releasing, System
  PROVE  Releasing'
<1> SUFFICES ASSUME Undisturbed("Audio")', doing'["Audio"] = "release"
             PROVE  /\ pc' \in AtRest \cup {"onAmps", "onAmpsWait"}
                    /\ powerStateFn' = "power_state_off"
                    /\ note'["Audio"] = 0
  BY DEF Releasing
<1>1. doing["Audio"] = "release"
  BY SystemCreates DEF Boot, BootRadio, TypeOK, Peer
<1>2. /\ pc \in AtRest \cup {"onAmps", "onAmpsWait"}
      /\ powerStateFn = "power_state_off" /\ note["Audio"] = 0
  BY <1>1, SystemGrows, FaultsGrow DEF Releasing, Peer
<1>3. note'["Audio"] = 0
  BY <1>2, SystemTakes DEF Peer
<1>4. pc # "onAmpsWait" \/ ~OnAmpsWait
  BY <1>2, AudioAnswered DEF OnAmpsWait, Await
<1>5. /\ pc' \in AtRest \cup {"onAmps", "onAmpsWait"}
      /\ powerStateFn' = powerStateFn
  BY <1>2, <1>4
     DEF System, Boot, BootRadio, BootDecide, SystemNext, IdleTimeout, OnAmps,
         OnAmpsWait, OnRadio, OnRadioWait, OnConfigure, OnConfigureWait,
         OnIcon, OffStart, OffPrepare, OffPrepareWait, OffIcon, OffAnnounce,
         OffAnnounceWait, OffAmps, OffAmpsWait, OffRadio, OffRadioWait,
         OffRelease, ResetRadio, ResetAudio, ResetHard, Post, Await, Goto,
         AtRest, ResetPoint
<1> QED
  BY <1>2, <1>3, <1>5

LEMMA PeersReleasing ==
  ASSUME TypeOK, Control, \A p \in Peer : Agrees(p), Releasing,
         Audio \/ Bluetooth
  PROVE  Releasing'
<1>0. /\ UNCHANGED <<pc, powerState, powerStateFn>>
      /\ Undisturbed("Audio")' => Undisturbed("Audio")
      /\ "Audio" \in Peer
  BY OthersLeaveSystem, FaultsGrow DEF Peer
<1>1. CASE AudioSamplesSupply
  <2>1. powerState = "Off" /\ UNCHANGED note
    BY <1>1 DEF AudioSamplesSupply
  <2>2. /\ pc \in AtRest \cup {"onAmps"}
        /\ powerStateFn = "power_state_off"
    BY <2>1 DEF Control
  <2>3. ~Waits("Audio")
    BY <2>2 DEF Waits, AtRest, ResetPoint
  <2>4. Undisturbed("Audio") => note["Audio"] = 0
    BY <1>0, <2>3 DEF Agrees, Quiet
  <2> QED
    BY <1>0, <2>1, <2>2, <2>4 DEF Releasing
<1>2. CASE doing'["Audio"] # "release"
  BY <1>2 DEF Releasing
<1>3. CASE doing'["Audio"] = doing["Audio"] /\ note'["Audio"] = note["Audio"]
  BY <1>0, <1>3 DEF Releasing
<1> QED
  BY <1>1, <1>2, <1>3
     DEF Audio, PeerInit, AudioTake, AudioSetPowerState, AudioOther,
         AudioRequest, AudioBlocks, AudioUnblocks, AudioReleases, Bluetooth,
         BluetoothTake, BluetoothSetPowerState, BluetoothOther,
         BluetoothSource, BluetoothEvent, BroadcasterPowerOff, Take, Becomes,
         notify, TypeOK, Peer, Msg, PowerMsg

-----------------------------------------------------------------------------
(***************************************************************************)
(* The invariant, and what follows from it.                                *)
(***************************************************************************)
LEMMA EmptyNoPower == NoPower(<<>>)
  BY DEF NoPower

LEMMA InitInv == Init => Inv
<1> SUFFICES ASSUME Init PROVE Inv
  OBVIOUS
<1>1. \A p \in Peer : queue[p] = <<>> /\ doing[p] = "down" /\ note[p] = 0
  BY DEF Init, Peer, Task
<1>2. \A p \in Peer : Quiet(p) /\ ~Waits(p)
  BY <1>1, EmptyNoPower DEF Init, Quiet, Handling, IsPower, PowerMsg, Waits
<1>3. \A p \in Peer : Agrees(p)
  BY <1>2 DEF Agrees
<1>4. Control /\ Booting /\ InitAwaited
  BY <1>1 DEF Init, Control, Booting, InitAwaited, AtRest, OffPoint,
              ResetPoint, Peer
<1>5. AmpsFit /\ RadioFit /\ Releasing
  BY <1>1 DEF Init, AmpsFit, RadioFit, Releasing, AmpsEnabled, AmpsConfigured,
              RadioOn, AtRest, ResetPoint, Peer
<1> QED
  BY <1>3, <1>4, <1>5 DEF Inv

LEMMA RestartInv == Restart => Inv'
<1> SUFFICES ASSUME Restart PROVE Inv'
  OBVIOUS
<1>1. \A p \in Peer : queue'[p] = <<>> /\ doing'[p] = "down" /\ note'[p] = 0
  BY DEF Restart, Peer, Task
<1>2. \A p \in Peer : Quiet(p)' /\ ~Waits(p)'
  BY <1>1, EmptyNoPower DEF Restart, Quiet, Handling, IsPower, PowerMsg, Waits
<1>3. \A p \in Peer : Agrees(p)'
  BY <1>2 DEF Agrees
<1>4. Control' /\ Booting' /\ InitAwaited'
  BY <1>1 DEF Restart, Control, Booting, InitAwaited, AtRest, OffPoint,
              ResetPoint, Peer
<1>5. AmpsFit' /\ RadioFit' /\ Releasing'
  BY <1>1 DEF Restart, AmpsFit, RadioFit, Releasing, AmpsEnabled,
              AmpsConfigured, RadioOn, AtRest, ResetPoint, Peer
<1> QED
  BY <1>3, <1>4, <1>5 DEF Inv

LEMMA NextInv ==
  ASSUME TypeOK, Inv, [Next]_vars
  PROVE  Inv'
<1>1. CASE System
  <2>1. \A p \in Peer : Agrees(p)'
    BY <1>1, SystemAgrees DEF Inv
  <2>2. Control' /\ Booting' /\ InitAwaited'
    BY <1>1, SystemControl, SystemBooting, SystemInitAwaited DEF Inv
  <2>3. AmpsFit' /\ RadioFit' /\ Releasing'
    BY <1>1, SystemAmps, SystemRadio, SystemReleasing DEF Inv
  <2> QED
    BY <2>1, <2>2, <2>3 DEF Inv
<1>2. CASE Audio \/ Bluetooth
  <2>1. \A p \in Peer : Agrees(p)'
    <3>1. CASE Audio
      BY <3>1, AudioCarries, StayAgrees DEF Inv
    <3> QED
      BY <3>1, <1>2, BluetoothAgrees DEF Inv
  <2>2. Control'
    BY <1>2, OthersLeaveSystem DEF Inv, Control
  <2>3. Booting' /\ InitAwaited'
    BY <1>2, PeersBooting DEF Inv
  <2>4. AmpsFit' /\ RadioFit'
    BY <1>2, AudioAmps, BluetoothAmps, AudioRadio, BluetoothRadio DEF Inv
  <2>5. Releasing'
    BY <1>2, PeersReleasing DEF Inv
  <2> QED
    BY <2>1, <2>2, <2>3, <2>4, <2>5 DEF Inv
<1>3. CASE Supply \/ Time \/ UNCHANGED vars
  <2>1. UNCHANGED <<pc, powerState, powerStateFn, queue, doing, note, faults,
                    amps, radio>>
    BY <1>3 DEF Supply, Time, vars
  <2>2. \A p \in Peer : Agrees(p)'
    BY <2>1, SameKeeps, KeptIsCarried, StayAgrees DEF Inv
  <2>3. Control' /\ Booting' /\ InitAwaited'
    BY <2>1 DEF Inv, Control, Booting, InitAwaited
  <2>4. AmpsFit' /\ RadioFit' /\ Releasing'
    BY <2>1 DEF Inv, AmpsFit, RadioFit, Releasing, Undisturbed
  <2> QED
    BY <2>2, <2>3, <2>4 DEF Inv
<1>4. CASE PowerLost \/ HardReset
  BY <1>4, RestartInv DEF PowerLost, HardReset
<1> QED
  BY <1>1, <1>2, <1>3, <1>4 DEF Next

\* At every point of the sequence the handshake is where System believes it
\* is, and the hardware is where that point says.
THEOREM Invariance == Spec => []Inv
<1>1. Init => Inv
  BY InitInv
<1>2. TypeOK /\ Inv /\ [Next]_vars => Inv'
  BY NextInv
<1> QED
  BY <1>1, <1>2, TypeCorrect, PTL DEF Spec

\* A request and its answer never pass each other (InStep), for any queues.
THEOREM HandshakeInStep == Spec => []InStep
<1>1. TypeOK /\ Inv => InStep
  <2> SUFFICES ASSUME TypeOK, Inv, NEW p \in Peer, Undisturbed(p)
               PROVE  IF Waits(p)
                      THEN \/ /\ note[p] = 0 /\ Handling(p) /\ Queued(p) = {}
                           \/ /\ note[p] = 0 /\ ~Handling(p)
                              /\ \E i \in Queued(p) : Queued(p) = {i}
                           \/ /\ note[p] = 1 /\ ~Handling(p) /\ Queued(p) = {}
                      ELSE note[p] = 0 /\ ~Handling(p) /\ Queued(p) = {}
    BY DEF InStep
  <2>1. NoPower(queue[p]) => Queued(p) = {}
    BY DEF NoPower, Queued
  <2>2. \A m \in PowerMsg : OnlyPower(queue[p], m) =>
                             \E i \in Queued(p) : Queued(p) = {i}
    BY DEF OnlyPower, Queued, IsPower
  <2>3. InQueue(p, Asked) => Asked \in PowerMsg
    <3>1. p \in Task /\ queue[p] \in Seq(Msg) /\ "init" \notin Msg
      BY DEF TypeOK, Peer, Task, Msg, PowerMsg
    <3>2. ~OnlyPower(queue[p], "init")
      BY <3>1 DEF OnlyPower
    <3> QED
      BY <3>2, AskedIsAsk DEF Ask, InQueue
  <2>4. InHand(p, Asked) => Handling(p)
    BY AskedIsAsk DEF InHand, Handling, IsPower, Ask
  <2> QED
    BY <2>1, <2>2, <2>3, <2>4
       DEF Inv, Agrees, Quiet, AskedOf, InQueue, InHand, Answered
<1> QED
  BY <1>1, TypeCorrect, Invariance, PTL

\* The published power state tells the truth about the amplifiers while Audio
\* is undisturbed, and about the module while Bluetooth is (Settled).
THEOREM StateIsTrue == Spec => []Settled
<1>1. Inv => Settled
  BY DEF Inv, Control, AmpsFit, RadioFit, Settled, AmpsOff, AmpsEnabled,
         AmpsConfigured, RadioOff, RadioOn, AtRest, BootPoint, ResetPoint
<1> QED
  BY <1>1, Invariance, PTL

\* Without faults, amplifiers that play have a module that clocks them.
THEOREM AmpsWithRadio == Spec => []AmpsNeedRadio
<1>1. TypeOK /\ Inv => AmpsNeedRadio
  <2> SUFFICES ASSUME TypeOK, Inv, faults = {}, amps = "configured"
               PROVE  radio
    BY DEF AmpsNeedRadio
  <2>1. Undisturbed("Audio") /\ Undisturbed("Bluetooth")
    BY DEF Undisturbed
  <2>2. \/ pc \in {"onConfigureWait", "offAmpsWait"} \cup AmpsConfigured
        \/ pc \in AtRest /\ powerStateFn = "power_state_on"
    BY <2>1 DEF Inv, AmpsFit, AmpsOff, AmpsEnabled, AmpsConfigured, AtRest,
                TypeOK, Point, OnPoint, OffPoint, BootPoint, ResetPoint
  <2> QED
    BY <2>1, <2>2 DEF Inv, RadioFit, RadioOn
<1> QED
  BY <1>1, TypeCorrect, Invariance, PTL

\* While no await is late, a published state means that both peers have been
\* initialised; lost messages and stray power offs do not matter.
THEOREM InitialisedFirst == Spec => []InitializedBeforeOff
<1>1. TypeOK /\ Inv => InitializedBeforeOff
  <2> SUFFICES ASSUME TypeOK, Inv, "late" \notin faults,
                      powerState # "Transition", NEW p \in Peer
               PROVE  doing[p] \notin {"down", "init"}
    BY DEF InitializedBeforeOff
  <2>1. pc \in AtRest \cup {"offStart", "offPrepare", "onAmps"}
    BY DEF TypeOK, Inv, Control
  <2>2. pc \notin {"boot", "bootAudioWait", "bootRadioWait"}
    BY <2>1 DEF AtRest, ResetPoint
  <2> QED
    BY <2>2 DEF Inv, Booting, InitAwaited, Peer
<1> QED
  BY <1>1, TypeCorrect, Invariance, PTL

\* The supply is let go only when the amplifiers and the module are down: not
\* even Audio's delayed release finds System past its first request.
THEOREM SupplyHeld == Spec => HeldUntilDown
<1>1. ASSUME TypeOK, Inv, [Next]_vars, held, ~held'
      PROVE  LetsGoDown
  <2> SUFFICES /\ Undisturbed("Audio")     => amps' = "off"
               /\ Undisturbed("Bluetooth") => ~radio'
    BY DEF LetsGoDown
  <2>0. Undisturbed("Bluetooth") => Undisturbed("Audio")
    BY DEF Undisturbed
  <2>1. CASE OffRelease
    BY <1>1, <2>1 DEF OffRelease, Goto, Inv, AmpsFit, RadioFit, AmpsOff, RadioOff
  <2>2. CASE AudioReleases
    BY <1>1, <2>0, <2>2
       DEF AudioReleases, Inv, Releasing, AmpsFit, RadioFit, AmpsOff, RadioOff,
           AtRest, ResetPoint
  <2>3. CASE Boot \/ BootDecide
    <3>1. pc \in BootPoint /\ UNCHANGED <<amps, radio>>
      BY <2>3 DEF Boot, BootDecide, Goto, BootPoint
    <3> QED
      BY <1>1, <3>1 DEF Inv, AmpsFit, RadioFit, AmpsOff, RadioOff
  <2>4. CASE PowerLost \/ HardReset
    BY <2>4 DEF PowerLost, HardReset, Restart
  <2>5. OffRelease \/ AudioReleases \/ Boot \/ BootDecide \/ PowerLost \/ HardReset
    BY <1>1
       DEF Next, vars, System, BootRadio, SystemNext, IdleTimeout, OnAmps,
           OnAmpsWait, OnRadio, OnRadioWait, OnConfigure, OnConfigureWait,
           OnIcon, OffStart, OffPrepare, OffPrepareWait, OffIcon, OffAnnounce,
           OffAnnounceWait, OffAmps, OffAmpsWait, OffRadio, OffRadioWait,
           ResetRadio, ResetAudio, ResetHard, Post, Await,
           Audio, PeerInit, AudioTake, AudioSetPowerState, AudioOther,
           AudioRequest, AudioBlocks, AudioUnblocks, AudioSamplesSupply,
           Bluetooth, BluetoothTake, BluetoothSetPowerState, BluetoothOther,
           BluetoothSource, BluetoothEvent, BroadcasterPowerOff, Supply, Time,
           supply
  <2> QED
    BY <2>1, <2>2, <2>3, <2>4, <2>5
<1>2. TypeOK /\ Inv /\ [Next]_vars => [LetsGoDown]_vars
  BY <1>1 DEF LetsGoDown
<1> QED
  BY <1>2, TypeCorrect, Invariance, PTL DEF Spec, HeldUntilDown
-----------------------------------------------------------------------------
(***************************************************************************)
(* Late answers: where its queue leads each peer.                          *)
(***************************************************************************)
NoEffect == {"down", "init", "idle", "blocked", "release", "Other", "HardReset",
             "FactoryResetRequest", "PreOff"}

LEMMA Effects ==
  ASSUME NEW p \in Peer, NEW s \in HardwareState(p)
  PROVE  /\ \A m : Effect(p, m, s) \in HardwareState(p)
         /\ \A m \in NoEffect : Effect(p, m, s) = s
  BY DEF Effect, HardwareState, NoEffect, Peer

LEMMA LeadsNowhere ==
  ASSUME NEW p \in Peer, NEW s \in HardwareState(p)
  PROVE  Leads(p, s, <<>>, s) /\ \A t : Leads(p, s, <<>>, t) => t = s
<1>1. Len(<<>>) = 0
  OBVIOUS
<1> DEFINE h == [i \in 1 .. Len(<<>>) + 1 |-> s]
<1>2. h \in [1 .. Len(<<>>) + 1 -> HardwareState(p)] /\ h[1] = s /\ h[Len(<<>>) + 1] = s
  BY <1>1
<1>3. 1 .. Len(<<>>) = {}
  BY <1>1
<1> HIDE DEF h
<1>4. Leads(p, s, <<>>, s)
  BY <1>2, <1>3 DEF Leads
<1>5. ASSUME NEW t, Leads(p, s, <<>>, t) PROVE t = s
  <2>1. Len(<<>>) + 1 = 1
    BY <1>1
  <2> QED
    BY <1>5, <2>1 DEF Leads
<1> QED
  BY <1>4, <1>5

LEMMA LeadsOn ==
  ASSUME NEW p \in Peer, NEW q \in Seq(Msg), NEW s, NEW t, NEW m \in Msg, Leads(p, s, q, t)
  PROVE  Leads(p, s, Append(q, m), Effect(p, m, t)) /\ t \in HardwareState(p)
<1> DEFINE n == Len(q)
<1>1. n \in Nat
  OBVIOUS
<1>2. PICK h \in [1 .. n + 1 -> HardwareState(p)] :
        /\ h[1] = s
        /\ \A i \in 1 .. n : h[i + 1] = Effect(p, q[i], h[i])
        /\ h[n + 1] = t
  BY DEF Leads
<1>3. /\ Len(Append(q, m)) = n + 1 /\ Append(q, m)[n + 1] = m
      /\ \A i \in 1 .. n : Append(q, m)[i] = q[i]
  OBVIOUS
<1> HIDE DEF n
<1>4. t \in HardwareState(p) /\ Effect(p, m, t) \in HardwareState(p)
  BY <1>1, <1>2, Effects
<1> DEFINE g == [i \in 1 .. (n + 1) + 1 |-> IF i = n + 2 THEN Effect(p, m, t) ELSE h[i]]
<1>5. g \in [1 .. (n + 1) + 1 -> HardwareState(p)]
  BY <1>1, <1>2, <1>4
<1>6. g[1] = s /\ g[(n + 1) + 1] = Effect(p, m, t) /\ g[n + 1] = t
  BY <1>1, <1>2
<1>7. \A i \in 1 .. n : g[i] = h[i] /\ g[i + 1] = h[i + 1]
  BY <1>1
<1>8. ASSUME NEW i \in 1 .. n + 1 PROVE g[i + 1] = Effect(p, Append(q, m)[i], g[i])
  <2>1. i \in 1 .. n \/ i = n + 1
    BY <1>1
  <2> HIDE DEF g
  <2> QED
    BY <1>2, <1>3, <1>6, <1>7, <2>1
<1> HIDE DEF g
<1> QED
  BY <1>3, <1>4, <1>5, <1>6, <1>8 DEF Leads

LEMMA LeadsNext ==
  ASSUME NEW p \in Peer, NEW q \in Seq(Msg), q # <<>>, NEW s, NEW t, Leads(p, s, q, t)
  PROVE  Leads(p, Effect(p, Head(q), s), Tail(q), t)
<1> DEFINE n == Len(q)
<1>1. n \in Nat /\ n >= 1 /\ Len(Tail(q)) = n - 1 /\ Head(q) = q[1]
      /\ \A i \in 1 .. n - 1 : Tail(q)[i] = q[i + 1]
  OBVIOUS
<1>2. PICK h \in [1 .. n + 1 -> HardwareState(p)] :
        /\ h[1] = s
        /\ \A i \in 1 .. n : h[i + 1] = Effect(p, q[i], h[i])
        /\ h[n + 1] = t
  BY DEF Leads
<1> HIDE DEF n
<1> DEFINE g == [i \in 1 .. (n - 1) + 1 |-> h[i + 1]]
<1>3. g \in [1 .. (n - 1) + 1 -> HardwareState(p)]
  BY <1>1, <1>2
<1>4. g[1] = h[1 + 1] /\ g[(n - 1) + 1] = h[n + 1] /\ 1 \in 1 .. n
  BY <1>1
<1>5. \A i \in 1 .. n - 1 : g[i] = h[i + 1] /\ g[i + 1] = h[(i + 1) + 1] /\ i + 1 \in 1 .. n
  BY <1>1
<1> HIDE DEF g
<1>6. \A i \in 1 .. n - 1 : g[i + 1] = Effect(p, Tail(q)[i], g[i])
  BY <1>1, <1>2, <1>5
<1>7. g[1] = Effect(p, Head(q), s) /\ g[(n - 1) + 1] = t
  BY <1>1, <1>2, <1>4
<1> QED
  BY <1>1, <1>3, <1>6, <1>7 DEF Leads

\* What a step that leaves the hardware, and the power message that is being
\* handled, alone does to a peer.
Idles(p) ==
  /\ Hardware(p)' = Hardware(p)
  /\ \/ doing'[p] = doing[p]
     \/ doing[p] \in NoEffect /\ doing'[p] \in NoEffect

LEMMA HardwareTyped ==
  ASSUME TypeOK, NEW p \in Peer
  PROVE  Hardware(p) \in HardwareState(p) /\ queue[p] \in Seq(Msg) /\ doing[p] \in Doing
  BY DEF TypeOK, Hardware, HardwareState, Peer, Task

LEMMA RestWorksOff ==
  ASSUME TypeOK, NEW p \in Peer, WorksOff(p), Idles(p),
         queue'[p] = queue[p], Target(p)' = Target(p)
  PROVE  WorksOff(p)'
<1>1. Effect(p, doing'[p], Hardware(p)') = Effect(p, doing[p], Hardware(p))
  BY Effects, HardwareTyped DEF Idles
<1> QED
  BY <1>1 DEF WorksOff

LEMMA PostWorksOff ==
  ASSUME TypeOK, NEW p \in Peer, WorksOff(p), Idles(p),
         NEW t \in Task, NEW m \in Msg, PostMsg(t, m), faults' \subseteq {"late"}, Started(t),
         Target(p)' = (IF t = p THEN Effect(p, m, Target(p)) ELSE Target(p))
  PROVE  WorksOff(p)'
<1>1. Effect(p, doing'[p], Hardware(p)') = Effect(p, doing[p], Hardware(p))
  BY Effects, HardwareTyped DEF Idles
<1>2. queue' = [queue EXCEPT ![t] = Append(@, m)]
  BY DEF PostMsg, Happens
<1>3. queue \in [Task -> Seq(Msg)] /\ p \in Task
  BY DEF TypeOK, Peer, Task
<1>4. CASE t = p
  <2>1. queue'[p] = Append(queue[p], m) /\ Target(p)' = Effect(p, m, Target(p))
    BY <1>2, <1>3, <1>4
  <2> QED
    BY <1>1, <1>3, <2>1, LeadsOn DEF WorksOff
<1>5. CASE t # p
  BY <1>2, <1>3, <1>5, RestWorksOff
<1> QED
  BY <1>4, <1>5

\* A message without effect changes nothing of where a queue leads, whether
\* it is taken or not.
LEMMA OtherWorksOff ==
  ASSUME TypeOK, NEW p \in Peer, WorksOff(p), Idles(p),
         NEW t \in Task, NEW m \in NoEffect \cap Msg, PostMsg(t, m),
         Target(p)' = Target(p)
  PROVE  WorksOff(p)'
<1>1. Effect(p, doing'[p], Hardware(p)') = Effect(p, doing[p], Hardware(p))
  BY Effects, HardwareTyped DEF Idles
<1>2. queue \in [Task -> Seq(Msg)] /\ p \in Task
  BY DEF TypeOK, Peer, Task
<1>3. CASE queue'[p] = queue[p]
  BY <1>3, RestWorksOff
<1>4. CASE t = p /\ queue' = [queue EXCEPT ![t] = Append(@, m)]
  <2>1. queue'[p] = Append(queue[p], m)
    BY <1>2, <1>4
  <2>2. Leads(p, Effect(p, doing[p], Hardware(p)), Append(queue[p], m), Effect(p, m, Target(p)))
        /\ Target(p) \in HardwareState(p)
    BY <1>2, LeadsOn DEF WorksOff
  <2>3. Effect(p, m, Target(p)) = Target(p)
    BY <2>2, Effects
  <2> QED
    BY <1>1, <2>1, <2>2, <2>3 DEF WorksOff
<1> QED
  BY <1>2, <1>3, <1>4 DEF PostMsg

LEMMA TakeWorksOff ==
  ASSUME TypeOK, NEW p \in Peer, WorksOff(p), NEW m \in Msg, Take(p, m), Target(p)' = Target(p),
         Effect(p, m, Hardware(p)') = Effect(p, m, Hardware(p))
  PROVE  WorksOff(p)'
<1>1. /\ p \in Task /\ doing[p] = "idle" /\ queue[p] \in Seq(Msg) /\ queue[p] # <<>>
      /\ Head(queue[p]) = m /\ queue'[p] = Tail(queue[p]) /\ doing'[p] = m
  BY DEF TypeOK, Take, Becomes, Peer, Task
<1>2. Effect(p, doing[p], Hardware(p)) = Hardware(p)
  BY <1>1, Effects, HardwareTyped DEF NoEffect
<1>3. Leads(p, Effect(p, m, Hardware(p)), Tail(queue[p]), Target(p))
  BY <1>1, <1>2, LeadsNext DEF WorksOff
<1> QED
  BY <1>1, <1>3 DEF WorksOff

LEMMA DoneWorksOff ==
  ASSUME TypeOK, TypeOK', NEW p \in Peer, WorksOff(p), Target(p)' = Target(p),
         doing'[p] = "idle", Hardware(p)' = Effect(p, doing[p], Hardware(p)),
         queue'[p] = queue[p]
  PROVE  WorksOff(p)'
<1>1. Hardware(p)' \in HardwareState(p)
  BY HardwareTyped, Effects
<1>2. Effect(p, doing'[p], Hardware(p)') = Hardware(p)'
  BY <1>1, Effects DEF NoEffect
<1> QED
  BY <1>2 DEF WorksOff

\* Where System's messages lead, at each of its points.
LEMMA Targets ==
  ASSUME NEW at, NEW fn
  PROVE  /\ at \in AmpsOff \cup {"offAmpsWait"}            => AmpsTarget(at, fn) = "off"
         /\ at \in AmpsEnabled \cup {"onAmpsWait"}         => AmpsTarget(at, fn) = "enabled"
         /\ at \in AmpsConfigured \cup {"onConfigureWait"} => AmpsTarget(at, fn) = "configured"
         /\ at \in AtRest /\ fn = "power_state_off"        => AmpsTarget(at, fn) = "off"
         /\ at \in AtRest /\ fn = "power_state_on"         => AmpsTarget(at, fn) = "configured"
         /\ at \in RadioOff \cup {"offRadioWait"}          => RadioTarget(at, fn) = "off"
         /\ at \in RadioOn \cup {"onRadioWait"}            => RadioTarget(at, fn) = "powered"
         /\ at \in AtRest /\ fn = "power_state_off"        => RadioTarget(at, fn) = "off"
         /\ at \in AtRest /\ fn = "power_state_on"         => RadioTarget(at, fn) = "powered"
<1> USE DEF AmpsOff, AmpsEnabled, AmpsConfigured, RadioOff, RadioOn, AtRest, BootPoint, ResetPoint
<1>1. at \in AmpsOff \cup {"offAmpsWait"} => AmpsTarget(at, fn) = "off"
  BY DEF AmpsTarget
<1>2. at \in AmpsEnabled \cup {"onAmpsWait"} => AmpsTarget(at, fn) = "enabled"
  BY DEF AmpsTarget
<1>3. at \in AmpsConfigured \cup {"onConfigureWait"} => AmpsTarget(at, fn) = "configured"
  BY DEF AmpsTarget
<1>4. at \in AtRest /\ fn = "power_state_off" => AmpsTarget(at, fn) = "off"
  BY DEF AmpsTarget
<1>5. at \in AtRest /\ fn = "power_state_on" => AmpsTarget(at, fn) = "configured"
  BY DEF AmpsTarget
<1>6. at \in RadioOff \cup {"offRadioWait"} => RadioTarget(at, fn) = "off"
  BY DEF RadioTarget
<1>7. at \in RadioOn \cup {"onRadioWait"} => RadioTarget(at, fn) = "powered"
  BY DEF RadioTarget
<1>8. at \in AtRest /\ fn = "power_state_off" => RadioTarget(at, fn) = "off"
  BY DEF RadioTarget
<1>9. at \in AtRest /\ fn = "power_state_on" => RadioTarget(at, fn) = "powered"
  BY DEF RadioTarget
<1> QED
  BY <1>1, <1>2, <1>3, <1>4, <1>5, <1>6, <1>7, <1>8, <1>9

LEMMA PeerEffects ==
  /\ Effect("Audio", "PreOn", "off") = "enabled"
  /\ Effect("Audio", "On", "enabled") = "configured"
  /\ Effect("Audio", "Off", "configured") = "off"
  /\ Effect("Bluetooth", "On", "off") = "powered"
  /\ Effect("Bluetooth", "Off", "powered") = "off"
  BY DEF Effect

LEMMA SystemWorksOff ==
  ASSUME TypeOK, TypeOK', Control, Control', Booting, System, faults' \subseteq {"late"},
         \A p \in Peer : WorksOff(p)
  PROVE  \A p \in Peer : WorksOff(p)'
<1> USE DEF Goto, BootPoint, AmpsOff, AmpsEnabled, AmpsConfigured, RadioOff, RadioOn
<1>0. /\ "Audio" \in Task /\ "Bluetooth" \in Task /\ "Audio" \in Peer /\ "Bluetooth" \in Peer
      /\ Peer = {"Audio", "Bluetooth"} /\ "Audio" # "Bluetooth" /\ "System" \in Task
  BY DEF Peer, Task
<1>a. /\ Target("Audio") = AmpsTarget(pc, powerStateFn)
      /\ Target("Bluetooth") = RadioTarget(pc, powerStateFn)
      /\ Target("Audio")' = AmpsTarget(pc', powerStateFn')
      /\ Target("Bluetooth")' = RadioTarget(pc', powerStateFn')
  BY DEF Target
<1> DEFINE Stay == UNCHANGED <<Target("Audio"), Target("Bluetooth")>>
<1>1. UNCHANGED <<amps, radio>>
  BY DEF System, Boot, BootRadio, BootDecide, SystemNext, IdleTimeout, OnAmps,
         OnAmpsWait, OnRadio, OnRadioWait, OnConfigure, OnConfigureWait,
         OnIcon, OffStart, OffPrepare, OffPrepareWait, OffIcon, OffAnnounce,
         OffAnnounceWait, OffAmps, OffAmpsWait, OffRadio, OffRadioWait,
         OffRelease, ResetRadio, ResetAudio, ResetHard, Post, Await
<1>2. \A p \in Peer : doing'[p] = doing[p] => Idles(p)
  BY <1>1 DEF Idles, Hardware
<1>3. pc # "boot" => Started("Audio")
  BY DEF Booting, Started
<1>4. pc \notin {"boot", "bootAudioWait"} => Started("Bluetooth")
  BY DEF Booting, Started
<1>5. ASSUME Boot \/ BootRadio PROVE \A p \in Peer : WorksOff(p)'
  <2>1. Stay /\ UNCHANGED queue
    BY <1>0, <1>a, <1>5, Targets DEF Boot, BootRadio
  <2>2. \A p \in Peer : doing'[p] = doing[p] \/ (doing[p] = "down" /\ doing'[p] = "init")
    BY <1>0, <1>5 DEF Boot, BootRadio, Booting, TypeOK
  <2>3. \A p \in Peer : Idles(p)
    BY <1>1, <2>2 DEF Idles, Hardware, NoEffect
  <2> QED
    BY <1>0, <2>1, <2>3, RestWorksOff
<1>6. ASSUME UNCHANGED doing, Stay, \A p \in Peer : queue'[p] = queue[p]
      PROVE  \A p \in Peer : WorksOff(p)'
  BY <1>0, <1>2, <1>6, RestWorksOff
<1>7. ASSUME UNCHANGED doing, NEW t \in Task, NEW m \in NoEffect \cap Msg, PostMsg(t, m),
             Stay
      PROVE  \A p \in Peer : WorksOff(p)'
  BY <1>0, <1>2, <1>7, OtherWorksOff
<1>8. ASSUME UNCHANGED doing, NEW t \in Peer, NEW m \in Msg, PostMsg(t, m), Started(t),
             \/ t = "Audio" /\ Target(t)' = Effect(t, m, Target(t))
                /\ UNCHANGED Target("Bluetooth")
             \/ t = "Bluetooth" /\ Target(t)' = Effect(t, m, Target(t))
                /\ UNCHANGED Target("Audio")
      PROVE  \A p \in Peer : WorksOff(p)'
  <2>1. t \in Task
    BY <1>0
  <2> QED
    BY <1>0, <1>2, <1>8, <2>1, PostWorksOff
<1>9. {"PreOn", "On", "PreOff", "Off", "HardReset", "Other", "FactoryResetRequest"} = Msg
      /\ {"PreOff", "Other", "HardReset", "FactoryResetRequest"} \subseteq NoEffect
  BY DEF Msg, PowerMsg, NoEffect
<1>10. CASE Await("bootRadioWait", "Bluetooth", "bootDecide")
  BY <1>0, <1>6, <1>10, <1>a, Targets DEF Await
<1>11. CASE BootDecide
  <2>1. powerStateFn = "power_state_off" /\ UNCHANGED <<doing, powerStateFn>>
    BY <1>11 DEF BootDecide, Control
  <2>2. pc' \in AtRest
    BY <1>11 DEF BootDecide, AtRest
  <2>3. Stay
    BY <1>0, <1>11, <2>1, <2>2, <1>a, Targets DEF BootDecide
  <2>4. \A p \in Peer : queue'[p] = queue[p]
    BY <1>0, <1>11 DEF BootDecide, PostMsg, TypeOK
  <2> QED
    BY <1>6, <2>1, <2>3, <2>4
<1>12. CASE SystemNext \/ IdleTimeout
  <2>1. UNCHANGED <<doing, powerStateFn>> /\ \A p \in Peer : queue'[p] = queue[p]
    BY <1>0, <1>12 DEF SystemNext, IdleTimeout, TypeOK
  <2>2. /\ pc = "idle"
        /\ \/ pc' \in AtRest
           \/ pc' = "onAmps" /\ powerStateFn = "power_state_off"
           \/ pc' = "offStart" /\ powerStateFn = "power_state_on"
    BY <1>12 DEF SystemNext, IdleTimeout, AtRest, ResetPoint
  <2>3. pc \in AtRest /\ powerStateFn \in {"power_state_off", "power_state_on"}
    BY <2>2 DEF AtRest, TypeOK
  <2>4. Stay
    BY <1>0, <2>1, <2>2, <2>3, <1>a, Targets
  <2> QED
    BY <1>6, <2>1, <2>4
<1>13. CASE OnAmps
  BY <1>0, <1>3, <1>8, <1>9, <1>13, <1>a, Targets, PeerEffects DEF OnAmps
<1>14. CASE OnAmpsWait \/ OnRadioWait \/ OnConfigureWait \/ OffPrepareWait
            \/ OffAnnounceWait \/ OffAmpsWait \/ OffRadioWait
  <2>1. UNCHANGED <<doing, queue>> /\ Stay
    BY <1>0, <1>14, <1>a, Targets
       DEF OnAmpsWait, OnRadioWait, OnConfigureWait, OffPrepareWait,
           OffAnnounceWait, OffAmpsWait, OffRadioWait, Await
  <2> QED
    BY <1>6, <2>1
<1>15. CASE OnRadio
  BY <1>0, <1>4, <1>8, <1>9, <1>15, <1>a, Targets, PeerEffects DEF OnRadio, Post
<1>16. CASE OnConfigure
  BY <1>0, <1>3, <1>8, <1>9, <1>16, <1>a, Targets, PeerEffects DEF OnConfigure, Post
<1>17. CASE OnIcon
  <2>1. pc' \in AtRest /\ powerStateFn' = "power_state_on"
    BY <1>17 DEF OnIcon, AtRest
  <2>2. Stay
    BY <1>0, <1>17, <2>1, <1>a, Targets DEF OnIcon
  <2> QED
    BY <1>0, <1>7, <1>9, <1>17, <2>2 DEF OnIcon
<1>18. CASE OffStart \/ OffPrepare \/ OffIcon \/ OffAnnounce
  <2>1. UNCHANGED doing /\ Stay
    BY <1>0, <1>18, <1>a, Targets DEF OffStart, OffPrepare, OffIcon, OffAnnounce, Post
  <2>2. UNCHANGED queue \/ \E t \in Task, m \in {"PreOff", "Other"} : PostMsg(t, m)
    BY <1>0, <1>18 DEF OffStart, OffPrepare, OffIcon, OffAnnounce, Post
  <2> QED
    BY <1>6, <1>7, <1>9, <2>1, <2>2
<1>19. CASE OffAmps
  BY <1>0, <1>3, <1>8, <1>9, <1>19, <1>a, Targets, PeerEffects DEF OffAmps, Post
<1>20. CASE OffRadio
  BY <1>0, <1>4, <1>8, <1>9, <1>20, <1>a, Targets, PeerEffects DEF OffRadio, Post
<1>21. CASE OffRelease
  <2>1. pc' \in AtRest /\ powerStateFn' = "power_state_off" /\ UNCHANGED <<doing, queue>>
    BY <1>21 DEF OffRelease, AtRest
  <2>2. Stay
    BY <1>0, <1>21, <2>1, <1>a, Targets DEF OffRelease
  <2> QED
    BY <1>6, <2>1, <2>2
<1>22. CASE ResetRadio \/ ResetAudio \/ ResetHard
  <2>1. pc \in AtRest /\ pc' \in AtRest /\ UNCHANGED <<doing, powerStateFn>>
        /\ powerStateFn \in {"power_state_off", "power_state_on"}
    BY <1>22 DEF ResetRadio, ResetAudio, ResetHard, Post, AtRest, ResetPoint, TypeOK
  <2>2. Stay
    BY <1>0, <2>1, <1>a, Targets
  <2>3. \E t \in Task, m \in {"Other", "HardReset"} : PostMsg(t, m)
    BY <1>0, <1>22 DEF ResetRadio, ResetAudio, ResetHard, Post
  <2> QED
    BY <1>7, <1>9, <2>1, <2>2, <2>3
<1> QED
  BY <1>5, <1>10, <1>11, <1>12, <1>13, <1>14, <1>15, <1>16, <1>17, <1>18, <1>19, <1>20, <1>21,
     <1>22 DEF System

LEMMA PeersWorkOff ==
  ASSUME TypeOK, TypeOK', Audio \/ Bluetooth, faults' \subseteq {"late"},
         \A p \in Peer : WorksOff(p), doing["Bluetooth"] = "On" => radio
  PROVE  \A p \in Peer : WorksOff(p)'
<1>0. /\ "Audio" \in Task /\ "Bluetooth" \in Task /\ "Audio" \in Peer /\ "Bluetooth" \in Peer
      /\ Peer = {"Audio", "Bluetooth"} /\ "Audio" # "Bluetooth" /\ "System" \in Task
  BY DEF Peer, Task
<1>1. \A p \in Peer : Target(p)' = Target(p)
  BY OthersLeaveSystem DEF Target
<1>2. /\ "Other" \in NoEffect \cap Msg
      /\ {"down", "init", "idle", "blocked", "release", "Other"} \subseteq NoEffect
  BY DEF NoEffect, Msg
<1>3. ASSUME \A p \in Peer : Idles(p), \A p \in Peer : queue'[p] = queue[p]
      PROVE  \A p \in Peer : WorksOff(p)'
  BY <1>1, <1>3, RestWorksOff
<1>4. CASE PeerInit("Audio") \/ PeerInit("Bluetooth") \/ AudioOther \/ BluetoothOther
           \/ AudioBlocks \/ AudioReleases \/ AudioSamplesSupply \/ BluetoothSource
  <2>1. \A p \in Peer : doing'[p] = doing[p]
                        \/ {doing[p], doing'[p]} \subseteq {"init", "idle", "blocked", "release", "Other"}
    BY <1>0, <1>4 DEF PeerInit, AudioOther, BluetoothOther, AudioBlocks, AudioReleases,
                      AudioSamplesSupply, BluetoothSource, Becomes, TypeOK
  <2>2. UNCHANGED <<queue, amps, radio>>
    BY <1>4 DEF PeerInit, AudioOther, BluetoothOther, AudioBlocks, AudioReleases,
                AudioSamplesSupply, BluetoothSource, Becomes, audio, supply
  <2>3. \A p \in Peer : Idles(p)
    BY <1>2, <2>1, <2>2 DEF Idles, Hardware
  <2> QED
    BY <1>3, <2>2, <2>3
<1>5. CASE AudioRequest \/ AudioUnblocks
  <2>1. UNCHANGED <<amps, radio>> /\ \A p \in Peer : queue'[p] = queue[p]
    BY <1>0, <1>5 DEF AudioRequest, AudioUnblocks, TypeOK
  <2>2. \A p \in Peer : doing'[p] = doing[p]
                        \/ {doing[p], doing'[p]} \subseteq {"idle", "blocked"}
    BY <1>0, <1>5 DEF AudioRequest, AudioUnblocks, Becomes, TypeOK
  <2>3. \A p \in Peer : Idles(p)
    BY <1>2, <2>1, <2>2 DEF Idles, Hardware
  <2> QED
    BY <1>3, <2>1, <2>3
<1>6. CASE AudioTake
  <2>1. PICK m \in Msg : Take("Audio", m)
    BY <1>6 DEF AudioTake
  <2>2. UNCHANGED <<amps, radio>> /\ queue'["Bluetooth"] = queue["Bluetooth"]
        /\ doing'["Bluetooth"] = doing["Bluetooth"]
    BY <1>0, <1>6, <2>1 DEF AudioTake, Take, Becomes, TypeOK
  <2>3. WorksOff("Audio")'
    BY <1>0, <1>1, <2>1, <2>2, TakeWorksOff DEF Hardware
  <2>4. WorksOff("Bluetooth")'
    BY <1>0, <1>1, <2>2, RestWorksOff DEF Idles, Hardware
  <2> QED
    BY <1>0, <2>3, <2>4
<1>7. CASE AudioSetPowerState
  <2>1. /\ doing'["Audio"] = "idle" /\ doing'["Bluetooth"] = doing["Bluetooth"]
        /\ radio' = radio /\ amps' = AmpsAfter(doing["Audio"])
        /\ PostMsg("Bluetooth", "Other") \/ UNCHANGED queue
    BY <1>0, <1>7 DEF AudioSetPowerState, Becomes, TypeOK
  <2>2. amps' = Effect("Audio", doing["Audio"], amps)
    BY <2>1 DEF AmpsAfter, Effect
  <2>3. queue'["Audio"] = queue["Audio"]
    BY <1>0, <2>1 DEF PostMsg, TypeOK
  <2>4. WorksOff("Audio")'
    BY <1>0, <1>1, <2>1, <2>2, <2>3, DoneWorksOff DEF Hardware
  <2>5. WorksOff("Bluetooth")'
    BY <1>0, <1>1, <1>2, <2>1, RestWorksOff, OtherWorksOff DEF Idles, Hardware
  <2> QED
    BY <1>0, <2>4, <2>5
<1>8. CASE BluetoothTake
  <2>1. PICK m \in Msg : Take("Bluetooth", m)
    BY <1>8 DEF BluetoothTake
  <2>2. /\ amps' = amps /\ queue'["Audio"] = queue["Audio"]
        /\ doing'["Audio"] = doing["Audio"] /\ doing'["Bluetooth"] = m
        /\ radio' = (radio \/ m = "On")
    BY <1>0, <1>8, <2>1 DEF BluetoothTake, Take, Becomes, TypeOK
  <2>3. Effect("Bluetooth", m, Hardware("Bluetooth")') = Effect("Bluetooth", m, Hardware("Bluetooth"))
    <3>1. CASE m = "On"
      BY <3>1 DEF Effect
    <3>2. CASE m # "On"
      BY <2>2, <3>2 DEF TypeOK, Hardware
    <3> QED
      BY <3>1, <3>2
  <2>4. WorksOff("Bluetooth")'
    BY <1>0, <1>1, <2>1, <2>3, TakeWorksOff
  <2>5. WorksOff("Audio")'
    BY <1>0, <1>1, <2>2, RestWorksOff DEF Idles, Hardware
  <2> QED
    BY <1>0, <2>4, <2>5
<1>9. CASE BluetoothSetPowerState
  <2>1. /\ doing'["Bluetooth"] = "idle" /\ doing'["Audio"] = doing["Audio"]
        /\ amps' = amps /\ UNCHANGED queue
        /\ radio' = IF doing["Bluetooth"] = "Off" THEN FALSE ELSE radio
    BY <1>0, <1>9 DEF BluetoothSetPowerState, Becomes, TypeOK
  <2>2. Hardware("Bluetooth")' = Effect("Bluetooth", doing["Bluetooth"], Hardware("Bluetooth"))
    BY <2>1 DEF Effect, TypeOK, Hardware
  <2>3. WorksOff("Bluetooth")'
    BY <1>0, <1>1, <2>1, <2>2, DoneWorksOff
  <2>4. WorksOff("Audio")'
    BY <1>0, <1>1, <2>1, RestWorksOff DEF Idles, Hardware
  <2> QED
    BY <1>0, <2>3, <2>4
<1>10. CASE BluetoothEvent
  <2>1. UNCHANGED <<doing, amps, radio>> /\ \E t \in Task : PostMsg(t, "Other")
    BY <1>10 DEF BluetoothEvent
  <2>2. \A p \in Peer : Idles(p)
    BY <2>1 DEF Idles, Hardware
  <2> QED
    BY <1>1, <1>2, <2>1, <2>2, OtherWorksOff
<1>11. CASE BroadcasterPowerOff
  BY <1>11 DEF BroadcasterPowerOff, Happens
<1> QED
  BY <1>4, <1>5, <1>6, <1>7, <1>8, <1>9, <1>10, <1>11 DEF Audio, Bluetooth

LEMMA RadioPowered ==
  ASSUME TypeOK, doing["Bluetooth"] = "On" => radio, [Next]_vars
  PROVE  (doing["Bluetooth"] = "On" => radio)'
<1>0. "Bluetooth" \in Peer /\ "Audio" \in Peer
  BY DEF Peer
<1>1. CASE System
  <2>1. radio' = radio /\ (UNCHANGED doing \/ \E p \in Peer : Becomes(p, "init"))
    BY <1>0, <1>1 DEF Becomes, System, Boot, BootRadio, BootDecide, SystemNext, IdleTimeout, OnAmps,
         OnAmpsWait, OnRadio, OnRadioWait, OnConfigure, OnConfigureWait,
         OnIcon, OffStart, OffPrepare, OffPrepareWait, OffIcon, OffAnnounce,
         OffAnnounceWait, OffAmps, OffAmpsWait, OffRadio, OffRadioWait,
         OffRelease, ResetRadio, ResetAudio, ResetHard, Post, Await
  <2> QED
    BY <1>0, <2>1 DEF Becomes, TypeOK
<1>2. CASE Audio
  BY <1>0, <1>2 DEF Audio, PeerInit, AudioTake, Take, AudioSetPowerState, AudioOther, AudioRequest,
              AudioBlocks, AudioUnblocks, AudioSamplesSupply, AudioReleases, Becomes, TypeOK
<1>3. CASE Bluetooth
  BY <1>0, <1>3 DEF Bluetooth, PeerInit, BluetoothTake, Take, BluetoothSetPowerState, BluetoothOther,
              BluetoothSource, BluetoothEvent, BroadcasterPowerOff, Becomes, TypeOK
<1>4. CASE Supply \/ Time \/ UNCHANGED vars
  BY <1>4 DEF Supply, Time, vars
<1>5. CASE PowerLost \/ HardReset
  BY <1>0, <1>5 DEF PowerLost, HardReset, Restart
<1> QED
  BY <1>1, <1>2, <1>3, <1>4, <1>5 DEF Next

LEMMA InitLate == (Init => LateInv) /\ (Restart => LateInv')
<1> USE DEF LateInv, WorksOff
<1>1. "Audio" \in Task /\ "Bluetooth" \in Task /\ Peer = {"Audio", "Bluetooth"}
  BY DEF Peer, Task
<1>2. Leads("Audio", "off", <<>>, "off") /\ Leads("Bluetooth", "off", <<>>, "off")
  BY <1>1, LeadsNowhere DEF HardwareState
<1>3. Effect("Audio", "down", "off") = "off" /\ Effect("Bluetooth", "down", "off") = "off"
  BY DEF Effect
<1>a. AmpsTarget("boot", "power_state_off") = "off" /\ RadioTarget("boot", "power_state_off") = "off"
  BY Targets DEF AmpsOff, RadioOff, BootPoint
<1>4. ASSUME Init PROVE LateInv
  <2>1. /\ Hardware("Audio") = "off" /\ Hardware("Bluetooth") = "off"
        /\ Target("Audio") = "off" /\ Target("Bluetooth") = "off"
    BY <1>4, <1>a DEF Init, Hardware, Target
  <2>2. \A p \in Peer : doing[p] = "down" /\ queue[p] = <<>>
    BY <1>1, <1>4 DEF Init
  <2> QED
    BY <1>1, <1>2, <1>3, <2>1, <2>2
<1>5. ASSUME Restart PROVE LateInv'
  <2>1. /\ Hardware("Audio")' = "off" /\ Hardware("Bluetooth")' = "off"
        /\ Target("Audio")' = "off" /\ Target("Bluetooth")' = "off"
    BY <1>5, <1>a DEF Restart, Hardware, Target
  <2>2. \A p \in Peer : doing'[p] = "down" /\ queue'[p] = <<>>
    BY <1>1, <1>5 DEF Restart
  <2> QED
    BY <1>1, <1>2, <1>3, <2>1, <2>2
<1> QED
  BY <1>4, <1>5

LEMMA NextLate ==
  ASSUME TypeOK, TypeOK', Inv, Inv', LateInv, [Next]_vars
  PROVE  LateInv'
<1>1. CASE PowerLost \/ HardReset
  BY <1>1, InitLate DEF PowerLost, HardReset
<1>2. CASE System \/ Audio \/ Bluetooth \/ Supply \/ Time \/ UNCHANGED vars
  <2>1. faults \subseteq faults'
    BY <1>2, SystemGrows, OthersLeaveSystem DEF vars
  <2>2. ASSUME faults' \subseteq {"late"} PROVE \A p \in Peer : WorksOff(p)'
    <3>1. \A p \in Peer : WorksOff(p)
      BY <2>1, <2>2 DEF LateInv
    <3>2. CASE Supply \/ Time \/ UNCHANGED vars
      <4>1. UNCHANGED <<pc, powerStateFn, queue, doing, amps, radio>>
        BY <3>2 DEF Supply, Time, vars
      <4> QED
        BY <3>1, <4>1 DEF WorksOff, Target, Hardware
    <3> QED
      BY <1>2, <2>2, <3>1, <3>2, SystemWorksOff, PeersWorkOff DEF Inv, LateInv
  <2> QED
    BY <2>2, RadioPowered DEF LateInv
<1> QED
  BY <1>1, <1>2 DEF Next

\* However late the answers come, a peer that has worked through its queue is
\* in the state System ended in (DrainedMeansSettled): the messages of a
\* sequence are queued in its order, and none is skipped.
THEOREM DrainedIsSettled == Spec => []DrainedMeansSettled
<1>1. Init => LateInv
  BY InitLate
<1>2. TypeOK /\ TypeOK' /\ Inv /\ Inv' /\ LateInv /\ [Next]_vars => LateInv'
  BY NextLate
<1>3. ASSUME TypeOK, Inv, LateInv PROVE DrainedMeansSettled
  <2> SUFFICES ASSUME faults \subseteq {"late"}, pc = "idle",
                      \A p \in Peer : doing[p] = "idle" /\ queue[p] = <<>>
               PROVE  /\ powerState = "On"  => amps = "configured" /\ radio
                      /\ powerState = "Off" => amps = "off" /\ ~radio
    BY DEF DrainedMeansSettled
  <2>1. \A p \in Peer : Target(p) = Hardware(p)
    <3> SUFFICES ASSUME NEW p \in Peer PROVE Target(p) = Hardware(p)
      OBVIOUS
    <3>1. Effect(p, doing[p], Hardware(p)) = Hardware(p) /\ Hardware(p) \in HardwareState(p)
      BY <1>3, HardwareTyped, Effects DEF NoEffect
    <3> QED
      BY <1>3, <3>1, LeadsNowhere DEF LateInv, WorksOff
  <2>2. Control /\ pc \in AtRest
    BY <1>3 DEF Inv, AtRest
  <2>3. "Audio" \in Peer /\ "Bluetooth" \in Peer
    BY DEF Peer
  <2>4. /\ AmpsTarget(pc, powerStateFn) = amps
        /\ RadioTarget(pc, powerStateFn) = IF radio THEN "powered" ELSE "off"
    BY <2>1, <2>3 DEF Hardware, Target
  <2> QED
    BY <1>3, <2>2, <2>4, Targets DEF Control
<1> QED
  BY <1>1, <1>2, <1>3, TypeCorrect, Invariance, PTL DEF Spec
-----------------------------------------------------------------------------
(***************************************************************************)
(* Without faults PowerSequence implements PowerRails, for any queues.     *)
(***************************************************************************)

\* The phase by the point, for states of the invariant.
LEMMA PhaseAt ==
  ASSUME TypeOK, Inv
  PROVE  /\ phase \in {"Boot", "Off", "Rising", "On", "Falling"}
         /\ pc \in BootPoint => phase = "Boot"
         /\ pc \in AtRest =>
              phase = IF powerStateFn = "power_state_on" THEN "On" ELSE "Off"
         /\ pc = "onAmps" => phase = "Off"
         /\ pc \in OnPoint \ {"onAmps"} => phase = "Rising"
         /\ pc \in {"offStart", "offPrepare"} => phase = "On"
         /\ pc \in OffPoint \ {"offStart", "offPrepare"} => phase = "Falling"
<1>1. powerState \in {"On", "Off", "Transition"}
  BY DEF TypeOK
<1>2. /\ pc \in BootPoint => powerState = "Transition"
      /\ pc \in AtRest => powerState =
           IF powerStateFn = "power_state_on" THEN "On" ELSE "Off"
      /\ pc = "onAmps" => powerState = "Off"
      /\ pc \in OnPoint \ {"onAmps"} => powerState = "Transition"
      /\ pc \in {"offStart", "offPrepare"} => powerState = "On"
      /\ pc \in OffPoint \ {"offStart", "offPrepare"} => powerState = "Transition"
  BY <1>1
     DEF Inv, Control, AtRest, ResetPoint, BootPoint, OnPoint, OffPoint, TypeOK
<1>3. powerState # "Transition" => phase = powerState
  BY DEF phase
<1>4. powerState = "Transition" /\ pc \in BootPoint => phase = "Boot"
  BY DEF phase, BootPoint, OnPoint
<1>5. powerState = "Transition" /\ pc \in OnPoint => phase = "Rising"
  BY DEF phase, BootPoint, OnPoint
<1>6. powerState = "Transition" /\ pc \in OffPoint => phase = "Falling"
  BY DEF phase, BootPoint, OnPoint, OffPoint
<1>7. pc \in BootPoint \cup OnPoint \cup OffPoint \cup AtRest
  BY DEF TypeOK, Point, AtRest
<1> QED
  BY <1>1, <1>2, <1>3, <1>4, <1>5, <1>6, <1>7

LEMMA BootPhase ==
    /\ pc = "boot" /\ powerState = "Transition" => phase = "Boot"
    /\ pc' = "boot" /\ powerState' = "Transition" => phase' = "Boot"
  BY DEF phase, BootPoint, OnPoint

\* The implemented step, or nothing.
Implements == [Rails!Next]_(Rails!vars)

LEMMA Stutters ==
  ASSUME UNCHANGED <<phase, amps, radio>>
  PROVE  Implements
  BY DEF Implements, Rails!vars

LEMMA SystemImplements ==
  ASSUME TypeOK, Inv, TypeOK', Inv', faults = {}, System
  PROVE  Implements
<1>0. UNCHANGED <<amps, radio>>
  BY DEF System, Boot, BootRadio, BootDecide, SystemNext, IdleTimeout, OnAmps,
         OnAmpsWait, OnRadio, OnRadioWait, OnConfigure, OnConfigureWait,
         OnIcon, OffStart, OffPrepare, OffPrepareWait, OffIcon, OffAnnounce,
         OffAnnounceWait, OffAmps, OffAmpsWait, OffRadio, OffRadioWait,
         OffRelease, ResetRadio, ResetAudio, ResetHard, Post, Await
<1>u. Undisturbed("Audio") /\ Undisturbed("Bluetooth")
  BY DEF Undisturbed
<1> USE DEF AtRest, ResetPoint, BootPoint, OnPoint, OffPoint, Goto
<1>1. CASE BootDecide
  <2>1. phase = "Boot" /\ phase' = "Off"
    <3>1. pc = "bootDecide" /\ pc' = "idle" /\ powerState' = "Off"
      BY <1>1 DEF BootDecide
    <3> QED
      BY <3>1, PhaseAt DEF phase
  <2> QED
    BY <2>1, <1>0 DEF Implements, Rails!Next, Rails!Booted, Rails!Change
<1>2. CASE OnAmps
  <2>1. phase = "Off" /\ phase' = "Rising"
    <3>1. pc = "onAmps" /\ pc' = "onAmpsWait" /\ powerState' = "Transition"
      BY <1>2 DEF OnAmps
    <3> QED
      BY <3>1, PhaseAt DEF phase
  <2> QED
    BY <2>1, <1>0 DEF Implements, Rails!Next, Rails!Rise, Rails!Change
<1>3. CASE OnIcon
  <2>1. pc = "onIcon" /\ powerState' = "On"
    BY <1>3 DEF OnIcon
  <2>2. phase = "Rising" /\ phase' = "On"
    BY <2>1, PhaseAt DEF phase
  <2>3. amps = "configured" /\ radio
    BY <2>1, <1>u
       DEF Inv, AmpsFit, AmpsConfigured, RadioFit, RadioOn
  <2> QED
    BY <2>2, <2>3, <1>0 DEF Implements, Rails!Next, Rails!Risen, Rails!Change
<1>4. CASE OffPrepare
  <2>1. phase = "On" /\ phase' = "Falling"
    <3>1. pc = "offPrepare" /\ pc' = "offPrepareWait" /\ powerState' = "Transition"
      BY <1>4 DEF OffPrepare
    <3> QED
      BY <3>1, PhaseAt DEF phase
  <2> QED
    BY <2>1, <1>0 DEF Implements, Rails!Next, Rails!Fall, Rails!Change
<1>5. CASE OffRelease
  <2>1. pc = "offRelease" /\ powerState' = "Off"
    BY <1>5 DEF OffRelease
  <2>2. phase = "Falling" /\ phase' = "Off"
    BY <2>1, PhaseAt DEF phase
  <2>3. amps = "off" /\ ~radio
    BY <2>1, <1>u DEF Inv, AmpsFit, AmpsOff, RadioFit, RadioOff
  <2> QED
    BY <2>2, <2>3, <1>0 DEF Implements, Rails!Next, Rails!Fallen, Rails!Change
<1>6. CASE /\ UNCHANGED powerState
           /\ {pc, pc'} \subseteq BootPoint \/ {pc, pc'} \subseteq OnPoint
              \/ {pc, pc'} \subseteq OffPoint \/ powerState # "Transition"
  BY <1>6, <1>0, Stutters DEF phase
<1>7. pc \in AtRest => powerState # "Transition"
  BY DEF Inv, Control
<1>8. CASE Boot \/ BootRadio \/ Await("bootRadioWait", "Bluetooth", "bootDecide")
  BY <1>6, <1>8 DEF Boot, BootRadio, Await
<1>9. CASE SystemNext \/ IdleTimeout \/ ResetRadio \/ ResetAudio \/ ResetHard
  BY <1>6, <1>7, <1>9
     DEF SystemNext, IdleTimeout, ResetRadio, ResetAudio, ResetHard, Post
<1>10. CASE OnAmpsWait \/ OnRadio \/ OnRadioWait \/ OnConfigure \/ OnConfigureWait
  BY <1>6, <1>10
     DEF OnAmpsWait, OnRadio, OnRadioWait, OnConfigure, OnConfigureWait, Post,
         Await
<1>11. CASE \/ OffStart \/ OffPrepareWait \/ OffIcon \/ OffAnnounce
            \/ OffAnnounceWait \/ OffAmps \/ OffAmpsWait \/ OffRadio \/ OffRadioWait
  BY <1>6, <1>11
     DEF OffStart, OffPrepareWait, OffIcon, OffAnnounce, OffAnnounceWait,
         OffAmps, OffAmpsWait, OffRadio, OffRadioWait, Post, Await
<1> QED
  BY <1>1, <1>2, <1>3, <1>4, <1>5, <1>8, <1>9, <1>10, <1>11 DEF System

LEMMA AudioImplements ==
  ASSUME TypeOK, Inv, faults = {}, Audio
  PROVE  Implements
<1>0. UNCHANGED phase /\ UNCHANGED radio
  BY OthersLeaveSystem
     DEF phase, Audio, PeerInit, AudioTake, AudioSetPowerState, AudioOther,
         AudioRequest, AudioBlocks, AudioUnblocks, AudioSamplesSupply,
         AudioReleases
<1>u. Undisturbed("Audio") /\ Undisturbed("Bluetooth")
  BY DEF Undisturbed
<1>1. CASE AudioSetPowerState
  <2>1. Handling("Audio") /\ amps' = AmpsAfter(doing["Audio"])
        /\ doing["Audio"] # "init"
    BY <1>1 DEF AudioSetPowerState, Handling, IsPower, PowerMsg
  <2>2. Waits("Audio") /\ note["Audio"] = 0 /\ doing["Audio"] = Asked
    BY <2>1, <1>u, AudioInHand DEF Inv, Peer
  <2>3. pc \in {"onAmpsWait", "onConfigureWait", "offPrepareWait", "offAmpsWait"}
    BY <2>1, <2>2 DEF Waits, Asked
  <2>4. CASE pc = "onAmpsWait"
    <3>1. amps = "off" /\ amps' = "enabled" /\ ~radio
      BY <2>1, <2>2, <2>4, <1>u
         DEF Inv, AmpsFit, RadioFit, RadioOff, Asked, AmpsAfter
    <3>2. phase = "Rising"
      BY <2>4, PhaseAt DEF OnPoint
    <3> QED
      BY <3>1, <3>2, <1>0 DEF Implements, Rails!Next, Rails!EnableAmps
  <2>5. CASE pc = "onConfigureWait"
    <3>1. amps = "enabled" /\ amps' = "configured" /\ radio
      BY <2>1, <2>2, <2>5, <1>u
         DEF Inv, AmpsFit, RadioFit, RadioOn, Asked, AmpsAfter
    <3>2. phase = "Rising"
      BY <2>5, PhaseAt DEF OnPoint
    <3> QED
      BY <3>1, <3>2, <1>0 DEF Implements, Rails!Next, Rails!ConfigureAmps
  <2>6. CASE pc = "offPrepareWait"
    <3>1. UNCHANGED amps
      BY <2>1, <2>2, <2>6, <1>u DEF Asked, AmpsAfter
    <3> QED
      BY <3>1, <1>0, Stutters
  <2>7. CASE pc = "offAmpsWait"
    <3>1. amps = "configured" /\ amps' = "off" /\ radio
      BY <2>1, <2>2, <2>7, <1>u
         DEF Inv, AmpsFit, RadioFit, RadioOn, Asked, AmpsAfter
    <3>2. phase = "Falling"
      BY <2>7, PhaseAt DEF OffPoint
    <3> QED
      BY <3>1, <3>2, <1>0 DEF Implements, Rails!Next, Rails!DisableAmps
  <2> QED
    BY <2>3, <2>4, <2>5, <2>6, <2>7
<1>2. CASE UNCHANGED amps
  BY <1>0, <1>2, Stutters
<1> QED
  BY <1>1, <1>2
     DEF Audio, PeerInit, AudioTake, AudioOther, AudioRequest, AudioBlocks,
         AudioUnblocks, AudioSamplesSupply, AudioReleases

LEMMA BluetoothImplements ==
  ASSUME TypeOK, Inv, Inv', faults = {}, faults' = {}, Bluetooth
  PROVE  Implements
<1>0. UNCHANGED phase /\ UNCHANGED amps /\ pc' = pc
  BY OthersLeaveSystem
     DEF phase, Bluetooth, PeerInit, BluetoothTake, BluetoothSetPowerState,
         BluetoothOther, BluetoothSource, BluetoothEvent, BroadcasterPowerOff
<1>u. /\ Undisturbed("Audio") /\ Undisturbed("Bluetooth")
      /\ Undisturbed("Audio")' /\ Undisturbed("Bluetooth")'
  BY DEF Undisturbed
<1>1. CASE BluetoothTake /\ ~radio /\ radio'
  <2>1. doing'["Bluetooth"] = "On"
    BY <1>1 DEF BluetoothTake
  <2>2. Waits("Bluetooth")' /\ Asked' = "On"
    BY <2>1, <1>u
       DEF Inv, Agrees, Quiet, AskedOf, InQueue, InHand, Answered, Handling,
           IsPower, PowerMsg, Peer
  <2>3. pc = "onRadioWait"
    BY <2>2, <1>0 DEF Waits, Asked
  <2>4. amps = "enabled" /\ phase = "Rising"
    BY <2>3, <1>u, PhaseAt DEF Inv, AmpsFit, AmpsEnabled, OnPoint
  <2>5. radio = FALSE /\ radio' = TRUE
    BY <1>1 DEF BluetoothTake, TypeOK
  <2> QED
    BY <2>4, <2>5, <1>0 DEF Implements, Rails!Next, Rails!StartRadio
<1>2. CASE BluetoothSetPowerState /\ doing["Bluetooth"] = "Off"
  <2>1. Handling("Bluetooth")
    BY <1>2 DEF Handling, IsPower, PowerMsg
  <2>2. Waits("Bluetooth") /\ note["Bluetooth"] = 0 /\ Asked = "Off"
    BY <2>1, <1>2, <1>u, BluetoothInHand DEF Inv, Peer
  <2>3. pc = "offRadioWait"
    BY <2>2 DEF Waits, Asked
  <2>4. amps = "off" /\ phase = "Falling" /\ radio
    BY <2>2, <2>3, <1>u, PhaseAt DEF Inv, AmpsFit, AmpsOff, RadioFit, OffPoint
  <2>5. radio' = FALSE
    BY <1>2 DEF BluetoothSetPowerState
  <2> QED
    BY <2>4, <2>5, <1>0 DEF Implements, Rails!Next, Rails!StopRadio
<1>3. CASE UNCHANGED radio
  BY <1>0, <1>3, Stutters
<1>4. BluetoothTake => UNCHANGED radio \/ (~radio /\ radio')
  BY DEF BluetoothTake, TypeOK
<1> QED
  BY <1>1, <1>2, <1>3, <1>4
     DEF Bluetooth, PeerInit, BluetoothSetPowerState, BluetoothOther,
         BluetoothSource, BluetoothEvent, BroadcasterPowerOff

\* While nothing is late, lost or stray, every behaviour of the three tasks is
\* a behaviour of PowerRails: RailsSpec, for any queues and inputs.
THEOREM Refinement == ASSUME Faults = {} PROVE Spec => RailsSpec
<1>1. Init => Rails!Init
  <2> SUFFICES ASSUME Init PROVE Rails!Init
    OBVIOUS
  <2>1. phase = "Boot"
    BY BootPhase DEF Init
  <2> QED
    BY <2>1 DEF Init, Rails!Init
<1>2. TypeOK /\ Inv /\ TypeOK' /\ Inv' /\ [Next]_vars
        => [Rails!Next]_(Rails!vars)
  <2> SUFFICES ASSUME TypeOK, Inv, TypeOK', Inv', [Next]_vars
               PROVE  Implements
    BY DEF Implements
  <2>0. faults = {} /\ faults' = {}
    BY DEF TypeOK
  <2>1. CASE System
    BY <2>0, <2>1, SystemImplements
  <2>2. CASE Audio
    BY <2>0, <2>2, AudioImplements
  <2>3. CASE Bluetooth
    BY <2>0, <2>3, BluetoothImplements
  <2>4. CASE Supply \/ Time \/ UNCHANGED vars
    BY <2>4, Stutters DEF Supply, Time, vars, phase
  <2>5. CASE PowerLost \/ HardReset
    <3>1. pc' = "boot" /\ powerState' = "Transition" /\ amps' = "off"
          /\ radio' = FALSE
      BY <2>5 DEF PowerLost, HardReset, Restart
    <3>2. phase' = "Boot"
      BY <3>1, BootPhase
    <3> QED
      BY <3>1, <3>2 DEF Implements, Rails!Next, Rails!Restart
  <2> QED
    BY <2>1, <2>2, <2>3, <2>4, <2>5 DEF Next
<1> QED
  BY <1>1, <1>2, TypeCorrect, Invariance, PTL DEF Spec, RailsSpec, Rails!Spec
=============================================================================
