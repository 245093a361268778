# MYND firmware: TLA+ models, checks and proofs

This directory specifies the parts of the MYND loudspeaker firmware
(`src/Projects/Mynd`) whose correctness depends on the order of things: the
power sequence that three FreeRTOS tasks run together, the settings that must
survive a power cut at any moment, the charging and the level of the battery,
the link to the Bluetooth module, and around them the buttons, the LEDs, the
amplifiers, the I2C bus, the status of the Bluetooth task, the power off timer,
the debug shell, the production tests and the firmware update. Each part has a
model translated from the source and is checked by TLC on small instances. The
four that carry the speaker (power, settings, charging, link) also have an
abstract specification of what they promise. TLAPS checks theorems about them, and
about the level of the battery, the amplifiers, the power off timer, the buttons, the
LEDs, the shell, the I2C bus and the firmware update, for every value of the constants.

`PROJECT.json` lists the components, the runs, the hazards, the source lines
that each definition translates, and the mutants: for every property, a
plausible mistake in the code that makes the property false.

    tlc -workers 2 -config PowerNominal.cfg MCPowerSequence
    tlapm PowerSequence_proofs.tla

## 1. The system

The firmware runs on an STM32F0 with FreeRTOS. Three tasks, each a
`GenericThread` with a bounded queue of messages, do everything:

| Part | State | Operations | Talks to |
|------|-------|-----------|----------|
| System task (`task_system.cpp`) | power state, which of `power_state_off`/`power_state_on` handles a request, idle timer | button and power requests, on/off sequence, factory reset | posts to Audio and Bluetooth, waits for their notifications |
| Audio task (`task_audio.cpp`) | amplifiers, volume, equaliser, supply sampling | `SetPowerState`, volume, EQ, hard reset; calls `Battery::poll` when idle | I2C, System's queue |
| Bluetooth task (`task_bluetooth.cpp`) | module on or off, audio source, pairing, CSB chain | `SetPowerState`, sound icons, handlers of the module's events and requests | UART link, System's and its own queue |
| `GenericThread`, `SyncPrimitive` | queue, notification value | `PostMsg` with a timeout, `await`, `notify` | |
| Battery (`battery.cpp`, `charge_controller.cpp`, `temperature.cpp`) | temperature protectors, charger status, three counters of 5 s | `poll` every 25 ms of idleness, `set_charge_type`, `set_power_state` | charger and USB PD controller over I2C |
| Battery level (`soc_estimator.cpp`, `battery_indicator.cpp`) | integrated charge, capacity, state of the algorithm; flags of the warnings | a timer every 10 ms; calls from `poll` | settings, sound icons, LEDs |
| Amplifiers (`board/amps`) | page and registers of two chips | configuration, eco mode, bass, treble, mute | I2C; called by Audio and Bluetooth |
| I2C bus (`i2c_freertos.c`, `bsp_*_i2c.c`) | mutex, semaphore, error code | read, write, each with retries | HAL, its interrupt |
| Buttons (`button_handler.c`, `EventHandlerMapper`) | press under way, flags that swallow inputs | POWER polled, the others read on an interrupt | posts to System and Bluetooth |
| Bluetooth status and sound icons (`task_bluetooth.cpp`) | what the module notified, status, current icon | notifications, an idle callback, messages | its own queue, properties |
| LEDs (`leds.cpp`, `IEngine`) | one engine for each LED, the dimming | patterns, a tick in Audio's idle callback | |
| Power off timer (`task_system.cpp`) | two time stamps, the timer's value | a check when System is idle, messages | power sequence |
| Settings (`STM32_vEEPROM/eeprom.c`, `kvstorage.h`) | two flash pages | init, format, read, write, transfer | flash |
| Actions link (`actionslink_bt_ul.c`, `_ll.c`) | state, message waited for, retries, transaction id | call, tick, frames in and out | UART |
| Debug shell, production tests (`tshell.c`, `factory/tests.cpp`) | entry to execute; flags of the tests | a line; a key | System, Audio's idle callback |
| Boot loader (`MyndBootloader`, t-boot) | update state, bytes written, backup register, flash | decision at a reset, chunks, their outcome | host, application |

What is hard in it:

* **Handshakes without identity.** System posts a request and waits at most some
  hundred milliseconds for a notification that carries no number. A late answer
  is taken by the next `await` of the same peer, and every caller ignores the
  result of `await`.
* **Everybody blocks on everybody.** Queues hold a few messages; posting to a
  full one blocks, in both directions, for up to a second.
* **The power can go at any time**: the battery is switched by a pin that both
  System and Audio drive, and each flash operation may be the last.
* **Things happen behind each other's back**: the USB PD controller resets the
  charger at a role swap, the broadcaster of a chain of speakers switches the
  module off without System, the charge type changes between two polls.
* **Timers made of samples**: a counter of five seconds is a timestamp that only
  moves when somebody asks, in the one state that asks it.
* **Retries**: a message that was carried out but acknowledged late is sent again,
  an interrupt of a transfer that was given up answers for the next one.
* **Settings on top of settings**: tables of registers overwrite what others have
  loaded, one LED serves many conditions, and everything must be right again
  after any sequence of them.
* **Events that come in pieces**: buttons that started something come up one by
  one, chunks of an image come in the host's order, and a cut splits both.

What makes each component right, and where it is stated:

| Component | It is right when | Stated in |
|-----------|------------------|-----------|
| Power sequence | amplifiers never play without the module's clocks; the published state tells the truth; the supply is let go only when all is down; a power off is carried out | `PowerSequence` |
| Settings | a write is atomic; a transfer, a cut and a recovery change nothing stored; there is always a page to use | `VEeprom` |
| Charging | the published status is what the charger was told and follows the state diagram; a hot battery is not charged, a low one is | `ChargeControl` |
| Link | a call that returned 0 reached the module; never more than twice; every call ends | `ActionsLink` |
| Battery level | charge and capacity agree with the battery once they were learned, over restarts; a cut leaves no mixture; a warning is given once | `SocEstimator`, `BatteryIndicator` |
| Amplifiers | the registers are those of the settings, in whatever order these were changed | `Amps` |
| I2C bus | a call that returned 0 had its own transfer; every call ends | `I2cBus` |
| Buttons | a press does one thing; what swallows an input ends | `Inputs` |
| Power off timer | it switches off only a speaker that is not used | `IdleTimer` |
| Bluetooth status | it takes up every notification; a looped icon ends | `BluetoothTask` |
| LEDs | they show what holds, and nothing when off | `Leds` |
| Shell, tests | the deepest command is called; a key test ends | `Shell`, `FactoryTests` |
| Boot loader | an application that runs is whole; an update that is complete ends | `Update` |

## 2. Modules

    PowerRails    <- PowerSequence <- PowerInvariant   <- MCPowerSequence
      (promise)       (model)         (invariant)      <- PowerSequence_proofs
    SettingsStore <- VEeprom       <- VEepromInvariant <- MCVEeprom
                                                       <- VEeprom_proofs
    ChargerStates <- ChargeControl <- MCChargeControl
                     SocEstimator  <- Battery_proofs (both)
    AtLeastOnce   <- ActionsLink   <- LinkInvariant    <- LinkSafety_proofs

    MCBattery       EXTENDS MCVEeprom, MCChargeControl, SocEstimator
    MCActionsLink   EXTENDS LinkInvariant, MCChargeControl
    MCDevices       EXTENDS BatteryIndicator, Amps, Inputs, IdleTimer, Shell, MCVEeprom
    MCTasks         EXTENDS I2cBus, BluetoothTask, Leds, Update, FactoryTests

    Amps            <- Amps_proofs
    Folds_proofs    lemmas about loops over a list, used by
    Devices_proofs  (BatteryIndicator, Inputs, IdleTimer, Shell, and with
                    Amps_proofs and VEeprom_proofs the types of MCDevices) and
    Tasks_proofs    (I2cBus, Update, Leds, and the types of MCTasks)

The first module of each of the first four lines is the abstract specification;
the model instantiates it and has its `Spec` as a property.

The last four modules put several components into one run. The components of
such a module share no variable, so a product of their behaviours would show
nothing that the components alone do not: the variable `moving` picks the one
that moves in a behaviour, and the others stay in one initial state. What one
component sees of another (the power state in `IdleTimer`, the status in `Leds`,
the storage in `SocEstimator`) is part of the module, as an input or as a variable.

### PowerSequence

A step of System is what the code does between two points where it can block:
a post to a full queue, an `await`, a `vTaskDelay`, the wait for the next
message. `pc` names that point: `OnAmps`, `OnAmpsWait`, ... are the lines
of `power_state_off` (which powers on), `OffStart` ... `OffRelease` those of
`power_state_on`, `Boot...` those of `Callback_Init`, `Reset...` those of a
factory reset. A peer takes a message in one step and ends its handler in
another, so that everything can happen in between.

| Variable | Code |
|----------|------|
| `powerState` | `p_power_state`: Transition, Off, On |
| `powerStateFn` | `s_system.power_state_fn` |
| `queue[t]` | the FreeRTOS queue of the task |
| `doing[p]` | the handler the peer is in, with its blocking points |
| `note[p]` | the bit of System's task notification for that peer |
| `amps`, `radio`, `i2s` | PVDD and PDN of the amplifiers, the module's supply, its clocks |
| `audioSource` | `s_bluetooth.audio_source` |
| `held`, `ac`, `acLost` | the power hold pin, the external supply and its debouncer |

Time is abstract: an `await` or a blocked post may expire whenever it has nothing
to take. That is a fault, `late` or `lost`, which a run allows or not; the fault
`stray` is the power off that Bluetooth posts to itself when the broadcaster of a
chain goes down. `faults` records what has happened since the boot, and the
properties say which of them they bear.

### VEeprom

Two pages, each a header and a sequence of slots, and a step for each halfword
that is programmed and each page that is erased. `EE_Init`'s decision table
(`Boot`), the copying loop with the entry it skips, the marking of the pages and
`EE_Format` are separate steps, so that `PowerCut` falls between any two of them;
`Torn` is an erase that was cut with its header gone and the slots behind it
still there. Cuts are told apart by what they interrupt, since the code
survives all but two kinds (section 6).

### ChargeControl

`Battery::poll` as one task runs it: `Measure` (temperatures and the four
hysteresis protectors), `Poll` (early returns, the retry of the set up), then
`Construct`, `Constructed` and `Process` (the whole of `ChargeController::process`)
and `Enable`/`Disable`, split at the 300 ms wait for the USB PD controller. A
counter is "stopped", "running" or "elapsed"; `Time` makes a running one elapse,
and only a sample notices. `SetType`, `PowerOn` and `Settle` are the calls from
outside `poll`.

### ActionsLink

`Call`, `Transmit`, `Take...`, `Timeout` are `actionslink_bt_ul_tx_rx`,
`actionslink_bt_ul_tx` and one round of `actionslink_bt_ul_rx`, in each of its
states. A frame is a record of its kind, tag, call and transaction id; bytes, CRC
and protobuf are below the model, a frame they reject is `Noise`. The module
is external: it acknowledges every frame, answers requests in their order at any
later time, and speaks unasked. `outcome`, `deliveries`, `retried` are history
variables of the properties. A UART that refuses to send makes the attempt fail
at once; it is covered by a loss followed by a timeout.

### SocEstimator

`level` is the charge in the battery, which the code cannot see; `charge`,
`capacity` and `algo` are the estimator's fields and `stored` its five keys of the
EEPROM. `Sample` is the callback of the 10 ms timer, `BecomesStable` and
`Initialise` the two polls after which the estimator works, `Charged` and `Empty`
the calls of `on_charge` and `on_discharge`, `Save` and `FactoryReset` the others.
A save leaves its list of writes in `writes`, `WriteParameter` does one of them,
and `Restart` may come at any point. `exact` remembers whether anything the code
cannot know (an unmeasured current, a charge to the battery friendly voltage, a
cut before a save) has parted counter and battery.

### BatteryIndicator

`NewLevel`, `NewStatus`, `PowerOn` and `PowerOff` are the operations of the class,
`CheckBank` is `monitor_power_bank_mode`. The tick counts modulo `Wrap`, since the
time stamp of a boot with an empty battery is UINT32_MAX and the five seconds
after it are a difference to that.

### Amps

A handler of Audio or Bluetooth is a program: a sequence of loads, and a load a
sequence of transactions (select a page, write a register, read or write back
DEVICE_CTRL_2). `Transact` does one of them; only the transaction is exclusive.
The tables of the source (some four thousand entries) stand for the few groups
of registers that more than one of them writes, and a value for the mode it is
right for.

### I2cBus

`CallBus` to `Return` are the steps of a call around its mutex and its semaphore,
`Interrupt` is the completion or the error. A transfer that starts may be stuck:
then the waits end by their timeouts, and its interrupt may come at any later
time or never.

### Inputs

`Process` is the state machine of `button_handler.c`, with the configuration the
Audio task gives it; `PowerButton` to `Combination` are the handlers of
`EventHandlerMapper`. `PollPower` is the idle callback and `ReadExpander` the
handler of the expander's interrupt, which may find that the transfer failed.
POWER+PLUS asks for a factory reset, whose two messages, `FactoryReset` and `HardReset`,
come back to the Audio task later, or not at all: the first one ignores POWER, the
second one starts the program again. Time is the class of length that the press has reached.

### IdleTimer

`Check` is `check_idle_timeout`, `Message` the three messages that change its
values, `SwitchPower` the power sequence. Times are ages, which `Grow` raises
together.

### Shell

`Enter` is a whole line: `Looked` is the loop of `shell_execute`, a round of which is
`Word`, and `Execute` is `exec_cmd`. `active` is what the context keeps from line to line.

### BluetoothTask

A notification changes `radio` and marks `dirty`; `Idle` is the idle callback,
with the power on icon, the 200 ms and the two early returns of
`handle_new_bt_state`; `HandleIcon` and `HandleMessage` take a message. Whatever
posts to the task's own queue loses what does not fit.

### Leds

`Exec` is a step of the engine, `Updated` the loop over the patterns for ever,
`Tick` the idle callback; the other actions are the calls of `leds.cpp`.

### Update

`Decide` is the choice at every reset, `Chunk` a chunk that t-boot passes to
`dfu_mcu_write`, with the erasure before the first one, `Complete` and `Failed` the
outcome that `main` polls. A unit of the flash holds a unit of the image or is
empty, and one that is not empty cannot be programmed.

### FactoryTests

The commands of the shell run in System; `KeyProcess` and `KeyProcessEnds` are
`factory_test_key_process` in Audio's idle callback, split where a command can
come in between.

## 3. Runs

| Run | Shows |
|-----|-------|
| `PowerNominal` | no faults, every input: `InitializedBeforeOff`, and the refinement `RailsSpec` |
| `PowerStray` | with stray power offs: `Settled` (the published state is true), `HeldUntilDown` |
| `PowerLive` | late answers and lost posts: `DrainedMeansSettled` (once a peer has worked through its queue it is where System is, if nothing was lost) and `PowerOffHonoured` (liveness) |
| `Battery` | the settings with cuts that the driver survives: `KnownGood`, `ReadBack`, the refinement `StoreSpec`; charging with all inputs and faults: `StatusIsTrue`, `Nested`, the refinement `ChargerSpec`; the level: `CalibratedIsTrue` (what was learned is the battery), `StoredTogether` (a state of the algorithm only beside whole numbers) |
| `LinkAndCharge` | the link with a damaged, lost or late frame: `ConfirmedMeansReceived`, `AtMostTwice`, `ReplyMatches`, `CallsEnd`, the refinement `AtLeastOnceSpec`; charging without faults: `StopsWhenHot`, `ChargesWhenLow` |
| `Devices` | `IndicatedOnce` (warnings of the battery), `RegistersFollow` (amplifiers), `OffByAnotherPress`, `PairingKept`, `IgnoresEnd` (buttons), `OffOnlyWhenIdle` (power off timer), `DeepestIsCalled` (shell), and `Usable`: the settings with a cut anywhere, also in the two windows of section 6; `DevicesTypeOK` is the type invariant of all of them |
| `Tasks` | `OwnCompletion` and `CallsReturn` (I2C), `StatusFollows` and `LoopEnds` (Bluetooth), `OffIsDark` and `LedsFollow` (LEDs), `RunsWhole` and `NeverStuck` (update), `KeyTestEnds` (production tests), and the type invariant `TasksTypeOK` |
| `PowerBroadcaster`, `EepromDownward`, `EepromUnlisted`, `ChargeSetUp`, `NormalVolume` | expected violations, section 6 |

`Inv`, `InStep`, `AmpsNeedRadio`, `EepromInv`, `ChargeInv`, `LinkInv`, `BusyOnlyWaiting`
and the type invariants of the first four models are theorems (section 4); TLC
finds them true on the instances above too (add them to the INVARIANTS of the
configuration), but no run repeats what is proved.

### Bounds, and why they are enough

* **Queues of one message** (two for Bluetooth in `PowerNominal` and `PowerStray`)
  instead of the five or more of the code. A full queue is the interesting case, and
  with one place it happens in every post; two places in Bluetooth's queue let a
  stray power off stand behind a request of System. Nothing else in these models
  depends on the length, and the theorems are for every length.
* **Two keys, two values, five slots**: a page fills up after a few writes, a
  transfer copies one key and skips the other, and `Slots > (MaxCuts + 1) *
  Len(Table)` is the code's own situation (some tens of keys, 2 KB pages). One cut
  between two completed boots; the theorems are for any number. `Devices` takes three
  slots, since `Usable` needs no room for an interrupted recovery.
* **Temperatures** on both sides of each threshold and of each recovery value;
  **voltages** at and between the limits (7.9 V, 8.1 V, 8.35 V); **currents** at
  and above 500 mA. Comparisons are all the code does with them.
* **A battery of two units** in a factory capacity of three, and a low half word
  of two values (`HalfWord`): capacity learned and capacity assumed differ, and a float
  spans both halves. The counter is kept within three units (`Bound`).
* **Two calls, one unasked frame, one damaged or lost frame, six ids**: the
  smallest instance in which a late acknowledgement or response of the first call
  (both its attempts) meets the second, and the answer to a request of the module
  is acknowledged in between. Six ids are the window that the two calls need.
  The link then has nothing more to do: the bound, not the code, stops it, hence
  `CHECK_DEADLOCK FALSE`.
* **Levels** 0, 4, 9, 20, 30 and 40: one in each range that the code tells apart;
  the tick wraps after six steps of five seconds, more than the two that the boot
  lasts and the one that the power on icon lasts.
* **Six requests to the amplifiers**, of the kinds that a scenario names: powering
  on takes two, so two settings follow each other on a running amplifier, and it can be
  switched off and on again after one. Scenarios pair the inputs whose tables overlap.
  A program that Bluetooth began before a power off is taken to have ended before the
  next power on (`PreOnAmps`): its task has the higher priority, and what is left of it
  fails in milliseconds while the amplifiers have no power. With that left out, six
  requests suffice to break `RegistersFollow` by the rest of a bypass test, four do not.
  Once the requests are used up and done nothing moves, hence
  `CHECK_DEADLOCK FALSE` in `Devices`.
* **Two buttons in a behaviour**: POWER with BT, BT with PLUS, POWER with PLUS. The
  handler follows one combination at a time; these are the pairs that start and end
  things, one polled with one read, two read together, and the one that resets.
* **A timer of at most two units** and two messages on their way; **four words** and
  the help in lines of up to five, for a tree with a command below another's handler,
  a shared word and a number.
* **Two users and two attempts** on the bus; with two users one can hold the mutex
  over the other's wait, and the second attempt meets the interrupt of the first.
* **A queue of two messages in Bluetooth, two bursts between idle moments**, and
  scenarios of the inputs that interfere: one `clear` or `ready` alone overfills it.
* **Three chunks, six sectors, one cut**: one chunk repeated or damaged beside a
  whole image, and a cut with a second update after it. The two orders that the
  code calls unlikely are left out (`Disorder = {}`) and reported in section 6.
* **Two keys** in the key test, one unit for the 8 s of the prompt and three for its
  30 s: the prompt ends within the test. In `Tasks` an update that has used its bounds
  and a device that has halted stop, hence `CHECK_DEADLOCK FALSE`.

### Fairness

* Power: FreeRTOS runs every ready task (weak fairness of the peers' handlers
  and of the reset). System has strong fairness: a sender blocked on a full queue
  is served by FreeRTOS although others fill the queue in between. The module
  reports its audio source while Bluetooth polls for it. Nothing forces a
  button, an event, or a timeout: `PowerOffHonoured` holds without the timeouts
  ever expiring, and with them.
* Charging: the Audio task calls `poll` whenever its queue stays empty for 25 ms;
  every 40th poll that gets so far monitors the charger, which is the strong
  fairness of the monitoring poll; delays end, time passes. A charger, a
  temperature and a charge type change as they like.
* Link: the task runs, and a clock that has passed 300 ms is seen. Nothing is
  assumed of the module or of the line: `CallsEnd` holds for a dead module.
* I2C: a call goes on (strong fairness, since the other task takes the mutex in
  between; FreeRTOS gives it to the one that waits) and a transfer that is not stuck
  comes to its interrupt. A stuck one need not: its wait ends by the timeout.
* Bluetooth: the task takes its messages, timers elapse, and the queue stays empty
  for the 10 ms of the idle callback again and again (strong fairness of `Idle`):
  the code's status depends on that. Notifications are not fair, and may go on for
  ever: `StatusFollows` excepts a status that is marked anew within every 200 ms.
* Production tests: Audio gets idle again and again and its callback returns, and
  time passes. No command and no key is fair.

## 4. Theorems

TLAPS checks every one for all values of the constants, from the assumptions
named with each module (`PowerAssumption`, `VEepromAssumption`, `ChargeAssumption`,
`LinkAssumption`, and those of the other modules, which say no more
than what type a constant has, that keys are not listed twice in `Table`, that a stored
value is not 0xFFFF, that no battery takes more than the factory capacity, that
nobody is not a task, and that an image has at least two chunks).

**Power sequence.** `TypeCorrect`; `Invariance` for `Inv`, and from it
`HandshakeInStep`, `StateIsTrue`, `AmpsWithRadio`, `InitialisedFirst`, `SupplyHeld`;
`Refinement` to `PowerRails` when `Faults = {}`. None of these properties is
inductive. `Inv` says for each `pc` what has been asked of each peer (`Asked`),
that this one request is in the queue, in the handler or answered (`AskedOf`),
and with that what the amplifiers and the module are doing; a step of a peer moves
a request along, a step of System needs the answer. Faults weaken it one by one:
what a peer disturbed by `late` or `lost` does is not claimed.
`DrainedIsSettled` (`DrainedMeansSettled`) speaks of just those: late answers are allowed,
lost posts are not. There the handshake may run any number of requests ahead, and
what is left is where the queue leads: `LateInv` says that the states which a peer's
hardware will pass through, with the handler it is in and then each message of its queue
in their order (`Leads`), end where System's position wants it (`Target`). A post appends
to that path, a peer moves along it, and a peer with nothing left is at its end.

**Settings.** `EepromTypeCorrect` for any cuts. Under `Recoverable` (the cuts are
of the surviving kind, every key is in the table, pages have room for the copies
that interrupted recoveries leave) `EepromInvariance`, `KnownGoodPages` and
`EepromRefinement`: the two pages implement an atomic store. The invariant says at
each point of the driver how the headers and the first slot identify the
interrupted operation, and that the receiving page holds only values that are
the last ones (`Right`, `Complete`); the value of a key is what a recovery
started now would find (`Merged`). `WrittenIsRead` (`ReadBack`) adds what becomes of the
write that starts a transfer: while the other variables are copied behind it, the page
that is filled already answers with its value (`Answered`), and no copy is of its key.
`AlwaysUsable` (`Usable`) needs none of these conditions: any number of cuts at any
point, the two windows of section 6 among them, leave headers for which `EE_Init`
finds a page to read from and one to write to, or makes them (`HasPage`, an invariant over
the headers and the driver's step alone).

**Charging.** `ChargeInvariance` for `ChargeInv`, from it `ChargeTypeCorrect`,
`PublishedStatusIsTrue`, `ProtectorsNested`, and `ChargerRefinement`. `StatusIsTrue`
speaks of the moments between two polls; the invariant fills in the points inside,
where the voltage is already the new one and the current and the published status
are the old ones.

**Battery level.** `CalibrationStoredTogether` (`StoredTogether`). `SocInv`: the writes
that are left are the last ones of the five of a save, those before them are stored, and the
state of the algorithm is the last. It also needs that neither the state in use nor a
stored one is Reset, since that decides whether `Initialise` starts a save.
`CalibratedKnows` (`CalibratedIsTrue`): the numbers that are stored mean something only
together with the state that is stored beside them, so `CalibrationInv` says for each such
state what the numbers of that save were worth, that the halves of a save that is under
way are those of the estimator, and that what the estimator holds in normal
operation is the battery's as long as `exact`. The induction then goes through a cut
between any two of the five writes.

**Link.** `LinkTypeCorrect` and `TransportNeverBusy` under every fault. In one
window of transaction ids (`OneWindow`: two ids for each call and one for each
request of the module are fewer than there are, and the module refuses nothing
under id 0) `LinkInvariance`, `ConfirmedReceived` and `LinkKeepsPromise`. The
invariant counts ids (`IdInv`), says that the id waited for belongs to no other
frame on its way to the module (`SentInv`), and that an acknowledgement with that id
comes after a delivery of the call (`AckInv`). `Steps` sorts the steps of the
model into five kinds, which is what keeps the proof short. `GivenAtMostTwice`
(`AtMostTwice`) needs no window and holds under every fault: `AttemptInv` says that
what the module was given of a call and what is still on its way are together no more
than the attempts made. `ReplyIsOwn` (`ReplyMatches`) holds under every fault too:
`OneReply` says that as long as no attempt of a call was repeated the frames of
requests, on their way to the module, in it, and coming back, are at most one.

**Devices** (`Devices_proofs`). The components share no state; each theorem has its own
invariant.

* `WarnedOnce` (`IndicatedOnce`). `SaidInv`: the flags remember what was said, and a
  warning of 5 % sets that of 10 % too.
* `OffWhenIdle` (`OffOnlyWhenIdle`). `IdleInv`: while no activity waits in the queue, the
  time stamp is no older than the last press and the last stream. Only the check of an
  empty queue makes that enough.
* `OffNeedsAnotherPress`, `PairingNotEnded`, `NothingIgnored` (`OffByAnotherPress`,
  `PairingKept`, `IgnoresEnd`). `InputInv`: a flag that swallows inputs is set only while
  its buttons are held for the handler of the buttons: `hold` during a press of PLUS or
  MINUS, `power` during one of POWER, or since a start with POWER held or a factory reset,
  until POWER alone was pressed and released. What a run of that handler sends has one of
  three shapes (`Shape`): no release, with no press going on; the release of the press that
  was going on, with its clicks after it; or events of a press that goes on. The callbacks
  are followed through each shape (`RunStep`), so that a flag is cleared no later than the
  press that it swallows ends. This holds for every set of combinations that fingers press.
* `DeepestCalled` (`DeepestIsCalled`). `Found` is the invariant of the loop over the words:
  the search stands at the path of the words looked up so far, has gone off the tree if
  it stopped, and remembers the deepest command on that path. An induction over the
  words (`Folds_proofs`) gives it for lines of every length.
* `DevicesTypes` (`DevicesTypeOK`). In `MCDevices` each component does what its own
  specification allows (`EachAlone`), so that what is proved of it alone holds there: its
  types, and with them every invariant of the run `Devices`.

**Amplifiers** (`Amps_proofs`). `AmplifiersFollow` (`RegistersFollow`), for any scenarios
and any number of requests. A place is a register, the state or the mute bit of a chip's
DEVICE_CTRL_2, or the power down pin. `Turns(p, k, a, b)` says that the program p, which
finds a in the place k, has b there when it is done: the last load that writes to k leaves
b there, or none does and a is b already. Three lemmas carry the proof.

* `Compose`: two programs one after the other turn a into what the second makes of
  what the first leaves. With it each program is computed from its tables once
  (`SetupWooferTurns`, `EcoTurns`, `OnTurns`, ...), without running it.
* `RestTurns`: one operation leaves a program that turns what the operation has written
  into the same end. So `AudioInv`, which says that the program under way turns what the
  registers hold into what the settings ask for (`Wanted`), is kept by every
  transaction, and at the end, with nothing left to do, they hold it.
* `OnValues`, `SwitchValues`, `BassValues`, `TrebleValues`: the tables themselves, place by
  place. Here it matters that the configuration writes to every register, that
  the eco tables write to no other than those whose normal value they restore, and that
  the equaliser is loaded anew after an eco table. For the woofer's right channel
  `SwitchValues` is false, which is the finding `NormalVolume`.

`BluetoothInv` says that a program of the Bluetooth task writes to the mute bits only, or
that the bypass test is under way; `MuteInv` that whatever was muted will be unmuted by
the program that muted it, for which the program must end the same way from any value.

**Tasks** (`Tasks_proofs`).

* `CompletionIsOwn` (`OwnCompletion`). `BusInv`: who has started or waits holds the mutex,
  and as long as no completion is overdue the transfer is the holder's and a given
  semaphore stands for it. Once one is overdue nothing of this is left.
* `WholeImageRuns` and `UpdateEnds` (`RunsWhole`, `NeverStuck`), both for `Disorder = {}`.
  `UpdateInv`: each unit is blank or its own, the units of a chunk are blank together, and
  the count of bytes is the number of units held since the erasure. So a repeated chunk
  changes nothing, and the count reaches the size exactly when nothing is blank. With
  the first chunk being the last one the offsets are wrong (section 6), and the invariant
  fails at its first conjunct.
* `DarkWhenOff` and `TickFollows` (`OffIsDark`, `LedsFollow`). At PreOff the engine of the
  source LED gets a short pattern, which leaves no pattern for ever behind it, and no tick
  starts one until the power is on again (`LedInv`). That a tick leaves the right one is a
  statement about the whole loop of `update_infinite_patterns`: an induction over its list,
  in which a pattern that holds displaces the one before it.
* `TasksTypes` (`TasksTypeOK`). Types of all five components for any bounds, which is more
  than their domains: t-boot never counts more bytes than the image has (`CountInv`), and
  what is posted to the queue of the Bluetooth task is cut to its size (`Posted`).

**Loops.** The models write the loops of the code as recursive functions. tlapm can
neither unfold them nor instantiate the library's induction theorems, whose
parameter is an operator. `Folds_proofs` proves what is needed without either: `Below` is
induction for a property given as a set of numbers, and `Loop` that a loop of n rounds
has a function that gives what each round leaves.

Only model-checked: liveness (`PowerOffHonoured`, `StopsWhenHot`, `ChargesWhenLow`,
`CallsEnd`, `CallsReturn`, `StatusFollows`, `LoopEnds`, `KeyTestEnds`), since TLAPS does
not reason about fairness and ENABLED. Every invariant of the runs that pass, and every
refinement and action property of theirs, is a theorem.

## 5. What is not modelled

Two components as a whole:

* **Properties** (`getProperty`, `setProperty`): one value per type under one mutex,
  read and written in single calls. The modules that use a property have it as a
  variable.
* **Drivers and board support**: register access and pins of the charger, the USB
  PD controller, the expander, the ADC and the UARTs, and the logger. They keep no
  state of their own beyond what the modelled components keep.

Inside the modelled parts (the notes in `PROJECT.json` say it component by
component): flash errors and half programmed halfwords; the ADC and its filter, the
lookup tables and the float arithmetic of the battery level; the bytes of the link;
the volumes of the amplifiers that only the shell sets and the recovery from their
faults; colours and timing inside an LED pattern; the volume and the answers to the
module's requests in the Bluetooth task; editing, history and printing of the shell;
the USB stack and the file system of the boot loader; commands of the production
tests that only print.

Hazards that were met and that no property covers:

| Hazard | Where | Why not |
|--------|-------|---------|
| the audio source of the last session ends the wait of the next power on | `task_bluetooth.cpp:789` | shown in section 6, no run repeats it |
| `save` of the capacity, alone of the three, does not return before the general write, and stores it once more under a key of its own that nothing reads | `kvstorage.h:136` | it costs slots, which the model counts for listed keys only |
| copies of interrupted recoveries fill the receiving page, and `EE_Init` gives up halfway | `eeprom.c:159` | the theorems assume that they do not (`Recoverable`), and so does `Slots` of `Battery`; in `Devices` they do, and `Usable` holds all the same |
| a request of the module is dropped while a call waits | `actionslink_bt_ul.c:349` | the model drops it too; no comment says what the module may expect |
| a refusal is an acknowledgement of transaction 0 | `actionslink_bt_ll.c:465` | the fault `nack` of `ActionsLink`, which `OneWindow` excludes |
| the transaction id wraps: a frame that stays on the line for 256 messages passes for a new one | `actionslink_bt_ul.c:185` | the theorems are for one window of ids |
| framing, escapes, and a receive buffer of 128 bytes | `actionslink_bt_ll.c:263`, `bsp_bluetooth_uart.c:138` | bytes are below the model, a frame that loses some is damaged; section 7 |
| a temperature outlives the sensor | `battery.cpp:411` | `StopsWhenHot` assumes the sensor; what should happen is written nowhere |
| counters of the charger keep their time over a role swap and a charge type | `charge_controller.cpp` | three formulas of section 6 |

## 6. Where the code departs from its docs

Five runs show a documented statement violated by the code:

* `PowerBroadcaster`: "CSB_Receiver power off when broadcaster power off"
  (`changelog.md:72`). The handler (`task_bluetooth.cpp:587-599`) posts
  `SetPowerState{Off}` to Bluetooth's own queue: the module loses its supply, the
  power state stays On.
* `EepromDownward`: "Restore the pages to a known good state in case of page's
  status corruption after a power loss" (`eeprom.c:65`). `EE_VerifyPageFullyErased`
  stops at the end of page 0 whatever page it is given, so page 1 always
  counts as erased, and a recovery of a move from page 1 to page 0 leaves two
  valid pages.
* `EepromUnlisted`: "Auto-Off timer value is persisted" (`changelog.md:103`).
  `VirtAddVarTab` (`e_config.c`) lists neither of the off timer's keys, so the
  first transfer drops them.
* `ChargeSetUp`: "If it still fails, don't do anything and try again on next
  poll" (`battery.cpp:503`). The retry stores the result of
  `board_link_charger_setup`, 0 for success, as "is initialised".

* `NormalVolume`: "TAS5825P from ECO-Mode to normal-Mode (set Volume to 7.5dB)"
  (`eco_5825_eco_mode_config.h:352`). The table writes 0x012f892c to the left
  channel and 0x002f892c, 16 dB less, to the right one.

More were met while modelling. Each is a formula that TLC refutes on the model as
it stands, with `Spec` and the instance of the nominal run unless said otherwise:

| Statement | Where the code departs | Formula |
|-----------|------------------------|---------|
| "Once the amps are off, we can turn off the BT module" (`task_system.cpp:150`) | after one late answer the handshake runs one ahead; `Faults = {"late"}` | `[][radio /\ ~radio' => amps' = "off"]_vars` |
| "The power state will be set to off once all tasks have finished initializing" (`task_system.cpp:72`) | System waits 2000 ms for Audio, Audio waits for the PD controller without limit; `{"late"}` | `powerState = "Off" => \A p \in Peer : doing[p] \notin {"down", "init"}` |
| "The unit is already off and running only because we're holding the power supply on" (`task_audio.cpp:621`) | checked before a delay of 1000 ms, acted on after it | `[][AudioReleases => powerState = "Off"]_vars` |
| "The I2S clocks should be stable by now" (`task_audio.cpp:806`) | `audio_source` of the last session ends the wait at once (`task_bluetooth.cpp:789`) | `[][amps # "configured" /\ amps' = "configured" => i2s]_vars` |
| "Erases PAGE and PAGE1" (`eeprom.c:440`) | page 1 always passes for erased; `Cuts = {"between", "other"}`, `MaxCuts = 2` | `[][FormatClean => header[0] = "valid" /\ header'[1] = "erased"]_vars` |
| "When the charging is active we can request 20V" (`battery.cpp:334`) | every status but Inactive enables the charger, NotConnected too | `pc = "idle" /\ status # "none" /\ published # "Active" => source = 5` |
| "Under/Over temperature protection for charging and for discharging" (`changelog.md:246`) | `poll` returns before the charger when the battery is too hot to discharge; `FairSpec`, no faults | `<>[](initialized /\ DischargeCritical) => <>[](current = "Zero")` |
| "we need to re-enable the charger according to the current charger state" (`battery.cpp:220`) | only a charger that is not active is dealt with after a role swap | `pc = "idle" /\ published = "Active" => current = Rate(chargeType)` |
| "Active --> Inactive : Battery current lower 500mA for 5sec" (`charger.puml:46`) | the missing break after the reset of the counters samples once more (`charge_controller.cpp:58`) | `[][status = "Inactive" /\ status' = "Active" => since'[500] = "stopped"]_vars` |
| "NonBfcInactive --> NonBfcActive : Battery <= 8.1V for 5sec" (`charger.puml:51`) | the counter is not asked, and not reset, while the other charge type is selected | `[][Processes /\ status = "Inactive" /\ ac /\ voltage > 8100 => since'[8100] = "stopped"]_vars` |
| "Critical warnings [...] for charge/discharge over/under battery temperature" (`changelog.md:292`) | the charge limits are inside the discharge limits and are tested first | `pc = "idle" /\ DischargeCritical => announced \in {"DischargeOverTemp", "DischargeUnderTemp", "NTCLost"}` |
| "This function validates that the response corresponds to the sent message" (`actionslink_bt_ul.h:47`) | only the tag is compared: after a retry the late response of the previous call passes | `ReplyMatches` without its `~retried` |
| "This configuration needs to be loaded before setting the coefficients" (`eco_5825_bass_config.h:6`) | Bluetooth mutes the amplifiers (`task_bluetooth.cpp:610`) during a load of Audio, and another page is selected in between | `OwnPage` in `Amps`, with `AmpScenarios <- ToneScenario` |
| NormalOperation is left to itself only (`docs/soc.puml`) | the poll in which the voltage becomes stable goes on before `SocEstimator::init` (`battery.cpp:315`), and a save then stores the state of a first start | `NormalIsKept` in `SocEstimator` |
| "Executing the deepest found handler." (`tshell.c:527`) | a line whose first word is no command calls the handler of an earlier line | `CalledIsNamed` in `Shell` |
| "Once power_on sound icon is played, the timestamp is set to UINT32_MAX(even if sound icons disabled), and we need to check the BT status" (`task_bluetooth.cpp:656`) | with the icons off none is played and none is marked; when the app switches them on before one was, the status is never derived (line 206) | `StatusFollows` with `EarlyIcons = TRUE`, `Scenarios <- EarlyEvents` |
| "signal application to power on after a successful update" (`MyndBootloader/changelog.md:10`) | access to the backup register was enabled only if the old image was valid (`main.c:311`); after a split update the magic number is not written | `PowersOnAfterUpdate` in `Update` |
| "wait 30 seconds" (`tests.cpp:138`) | `reset_prod_test_mode` (`tests.cpp:171`) leaves the start time and the keys of the test it ends | `KeyTestHasItsTime` in `FactoryTests` |
| "this scenario is highly unlikely" (`t_boot_dfu.c:393`) | the last chunk as the first one gives wrong offsets; the header as the last sector leaves a whole image and no end | `RunsWhole`, `NeverStuck` with `Disorder = {"lastFirst"}`, `{"headerLast"}` |

Some properties have an exception in their statement because the code makes it; without
it TLC refutes them:

* `RunsWhole` excepts an update that a cut or the POWER button split after the
  chunk with the vectors was written: `is_application_valid` looks at two words.
* `OffIsDark` excepts a press of BT between PreOff and Off (`task_audio.cpp:341`), which
  starts a pattern that no tick ends.
* `OwnCompletion` excepts what follows a timeout of a completion: the interrupt that
  comes late leaves the semaphore given (`i2c_freertos.c:90`).
* `CallsReturn` allows the halt: the error path gives a mutex that the task does not hold
  (`i2c_freertos.c:107`), and the kernel asserts.
* `RegistersFollow` excepts a load that failed and two tasks at once; `IgnoresEnd` the
  first press of POWER alone after a start with POWER held or after a factory reset
  (`task_audio.cpp:960`): the release of POWER+PLUS does not clear the flag, so that it
  stays until the reset, or until that press when the message of the reset was lost.
* `PairingKept` excepts BT held for 8 s, which stops the pairing it started at 1.5 s
  (`task_audio.cpp:316`) in order to clear the list of devices and to pair again, and it
  is about a pairing that buttons started, not about that second one.

And some remarks that no formula of the models is about: "without releasing the button
first" (`task_audio.cpp:272`) is kept for the handler's press only, which another button
or a read of the expander ends while POWER is still held (see `OffByAnotherPress`); `board_link_amps_woofer_fault_detected`
reads the tweeter's pin (`board_link_amps.c:465`); the property mutex is created as a plain
mutex and taken as a recursive one (`task_system.cpp:368-396`); the charge limit of the
production tests is applied above 70 % while the charger is active only
(`battery.cpp:522`); a warning that falls into the five seconds after the power on is
dropped until the level changes again (`battery_indicator.cpp:50`).

## 7. Plan

Done: the power sequence, the settings, the charging and the link, each with its
promise, invariant and theorems; the battery level, the amplifiers, the I2C bus, the
buttons, the power off timer, the shell, the Bluetooth status, the LEDs, the update and the
production tests, each with a model and its properties, eight of them with theorems.

Next, in the order of what would hurt most:

1. The other safety properties that no run repeats but the code invites (section 6), and
   `Recoverable` weakened: which cuts may follow which.
2. `Framing`: HDLC and lengths of `actionslink_bt_ll.c` over a small alphabet; an
   encoder and a decoder against each other, as recursive functions over bounded
   inputs. This stays with TLC.
3. The rest of the Bluetooth task: volume and its echo between module, task and
   amplifiers, and the answers to the module's requests.
4. Inputs composed with the power sequence: a press from the finger to the supply.
