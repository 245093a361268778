-------------------------------- MODULE Inputs --------------------------------
(***************************************************************************)
(* The buttons: what the Audio task reads from the IO expander and from    *)
(* the POWER pin, the button handler that turns it into events, and what   *)
(* the task posts for them (tasks/audio/task_audio.cpp).  The handler is   *)
(* that of the library, with the configuration of the Audio task: one      *)
(* combination at a time, deferred repeated presses, raw events.           *)
(*                                                                         *)
(* Time is the age of the press: 0 below 50 ms, and 1 to 5 from 50, 500,   *)
(* 1500, 4000 and 8000 ms.                                                 *)
(***************************************************************************)
EXTENDS Integers, Sequences

CONSTANTS Chords  \* sets of buttons: those pressed in one behaviour

VARIABLES
    hand,     \* the buttons that can be pressed
    held,     \* those that are
    irq,      \* an IoExpanderInterrupt in the queue of the task
    buttons,  \* s_buttons_state
    press,    \* the handler's button_ctx
    ignore,   \* ignore_power_input_until_release, ignore_stop_pairing_inputs_until_release
              \* and ignore_hold_until_stop_pairing of s_audio
    ux,       \* PowerState and Status, which others set
    posts,    \* what the last step posted, and for which combination
    coming,   \* the messages of a factory reset on their way to the task
    sinceOn, sincePairing, sinceReset \* history: see the properties

inputs == <<hand, held, irq, buttons, press, ignore, ux, posts, coming, sinceOn, sincePairing, sinceReset>>

Buttons == {"power", "bt", "play", "plus", "minus"}
Repeated == {{"power"}, {"bt"}, {"play"}}

ASSUME InputAssumption == Chords \subseteq SUBSET Buttons

\* input_event_id_t
RawRelease == 0
RawPress   == 1
Hold       == 2
Short      == 10
Double     == 11
Triple     == 12
Medium     == 20
Long       == 30
VeryVeryLong == 50

InputTypeOK ==
    /\ {hand, held, buttons, press.combo, press.last} \subseteq SUBSET Buttons /\ held \subseteq hand
    /\ press.state \in {"released", "debouncing", "pressed"} /\ press.age \in 0..5
    /\ press.count \in 0..5 /\ press.sent \in 0..52
    /\ ignore \in [power : BOOLEAN, stop : BOOLEAN, hold : BOOLEAN]
    /\ ux \in [on : BOOLEAN, pairing : BOOLEAN, chain : {"none", "master", "slave"}]
    /\ coming \subseteq {"factory", "hard"}
    /\ {irq, sinceOn, sincePairing, sinceReset} \subseteq BOOLEAN
-----------------------------------------------------------------------------
(* The button handler: its next state and the events it sends.             *)

Sends(h, events) == {[press |-> h, events |-> events]}

Released(h, b) ==
    IF b # {}
    THEN Sends([h EXCEPT !.state = "debouncing", !.combo = b, !.age = 0,
                         !.count = IF b # h.last \/ h.age >= 2 \/ b \notin Repeated THEN 0 ELSE @],
               << <<b, RawPress>> >>)
    ELSE IF h.sent = RawRelease /\ h.count > 0 /\ h.age >= 2
    THEN LET e == IF h.count <= 3 THEN Short + h.count - 1 ELSE Short IN
         Sends([h EXCEPT !.sent = e], << <<h.last, e>> >>)
    ELSE Sends(h, <<>>)

Times(n, e) == [i \in 1..n |-> e]

\* The event of a press that goes on; from 500 ms its length rises step by step.
Rises(h) == h.age >= 2 /\ h.sent \div 10 # h.age
Begins(h) ==
    IF Rises(h) THEN <<h.sent + 10, 1>>
    ELSE IF h.age >= 2 THEN <<h.sent, 0>>
    ELSE IF h.count <= 3 THEN <<Short + h.count - 1, 1>>
    ELSE IF h.sent = Short THEN <<Short, 0>>
    ELSE <<Short, IF h.count = 4 THEN 4 ELSE 1>>

Undecided(h, b) == h.age < 2 /\ h.count <= 3 /\ b \in Repeated

GoesOn(h, b) ==
    IF Undecided(h, b) THEN Sends(h, <<>>)
    ELSE LET begun  == Begins(h)
             events == IF begun[1] = h.sent THEN <<>> ELSE Times(begun[2], <<b, begun[1]>>)
             next   == [h EXCEPT !.sent = begun[1]]
         IN Sends(next, events) \cup IF h.age >= 2 THEN Sends(next, Append(events, <<b, Hold>>)) ELSE {}

Recent(h) == IF h.age < 2 THEN h.age ELSE 2

Debouncing(h, b) ==
    IF b = {} THEN Sends([h EXCEPT !.state = "released", !.age = Recent(h)], << <<h.combo, RawRelease>> >>)
    ELSE IF b # h.combo THEN Sends([h EXCEPT !.combo = b, !.age = 0], <<>>)
    ELSE IF h.age = 0 THEN Sends(h, <<>>)
    ELSE LET fresh == IF b # h.last THEN 0 ELSE h.count IN
         GoesOn([h EXCEPT !.state = "pressed", !.last = b, !.sent = RawRelease,
                          !.count = IF fresh < 5 THEN fresh + 1 ELSE 5], b)

Pressed(h, b) ==
    IF b = {}
    THEN LET late == h.sent = RawRelease /\ h.count >= 4 IN
         Sends([h EXCEPT !.state = "released", !.age = Recent(h), !.sent = IF late THEN Short ELSE @],
               << <<h.last, RawRelease>> >> \o IF late THEN Times(IF h.count = 4 THEN 4 ELSE 1, <<h.last, Short>>) ELSE <<>>)
    ELSE IF b # h.last
    THEN Sends([h EXCEPT !.state = "debouncing", !.combo = b, !.age = 0], << <<h.last, RawRelease>> >>)
    ELSE GoesOn(h, b)

Process(h, b) ==
    CASE h.state = "released"   -> Released(h, b)
      [] h.state = "debouncing" -> Debouncing(h, b)
      [] OTHER                  -> Pressed(h, b)
-----------------------------------------------------------------------------
(* EventHandlerMapper: what an event of a combination changes and posts.   *)

Says(f, combo, m) == [f EXCEPT !.posts = @ \cup {<<combo, m>>}]
StopsPairing(f) == ux.pairing /\ ~f.stop

\* Mutant: the flag is not asked.
PowerLongAlways(f) == TRUE
PowerLong(f) == ~f.power

PowerButton(f, c, e) ==
    CASE e = Short /\ ux.pairing     -> Says(f, c, "stopPairing")
      [] e = Double                  -> Says(f, c, "chargeType")
      [] e = Medium /\ ~ux.on        -> Says([f EXCEPT !.power = TRUE], c, "on")
      [] e = Long /\ PowerLong(f)    -> Says(f, c, "off")
      [] e = RawRelease              -> [f EXCEPT !.power = FALSE]
      [] OTHER                       -> f

\* The list is cleared after StopPairingAndMultichain, whatever the flag says.
BtButton(f, c, e) ==
    CASE ~ux.on \/ ux.chain = "slave"  -> f
      [] e = Short /\ StopsPairing(f)  -> Says(f, c, "stopPairing")
      [] e = Short /\ ~ux.pairing      -> Says(f, c, "wakeUp")
      [] e = Long                      -> Says([f EXCEPT !.stop = TRUE], c, "startPairing")
      [] e = VeryVeryLong              -> Says(Says(f, c, "stopPairing"), c, "clearDeviceList")
      [] OTHER                         -> f

PlayButton(f, c, e) ==
    CASE e = Short  -> Says(f, c, IF StopsPairing(f) THEN "stopPairing" ELSE "playPause")
      [] e = Double -> Says(f, c, "next")
      [] e = Triple -> Says(f, c, "previous")
      [] OTHER      -> f

\* Mutant: holding is ignored until the pairing has stopped.
HoldEndsWithPairing(e) == e = RawRelease /\ ~ux.pairing
HoldEnds(e) == e = RawRelease

\* At the highest level PLUS asks for a sound icon, once, and not for the volume.
VolumeButton(f, c, e) ==
    CASE e \in {Short, Hold} /\ f.hold  -> f
      [] e \in {Short, Hold} /\ ~f.hold ->
            IF StopsPairing(f) THEN Says([f EXCEPT !.hold = TRUE], c, "stopPairing") ELSE Says(f, c, "volume")
      [] HoldEnds(e)    -> [f EXCEPT !.hold = FALSE]
      [] OTHER          -> f

Combination(f, c, e) ==
    CASE c = {"bt", "plus"} /\ e = Short ->
            (IF ux.chain = "none" THEN Says([f EXCEPT !.stop = TRUE], c, "multichain") ELSE [f EXCEPT !.stop = TRUE])
      [] c = {"bt", "minus"} /\ e = Short              -> Says(f, c, "stopPairing")
      [] c = {"power", "plus"} /\ e = VeryVeryLong     -> Says(f, c, "factoryReset")
      [] c = {"power", "minus"} /\ e = VeryVeryLong    -> Says(f, c, "bootloader")
      [] c = {"power", "bt", "minus"} ->
            LET g == IF ux.pairing THEN Says(f, c, "stopPairing") ELSE f IN
            IF e = VeryVeryLong THEN Says(g, c, "dfu") ELSE g
      [] c = {"power", "bt"} /\ e = Medium /\ ~ux.on   -> Says(f, c, "on")
      [] c = {"power", "bt"} /\ e = Long               -> Says(f, c, "announcement")
      [] c = {"play", "plus"} /\ e = Short             -> Says(f, c, "ecoOn")
      [] c = {"play", "minus"} /\ e = Short            -> Says(f, c, "ecoOff")
      [] OTHER                                         -> f

\* user_callback
Handled(f, ev) ==
    LET c == ev[1] e == ev[2]
        g == IF e = RawPress THEN Says(f, c, "userActivity") ELSE f
    IN CASE c = {"power"}              -> PowerButton(g, c, e)
         [] c = {"bt"}                 -> BtButton(g, c, e)
         [] c = {"play"}               -> PlayButton(g, c, e)
         [] c \in {{"plus"}, {"minus"}} -> VolumeButton(g, c, e)
         [] OTHER                      -> Combination(g, c, e)

\* The callbacks of a run of the handler, one event after the other.
AfterEvents(f, events) ==
    LET run[n \in 0..Len(events)] == IF n = 0 THEN f ELSE Handled(run[n - 1], events[n]) IN run
-----------------------------------------------------------------------------
(* The Audio task.                                                         *)

\* Bound: the age rises by one between two runs of the handler; once the press
\* is over only its first 500 ms matter.
Older == {press} \cup
         IF press.age < (IF press.state = "released" THEN 2 ELSE 5) THEN {[press EXCEPT !.age = @ + 1]} ELSE {}

\* The System task answers a FactoryResetRequest with FactoryReset and, 1 s later,
\* HardReset; full queues lose each of the three.  Bound: no second request before
\* the first is over.
AfterRequest(says) ==
    IF "factoryReset" \in says /\ coming = {} THEN SUBSET {"factory", "hard"} ELSE {coming}

\* button_handler_process with the callbacks it makes.
RunsHandler(b, stop) ==
    \E h \in Older : \E s \in Process(h, b) :
       LET first == [power |-> ignore.power, stop |-> stop, hold |-> ignore.hold, posts |-> {}]
           f == AfterEvents(first, s.events)[Len(s.events)]
           says == {p[2] : p \in f.posts}
       IN /\ press' = s.press /\ posts' = f.posts
          /\ ignore' = [power |-> f.power, stop |-> f.stop, hold |-> f.hold]
          /\ sinceOn' = (<<{"power"}, "on">> \in f.posts \/ (sinceOn /\ b = {"power"}))
          /\ sincePairing' = (held \ {"power"} # {} /\ (sincePairing \/ {"startPairing", "multichain"} \cap says # {}))
          /\ sinceReset' = (sinceReset /\ <<{"power"}, RawRelease>> \notin {s.events[i] : i \in DOMAIN s.events})
          /\ coming' \in AfterRequest(says)

\* The idle callback reads the POWER pin.
PollPower ==
    LET b == (buttons \ {"power"}) \cup (held \cap {"power"}) IN
    /\ buttons' = b /\ RunsHandler(b, ignore.stop)
    /\ UNCHANGED <<hand, held, irq, ux>>

\* read_io_expander_inputs. The flag is cleared when nothing is read (mutant:
\* as soon as BT is released).
StopsIgnoringEarly(b) == "bt" \notin b
StopsIgnoring(b) == b = {}

ReadExpander ==
    /\ irq /\ irq' = FALSE
    /\ \E b \in {held \ {"power"}, buttons} :  \* the second: the transfer has failed
          /\ buttons' = b
          /\ RunsHandler(b, ignore.stop /\ ~StopsIgnoring(b))
    /\ UNCHANGED <<hand, held, ux>>

\* A finger; a full queue loses the interrupt.
Touch ==
    \E b \in hand :
       /\ held' = IF b \in held THEN held \ {b} ELSE held \cup {b}
       /\ irq' \in {irq, irq \/ b # "power"}
       /\ sincePairing' = (sincePairing /\ held' \ {"power"} # {})
       /\ posts' = {}
       /\ UNCHANGED <<hand, buttons, press, ignore, ux, coming, sinceOn, sinceReset>>

\* The other tasks go on.
Progress ==
    /\ \/ ux' \in {[ux EXCEPT !.on = ~@], [ux EXCEPT !.pairing = ~@]}
       \/ "bt" \in hand   /\ \E c \in {"none", "master", "slave"} : ux' = [ux EXCEPT !.chain = c]
    /\ posts' = {}
    /\ UNCHANGED <<hand, held, irq, buttons, press, ignore, coming, sinceOn, sincePairing, sinceReset>>

\* Callback_Init: the POWER button that switched the supply on may still be pressed.
PressAtStart(b) ==
    [state |-> IF b = {} THEN "released" ELSE "debouncing", combo |-> b, last |-> {}, age |-> 0, count |-> 0, sent |-> RawRelease]
IgnoreAtStart(b) == [power |-> b # {}, stop |-> FALSE, hold |-> FALSE]
StatusAtStart == [on |-> FALSE, pairing |-> FALSE, chain |-> "none"]

\* The indication of the reset is not to be replaced by that of the battery.
FactoryReset ==
    /\ "factory" \in coming /\ coming' = coming \ {"factory"}
    /\ ignore' = [ignore EXCEPT !.power = TRUE]
    /\ sinceReset' = TRUE /\ posts' = {}
    /\ UNCHANGED <<hand, held, irq, buttons, press, ux, sinceOn, sincePairing>>

HardReset ==
    /\ "hard" \in coming /\ "factory" \notin coming /\ coming' = {}
    /\ LET b == held \cap {"power"} IN
          buttons' = b /\ press' = PressAtStart(b) /\ ignore' = IgnoreAtStart(b) /\ sinceReset' = (b # {})
    /\ irq' = FALSE /\ posts' = {} /\ ux' = StatusAtStart
    /\ sinceOn' = FALSE /\ sincePairing' = FALSE
    /\ UNCHANGED <<hand, held>>

InputInit ==
    /\ hand \in Chords /\ held \in {{}, hand \cap {"power"}}
    /\ irq = FALSE /\ buttons = held
    /\ press = PressAtStart(held) /\ ignore = IgnoreAtStart(held)
    /\ posts = {} /\ coming = {}
    /\ ux = StatusAtStart
    /\ sinceOn = FALSE /\ sincePairing = FALSE /\ sinceReset = (held # {})

InputNext == PollPower \/ ReadExpander \/ Touch \/ Progress \/ FactoryReset \/ HardReset
InputSpec == InputInit /\ [][InputNext]_inputs
-----------------------------------------------------------------------------
(* A press of POWER that switched the speaker on never switches it off:     *)
(* the task has seen another state of the buttons meanwhile (task_audio.cpp,*)
(* LongPress: "without releasing the button first").  That state need not   *)
(* be a release: another button is enough, and so is a read of the expander,*)
(* which leaves POWER out.                                                  *)
OffByAnotherPress == ~(sinceOn /\ <<{"power"}, "off">> \in posts)

\* A StopPairingAndMultichain of one button of the expander alone, with no
\* ClearDeviceList after it, which starts a pairing again.
EndsPairing(p, all) ==
    /\ p[2] = "stopPairing" /\ p[1] \in {{"bt"}, {"play"}, {"plus"}, {"minus"}}
    /\ <<p[1], "clearDeviceList">> \notin all

(* The buttons that started a pairing do not end it: while any button of    *)
(* the expander has been held since, a single one ends no pairing, in       *)
(* whatever order they come up (read_io_expander_inputs).  BT held for 8 s  *)
(* stops the pairing that it started, but to clear the list of devices and  *)
(* to start another one.                                                    *)
PairingKept == sincePairing => \A p \in posts : ~EndsPairing(p, posts)

(* Nothing stays ignored: when no press is going on, no later hold is       *)
(* swallowed, and a press of POWER only if POWER alone has not been pressed *)
(* and released since a start with POWER held or since a factory reset.     *)
(* The handler of FactoryReset ignores POWER until the reset that follows,  *)
(* and the release of POWER+PLUS does not end that.                         *)
IgnoresEnd == press.state = "released" => ~ignore.hold /\ (ignore.power => sinceReset)
=============================================================================
