--------------------------- MODULE Devices_proofs ---------------------------
(***************************************************************************)
(* Proofs about the components of MCDevices, which share no state: the     *)
(* battery's warnings, the power off timer, the buttons and the shell.     *)
(* The amplifiers of Amps_proofs and the settings of VEeprom_proofs join   *)
(* them in the type invariant of the whole.                                *)
(***************************************************************************)
EXTENDS MCDevices, Amps_proofs, VEeprom_proofs, Folds_proofs, FiniteSetTheorems, SequenceTheorems, TLAPS

-----------------------------------------------------------------------------
(***************************************************************************)
(* BatteryIndicator: the warnings that are given.                          *)
(***************************************************************************)

\* The flags remember at least what was said.
SaidInv ==
    /\ IndicatedOnce
    /\ said # <<>> => low10
    /\ said \in {<<5>>, <<10, 5>>} => low5

LEMMA SaidInit == IndicatorInit => SaidInv
  BY DEF IndicatorInit, SaidInv, IndicatedOnce

LEMMA SaidNext == SaidInv /\ [IndicatorNext]_indicator => SaidInv'
<1> SUFFICES ASSUME SaidInv, [IndicatorNext]_indicator PROVE SaidInv'
  OBVIOUS
<1>1. ASSUME NEW l \in Levels, NewLevel(l) PROVE SaidInv'
  <2>1. /\ low5'  = (low5 \/ EmptyAtBoot(l) \/ Warn5(l))
        /\ low10' = (low10 \/ EmptyAtBoot(l) \/ Warn5(l) \/ Warn10(l))
        /\ said' = IF Warn5(l) THEN Append(said, 5) ELSE IF Warn10(l) THEN Append(said, 10) ELSE said
    BY <1>1 DEF NewLevel, Indicate
  <2>2. CASE Warn5(l)
    <3>1. said' = Append(said, 5)
      BY <2>1, <2>2
    <3>2. ~low5 /\ low5' /\ low10'
      BY <2>1, <2>2 DEF Warn5
    <3>3. said = <<>> \/ said = <<10>>
      BY <3>2 DEF SaidInv, IndicatedOnce
    <3>4. Append(<<>>, 5) = <<5>>
      OBVIOUS
    <3>5. Append(<<10>>, 5) = <<10, 5>>
      <4> DEFINE a == Append(<<10>>, 5)
                 b == <<10, 5>>
      <4>1. a \in Seq(Int) /\ Len(a) = 2 /\ a[1] = 10 /\ a[2] = 5
        OBVIOUS
      <4>2. b \in Seq(Int) /\ Len(b) = 2 /\ b[1] = 10 /\ b[2] = 5
        OBVIOUS
      <4> HIDE DEF a, b
      <4>3. \A i \in 1..Len(a) : a[i] = b[i]
        BY <4>1, <4>2
      <4>4. a = b
        BY <4>1, <4>2, <4>3, SeqEqual, Zenon
      <4> QED
        BY <4>4 DEF a, b
    <3>6. said' = <<5>> \/ said' = <<10, 5>>
      BY <3>1, <3>3, <3>4, <3>5
    <3> QED
      BY <3>2, <3>6 DEF SaidInv, IndicatedOnce
  <2>3. CASE ~Warn5(l) /\ Warn10(l)
    <3>1. ~low10 /\ low10' /\ said' = Append(said, 10)
      BY <2>1, <2>3 DEF Warn10
    <3>2. said = <<>>
      BY <3>1 DEF SaidInv
    <3>3. said' = <<10>>
      BY <3>1, <3>2
    <3>4. <<10>> # <<5>> /\ <<10>> # <<10, 5>>
      OBVIOUS
    <3> QED
      BY <3>1, <3>3, <3>4 DEF SaidInv, IndicatedOnce
  <2>4. CASE ~Warn5(l) /\ ~Warn10(l)
    BY <2>1, <2>4 DEF SaidInv, IndicatedOnce
  <2> QED
    BY <2>2, <2>3, <2>4
<1>2. ASSUME Clear PROVE SaidInv'
  <2>1. <<>> # <<5>> /\ <<>> # <<10, 5>>
    OBVIOUS
  <2> QED
    BY <1>2, <2>1 DEF Clear, SaidInv, IndicatedOnce
<1>3. ASSUME UNCHANGED <<low5, low10, said>> PROVE SaidInv'
  BY <1>3 DEF SaidInv, IndicatedOnce
<1>4. CASE Tick
  BY <1>3, <1>4 DEF Tick
<1>5. CASE PowerOn
  BY <1>2, <1>5 DEF PowerOn
<1>6. CASE PowerOff
  BY <1>3, <1>6 DEF PowerOff
<1>7. CASE CheckBank
  BY <1>3, <1>7 DEF CheckBank
<1>8. ASSUME NEW s \in Statuses, NewStatus(s) PROVE SaidInv'
  BY <1>2, <1>3, <1>8 DEF NewStatus
<1>9. CASE UNCHANGED indicator
  BY <1>3, <1>9 DEF indicator
<1> QED
  BY <1>1, <1>4, <1>5, <1>6, <1>7, <1>8, <1>9 DEF IndicatorNext

(* Whatever the level jumps to, for every set of levels and every width of  *)
(* the tick, a warning is given once until the flags are cleared, and that  *)
(* of 10 % never after that of 5 % (BatteryIndicator::m_check_battery_level).*)
THEOREM WarnedOnce == IndicatorSpec => []IndicatedOnce
<1>1. SaidInv => IndicatedOnce
  BY DEF SaidInv
<1> QED
  BY <1>1, SaidInit, SaidNext, PTL DEF IndicatorSpec

-----------------------------------------------------------------------------
(***************************************************************************)
(* IdleTimer: a switch off comes after the silence the timer asks for.     *)
(***************************************************************************)

\* No activity waits in the queue.
Quiet == \A i \in 1..Len(box) : box[i][1] # "activity"

IdleInv ==
    /\ box \in Seq({"activity", "timer", "enabled"} \X Int)
    /\ activityAge \in Ages /\ sincePress \in Ages /\ sinceStream \in Ages /\ offTimer \in Int
    /\ Quiet => activityAge <= sincePress /\ activityAge <= sinceStream
    /\ OffOnlyWhenIdle

LEMMA IdleInit_Inv == IdleInit => IdleInv
  BY IdleAssumption DEF IdleInit, IdleInv, Ages, OffOnlyWhenIdle

LEMMA MailNotQuiet ==
    ASSUME NEW b \in Seq({"activity", "timer", "enabled"} \X Int), NEW a \in Int
    PROVE  LET m == b \o << <<"activity", a>> >>
           IN  m \in Seq({"activity", "timer", "enabled"} \X Int)
               /\ ~ \A i \in 1..Len(m) : m[i][1] # "activity"
<1> DEFINE m == b \o << <<"activity", a>> >>
<1>1. m \in Seq({"activity", "timer", "enabled"} \X Int) /\ Len(m) = Len(b) + 1
  OBVIOUS
<1>2. m[Len(b) + 1] = <<"activity", a>>
  OBVIOUS
<1>3. Len(b) + 1 \in 1..Len(m)
  BY <1>1
<1> QED
  BY <1>1, <1>2, <1>3

LEMMA IdleNext_Inv == IdleInv /\ [IdleNext]_idle => IdleInv'
<1> SUFFICES ASSUME IdleInv, [IdleNext]_idle PROVE IdleInv'
  OBVIOUS
<1> DEFINE T == {"activity", "timer", "enabled"} \X Int
<1>a. ASSUME NEW a \in Ages PROVE Aged(a) \in Ages
  BY <1>a, IdleAssumption DEF Ages, Aged
<1>b. ASSUME NEW a \in Ages, NEW b \in Ages, a <= b PROVE Aged(a) <= Aged(b)
  BY <1>b, IdleAssumption DEF Ages, Aged
<1>c. 0 \in Ages /\ \A a \in Ages : 0 <= a
  BY IdleAssumption DEF Ages
<1>1. CASE Check
  <2>1. UNCHANGED <<box, playing, offTimer, activityAge, sincePress, sinceStream>>
    BY <1>1 DEF Check
  <2>2. ASSUME offBy' PROVE ~playing /\ sinceStream > offTimer /\ sincePress > offTimer
    <3>1. box = <<>> /\ ~playing /\ activityAge > offTimer
      BY <1>1, <2>2 DEF Check, Expired
    <3>2. Quiet
      BY <3>1 DEF Quiet
    <3> QED
      BY <3>1, <3>2 DEF IdleInv, Ages
  <2> QED
    BY <2>1, <2>2 DEF IdleInv, Quiet, OffOnlyWhenIdle
<1>2. CASE Message
  <2>1. ~offBy' /\ box # <<>> /\ box' = Tail(box) /\ UNCHANGED <<sincePress, sinceStream>>
    BY <1>2 DEF Message
  <2>2. box' \in Seq(T)
    BY <2>1 DEF IdleInv
  <2>3. CASE UserActivity
    <3>1. activityAge' = 0 /\ offTimer' = offTimer
      BY <2>3 DEF UserActivity, ActivityAge
    <3> QED
      BY <1>c, <2>1, <2>2, <3>1 DEF IdleInv, OffOnlyWhenIdle
  <2>4. CASE OffTimer \/ EnableTimer
    <3>0. box[1] \in T
      BY <2>1 DEF IdleInv
    <3>1. box[1][1] # "activity" /\ activityAge' = activityAge /\ offTimer' \in Int
      BY <3>0, <2>4, <2>1 DEF OffTimer, EnableTimer, IdleInv
    <3>2. ASSUME Quiet' PROVE Quiet
      <4> SUFFICES ASSUME NEW i \in 1..Len(box), i # 1 PROVE box[i][1] # "activity"
        BY <3>1 DEF Quiet
      <4>1. i - 1 \in 1..Len(box') /\ box'[i - 1] = box[i]
        BY <2>1 DEF IdleInv
      <4> QED
        BY <3>2, <4>1 DEF Quiet
    <3> QED
      BY <2>1, <2>2, <3>1, <3>2 DEF IdleInv, OffOnlyWhenIdle
  <2> QED
    BY <1>2, <2>3, <2>4 DEF Message
<1>3. CASE SwitchPower \/ SwitchDfu
  BY <1>3 DEF SwitchPower, SwitchDfu, IdleInv, Quiet, OffOnlyWhenIdle
<1>4. CASE PressButton \/ StreamState
  <2>1. box' = box \o << <<"activity", 0>> >> /\ ~offBy'
    BY <1>4 DEF PressButton, StreamState, Mail
  <2>2. box' \in Seq(T) /\ ~Quiet'
    BY <2>1, MailNotQuiet DEF IdleInv, Quiet
  <2>3. activityAge' \in Ages /\ sincePress' \in Ages /\ sinceStream' \in Ages /\ offTimer' = offTimer
    BY <1>4, <1>c DEF PressButton, StreamState, IdleInv
  <2> QED
    BY <2>1, <2>2, <2>3 DEF IdleInv, OffOnlyWhenIdle
<1>5. CASE SetOffTimer
  <2>1. PICK on \in {0, 1}, t \in 0..Longest : box' = box \o << <<"enabled", on>>, <<"timer", t>> >>
    BY <1>5 DEF SetOffTimer, Mail
  <2>2. box' \in Seq(T)
    BY <2>1, IdleAssumption DEF IdleInv
  <2>3. ASSUME Quiet' PROVE Quiet
    <3> SUFFICES ASSUME NEW i \in 1..Len(box) PROVE box[i][1] # "activity"
      BY DEF Quiet
    <3>1. i \in 1..Len(box') /\ box'[i] = box[i]
      BY <2>1 DEF IdleInv
    <3> QED
      BY <2>3, <3>1 DEF Quiet
  <2>4. ~offBy' /\ UNCHANGED <<offTimer, activityAge, sincePress, sinceStream>>
    BY <1>5 DEF SetOffTimer
  <2> QED
    BY <2>2, <2>3, <2>4 DEF IdleInv, OffOnlyWhenIdle
<1>6. CASE Grow
  <2>1. /\ box' = box /\ ~offBy' /\ offTimer' = offTimer /\ activityAge' = Aged(activityAge)
        /\ sincePress' = Aged(sincePress) /\ sinceStream' = Aged(sinceStream)
    BY <1>6 DEF Grow
  <2>2. Quiet' = Quiet
    BY <2>1 DEF Quiet
  <2> QED
    BY <1>a, <1>b, <2>1, <2>2 DEF IdleInv, OffOnlyWhenIdle
<1>7. CASE UNCHANGED idle
  BY <1>7 DEF idle, IdleInv, Quiet, OffOnlyWhenIdle
<1> QED
  BY <1>1, <1>2, <1>3, <1>4, <1>5, <1>6, <1>7 DEF IdleNext

(* For every OffTimer and every length of the queue: the messages of an     *)
(* activity are all answered before the check, which runs while the queue   *)
(* is empty, so the time stamp is never older than the last press or stream.*)
THEOREM OffWhenIdle == IdleSpec => []OffOnlyWhenIdle
<1>1. IdleInv => OffOnlyWhenIdle
  BY DEF IdleInv
<1> QED
  BY <1>1, IdleInit_Inv, IdleNext_Inv, PTL DEF IdleSpec
-----------------------------------------------------------------------------
(***************************************************************************)
(* Inputs: what a callback does to the flags and to what is posted.        *)
(***************************************************************************)
Notices == {"userActivity", "chargeType", "on", "off", "stopPairing", "wakeUp", "startPairing",
          "clearDeviceList", "playPause", "next", "previous", "volume", "multichain", "factoryReset",
          "bootloader", "dfu", "announcement", "ecoOn", "ecoOff"}
Flags == [power : BOOLEAN, stop : BOOLEAN, hold : BOOLEAN, posts : SUBSET ((SUBSET Buttons) \X Notices)]

\* Why a message is posted.
Suits(f, g, c, e, m) ==
    /\ m = "off" /\ c = {"power"} => e = Long /\ ~f.power
    /\ m = "on" /\ c = {"power"} => e = Medium /\ g.power
    /\ EndsPairing(<<c, m>>, g.posts) => ~f.stop /\ e \in {Short, Hold} /\ (c = {"bt"} => e = Short)
    /\ m = "startPairing" => c = {"bt"} /\ e = Long /\ g.stop
    /\ m = "multichain" => c = {"bt", "plus"} /\ e = Short /\ g.stop

Step(f, g, c, e) ==
    /\ g \in Flags
    /\ f.stop => g.stop
    /\ f.power /\ ~g.power => c = {"power"} /\ e = RawRelease
    /\ ~f.power /\ g.power => c = {"power"} /\ e = Medium
    /\ c = {"power"} /\ e = RawRelease => ~g.power
    /\ ~f.hold /\ g.hold => c \in {{"plus"}, {"minus"}} /\ e \in {Short, Hold}
    /\ c \in {{"plus"}, {"minus"}} /\ e = RawRelease => ~g.hold
    /\ f.posts \subseteq g.posts
    /\ \A p \in g.posts : p \in f.posts \/ \E m \in Notices : p = <<c, m>> /\ Suits(f, g, c, e, m)

\* Nothing is done, but perhaps a message is posted that no flag is about.
LEMMA SaysOnly ==
  ASSUME NEW f \in Flags, NEW c \in SUBSET Buttons, NEW e,
         c = {"power"} => e # RawRelease, c \in {{"plus"}, {"minus"}} => e # RawRelease
  PROVE  /\ Step(f, f, c, e)
         /\ \A m \in Notices : Suits(f, f, c, e, m) => Step(f, Says(f, c, m), c, e)
<1>1. Step(f, f, c, e)
  BY DEF Step
<1>2. ASSUME NEW m \in Notices, Suits(f, f, c, e, m) PROVE Step(f, Says(f, c, m), c, e)
  <2> DEFINE g == Says(f, c, m)
  <2>1. /\ g.power = f.power /\ g.stop = f.stop /\ g.hold = f.hold /\ g.posts = f.posts \cup {<<c, m>>}
        /\ g \in Flags
    BY DEF Says, Flags
  <2>2. Suits(f, g, c, e, m)
    BY <1>2, <2>1 DEF Suits, EndsPairing
  <2> HIDE DEF g
  <2>3. Step(f, g, c, e)
    BY <2>1, <2>2 DEF Step
  <2> QED
    BY <2>3 DEF g
<1> QED
  BY <1>1, <1>2

\* A message is posted.
LEMMA SaysFlags ==
  ASSUME NEW f \in Flags, NEW c \in SUBSET Buttons, NEW m \in Notices
  PROVE  /\ Says(f, c, m) \in Flags
         /\ Says(f, c, m).power = f.power /\ Says(f, c, m).stop = f.stop /\ Says(f, c, m).hold = f.hold
         /\ f.posts \subseteq Says(f, c, m).posts /\ <<c, m>> \in Says(f, c, m).posts
         /\ \A p \in Says(f, c, m).posts : p \in f.posts \/ p = <<c, m>>
  BY DEF Says, Flags

\* Two messages are posted.
LEMMA SaysBoth ==
  ASSUME NEW f \in Flags, NEW c \in SUBSET Buttons, NEW e,
         c = {"power"} => e # RawRelease, c \in {{"plus"}, {"minus"}} => e # RawRelease,
         NEW m \in Notices, NEW also \in Notices, NEW g, g = Says(Says(f, c, m), c, also),
         Suits(f, g, c, e, m), Suits(f, g, c, e, also)
  PROVE  Step(f, g, c, e)
<1> DEFINE w == Says(f, c, m)
<1>1. /\ w \in Flags /\ w.power = f.power /\ w.stop = f.stop /\ w.hold = f.hold
      /\ f.posts \subseteq w.posts /\ \A p \in w.posts : p \in f.posts \/ p = <<c, m>>
  BY SaysFlags
<1>2. g = Says(w, c, also)
  OBVIOUS
<1> HIDE DEF w
<1>3. /\ g \in Flags /\ g.power = w.power /\ g.stop = w.stop /\ g.hold = w.hold
      /\ w.posts \subseteq g.posts /\ \A p \in g.posts : p \in w.posts \/ p = <<c, also>>
  <2>1. also \in Notices /\ w \in Flags /\ c \in SUBSET Buttons
    BY <1>1
  <2>2. /\ Says(w, c, also) \in Flags /\ Says(w, c, also).power = w.power /\ Says(w, c, also).stop = w.stop
        /\ Says(w, c, also).hold = w.hold /\ w.posts \subseteq Says(w, c, also).posts
        /\ \A p \in Says(w, c, also).posts : p \in w.posts \/ p = <<c, also>>
    BY <2>1, SaysFlags
  <2> QED
    BY <1>2, <2>2
<1>4. \A p \in g.posts : p \in f.posts \/ p = <<c, m>> \/ p = <<c, also>>
  BY <1>1, <1>3
<1> QED
  BY <1>1, <1>3, <1>4 DEF Step

\* One flag is written.
Others(f, g, field) ==
    /\ g \in Flags /\ g.posts = f.posts
    /\ field # "power" => g.power = f.power
    /\ field # "stop" => g.stop = f.stop
    /\ field # "hold" => g.hold = f.hold

LEMMA FlagWritten ==
  ASSUME NEW f \in Flags
  PROVE  /\ Others(f, [f EXCEPT !.power = FALSE], "power") /\ ~[f EXCEPT !.power = FALSE].power
         /\ Others(f, [f EXCEPT !.power = TRUE], "power") /\ [f EXCEPT !.power = TRUE].power
         /\ Others(f, [f EXCEPT !.stop = TRUE], "stop") /\ [f EXCEPT !.stop = TRUE].stop
         /\ Others(f, [f EXCEPT !.hold = FALSE], "hold") /\ ~[f EXCEPT !.hold = FALSE].hold
         /\ Others(f, [f EXCEPT !.hold = TRUE], "hold") /\ [f EXCEPT !.hold = TRUE].hold
<1>1. Others(f, [f EXCEPT !.power = FALSE], "power") /\ ~[f EXCEPT !.power = FALSE].power
  BY DEF Flags, Others
<1>2. Others(f, [f EXCEPT !.power = TRUE], "power") /\ [f EXCEPT !.power = TRUE].power
  BY DEF Flags, Others
<1>3. Others(f, [f EXCEPT !.stop = TRUE], "stop") /\ [f EXCEPT !.stop = TRUE].stop
  BY DEF Flags, Others
<1>4. Others(f, [f EXCEPT !.hold = FALSE], "hold") /\ ~[f EXCEPT !.hold = FALSE].hold
  BY DEF Flags, Others
<1>5. Others(f, [f EXCEPT !.hold = TRUE], "hold") /\ [f EXCEPT !.hold = TRUE].hold
  BY DEF Flags, Others
<1> QED
  BY <1>1, <1>2, <1>3, <1>4, <1>5

\* The codes of the events, and the combinations, differ from each other.
LEMMA Distinct ==
  /\ Hold = 2 /\ RawPress = 1 /\ RawRelease = 0
  /\ Short = 10 /\ Double = 11 /\ Triple = 12 /\ Medium = 20 /\ Long = 30 /\ VeryVeryLong = 50
  /\ {"power"} # {"bt"} /\ {"power"} # {"play"} /\ {"power"} # {"plus"} /\ {"power"} # {"minus"}
  /\ {"bt"} # {"play"} /\ {"bt"} # {"plus"} /\ {"bt"} # {"minus"} /\ {"bt"} # {"bt", "plus"}
  /\ {"play"} # {"plus"} /\ {"play"} # {"minus"} /\ {"plus"} # {"minus"}
  /\ {"bt", "plus"} \notin {{"power"}, {"bt"}, {"play"}, {"plus"}, {"minus"}}
  /\ {{"power"}, {"bt"}, {"play"}, {"plus"}, {"minus"}} \subseteq SUBSET Buttons
  BY DEF Hold, RawPress, RawRelease, Short, Double, Triple, Medium, Long, VeryVeryLong, Buttons

LEMMA PowerStep ==
  ASSUME NEW f \in Flags, NEW e
  PROVE  Step(f, PowerButton(f, {"power"}, e), {"power"}, e)
<1> DEFINE c == {"power"}
           g == PowerButton(f, c, e)
<1>1. c \in SUBSET Buttons /\ c \notin {{"bt"}, {"play"}, {"plus"}, {"minus"}, {"bt", "plus"}}
  BY Distinct
<1> HIDE DEF c
<1>2. CASE e = RawRelease
  <2>1. g = [f EXCEPT !.power = FALSE]
    BY <1>2, Distinct DEF PowerButton
  <2>2. /\ g \in Flags /\ g.posts = f.posts /\ g.stop = f.stop /\ g.hold = f.hold
        /\ ~g.power
    <3> HIDE DEF g
    <3> QED
      BY <2>1, FlagWritten DEF Others
  <2> HIDE DEF g
  <2>3. Step(f, g, c, e)
    BY <1>1, <1>2, <2>2 DEF c, Step
  <2> QED
    BY <2>3 DEF c, g
<1>3. CASE e = Medium /\ ~ux.on
  <2>1. g = Says([f EXCEPT !.power = TRUE], c, "on")
    BY <1>3, Distinct DEF PowerButton
  <2>2. /\ g \in Flags /\ f.posts \subseteq g.posts /\ (\A p \in g.posts : p \in f.posts \/ p = <<c, "on">>)
        /\ g.stop = f.stop /\ g.hold = f.hold /\ g.power
    <3> DEFINE w == [f EXCEPT !.power = TRUE]
    <3>1. Others(f, w, "power") /\ w.power
      BY FlagWritten
    <3> HIDE DEF w, g
    <3>2. g = Says(w, c, "on") /\ w \in Flags /\ "on" \in Notices
      BY <2>1, <3>1 DEF Notices, Others, w
    <3> QED
      BY <1>1, <3>1, <3>2, SaysFlags DEF Others
  <2>3. Suits(f, g, c, e, "on") /\ "on" \in Notices
    BY <1>3, <2>2 DEF Suits, Notices, EndsPairing
  <2> HIDE DEF g
  <2>4. Step(f, g, c, e)
    BY <1>1, <1>3, <2>2, <2>3, Distinct DEF c, Step
  <2> QED
    BY <2>4 DEF c, g
<1>4. CASE e # RawRelease /\ ~(e = Medium /\ ~ux.on)
  <2>1. \/ g = f
        \/ \E m \in {"stopPairing", "chargeType"} : g = Says(f, c, m)
        \/ e = Long /\ ~f.power /\ g = Says(f, c, "off")
    BY <1>4 DEF PowerButton, PowerLong
  <2>2. /\ Suits(f, f, c, e, "stopPairing") /\ Suits(f, f, c, e, "chargeType")
        /\ {"stopPairing", "chargeType", "off"} \subseteq Notices
        /\ e = Long /\ ~f.power => Suits(f, f, c, e, "off")
    BY <1>1 DEF Suits, Notices, EndsPairing
  <2> HIDE DEF g
  <2>3. Step(f, g, c, e)
    BY <1>1, <1>4, <2>1, <2>2, SaysOnly
  <2> QED
    BY <2>3 DEF c, g
<1> QED
  BY <1>2, <1>3, <1>4

LEMMA BtStep ==
  ASSUME NEW f \in Flags, NEW e
  PROVE  Step(f, BtButton(f, {"bt"}, e), {"bt"}, e)
<1> DEFINE c == {"bt"}
           g == BtButton(f, c, e)
<1>1. c \in SUBSET Buttons /\ c \notin {{"power"}, {"play"}, {"plus"}, {"minus"}, {"bt", "plus"}}
  BY Distinct
<1> HIDE DEF c
<1>2. CASE g = Says([f EXCEPT !.stop = TRUE], c, "startPairing") /\ e = Long
  <2>2. /\ g \in Flags /\ f.posts \subseteq g.posts /\ g.stop
        /\ (\A p \in g.posts : p \in f.posts \/ p = <<c, "startPairing">>)
        /\ g.hold = f.hold /\ g.power = f.power
    <3> DEFINE w == [f EXCEPT !.stop = TRUE]
    <3>1. Others(f, w, "stop") /\ w.stop
      BY FlagWritten
    <3> HIDE DEF w, g
    <3>2. g = Says(w, c, "startPairing") /\ w \in Flags /\ "startPairing" \in Notices
      BY <1>2, <3>1 DEF Notices, Others, w
    <3> QED
      BY <1>1, <3>1, <3>2, SaysFlags DEF Others
  <2>3. Suits(f, g, c, e, "startPairing") /\ "startPairing" \in Notices
    BY <1>2, <2>2 DEF Suits, Notices, c, EndsPairing
  <2> HIDE DEF g
  <2>4. Step(f, g, c, e)
    BY <1>1, <1>2, <2>2, <2>3 DEF Step
  <2> QED
    BY <2>4 DEF c, g
<1>3. CASE g = Says(Says(f, c, "stopPairing"), c, "clearDeviceList")
  <2>1. /\ {"stopPairing", "clearDeviceList"} \subseteq Notices /\ <<c, "clearDeviceList">> \in g.posts
        /\ "stopPairing" \in Notices /\ "clearDeviceList" \in Notices
    <3>1. {"stopPairing", "clearDeviceList"} \subseteq Notices
      BY DEF Notices
    <3>2. Says(f, c, "stopPairing") \in Flags
      BY <1>1, <3>1, SaysFlags
    <3> HIDE DEF g
    <3> QED
      BY <1>1, <1>3, <3>1, <3>2, SaysFlags
  <2>2. Suits(f, g, c, e, "stopPairing") /\ Suits(f, g, c, e, "clearDeviceList")
    BY <1>1, <2>1 DEF Suits, EndsPairing
  <2> HIDE DEF g
  <2>3. Step(f, g, c, e)
    BY <1>1, <1>3, <2>1, <2>2, SaysBoth
  <2> QED
    BY <2>3 DEF c, g
<1>4. CASE /\ ~(g = Says([f EXCEPT !.stop = TRUE], c, "startPairing") /\ e = Long)
           /\ g # Says(Says(f, c, "stopPairing"), c, "clearDeviceList")
  <2>1. \/ g = f \/ g = Says(f, c, "wakeUp")
        \/ e = Short /\ ~f.stop /\ g = Says(f, c, "stopPairing")
    BY <1>4 DEF BtButton, StopsPairing
  <2>2. /\ Suits(f, f, c, e, "wakeUp") /\ {"wakeUp", "stopPairing"} \subseteq Notices
        /\ e = Short /\ ~f.stop => Suits(f, f, c, e, "stopPairing")
    BY <1>1 DEF Suits, Notices, c, EndsPairing
  <2> HIDE DEF g
  <2>3. Step(f, g, c, e)
    BY <1>1, <2>1, <2>2, SaysOnly
  <2> QED
    BY <2>3 DEF c, g
<1> QED
  BY <1>2, <1>3, <1>4

LEMMA PlayStep ==
  ASSUME NEW f \in Flags, NEW e
  PROVE  Step(f, PlayButton(f, {"play"}, e), {"play"}, e)
<1> DEFINE c == {"play"}
           g == PlayButton(f, c, e)
<1>1. c \in SUBSET Buttons /\ c \notin {{"power"}, {"bt"}, {"plus"}, {"minus"}, {"bt", "plus"}}
  BY Distinct
<1> HIDE DEF c
<1>2. \/ g = f
      \/ \E m \in {"playPause", "next", "previous"} : g = Says(f, c, m)
      \/ e = Short /\ ~f.stop /\ g = Says(f, c, "stopPairing")
  BY DEF PlayButton, StopsPairing
<1>3. /\ Suits(f, f, c, e, "playPause") /\ Suits(f, f, c, e, "next") /\ Suits(f, f, c, e, "previous")
      /\ {"playPause", "next", "previous", "stopPairing"} \subseteq Notices
      /\ e = Short /\ ~f.stop => Suits(f, f, c, e, "stopPairing")
  BY <1>1 DEF Suits, Notices, c, EndsPairing
<1> HIDE DEF g
<1>4. Step(f, g, c, e)
  BY <1>1, <1>2, <1>3, SaysOnly
<1> QED
  BY <1>4 DEF c, g

LEMMA VolumeStep ==
  ASSUME NEW f \in Flags, NEW c \in {{"plus"}, {"minus"}}, NEW e
  PROVE  Step(f, VolumeButton(f, c, e), c, e)
<1> DEFINE g == VolumeButton(f, c, e)
<1>1. c \in SUBSET Buttons /\ c \notin {{"power"}, {"bt"}, {"play"}, {"bt", "plus"}}
  BY Distinct
<1>2. CASE e = RawRelease
  <2>1. g = [f EXCEPT !.hold = FALSE]
    BY <1>2, Distinct DEF VolumeButton, HoldEnds
  <2>2. /\ g \in Flags /\ g.posts = f.posts /\ g.stop = f.stop /\ g.power = f.power
        /\ ~g.hold
    <3> HIDE DEF g
    <3> QED
      BY <2>1, FlagWritten DEF Others
  <2> HIDE DEF g
  <2>3. Step(f, g, c, e)
    BY <1>1, <1>2, <2>2 DEF Step
  <2> QED
    BY <2>3 DEF g
<1>3. CASE e \in {Short, Hold} /\ ~f.hold /\ StopsPairing(f)
  <2>1. g = Says([f EXCEPT !.hold = TRUE], c, "stopPairing") /\ ~f.stop
    <3>1. ~f.stop /\ ~(e \in {Short, Hold} /\ f.hold)
      BY <1>3 DEF StopsPairing
    <3> QED
      BY <1>3, <3>1, Distinct DEF VolumeButton, HoldEnds
  <2>2. /\ g \in Flags /\ f.posts \subseteq g.posts /\ (\A p \in g.posts : p \in f.posts \/ p = <<c, "stopPairing">>)
        /\ g.stop = f.stop /\ g.power = f.power
    <3> DEFINE w == [f EXCEPT !.hold = TRUE]
    <3>1. Others(f, w, "hold") /\ w.hold
      BY FlagWritten
    <3> HIDE DEF w, g
    <3>2. g = Says(w, c, "stopPairing") /\ w \in Flags /\ "stopPairing" \in Notices
      BY <2>1, <3>1 DEF Notices, Others, w
    <3> QED
      BY <1>1, <3>1, <3>2, SaysFlags DEF Others
  <2>3. Suits(f, g, c, e, "stopPairing") /\ "stopPairing" \in Notices /\ e # RawRelease
    BY <1>1, <1>3, <2>1, Distinct DEF Suits, Notices, EndsPairing
  <2> HIDE DEF g
  <2>4. Step(f, g, c, e)
    BY <1>1, <1>3, <2>2, <2>3 DEF Step
  <2> QED
    BY <2>4 DEF g
<1>4. CASE e # RawRelease /\ ~(e \in {Short, Hold} /\ ~f.hold /\ StopsPairing(f))
  <2>1. g = f \/ g = Says(f, c, "volume")
    BY <1>4 DEF VolumeButton, HoldEnds
  <2>2. Suits(f, f, c, e, "volume") /\ "volume" \in Notices
    BY DEF Suits, Notices, EndsPairing
  <2> HIDE DEF g
  <2>3. Step(f, g, c, e)
    BY <1>1, <1>4, <2>1, <2>2, SaysOnly
  <2> QED
    BY <2>3 DEF g
<1> QED
  BY <1>2, <1>3, <1>4

LEMMA CombinationStep ==
  ASSUME NEW f \in Flags, NEW c \in SUBSET Buttons, NEW e,
         c \notin {{"power"}, {"bt"}, {"play"}, {"plus"}, {"minus"}}
  PROVE  Step(f, Combination(f, c, e), c, e)
<1> DEFINE g == Combination(f, c, e)
<1>1. CASE c = {"bt", "plus"} /\ e = Short
  <2>1. g \in {Says([f EXCEPT !.stop = TRUE], c, "multichain"), [f EXCEPT !.stop = TRUE]}
    BY <1>1 DEF Combination
  <2>2. /\ g \in Flags /\ f.posts \subseteq g.posts /\ (\A p \in g.posts : p \in f.posts \/ p = <<c, "multichain">>)
        /\ g.stop /\ g.power = f.power /\ g.hold = f.hold
    <3> DEFINE w == [f EXCEPT !.stop = TRUE]
    <3>1. Others(f, w, "stop") /\ w.stop
      BY FlagWritten
    <3> HIDE DEF w, g
    <3>2. (g = w \/ g = Says(w, c, "multichain")) /\ w \in Flags /\ "multichain" \in Notices
      BY <2>1, <3>1 DEF Notices, Others, w
    <3>3. CASE g = w
      BY <3>1, <3>2, <3>3 DEF Others
    <3>4. CASE g = Says(w, c, "multichain")
      BY <3>1, <3>2, <3>4, SaysFlags DEF Others
    <3> QED
      BY <3>2, <3>3, <3>4
  <2>3. Suits(f, g, c, e, "multichain") /\ "multichain" \in Notices
    BY <1>1, <2>2, Distinct DEF Suits, Notices, EndsPairing
  <2> HIDE DEF g
  <2>4. Step(f, g, c, e)
    BY <1>1, <2>2, <2>3 DEF Step
  <2> QED
    BY <2>4 DEF g
<1>2. CASE g = Says(Says(f, c, "stopPairing"), c, "dfu")
  <2>1. "stopPairing" \in Notices /\ "dfu" \in Notices
    BY DEF Notices
  <2>2. Suits(f, g, c, e, "stopPairing") /\ Suits(f, g, c, e, "dfu")
    BY Distinct DEF Suits, EndsPairing
  <2> HIDE DEF g
  <2>3. Step(f, g, c, e)
    BY <1>2, <2>1, <2>2, SaysBoth
  <2> QED
    BY <2>3 DEF g
<1>3. CASE ~(c = {"bt", "plus"} /\ e = Short) /\ g # Says(Says(f, c, "stopPairing"), c, "dfu")
  <2>1. g \in {f, Says(f, c, "stopPairing"), Says(f, c, "factoryReset"), Says(f, c, "bootloader"),
               Says(f, c, "dfu"), Says(f, c, "on"), Says(f, c, "announcement"), Says(f, c, "ecoOn"),
               Says(f, c, "ecoOff")}
    BY <1>3 DEF Combination
  <2>2. \A m \in {"stopPairing", "factoryReset", "bootloader", "dfu", "on", "announcement", "ecoOn", "ecoOff"} :
           m \in Notices /\ Suits(f, f, c, e, m)
    BY DEF Suits, Notices, EndsPairing
  <2> HIDE DEF g
  <2>3. Step(f, g, c, e)
    BY <2>1, <2>2, SaysOnly
  <2> QED
    BY <2>3 DEF g
<1> QED
  BY <1>1, <1>2, <1>3

\* user_callback: each press counts as an activity of the user first.
LEMMA HandledStep ==
  ASSUME NEW f \in Flags, NEW c \in SUBSET Buttons, NEW e
  PROVE  Step(f, Handled(f, <<c, e>>), c, e)
<1> DEFINE g == IF e = RawPress THEN Says(f, c, "userActivity") ELSE f
           h == Handled(f, <<c, e>>)
<1>1. /\ g \in Flags /\ g.stop = f.stop /\ g.power = f.power /\ g.hold = f.hold
      /\ f.posts \subseteq g.posts /\ \A p \in g.posts : p \in f.posts \/ p = <<c, "userActivity">>
  BY DEF Says, Flags, Notices
<1>2. h = CASE c = {"power"}              -> PowerButton(g, c, e)
            [] c = {"bt"}                 -> BtButton(g, c, e)
            [] c = {"play"}               -> PlayButton(g, c, e)
            [] c \in {{"plus"}, {"minus"}} -> VolumeButton(g, c, e)
            [] OTHER                      -> Combination(g, c, e)
  BY DEF Handled
<1> HIDE DEF g, h
<1>3. Step(g, h, c, e)
  <2>1. CASE c = {"power"}
    BY <1>1, <1>2, <2>1, PowerStep
  <2>2. CASE c = {"bt"}
    BY <1>1, <1>2, <2>2, BtStep, Distinct
  <2>3. CASE c = {"play"}
    BY <1>1, <1>2, <2>3, PlayStep, Distinct
  <2>4. CASE c \in {{"plus"}, {"minus"}}
    <3>1. h = VolumeButton(g, c, e)
      BY <1>2, <2>4, Distinct
    <3> QED
      BY <1>1, <2>4, <3>1, VolumeStep
  <2>5. CASE c \notin {{"power"}, {"bt"}, {"play"}, {"plus"}, {"minus"}}
    <3>1. h = Combination(g, c, e)
      BY <1>2, <2>5
    <3> QED
      BY <1>1, <2>5, <3>1, CombinationStep
  <2> QED
    BY <2>1, <2>2, <2>3, <2>4, <2>5
<1>4. \A m \in Notices : Suits(g, h, c, e, m) => Suits(f, h, c, e, m)
  BY <1>1 DEF Suits
<1>5. Suits(f, h, c, e, "userActivity") /\ "userActivity" \in Notices
  BY DEF Suits, Notices, EndsPairing
<1>6. \A p \in h.posts : p \in f.posts \/ \E m \in Notices : p = <<c, m>> /\ Suits(f, h, c, e, m)
  BY <1>1, <1>3, <1>4, <1>5 DEF Step
<1>7. Step(f, h, c, e)
  BY <1>1, <1>3, <1>6 DEF Step
<1> QED
  BY <1>7 DEF h

Events == (SUBSET Buttons) \X Int

LEMMA EventStep ==
  ASSUME NEW f \in Flags, NEW ev \in Events
  PROVE  Step(f, Handled(f, ev), ev[1], ev[2]) /\ Handled(f, ev) \in Flags
<1>1. ev = <<ev[1], ev[2]>> /\ ev[1] \in SUBSET Buttons
  BY DEF Events
<1>2. Step(f, Handled(f, ev), ev[1], ev[2])
  <2> DEFINE c == ev[1]
             e == ev[2]
  <2>1. ev = <<c, e>> /\ c \in SUBSET Buttons
    BY <1>1
  <2> HIDE DEF c, e
  <2>2. Step(f, Handled(f, <<c, e>>), c, e)
    BY <2>1, HandledStep
  <2>3. Step(f, Handled(f, ev), c, e)
    BY <2>1, <2>2
  <2> QED
    BY <2>3 DEF c, e
<1> QED
  BY <1>2 DEF Step

\* The callbacks, one after the other.
LEMMA EventRounds ==
  ASSUME NEW f \in Flags, NEW q \in Seq(Events)
  PROVE  /\ AfterEvents(f, q) \in [0..Len(q) -> Flags] /\ AfterEvents(f, q)[0] = f
         /\ \A i \in 1..Len(q) : AfterEvents(f, q)[i] = Handled(AfterEvents(f, q)[i - 1], q[i])
<1> DEFINE Is(r) == r = [size \in 0..Len(q) |-> IF size = 0 THEN f ELSE Handled(r[size - 1], q[size])]
           round == [i \in 1..Len(q) |-> [d \in Flags |-> Handled(d, q[i])]]
<1>1. Len(q) \in Nat /\ \A i \in 1..Len(q) : q[i] \in Events
  OBVIOUS
<1>2. round \in [1..Len(q) -> [Flags -> Flags]]
  BY <1>1, EventStep
<1>3. \A i \in 1..Len(q), d \in Flags : round[i][d] = Handled(d, q[i])
  OBVIOUS
<1> HIDE DEF round
<1>4. PICK g \in [0..Len(q) -> Flags] : g[0] = f /\ \A i \in 1..Len(q) : g[i] = round[i][g[i - 1]]
  <2> DEFINE m == Len(q)
  <2>1. m \in Nat /\ round \in [1..m -> [Flags -> Flags]]
    BY <1>1, <1>2
  <2> HIDE DEF m
  <2>2. \E g \in [0..m -> Flags] : LoopOf(g, f, m, round)
    BY <2>1, Loop
  <2> QED
    BY <2>2 DEF m, LoopOf
<1>5. Is(g)
  <2>1. \A i \in 1..Len(q) : g[i] = Handled(g[i - 1], q[i])
    <3> TAKE i \in 1..Len(q)
    <3>1. g[i - 1] \in Flags
      BY <1>1, <1>4
    <3> QED
      BY <1>3, <1>4, <3>1
  <2> DEFINE h == [size \in 0..Len(q) |-> IF size = 0 THEN f ELSE Handled(g[size - 1], q[size])]
  <2>2. \A size \in 0..Len(q) : h[size] = g[size]
    BY <1>1, <1>4, <2>1
  <2>3. h = g
    <3>1. h = [size \in 0..Len(q) |-> h[size]] /\ g = [size \in 0..Len(q) |-> g[size]]
      BY <1>4
    <3> QED
      BY <2>2, <3>1
  <2> QED
    BY <2>3
<1>6. AfterEvents(f, q) = CHOOSE r : Is(r)
  BY DEF AfterEvents
<1>7. Is(CHOOSE r : Is(r))
  <2> HIDE DEF Is
  <2> QED
    BY <1>5, Zenon
<1>8. Is(AfterEvents(f, q))
  BY <1>6, <1>7
<1> DEFINE a == AfterEvents(f, q)
<1>9. a = [size \in 0..Len(q) |-> IF size = 0 THEN f ELSE Handled(a[size - 1], q[size])]
  BY <1>8
<1> HIDE DEF a, Is
<1>10. a[0] = f /\ \A i \in 1..Len(q) : a[i] = Handled(a[i - 1], q[i])
  BY <1>1, <1>9
<1>11. \A i \in 0..Len(q) : a[i] \in Flags
  <2> DEFINE S == {i \in 0..Len(q) : a[i] \in Flags}
  <2>1. 0 \in S
    BY <1>1, <1>10
  <2>2. ASSUME NEW k \in S, k < Len(q) PROVE k + 1 \in S
    <3>1. k + 1 \in 1..Len(q) /\ k + 1 \in 0..Len(q) /\ (k + 1) - 1 = k /\ a[k] \in Flags
      BY <1>1, <2>2
    <3>2. a[k + 1] = Handled(a[k], q[k + 1])
      BY <1>10, <3>1
    <3> QED
      BY <1>1, <3>1, <3>2, EventStep
  <2>3. S \in SUBSET Nat /\ \A i \in S : a[i] \in Flags
    BY <1>1
  <2> HIDE DEF S
  <2>4. \A i \in 0..Len(q) : i \in S
    <3> TAKE i \in 0..Len(q)
    <3>1. i \in Nat /\ \A k \in S : k < i => k + 1 \in S
      BY <1>1, <2>2, <2>3
    <3> QED
      BY <2>1, <2>3, <3>1, Below
  <2> QED
    BY <2>3, <2>4
<1>12. a \in [0..Len(q) -> Flags]
  BY <1>9, <1>11
<1> QED
  BY <1>10, <1>12 DEF a

\* So a set of values of the flags that every callback keeps is kept by all.
LEMMA EventsKeep ==
  ASSUME NEW f \in Flags, NEW q \in Seq(Events), NEW K \in SUBSET Flags, f \in K,
         \A d \in K, i \in 1..Len(q) : Handled(d, q[i]) \in K
  PROVE  AfterEvents(f, q)[Len(q)] \in K
<1> DEFINE a == AfterEvents(f, q)
           size == Len(q)
           S == {i \in 0..size : a[i] \in K}
<1>1. /\ size \in Nat /\ a[0] = f /\ \A i \in 1..size : a[i] = Handled(a[i - 1], q[i])
  BY EventRounds
<1> HIDE DEF a
<1>2. 0 \in S
  BY <1>1
<1>3. ASSUME NEW k \in S, k < size PROVE k + 1 \in S
  <2>1. k + 1 \in 1..size /\ k + 1 \in 0..size /\ (k + 1) - 1 = k /\ a[k] \in K
    BY <1>1, <1>3
  <2>2. a[k + 1] = Handled(a[k], q[k + 1])
    BY <1>1, <2>1
  <2> QED
    BY <2>1, <2>2
<1>4. S \in SUBSET Nat
  BY <1>1
<1>5. size \in S
  <2> HIDE DEF S, size
  <2> QED
    BY <1>1, <1>2, <1>3, <1>4, Below
<1> QED
  BY <1>5 DEF a

(***************************************************************************)
(* Inputs: what a run of the handler sends.                                *)
(***************************************************************************)
Presses == [state : {"released", "debouncing", "pressed"}, combo : SUBSET Buttons, last : SUBSET Buttons,
            age : 0..5, count : 0..5, sent : 0..52]

\* A press whose event was not sent yet is one that may be repeated.
PressInv(h) ==
    /\ h \in Presses /\ h.sent % 10 <= 2
    /\ h.state = "pressed" => h.age >= 1 /\ h.count >= 1 /\ h.sent \div 10 <= h.age
    /\ h.sent = RawRelease /\ h.count > 0 => h.last \in Repeated

\* The end of a press, a press that goes on, and anything else.
ReleaseOf(c, q) ==
    /\ Len(q) >= 1 /\ q[1] = <<c, RawRelease>>
    /\ \A i \in 2..Len(q) : q[i] = <<c, Short>>
    /\ Len(q) > 1 => c \in Repeated
Going(b, q) == \E e \in Int : e >= 10 /\ \A i \in 1..Len(q) : q[i] \in {<<b, e>>, <<b, Hold>>}
NoPress(b, q) ==
    \A i \in 1..Len(q) : q[i] = <<b, RawPress>> \/ \E c \in Repeated, e \in {Short, Double, Triple} : q[i] = <<c, e>>

Shape(h, b, s) ==
    \/ h.state # "pressed" /\ s.press.state # "pressed" /\ NoPress(b, s.events)
    \/ /\ s.press.state # "pressed"
       /\ \E c \in SUBSET Buttons : /\ b = {"power"} => c # {"power"}
                                    /\ h.state = "pressed" => c = h.last
                                    /\ ReleaseOf(c, s.events)
    \/ /\ s.press.state = "pressed" /\ s.press.last = b /\ Going(b, s.events)
       /\ h.state = "pressed" => h.last = b

Sent(h, b, s) == PressInv(s.press) /\ s.events \in Seq(Events) /\ Shape(h, b, s)

LEMMA EventTypes ==
  /\ \A c \in SUBSET Buttons, e \in Int : <<c, e>> \in Events /\ << <<c, e>> >> \in Seq(Events)
  /\ <<>> \in Seq(Events)
  /\ {RawRelease, RawPress, Hold, Short, Double, Triple} \subseteq Int
  BY Distinct DEF Events

LEMMA BeginsShape ==
  ASSUME NEW h \in Presses, h.age >= 1, h.count >= 1, h.sent \div 10 <= h.age, h.sent % 10 <= 2
  PROVE  /\ Begins(h)[1] \in 0..52 /\ Begins(h)[1] % 10 <= 2 /\ Begins(h)[1] \div 10 <= h.age
         /\ Begins(h)[2] \in Nat
         /\ Begins(h)[1] >= 10
<1>1. h.age \in 1..5 /\ h.count \in 1..5 /\ h.sent \in 0..52
  BY DEF Presses
<1> DEFINE age == h.age
           count == h.count
           sent == h.sent
<1>2. /\ age \in 1..5 /\ count \in 1..5 /\ sent \in 0..52 /\ sent \div 10 <= age /\ sent % 10 <= 2
  BY <1>1
<1>3. CASE Rises(h)
  <2>1. Begins(h) = <<sent + 10, 1>> /\ age >= 2 /\ sent \div 10 # age
    BY <1>3 DEF Begins, Rises
  <2> HIDE DEF age, count, sent
  <2>2. sent + 10 \in 0..52 /\ (sent + 10) % 10 <= 2 /\ (sent + 10) \div 10 <= age /\ sent + 10 >= 10
    BY <1>2, <2>1
  <2> QED
    BY <1>1, <2>1, <2>2 DEF age
<1>4. CASE ~Rises(h) /\ age >= 2
  <2>1. Begins(h) = <<sent, 0>> /\ sent \div 10 = age
    BY <1>4 DEF Begins, Rises
  <2> HIDE DEF age, count, sent
  <2>2. sent >= 10
    BY <1>2, <1>4, <2>1
  <2> QED
    BY <1>2, <2>1, <2>2 DEF age
<1>5. CASE age < 2 /\ count <= 3
  <2>0. ~(h.age >= 2) /\ h.count <= 3
    BY <1>2, <1>5
  <2>1. Begins(h) = <<10 + count - 1, 1>>
    BY <2>0 DEF Begins, Rises, Short
  <2> HIDE DEF age, count, sent
  <2>2. age = 1 /\ (count = 1 \/ count = 2 \/ count = 3)
    BY <1>2, <1>5
  <2> QED
    BY <1>2, <2>1, <2>2 DEF age
<1>6. CASE age < 2 /\ count > 3
  <2>0. ~(h.age >= 2) /\ ~(h.count <= 3)
    BY <1>2, <1>6
  <2>1. Begins(h) = <<10, 0>> \/ Begins(h) = <<10, 4>> \/ Begins(h) = <<10, 1>>
    BY <2>0 DEF Begins, Rises, Short
  <2> HIDE DEF age, count, sent
  <2>2. age = 1
    BY <1>2, <1>6
  <2> QED
    BY <1>2, <2>1, <2>2 DEF age
<1> QED
  BY <1>2, <1>3, <1>4, <1>5, <1>6

Bursts(b, e, size) ==
    {<<>>, Times(size, <<b, e>>), Append(<<>>, <<b, Hold>>), Append(Times(size, <<b, e>>), <<b, Hold>>)}

\* A press that goes on: at most its event, several times, and a hold.
LEMMA TimesShape ==
  ASSUME NEW b \in SUBSET Buttons, NEW e \in Int, NEW size \in Nat,
         NEW q \in Bursts(b, e, size)
  PROVE  q \in Seq(Events) /\ \A i \in 1..Len(q) : q[i] \in {<<b, e>>, <<b, Hold>>}
<1> DEFINE t == Times(size, <<b, e>>)
           k == <<b, e>>
           o == <<b, Hold>>
<1>1. k \in Events /\ o \in Events
  BY EventTypes
<1>2. t = [i \in 1..size |-> k]
  BY DEF Times
<1> HIDE DEF t, k, o
<1>3. t \in Seq(Events) /\ Len(t) = size /\ \A i \in 1..size : t[i] = k
  BY <1>1, <1>2
<1>4. q = <<>> \/ q = t \/ q = <<o>> \/ q = Append(t, o)
  BY DEF t, k, o, Bursts
<1>5. q \in Seq(Events) /\ \A i \in 1..Len(q) : q[i] \in {k, o}
  <2>1. CASE q = <<>>
    BY <2>1
  <2>2. CASE q = t
    BY <1>3, <2>2
  <2>3. CASE q = <<o>>
    BY <1>1, <2>3
  <2>4. CASE q = Append(t, o)
    BY <1>1, <1>3, <2>4
  <2> QED
    BY <1>4, <2>1, <2>2, <2>3, <2>4
<1> QED
  BY <1>5 DEF k, o

LEMMA GoesOnShape ==
  ASSUME NEW h \in Presses, NEW b \in SUBSET Buttons, h.state = "pressed", h.last = b, h.age >= 1, h.count >= 1,
         h.sent \div 10 <= h.age, h.sent % 10 <= 2, NEW s \in GoesOn(h, b)
  PROVE  /\ PressInv(s.press) /\ s.press.state = "pressed" /\ s.press.last = b
         /\ s.events \in Seq(Events) /\ Going(b, s.events)
<1>1. CASE Undecided(h, b)
  <2>1. s = [press |-> h, events |-> <<>>]
    BY <1>1 DEF GoesOn, Sends
  <2>2. PressInv(h)
    BY <1>1 DEF PressInv, Undecided
  <2>3. Going(b, <<>>)
    <3>1. \A i \in 1..Len(<<>>) : <<>>[i] \in {<<b, 10>>, <<b, Hold>>}
      OBVIOUS
    <3>2. 10 \in Int /\ 10 >= 10
      OBVIOUS
    <3> QED
      BY <3>1, <3>2, Zenon DEF Going
  <2> QED
    BY <2>1, <2>2, <2>3, EventTypes
<1>2. CASE ~Undecided(h, b)
  <2> DEFINE e == Begins(h)[1]
             size == Begins(h)[2]
             next == [h EXCEPT !.sent = e]
             q == IF e = h.sent THEN <<>> ELSE Times(size, <<b, e>>)
  <2>1. /\ e \in 0..52 /\ e % 10 <= 2 /\ e \div 10 <= h.age /\ size \in Nat /\ e >= 10
    BY BeginsShape
  <2>2. s \in Sends(next, q) \cup IF h.age >= 2 THEN Sends(next, Append(q, <<b, Hold>>)) ELSE {}
    BY <1>2 DEF GoesOn
  <2>3. s.press = next /\ (s.events = q \/ s.events = Append(q, <<b, Hold>>))
    <3> HIDE DEF next, q
    <3> QED
      BY <2>2 DEF Sends
  <2>4. s.events \in Bursts(b, e, size)
    <3>1. q = <<>> \/ q = Times(size, <<b, e>>)
      OBVIOUS
    <3> HIDE DEF q, e, size
    <3> QED
      BY <2>3, <3>1 DEF Bursts
  <2> HIDE DEF e, size, q
  <2>5. next \in Presses /\ next.sent = e /\ next.age = h.age /\ next.count = h.count /\ next.state = "pressed" /\ next.last = b
    BY <2>1 DEF Presses
  <2>6. PressInv(next)
    <3> HIDE DEF next
    <3> QED
      BY <2>1, <2>5 DEF PressInv, RawRelease
  <2>7. e \in Int
    BY <2>1
  <2>8. s.events \in Seq(Events) /\ \A i \in 1..Len(s.events) : s.events[i] \in {<<b, e>>, <<b, Hold>>}
    <3> DEFINE r == s.events
    <3>1. size \in Nat /\ r \in Bursts(b, e, size)
      BY <2>1, <2>4
    <3> HIDE DEF r
    <3>2. r \in Seq(Events) /\ \A i \in 1..Len(r) : r[i] \in {<<b, e>>, <<b, Hold>>}
      BY <2>7, <3>1, TimesShape, Zenon
    <3> QED
      BY <3>2 DEF r
  <2>9. Going(b, s.events)
    BY <2>1, <2>7, <2>8 DEF Going
  <2> QED
    BY <2>5, <2>6, <2>8, <2>9, <2>3
<1> QED
  BY <1>1, <1>2

\* The ends of a press, and what is sent when no press goes on.
LEMMA OneEvent ==
  ASSUME NEW c \in SUBSET Buttons, NEW b \in SUBSET Buttons
  PROVE  /\ << <<c, RawRelease>> >> \in Seq(Events) /\ ReleaseOf(c, << <<c, RawRelease>> >>)
         /\ << <<b, RawPress>> >> \in Seq(Events) /\ NoPress(b, << <<b, RawPress>> >>)
         /\ <<>> \in Seq(Events) /\ NoPress(b, <<>>)
         /\ c \in Repeated => \A e \in {Short, Double, Triple} :
                                 << <<c, e>> >> \in Seq(Events) /\ NoPress(b, << <<c, e>> >>)
<1>1. /\ << <<c, RawRelease>> >> \in Seq(Events) /\ << <<b, RawPress>> >> \in Seq(Events) /\ <<>> \in Seq(Events)
      /\ \A e \in {Short, Double, Triple} : << <<c, e>> >> \in Seq(Events)
  BY EventTypes
<1>2. \A ev : Len(<<ev>>) = 1 /\ <<ev>>[1] = ev
  OBVIOUS
<1>3. ReleaseOf(c, << <<c, RawRelease>> >>)
  BY <1>2 DEF ReleaseOf
<1>4. NoPress(b, << <<b, RawPress>> >>)
  BY <1>2 DEF NoPress
<1>5. NoPress(b, <<>>)
  BY DEF NoPress
<1>6. c \in Repeated => \A e \in {Short, Double, Triple} : NoPress(b, << <<c, e>> >>)
  BY <1>2 DEF NoPress
<1> QED
  BY <1>1, <1>3, <1>4, <1>5, <1>6

LEMMA LateRelease ==
  ASSUME NEW c \in Repeated, NEW size \in Nat
  PROVE  /\ << <<c, RawRelease>> >> \o Times(size, <<c, Short>>) \in Seq(Events)
         /\ ReleaseOf(c, << <<c, RawRelease>> >> \o Times(size, <<c, Short>>))
<1> DEFINE k == <<c, Short>>
           r == <<c, RawRelease>>
           t == Times(size, <<c, Short>>)
           q == <<r>> \o t
<1>1. k \in Events /\ r \in Events
  BY EventTypes DEF Repeated, Buttons
<1>2. t = [i \in 1..size |-> k]
  BY DEF Times
<1> HIDE DEF t, k, r
<1>3. t \in Seq(Events) /\ Len(t) = size /\ \A i \in 1..size : t[i] = k
  BY <1>1, <1>2
<1>4. q \in Seq(Events) /\ Len(q) = size + 1 /\ q[1] = r /\ \A i \in 2..(size + 1) : q[i] = t[i - 1]
  BY <1>1, <1>3
<1> HIDE DEF q
<1>5. \A i \in 2..Len(q) : q[i] = k
  BY <1>3, <1>4
<1>6. q \in Seq(Events) /\ ReleaseOf(c, q)
  BY <1>4, <1>5 DEF ReleaseOf, r, k
<1> QED
  BY <1>6 DEF q, r, t


\* A state of the press in which no press goes on.
LEMMA NotPressed ==
  ASSUME NEW h \in Presses, h.sent % 10 <= 2, h.sent = RawRelease /\ h.count > 0 => h.last \in Repeated,
         NEW st \in {"released", "debouncing"}, NEW c \in SUBSET Buttons, NEW a \in 0..5
  PROVE  /\ PressInv([h EXCEPT !.state = st, !.combo = c, !.age = a])
         /\ PressInv([h EXCEPT !.state = st, !.age = a])
<1>1. /\ [h EXCEPT !.state = st, !.combo = c, !.age = a] \in Presses
      /\ [h EXCEPT !.state = st, !.age = a] \in Presses
  BY DEF Presses
<1> QED
  BY <1>1 DEF PressInv, Presses

LEMMA ReleasedShape ==
  ASSUME NEW h, PressInv(h), h.state = "released", NEW b \in SUBSET Buttons, NEW s \in Released(h, b)
  PROVE  Sent(h, b, s)
<1>1. h \in Presses
  BY DEF PressInv
<1>2. CASE b # {}
  <2> DEFINE debounced == [h EXCEPT !.state = "debouncing", !.combo = b, !.age = 0,
                            !.count = IF b # h.last \/ h.age >= 2 \/ b \notin Repeated THEN 0 ELSE @]
  <2>1. s = [press |-> debounced, events |-> << <<b, RawPress>> >>]
    BY <1>2 DEF Released, Sends
  <2>2. debounced \in Presses /\ debounced.state = "debouncing" /\ debounced.sent = h.sent /\ debounced.last = h.last /\ debounced.count \in {0, h.count}
    <3> DEFINE k == IF b # h.last \/ h.age >= 2 \/ b \notin Repeated THEN 0 ELSE h.count
               z == 0
               st == "debouncing"
    <3>1. k \in 0..5 /\ k \in {0, h.count} /\ z \in 0..5 /\ h.sent \in 0..52
      BY <1>1 DEF Presses
    <3>2. debounced = [h EXCEPT !.state = st, !.combo = b, !.age = z, !.count = k]
      BY <1>1 DEF Presses
    <3>3. st \in {"released", "debouncing", "pressed"}
      OBVIOUS
    <3> HIDE DEF k, z, st, debounced
    <3>4. debounced \in Presses /\ debounced.state = st /\ debounced.sent = h.sent /\ debounced.last = h.last /\ debounced.count = k
      BY <1>1, <3>1, <3>2, <3>3 DEF Presses
    <3> QED
      BY <3>1, <3>4 DEF st
  <2> HIDE DEF debounced
  <2>3. PressInv(debounced)
    BY <2>2 DEF PressInv, Presses
  <2> QED
    BY <2>1, <2>2, <2>3, OneEvent DEF Sent, Shape
<1>3. CASE b = {} /\ h.sent = RawRelease /\ h.count > 0 /\ h.age >= 2
  <2> DEFINE e == IF h.count <= 3 THEN Short + h.count - 1 ELSE Short
             size == [h EXCEPT !.sent = e]
  <2>1. s = [press |-> size, events |-> << <<h.last, e>> >>]
    BY <1>3 DEF Released, Sends
  <2>2. e \in {Short, Double, Triple} /\ e \in 10..12
    BY <1>1, <1>3 DEF Presses, Short, Double, Triple
  <2>3. e % 10 <= 2
    <3> HIDE DEF e
    <3>1. e = 10 \/ e = 11 \/ e = 12
      BY <2>2
    <3> QED
      BY <3>1
  <2>4. size \in Presses /\ size.state = "released" /\ size.sent = e
    <3> HIDE DEF e
    <3> QED
      BY <1>1, <2>2 DEF Presses
  <2>5. h.last \in Repeated /\ h.last \in SUBSET Buttons
    BY <1>1, <1>3 DEF PressInv, Presses
  <2> HIDE DEF size, e
  <2>6. PressInv(size)
    BY <2>2, <2>3, <2>4 DEF PressInv, RawRelease
  <2>7. << <<h.last, e>> >> \in Seq(Events) /\ NoPress(b, << <<h.last, e>> >>)
    BY <2>2, <2>5, OneEvent
  <2> QED
    BY <2>1, <2>4, <2>6, <2>7 DEF Sent, Shape
<1>4. CASE b = {} /\ ~(h.sent = RawRelease /\ h.count > 0 /\ h.age >= 2)
  <2>1. s = [press |-> h, events |-> <<>>]
    BY <1>4 DEF Released, Sends
  <2> QED
    BY <2>1, OneEvent DEF Sent, Shape
<1> QED
  BY <1>2, <1>3, <1>4

LEMMA DebouncingShape ==
  ASSUME NEW h, PressInv(h), h.state = "debouncing", NEW b \in SUBSET Buttons, NEW s \in Debouncing(h, b)
  PROVE  Sent(h, b, s)
<1>1. h \in Presses /\ h.combo \in SUBSET Buttons /\ Recent(h) \in 0..5 /\ h.age \in 0..5 /\ h.count \in 0..5
  BY DEF PressInv, Presses, Recent
<1>2. h.sent % 10 <= 2 /\ (h.sent = RawRelease /\ h.count > 0 => h.last \in Repeated)
  BY DEF PressInv
<1>3. CASE b = {}
  <2> DEFINE size == [h EXCEPT !.state = "released", !.age = Recent(h)]
  <2>1. s = [press |-> size, events |-> << <<h.combo, RawRelease>> >>]
    BY <1>3 DEF Debouncing, Sends
  <2>2. PressInv(size)
    BY <1>1, <1>2, NotPressed
  <2>3. size.state = "released"
    BY <1>1 DEF Presses
  <2> HIDE DEF size
  <2>4. b # {"power"} /\ h.state # "pressed"
    BY <1>3
  <2>5. << <<h.combo, RawRelease>> >> \in Seq(Events) /\ ReleaseOf(h.combo, << <<h.combo, RawRelease>> >>)
    BY <1>1, OneEvent
  <2>6. Shape(h, b, s)
    BY <1>1, <2>1, <2>3, <2>4, <2>5 DEF Shape
  <2> QED
    BY <2>1, <2>2, <2>5, <2>6 DEF Sent
<1>4. CASE b # {} /\ b # h.combo
  <2> DEFINE size == [h EXCEPT !.combo = b, !.age = 0]
  <2>1. s = [press |-> size, events |-> <<>>]
    BY <1>4 DEF Debouncing, Sends
  <2>2. size \in Presses /\ size.state = "debouncing" /\ size.sent = h.sent /\ size.last = h.last /\ size.count = h.count
    <3> DEFINE z == 0
    <3>1. z \in 0..5 /\ h.sent \in 0..52 /\ size = [h EXCEPT !.combo = b, !.age = z]
      BY <1>1 DEF Presses
    <3> HIDE DEF z, size
    <3>2. size \in Presses /\ size.state = h.state /\ size.sent = h.sent /\ size.last = h.last /\ size.count = h.count
      BY <1>1, <3>1 DEF Presses
    <3> QED
      BY <3>2
  <2> HIDE DEF size
  <2>3. PressInv(size)
    BY <1>2, <2>2 DEF PressInv
  <2> QED
    BY <2>1, <2>2, <2>3, OneEvent DEF Sent, Shape
<1>5. CASE b # {} /\ b = h.combo /\ h.age = 0
  <2>1. s = [press |-> h, events |-> <<>>]
    BY <1>5 DEF Debouncing, Sends
  <2> QED
    BY <2>1, OneEvent DEF Sent, Shape
<1>6. CASE b # {} /\ b = h.combo /\ h.age # 0
  <2> DEFINE fresh == IF b # h.last THEN 0 ELSE h.count
             k == IF fresh < 5 THEN fresh + 1 ELSE 5
             size == [h EXCEPT !.state = "pressed", !.last = b, !.sent = RawRelease, !.count = k]
  <2>1. s \in GoesOn(size, b)
    BY <1>6 DEF Debouncing
  <2>2. k \in 1..5
    BY <1>1
  <2> HIDE DEF k
  <2>3. /\ size \in Presses /\ size.state = "pressed" /\ size.last = b /\ size.age = h.age /\ size.count = k /\ size.sent = 0
    <3> DEFINE st == "pressed"
    <3>1. RawRelease \in 0..52 /\ RawRelease = 0 /\ k \in 0..5 /\ st \in {"released", "debouncing", "pressed"}
      BY <2>2 DEF RawRelease
    <3>2. size = [h EXCEPT !.state = st, !.last = b, !.sent = RawRelease, !.count = k]
      OBVIOUS
    <3> HIDE DEF st, size
    <3>3. size \in Presses /\ size.state = st /\ size.last = b /\ size.age = h.age /\ size.count = k /\ size.sent = RawRelease
      BY <1>1, <3>1, <3>2 DEF Presses
    <3> QED
      BY <3>1, <3>3 DEF st
  <2> HIDE DEF size
  <2>4. 0 \div 10 = 0 /\ 0 % 10 = 0
    OBVIOUS
  <2>5. size.age >= 1 /\ size.count >= 1 /\ size.sent \div 10 <= size.age /\ size.sent % 10 <= 2
    BY <1>1, <1>6, <2>2, <2>3, <2>4
  <2>6. /\ PressInv(s.press) /\ s.press.state = "pressed" /\ s.press.last = b
        /\ s.events \in Seq(Events) /\ Going(b, s.events)
    BY <2>1, <2>3, <2>5, GoesOnShape
  <2> QED
    BY <2>6 DEF Sent, Shape
<1> QED
  BY <1>3, <1>4, <1>5, <1>6

LEMMA PressedShape ==
  ASSUME NEW h, PressInv(h), h.state = "pressed", NEW b \in SUBSET Buttons, NEW s \in Pressed(h, b)
  PROVE  Sent(h, b, s)
<1>1. h \in Presses /\ h.last \in SUBSET Buttons /\ Recent(h) \in 0..5
  BY DEF PressInv, Presses, Recent
<1>2. h.sent % 10 <= 2 /\ (h.sent = RawRelease /\ h.count > 0 => h.last \in Repeated)
  BY DEF PressInv
<1>3. CASE b = {} /\ ~(h.sent = RawRelease /\ h.count >= 4)
  <2> DEFINE size == [h EXCEPT !.state = "released", !.age = Recent(h), !.sent = h.sent]
  <2>1. s = [press |-> size, events |-> << <<h.last, RawRelease>> >> \o <<>>]
    BY <1>3 DEF Pressed, Sends
  <2>2. size \in Presses /\ size.state = "released" /\ size.sent = h.sent /\ size.last = h.last /\ size.count = h.count
    BY <1>1 DEF Presses
  <2> HIDE DEF size
  <2>3. PressInv(size)
    BY <1>2, <2>2 DEF PressInv
  <2>4. s.events = << <<h.last, RawRelease>> >>
    BY <2>1
  <2>5. s.events \in Seq(Events) /\ ReleaseOf(h.last, s.events) /\ b # {"power"}
    BY <1>1, <1>3, <2>4, OneEvent
  <2>6. Shape(h, b, s)
    BY <1>1, <2>1, <2>2, <2>5 DEF Shape
  <2> QED
    BY <2>1, <2>3, <2>5, <2>6 DEF Sent
<1>4. CASE b = {} /\ h.sent = RawRelease /\ h.count >= 4
  <2> DEFINE size == [h EXCEPT !.state = "released", !.age = Recent(h), !.sent = Short]
             j == IF h.count = 4 THEN 4 ELSE 1
             q == << <<h.last, RawRelease>> >> \o Times(j, <<h.last, Short>>)
  <2>1. s = [press |-> size, events |-> q]
    BY <1>4 DEF Pressed, Sends
  <2>2. size \in Presses /\ size.state = "released" /\ size.sent = 10
    <3> DEFINE st == "released"
    <3>1. Short \in 0..52 /\ Short = 10 /\ st \in {"released", "debouncing", "pressed"}
      BY DEF Short
    <3>2. size = [h EXCEPT !.state = st, !.age = Recent(h), !.sent = Short]
      OBVIOUS
    <3> HIDE DEF st, size
    <3>3. size \in Presses /\ size.state = st /\ size.sent = Short
      BY <1>1, <3>1, <3>2 DEF Presses
    <3> QED
      BY <3>1, <3>3 DEF st
  <2>3. j \in Nat /\ h.last \in Repeated
    BY <1>1, <1>2, <1>4 DEF Presses
  <2> HIDE DEF size, j
  <2>4. PressInv(size)
    <3>1. 10 % 10 = 0
      OBVIOUS
    <3> QED
      BY <2>2, <3>1 DEF PressInv, RawRelease
  <2>5. q \in Seq(Events) /\ ReleaseOf(h.last, q) /\ b # {"power"}
    BY <1>4, <2>3, LateRelease
  <2> HIDE DEF q
  <2>6. Shape(h, b, s)
    BY <1>1, <2>1, <2>2, <2>5 DEF Shape
  <2> QED
    BY <2>1, <2>4, <2>5, <2>6 DEF Sent
<1>5. CASE b # {} /\ b # h.last
  <2> DEFINE size == [h EXCEPT !.state = "debouncing", !.combo = b, !.age = 0]
  <2>1. s = [press |-> size, events |-> << <<h.last, RawRelease>> >>]
    BY <1>5 DEF Pressed, Sends
  <2>2. size.state = "debouncing" /\ PressInv(size)
    <3>1. 0 \in 0..5
      OBVIOUS
    <3>2. PressInv(size)
      BY <1>1, <1>2, <3>1, NotPressed
    <3> QED
      BY <1>1, <3>2 DEF Presses
  <2> HIDE DEF size
  <2>3. << <<h.last, RawRelease>> >> \in Seq(Events) /\ ReleaseOf(h.last, << <<h.last, RawRelease>> >>)
    BY <1>1, OneEvent
  <2>4. Shape(h, b, s)
    BY <1>1, <1>5, <2>1, <2>2, <2>3 DEF Shape
  <2> QED
    BY <2>1, <2>2, <2>3, <2>4 DEF Sent
<1>6. CASE b # {} /\ b = h.last
  <2>1. s \in GoesOn(h, b) /\ h.age >= 1 /\ h.count >= 1 /\ h.sent \div 10 <= h.age
    BY <1>6 DEF Pressed, PressInv
  <2>2. /\ PressInv(s.press) /\ s.press.state = "pressed" /\ s.press.last = b
        /\ s.events \in Seq(Events) /\ Going(b, s.events)
    BY <1>1, <1>2, <1>6, <2>1, GoesOnShape
  <2> QED
    BY <1>6, <2>2 DEF Sent, Shape
<1> QED
  BY <1>3, <1>4, <1>5, <1>6

LEMMA ProcessShape ==
  ASSUME NEW h, PressInv(h), NEW b \in SUBSET Buttons, NEW s \in Process(h, b)
  PROVE  Sent(h, b, s)
<1>1. h.state \in {"released", "debouncing", "pressed"}
  BY DEF PressInv, Presses
<1>2. CASE h.state = "released"
  BY <1>2, ReleasedShape DEF Process
<1>3. CASE h.state = "debouncing"
  BY <1>3, DebouncingShape DEF Process
<1>4. CASE h.state = "pressed"
  BY <1>4, PressedShape DEF Process
<1> QED
  BY <1>1, <1>2, <1>3, <1>4


(***************************************************************************)
(* Inputs: what the callbacks of a run leave.                              *)
(***************************************************************************)
\* The first event alone, then those after it.
LEMMA LaterEventsKeep ==
  ASSUME NEW f \in Flags, NEW q \in Seq(Events), Len(q) >= 1, NEW K \in SUBSET Flags, Handled(f, q[1]) \in K,
         \A d \in K, i \in 2..Len(q) : Handled(d, q[i]) \in K
  PROVE  AfterEvents(f, q)[Len(q)] \in K
<1> DEFINE a == AfterEvents(f, q)
           size == Len(q)
           S == {i \in 0..size : i = 0 \/ a[i] \in K}
<1>1. /\ size \in Nat /\ size >= 1 /\ a[0] = f /\ \A i \in 1..size : a[i] = Handled(a[i - 1], q[i])
  BY EventRounds
<1> HIDE DEF a
<1>2. 0 \in S
  BY <1>1
<1>3. ASSUME NEW k \in S, k < size PROVE k + 1 \in S
  <2>1. k + 1 \in 1..size /\ k + 1 \in 0..size /\ (k + 1) - 1 = k
    BY <1>1, <1>3
  <2>2. a[k + 1] = Handled(a[k], q[k + 1])
    BY <1>1, <2>1
  <2>3. CASE k = 0
    BY <1>1, <2>1, <2>2, <2>3
  <2>4. CASE k # 0
    <3>1. a[k] \in K /\ k + 1 \in 2..size
      BY <1>3, <2>1, <2>4
    <3> QED
      BY <2>1, <2>2, <3>1
  <2> QED
    BY <2>3, <2>4
<1>4. S \in SUBSET Nat
  BY <1>1
<1>5. size \in S
  <2> HIDE DEF S, size
  <2> QED
    BY <1>1, <1>2, <1>3, <1>4, Below
<1> QED
  BY <1>1, <1>5 DEF a

\* While pairing is not to be stopped, it is not.
StillStops(f) == {d \in Flags : f.stop => d.stop /\ \A p \in d.posts : ~EndsPairing(p, d.posts)}

\* What is posted later ends no pairing with what was posted before.
LEMMA EndsWithMore ==
  ASSUME NEW all, NEW more, all \subseteq more, NEW p, EndsPairing(p, more)
  PROVE  EndsPairing(p, all)
  BY DEF EndsPairing

LEMMA StopKept ==
  ASSUME NEW f \in Flags, f.posts = {}, NEW q \in Seq(Events)
  PROVE  AfterEvents(f, q)[Len(q)] \in StillStops(f)
<1>1. f \in StillStops(f)
  BY DEF StillStops
<1>2. ASSUME NEW d \in StillStops(f), NEW i \in 1..Len(q) PROVE Handled(d, q[i]) \in StillStops(f)
  <2> DEFINE g == Handled(d, q[i])
             c == q[i][1]
             e == q[i][2]
  <2>1. d \in Flags /\ q[i] \in Events
    BY DEF StillStops
  <2>2. Step(d, g, c, e)
    BY <2>1, EventStep
  <2> HIDE DEF g, c, e
  <2>3. /\ g \in Flags /\ (d.stop => g.stop) /\ d.posts \subseteq g.posts
        /\ \A p \in g.posts : p \in d.posts \/ (EndsPairing(p, g.posts) => ~d.stop)
    BY <2>2 DEF Step, Suits
  <2>4. g \in StillStops(f)
    BY <2>3, EndsWithMore DEF StillStops
  <2> QED
    BY <2>4 DEF g
<1>3. StillStops(f) \in SUBSET Flags
  BY DEF StillStops
<1> HIDE DEF StillStops
<1> QED
  BY <1>1, <1>2, <1>3, EventsKeep

\* Events that switch nothing on or off and start no pairing.
Harmless(ev) == ev[2] \notin {Medium, Long} /\ (ev[2] = Short => ev[1] # {"bt", "plus"})
Dull(p) == p \notin {<<{"power"}, "on">>, <<{"power"}, "off">>} /\ p[2] \notin {"startPairing", "multichain"}

LEMMA HarmlessStep ==
  ASSUME NEW d \in Flags, NEW ev \in Events, Harmless(ev), \A p \in d.posts : Dull(p)
  PROVE  Handled(d, ev) \in Flags /\ \A p \in Handled(d, ev).posts : Dull(p)
<1> DEFINE g == Handled(d, ev)
           c == ev[1]
           e == ev[2]
<1>1. Step(d, g, c, e)
  BY EventStep
<1> HIDE DEF g, c, e
<1>2. ASSUME NEW p \in g.posts, p \notin d.posts PROVE Dull(p)
  <2>1. PICK m \in Notices : p = <<c, m>> /\ Suits(d, g, c, e, m)
    BY <1>1, <1>2 DEF Step
  <2>2. e # Medium /\ e # Long /\ (e = Short => c # {"bt", "plus"})
    BY DEF Harmless, c, e
  <2>3. p[1] = c /\ p[2] = m
    BY <2>1
  <2>4. (m = "on" => c # {"power"}) /\ (m = "off" => c # {"power"}) /\ m # "startPairing" /\ m # "multichain"
    BY <2>1, <2>2 DEF Suits
  <2>5. p # <<{"power"}, "on">> /\ p # <<{"power"}, "off">>
    BY <2>3, <2>4
  <2> QED
    BY <2>3, <2>4, <2>5 DEF Dull
<1>3. g \in Flags
  BY <1>1 DEF Step
<1>4. g \in Flags /\ \A p \in g.posts : Dull(p)
  BY <1>2, <1>3
<1> QED
  BY <1>4 DEF g

LEMMA HarmlessEvents ==
  ASSUME NEW f \in Flags, f.posts = {}, NEW q \in Seq(Events), \A i \in 1..Len(q) : Harmless(q[i])
  PROVE  \A p \in AfterEvents(f, q)[Len(q)].posts : Dull(p)
<1> DEFINE K == {d \in Flags : \A p \in d.posts : Dull(p)}
<1>1. f \in K /\ K \in SUBSET Flags
  OBVIOUS
<1>2. ASSUME NEW d \in K, NEW i \in 1..Len(q) PROVE Handled(d, q[i]) \in K
  <2>1. q[i] \in Events /\ Harmless(q[i]) /\ d \in Flags /\ \A p \in d.posts : Dull(p)
    OBVIOUS
  <2>2. Handled(d, q[i]) \in Flags /\ \A p \in Handled(d, q[i]).posts : Dull(p)
    BY <2>1, HarmlessStep
  <2> QED
    BY <2>2
<1>3. \A d \in K : \A p \in d.posts : Dull(p)
  OBVIOUS
<1> HIDE DEF K
<1> QED
  BY <1>1, <1>2, <1>3, EventsKeep


\* No press goes on: the flags stay.
LEMMA NoPressLeaves ==
  ASSUME NEW f \in Flags, f.posts = {}, NEW b \in SUBSET Buttons, NEW q \in Seq(Events), NoPress(b, q), NEW r,
         r = AfterEvents(f, q)[Len(q)]
  PROVE  /\ r \in Flags /\ r.power = f.power /\ (r.hold => f.hold) /\ \A p \in r.posts : Dull(p)
         /\ \A i \in 1..Len(q) : q[i] # <<{"power"}, RawRelease>>
<1>1. \A i \in 1..Len(q) : q[i][2] \in {RawPress, Short, Double, Triple} /\ (q[i][2] # RawPress => q[i][1] \in Repeated)
  BY DEF NoPress
<1>2. {"bt", "plus"} \notin Repeated /\ {"plus"} \notin Repeated /\ {"minus"} \notin Repeated
  BY Distinct DEF Repeated
<1>3. \A i \in 1..Len(q) : Harmless(q[i])
  <2> TAKE i \in 1..Len(q)
  <2> DEFINE c == q[i][1]
             e == q[i][2]
  <2>1. e \in {RawPress, Short, Double, Triple} /\ (e # RawPress => c \in Repeated)
    BY <1>1
  <2> HIDE DEF c, e
  <2>2. e # Medium /\ e # Long /\ (e = Short => c # {"bt", "plus"})
    <3>1. e # Medium /\ e # Long /\ (e = Short => e # RawPress)
      BY <2>1 DEF RawPress, Short, Double, Triple, Medium, Long
    <3> QED
      BY <1>2, <2>1, <3>1
  <2> QED
    BY <2>2 DEF Harmless, c, e
<1> DEFINE K == {d \in Flags : d.power = f.power /\ (d.hold => f.hold)}
<1>4. f \in K /\ K \in SUBSET Flags
  OBVIOUS
<1>5. ASSUME NEW d \in K, NEW i \in 1..Len(q) PROVE Handled(d, q[i]) \in K
  <2> DEFINE g == Handled(d, q[i])
             c == q[i][1]
             e == q[i][2]
  <2>1. Step(d, g, c, e) /\ d.power = f.power /\ (d.hold => f.hold)
    BY EventStep
  <2>2. e \in {RawPress, Short, Double, Triple} /\ (e # RawPress => c \in Repeated)
    BY <1>1
  <2> HIDE DEF g, c, e
  <2>3. e # RawRelease /\ e # Medium
    BY <2>2, Distinct
  <2>4. ~(c \in {{"plus"}, {"minus"}} /\ e \in {Short, Hold})
    <3>1. c \in {{"plus"}, {"minus"}} => c \notin Repeated
      BY <1>2
    <3> QED
      BY <2>2, <3>1, Distinct
  <2>5. g \in Flags /\ g.power = d.power /\ (g.hold => d.hold)
    BY <2>1, <2>3, <2>4 DEF Step, Flags
  <2> QED
    BY <2>1, <2>5 DEF g
<1>6. AfterEvents(f, q)[Len(q)] \in K
  <2> HIDE DEF K
  <2> QED
    BY <1>4, <1>5, EventsKeep
<1>7. \A p \in AfterEvents(f, q)[Len(q)].posts : Dull(p)
  BY <1>3, HarmlessEvents
<1>8. \A i \in 1..Len(q) : q[i] # <<{"power"}, RawRelease>>
  BY <1>1, Distinct
<1> QED
  BY <1>6, <1>7, <1>8

\* A press ends: it is not ignored any more.
Ended(f, c, q, r) ==
    /\ r \in Flags /\ ~r.hold /\ \A p \in r.posts : Dull(p)
    /\ IF c = {"power"} THEN ~r.power
       ELSE r.power = f.power /\ \A i \in 1..Len(q) : q[i] # <<{"power"}, RawRelease>>

LEMMA ReleaseLeaves ==
  ASSUME NEW f \in Flags, f.posts = {}, NEW c \in SUBSET Buttons, NEW q \in Seq(Events), ReleaseOf(c, q),
         f.hold => c \in {{"plus"}, {"minus"}}
  PROVE  Ended(f, c, q, AfterEvents(f, q)[Len(q)])
<1>1. /\ Len(q) >= 1 /\ Len(q) \in Nat /\ q[1] \in Events /\ q[1][1] = c /\ q[1][2] = RawRelease
      /\ \A i \in 2..Len(q) : q[i] \in Events /\ q[i][1] = c /\ q[i][2] = Short /\ c \in Repeated
      /\ \A i \in 1..Len(q) : q[i][1] = c
  <2>1. Len(q) >= 1 /\ Len(q) \in Nat /\ q[1] \in Events
    BY DEF ReleaseOf
  <2>2. q[1][1] = c /\ q[1][2] = RawRelease
    BY DEF ReleaseOf
  <2>3. ASSUME NEW i \in 2..Len(q) PROVE q[i] \in Events /\ q[i][1] = c /\ q[i][2] = Short /\ c \in Repeated
    BY <2>1, <2>3 DEF ReleaseOf
  <2>4. \A i \in 1..Len(q) : i = 1 \/ i \in 2..Len(q)
    BY <2>1
  <2> QED
    BY <2>1, <2>2, <2>3, <2>4
<1>2. {"bt", "plus"} \notin Repeated /\ {"plus"} \notin Repeated /\ {"minus"} \notin Repeated
  BY Distinct DEF Repeated
<1>3. \A i \in 1..Len(q) : Harmless(q[i])
  <2> TAKE i \in 1..Len(q)
  <2>1. CASE i = 1
    BY <1>1, <2>1, Distinct DEF Harmless
  <2>2. CASE i # 1
    <3>1. i \in 2..Len(q)
      BY <1>1, <2>2
    <3> QED
      <4>1. q[i][1] = c /\ q[i][2] = Short /\ c # {"bt", "plus"}
        BY <1>1, <1>2, <3>1
      <4>2. Short # Medium /\ Short # Long
        BY Distinct
      <4> QED
        BY <4>1, <4>2 DEF Harmless
  <2> QED
    BY <2>1, <2>2
<1> DEFINE K == {d \in Flags : ~d.hold /\ IF c = {"power"} THEN ~d.power ELSE d.power = f.power}
<1>4. K \in SUBSET Flags
  OBVIOUS
<1>5. Handled(f, q[1]) \in K
  <2> DEFINE g == Handled(f, q[1])
             e == q[1][2]
  <2>1. Step(f, g, c, e) /\ e = RawRelease
    BY <1>1, EventStep
  <2> HIDE DEF g, e
  <2>2. g \in Flags /\ ~g.hold
    BY <2>1, Distinct DEF Step
  <2>3. (c = {"power"} => ~g.power) /\ (c # {"power"} => g.power = f.power)
    BY <2>1, Distinct DEF Step, Flags
  <2> QED
    BY <2>2, <2>3 DEF g
<1>6. ASSUME NEW d \in K, NEW i \in 2..Len(q) PROVE Handled(d, q[i]) \in K
  <2> DEFINE g == Handled(d, q[i])
             e == q[i][2]
  <2>1. Step(d, g, c, e) /\ e = Short /\ c \in Repeated
    BY <1>1, EventStep
  <2>2. d \in Flags /\ ~d.hold /\ (c = {"power"} => ~d.power) /\ (c # {"power"} => d.power = f.power)
    OBVIOUS
  <2> HIDE DEF g, e, K
  <2>3. c \notin {{"plus"}, {"minus"}} /\ e # RawRelease /\ e # Medium
    <3>1. e # RawRelease /\ e # Medium
      BY <2>1 DEF RawRelease, Short, Medium
    <3> QED
      BY <1>2, <2>1, <3>1
  <2>4. g \in Flags /\ (~d.hold => ~g.hold) /\ g.power = d.power
    BY <2>1, <2>2, <2>3 DEF Step, Flags
  <2>5. g \in K
    BY <2>2, <2>4 DEF K
  <2> QED
    BY <2>5 DEF g
<1>7. AfterEvents(f, q)[Len(q)] \in K
  <2> HIDE DEF K
  <2> QED
    BY <1>1, <1>4, <1>5, <1>6, LaterEventsKeep
<1>8. \A p \in AfterEvents(f, q)[Len(q)].posts : Dull(p)
  BY <1>3, HarmlessEvents
<1>9. c # {"power"} => \A i \in 1..Len(q) : q[i] # <<{"power"}, RawRelease>>
  BY <1>1
<1> QED
  BY <1>7, <1>8, <1>9 DEF Ended


\* A press goes on: what the callbacks of its one event, and of holding, may do.
Lasts(f, b, e, d) ==
    /\ d \in Flags
    /\ f.power => d.power
    /\ d.power => f.power \/ b = {"power"}
    /\ f.stop => d.stop
    /\ d.hold => f.hold \/ b \in {{"plus"}, {"minus"}}
    /\ \A p \in d.posts :
          /\ p = <<{"power"}, "off">> => e = Long /\ ~f.power
          /\ p = <<{"power"}, "on">> => e = Medium /\ d.power
          /\ p[2] = "startPairing" => b = {"bt"} /\ e = Long /\ d.stop
          /\ p[2] = "multichain" => b = {"bt", "plus"} /\ d.stop
          /\ EndsPairing(p, d.posts) => b # {"bt", "plus"} /\ (b = {"bt"} => e = Short)

LEMMA LastsStep ==
  ASSUME NEW f \in Flags, NEW b \in SUBSET Buttons, NEW e \in Int, e >= 10, NEW d, Lasts(f, b, e, d),
         NEW ev \in Events, ev \in {<<b, e>>, <<b, Hold>>}
  PROVE  Lasts(f, b, e, Handled(d, ev))
<1> DEFINE g == Handled(d, ev)
           k == ev[2]
<1>1. d \in Flags
  BY DEF Lasts
<1>2. ev[1] = b /\ k \in {e, Hold}
  OBVIOUS
<1>3. Step(d, g, b, k)
  BY <1>1, <1>2, EventStep
<1>4. Lasts(f, b, e, g)
  <2> HIDE DEF g, k
  <2>1. k # RawRelease /\ (k = Medium => e = Medium) /\ (k = Long => e = Long) /\ (k = Short => e = Short)
    BY <1>2 DEF RawRelease, Hold, Medium, Long, Short
  <2>2. /\ g \in Flags /\ (d.power => g.power) /\ (d.stop => g.stop)
        /\ (g.power => d.power \/ b = {"power"}) /\ (g.hold => d.hold \/ b \in {{"plus"}, {"minus"}})
    BY <1>3, <2>1 DEF Step
  <2>3. {"bt", "plus"} \notin {{"bt"}, {"play"}, {"plus"}, {"minus"}}
    BY Distinct
  <2>4. ASSUME NEW p \in g.posts
        PROVE  /\ p = <<{"power"}, "off">> => e = Long /\ ~f.power
               /\ p = <<{"power"}, "on">> => e = Medium /\ g.power
               /\ p[2] = "startPairing" => b = {"bt"} /\ e = Long /\ g.stop
               /\ p[2] = "multichain" => b = {"bt", "plus"} /\ g.stop
               /\ EndsPairing(p, g.posts) => b # {"bt", "plus"} /\ (b = {"bt"} => e = Short)
    <3>1. CASE p \in d.posts
      <4>1. d.posts \subseteq g.posts
        BY <1>3 DEF Step
      <4>2. EndsPairing(p, g.posts) => EndsPairing(p, d.posts)
        BY <4>1, EndsWithMore
      <4> QED
        BY <2>2, <3>1, <4>2 DEF Lasts
    <3>2. CASE p \notin d.posts
      <4>1. PICK m \in Notices : p = <<b, m>> /\ Suits(d, g, b, k, m)
        BY <1>3, <2>4, <3>2 DEF Step
      <4>2. p[2] = m /\ (p = <<{"power"}, "off">> => m = "off" /\ b = {"power"})
            /\ (p = <<{"power"}, "on">> => m = "on" /\ b = {"power"})
        BY <4>1
      <4>3. f.power => d.power
        BY DEF Lasts
      <4>4. /\ (m = "off" /\ b = {"power"} => k = Long /\ ~d.power)
            /\ (m = "on" /\ b = {"power"} => k = Medium /\ g.power)
            /\ (m = "startPairing" => b = {"bt"} /\ k = Long /\ g.stop)
            /\ (m = "multichain" => b = {"bt", "plus"} /\ g.stop)
            /\ (EndsPairing(p, g.posts) => b \in {{"bt"}, {"play"}, {"plus"}, {"minus"}} /\ (b = {"bt"} => k = Short))
        BY <4>1 DEF Suits, EndsPairing
      <4> QED
        BY <2>1, <2>3, <4>2, <4>3, <4>4
    <3> QED
      BY <3>1, <3>2
  <2> QED
    BY <2>2, <2>4 DEF Lasts
<1> QED
  BY <1>4 DEF g

LEMMA GoingLeaves ==
  ASSUME NEW f \in Flags, f.posts = {}, NEW b \in SUBSET Buttons, NEW q \in Seq(Events), Going(b, q), NEW r,
         r = AfterEvents(f, q)[Len(q)]
  PROVE  /\ \E e \in Int : Lasts(f, b, e, r)
         /\ \A i \in 1..Len(q) : q[i] # <<{"power"}, RawRelease>>
<1>1. PICK e \in Int : e >= 10 /\ \A i \in 1..Len(q) : q[i] \in {<<b, e>>, <<b, Hold>>}
  BY DEF Going
<1> DEFINE K == {d \in Flags : Lasts(f, b, e, d)}
<1>2. f \in K /\ K \in SUBSET Flags
  BY DEF Lasts
<1>3. ASSUME NEW d \in K, NEW i \in 1..Len(q) PROVE Handled(d, q[i]) \in K
  <2>1. Lasts(f, b, e, d) /\ q[i] \in Events /\ q[i] \in {<<b, e>>, <<b, Hold>>}
    BY <1>1
  <2>2. Lasts(f, b, e, Handled(d, q[i]))
    BY <1>1, <2>1, LastsStep
  <2> QED
    BY <2>2 DEF Lasts
<1>4. \A d \in K : Lasts(f, b, e, d)
  OBVIOUS
<1> HIDE DEF K
<1>5. AfterEvents(f, q)[Len(q)] \in K
  BY <1>2, <1>3, EventsKeep
<1>6. \A i \in 1..Len(q) : q[i] # <<{"power"}, RawRelease>>
  <2> TAKE i \in 1..Len(q)
  <2>1. q[i][2] \in {e, Hold}
    BY <1>1
  <2> QED
    BY <1>1, <2>1 DEF Hold, RawRelease
<1> QED
  BY <1>4, <1>5, <1>6

\* A run of the handler: f and r are what the callbacks work on, before and after.
Left(f, h, b, s, r) ==
    /\ r \in Flags /\ PressInv(s.press)
    /\ r.hold => s.press.state = "pressed" /\ s.press.last \in {{"plus"}, {"minus"}}
    /\ r.power => \/ s.press.state = "pressed" /\ s.press.last = {"power"}
                  \/ /\ f.power /\ ~(h.state = "pressed" /\ h.last = {"power"})
                     /\ \A i \in 1..Len(s.events) : s.events[i] # <<{"power"}, RawRelease>>
    /\ b = {"power"} /\ f.power => r.power /\ <<{"power"}, "off">> \notin r.posts
    /\ <<{"power"}, "on">> \in r.posts => r.power /\ <<{"power"}, "off">> \notin r.posts
    /\ f.stop => r.stop /\ \A p \in r.posts : ~EndsPairing(p, r.posts)
    /\ \A p \in r.posts : p[2] \in {"startPairing", "multichain"} =>
          r.stop /\ "bt" \in b /\ \A o \in r.posts : ~EndsPairing(o, r.posts)

LEMMA RunLeaves ==
  ASSUME NEW f \in Flags, f.posts = {}, NEW h, PressInv(h), NEW b \in SUBSET Buttons, NEW s \in Process(h, b),
         f.hold => h.state = "pressed" /\ h.last \in {{"plus"}, {"minus"}}
  PROVE  Left(f, h, b, s, AfterEvents(f, s.events)[Len(s.events)])
<1> DEFINE q == s.events
           r == AfterEvents(f, q)[Len(q)]
<1>1. PressInv(s.press) /\ q \in Seq(Events) /\ Shape(h, b, s)
  BY ProcessShape DEF Sent
<1>2. r \in StillStops(f)
  BY <1>1, StopKept
<1> HIDE DEF r
<1>3. f.stop => r.stop /\ \A p \in r.posts : ~EndsPairing(p, r.posts)
  BY <1>2 DEF StillStops
<1>4. ASSUME \A p \in r.posts : Dull(p)
      PROVE  /\ <<{"power"}, "on">> \notin r.posts /\ <<{"power"}, "off">> \notin r.posts
             /\ \A p \in r.posts : p[2] \notin {"startPairing", "multichain"}
  BY <1>4 DEF Dull
<1>5. ASSUME h.state # "pressed" /\ s.press.state # "pressed" /\ NoPress(b, q) PROVE Left(f, h, b, s, r)
  <2>1. /\ r \in Flags /\ r.power = f.power /\ (r.hold => f.hold) /\ \A p \in r.posts : Dull(p)
        /\ \A i \in 1..Len(q) : q[i] # <<{"power"}, RawRelease>>
    BY <1>1, <1>5, NoPressLeaves DEF r
  <2> QED
    BY <1>1, <1>3, <1>4, <1>5, <2>1 DEF Left
<1>6. ASSUME s.press.state # "pressed", NEW c \in SUBSET Buttons, b = {"power"} => c # {"power"},
             h.state = "pressed" => c = h.last, ReleaseOf(c, q)
      PROVE  Left(f, h, b, s, r)
  <2>1. /\ r \in Flags /\ ~r.hold /\ \A p \in r.posts : Dull(p)
        /\ IF c = {"power"} THEN ~r.power
           ELSE r.power = f.power /\ \A i \in 1..Len(q) : q[i] # <<{"power"}, RawRelease>>
    <3>1. f.hold => c \in {{"plus"}, {"minus"}}
      BY <1>6
    <3>2. q \in Seq(Events) /\ ReleaseOf(c, q)
      BY <1>1, <1>6
    <3>3. Ended(f, c, q, r)
      <4> HIDE DEF q
      <4> QED
        BY <3>1, <3>2, ReleaseLeaves DEF r
    <3> QED
      BY <3>3 DEF Ended
  <2> QED
    BY <1>1, <1>3, <1>4, <1>6, <2>1 DEF Left
<1>7. ASSUME s.press.state = "pressed" /\ s.press.last = b /\ Going(b, q) /\ (h.state = "pressed" => h.last = b)
      PROVE  Left(f, h, b, s, r)
  <2>1. (\E e \in Int : Lasts(f, b, e, r)) /\ \A i \in 1..Len(q) : q[i] # <<{"power"}, RawRelease>>
    BY <1>1, <1>7, GoingLeaves DEF r
  <2>2. PICK e \in Int : Lasts(f, b, e, r)
    BY <2>1
  <2>3. Medium # Long /\ Short # Long
    BY Distinct
  <2>4. r \in Flags /\ (r.hold => b \in {{"plus"}, {"minus"}}) /\ (r.power => f.power \/ b = {"power"}) /\ (f.power => r.power)
    BY <1>7, <2>2 DEF Lasts
  <2>5. /\ f.power => <<{"power"}, "off">> \notin r.posts
        /\ <<{"power"}, "on">> \in r.posts => r.power /\ <<{"power"}, "off">> \notin r.posts
    BY <2>2, <2>3 DEF Lasts
  <2>6. ASSUME NEW p \in r.posts, p[2] \in {"startPairing", "multichain"}
        PROVE  r.stop /\ "bt" \in b /\ \A o \in r.posts : ~EndsPairing(o, r.posts)
    <3>1. CASE p[2] = "startPairing"
      BY <2>2, <2>3, <3>1 DEF Lasts
    <3>2. CASE p[2] = "multichain"
      BY <2>2, <3>2 DEF Lasts
    <3> QED
      BY <2>6, <3>1, <3>2
  <2>7. r.power => \/ s.press.state = "pressed" /\ s.press.last = {"power"}
                   \/ f.power /\ ~(h.state = "pressed" /\ h.last = {"power"})
    BY <1>7, <2>4
  <2> QED
    <3>1. r.hold => s.press.state = "pressed" /\ s.press.last \in {{"plus"}, {"minus"}}
      BY <1>7, <2>4
    <3>2. r.power => \/ s.press.state = "pressed" /\ s.press.last = {"power"}
                     \/ /\ f.power /\ ~(h.state = "pressed" /\ h.last = {"power"})
                        /\ \A i \in 1..Len(q) : q[i] # <<{"power"}, RawRelease>>
      BY <2>1, <2>7
    <3>3. b = {"power"} /\ f.power => r.power /\ <<{"power"}, "off">> \notin r.posts
      BY <2>4, <2>5
    <3> QED
      BY <1>1, <1>3, <2>4, <2>5, <2>6, <3>1, <3>2, <3>3 DEF Left
<1>8. Left(f, h, b, s, r)
  <2>1. CASE /\ s.press.state # "pressed"
             /\ \E c \in SUBSET Buttons :
                   (b = {"power"} => c # {"power"}) /\ (h.state = "pressed" => c = h.last) /\ ReleaseOf(c, q)
    <3>1. PICK c \in SUBSET Buttons : (b = {"power"} => c # {"power"}) /\ (h.state = "pressed" => c = h.last) /\ ReleaseOf(c, q)
      BY <2>1
    <3> QED
      BY <1>6, <2>1, <3>1
  <2> QED
    BY <1>1, <1>5, <1>7, <2>1 DEF Shape
<1> QED
  BY <1>8 DEF r


(***************************************************************************)
(* Inputs: the buttons that a flag ignores are still held.                 *)
(***************************************************************************)
InputInv ==
    /\ InputTypeOK /\ PressInv(press)
    /\ sinceOn => ignore.power
    /\ sincePairing => ignore.stop /\ held \ {"power"} # {} /\ buttons \ {"power"} # {}
    /\ ignore.hold => press.state = "pressed" /\ press.last \in {{"plus"}, {"minus"}}
    /\ ignore.power => sinceReset \/ (press.state = "pressed" /\ press.last = {"power"})
    /\ OffByAnotherPress /\ PairingKept

\* A start leaves no press that is reported, and no flag but that of POWER.
LEMMA AtStart ==
  ASSUME NEW b \in SUBSET Buttons
  PROVE  /\ PressInv(PressAtStart(b)) /\ PressAtStart(b).state # "pressed"
         /\ IgnoreAtStart(b) \in [power : BOOLEAN, stop : BOOLEAN, hold : BOOLEAN]
         /\ IgnoreAtStart(b).power = (b # {}) /\ ~IgnoreAtStart(b).hold
         /\ StatusAtStart \in [on : BOOLEAN, pairing : BOOLEAN, chain : {"none", "master", "slave"}]
<1> DEFINE h == PressAtStart(b)
<1>1. h = [state |-> IF b = {} THEN "released" ELSE "debouncing", combo |-> b, last |-> {}, age |-> 0,
           count |-> 0, sent |-> 0]
  BY DEF PressAtStart, RawRelease
<1>2. h \in Presses /\ h.sent = 0 /\ h.count = 0 /\ h.state # "pressed"
  BY <1>1 DEF Presses
<1>3. PressInv(h)
  <2>1. 0 % 10 = 0
    OBVIOUS
  <2> QED
    BY <1>2, <2>1 DEF PressInv
<1>4. /\ IgnoreAtStart(b) \in [power : BOOLEAN, stop : BOOLEAN, hold : BOOLEAN]
      /\ IgnoreAtStart(b).power = (b # {}) /\ ~IgnoreAtStart(b).hold
  BY DEF IgnoreAtStart
<1>5. StatusAtStart \in [on : BOOLEAN, pairing : BOOLEAN, chain : {"none", "master", "slave"}]
  BY DEF StatusAtStart
<1> QED
  BY <1>2, <1>3, <1>4, <1>5

LEMMA InputInit_Inv == InputInit => InputInv
<1> SUFFICES ASSUME InputInit PROVE InputInv
  OBVIOUS
<1>1. hand \in SUBSET Buttons /\ held \in SUBSET Buttons /\ held \subseteq hand /\ buttons = held
  BY InputAssumption DEF InputInit, Buttons
<1>2. press = PressAtStart(held) /\ ignore = IgnoreAtStart(held) /\ ux = StatusAtStart
  BY DEF InputInit
<1>3. /\ PressInv(press) /\ ignore \in [power : BOOLEAN, stop : BOOLEAN, hold : BOOLEAN]
      /\ ux \in [on : BOOLEAN, pairing : BOOLEAN, chain : {"none", "master", "slave"}]
      /\ ignore.power = (held # {}) /\ ~ignore.hold
  BY <1>1, <1>2, AtStart
<1>4. InputTypeOK
  BY <1>1, <1>3 DEF InputTypeOK, InputInit, PressInv, Presses
<1>5. sinceReset = (held # {}) /\ sinceOn = FALSE /\ sincePairing = FALSE /\ posts = {}
  BY DEF InputInit
<1> QED
  BY <1>3, <1>4, <1>5 DEF InputInv, OffByAnotherPress, PairingKept

LEMMA OlderPress ==
  ASSUME PressInv(press), NEW h \in Older
  PROVE  PressInv(h) /\ h.state = press.state /\ h.last = press.last
<1>1. CASE h = press
  BY <1>1
<1>2. CASE h # press
  <2> DEFINE age == press.age
             a == age + 1
             st == press.state
  <2>1. h = [press EXCEPT !.age = a] /\ age < (IF st = "released" THEN 2 ELSE 5)
    BY <1>2 DEF Older
  <2>2. press \in Presses /\ age \in 0..5 /\ press.sent \in 0..52
    BY DEF PressInv, Presses
  <2>3. age < 5 /\ a \in 0..5 /\ a >= age
    BY <2>1, <2>2
  <2> HIDE DEF a
  <2>4. h \in Presses /\ h.state = press.state /\ h.last = press.last /\ h.count = press.count /\ h.sent = press.sent /\ h.age = a
    BY <2>1, <2>2, <2>3 DEF Presses
  <2>5. press.state = "pressed" => a >= 1 /\ h.sent \div 10 <= a
    <3>1. press.sent \div 10 \in Int
      BY <2>2
    <3> QED
      BY <2>2, <2>3, <2>4, <3>1 DEF PressInv
  <2> QED
    BY <2>4, <2>5 DEF PressInv
<1> QED
  BY <1>1, <1>2

LEMMA RunStep ==
  ASSUME InputInv, NEW b \in SUBSET Buttons, NEW stop, stop \in BOOLEAN, RunsHandler(b, stop),
         hand' = hand, held' = held, ux' = ux, buttons' = b, irq' \in BOOLEAN,
         sincePairing /\ held \ {"power"} # {} => stop = TRUE /\ b \ {"power"} # {}
  PROVE  InputInv'
<1> DEFINE f == [power |-> ignore.power, stop |-> stop, hold |-> ignore.hold, posts |-> {}]
<1>0. PICK h \in Older : \E s \in Process(h, b) :
         LET r == AfterEvents(f, s.events)[Len(s.events)]
             says == {p[2] : p \in r.posts}
         IN /\ press' = s.press /\ posts' = r.posts
            /\ ignore' = [power |-> r.power, stop |-> r.stop, hold |-> r.hold]
            /\ sinceOn' = (<<{"power"}, "on">> \in r.posts \/ (sinceOn /\ b = {"power"}))
            /\ sincePairing' = (held \ {"power"} # {} /\ (sincePairing \/ {"startPairing", "multichain"} \cap says # {}))
            /\ sinceReset' = (sinceReset /\ <<{"power"}, RawRelease>> \notin {s.events[i] : i \in DOMAIN s.events})
            /\ coming' \in AfterRequest(says)
  BY DEF RunsHandler
<1>1. PICK s \in Process(h, b) :
         LET r == AfterEvents(f, s.events)[Len(s.events)]
             says == {p[2] : p \in r.posts}
         IN /\ press' = s.press /\ posts' = r.posts
            /\ ignore' = [power |-> r.power, stop |-> r.stop, hold |-> r.hold]
            /\ sinceOn' = (<<{"power"}, "on">> \in r.posts \/ (sinceOn /\ b = {"power"}))
            /\ sincePairing' = (held \ {"power"} # {} /\ (sincePairing \/ {"startPairing", "multichain"} \cap says # {}))
            /\ sinceReset' = (sinceReset /\ <<{"power"}, RawRelease>> \notin {s.events[i] : i \in DOMAIN s.events})
            /\ coming' \in AfterRequest(says)
  BY <1>0
<1> DEFINE r == AfterEvents(f, s.events)[Len(s.events)]
           says == {p[2] : p \in r.posts}
<1>2. f \in Flags /\ f.posts = {} /\ f.power = ignore.power /\ f.stop = stop /\ f.hold = ignore.hold
  BY DEF InputInv, InputTypeOK, Flags
<1>3. PressInv(h) /\ h.state = press.state /\ h.last = press.last
  BY OlderPress DEF InputInv
<1> HIDE DEF f
<1>4. f.hold => h.state = "pressed" /\ h.last \in {{"plus"}, {"minus"}}
  BY <1>2, <1>3 DEF InputInv
<1>5. Left(f, h, b, s, r)
  BY <1>2, <1>3, <1>4, RunLeaves
<1>6. s.events \in Seq(Events)
  BY <1>3, ProcessShape DEF Sent
<1> HIDE DEF r
<1>7. /\ press' = s.press /\ posts' = r.posts /\ ignore' = [power |-> r.power, stop |-> r.stop, hold |-> r.hold]
      /\ sinceOn' = (<<{"power"}, "on">> \in r.posts \/ (sinceOn /\ b = {"power"}))
      /\ sincePairing' = (held \ {"power"} # {} /\ (sincePairing \/ {"startPairing", "multichain"} \cap says # {}))
      /\ sinceReset' = (sinceReset /\ <<{"power"}, RawRelease>> \notin {s.events[i] : i \in DOMAIN s.events})
      /\ coming' \in AfterRequest(says)
  BY <1>1 DEF r
<1>8. r.power \in BOOLEAN /\ r.stop \in BOOLEAN /\ r.hold \in BOOLEAN /\ PressInv(s.press) /\ s.press \in Presses
  BY <1>5 DEF Left, Flags, PressInv
<1>9. ignore'.power = r.power /\ ignore'.stop = r.stop /\ ignore'.hold = r.hold
      /\ ignore' \in [power : BOOLEAN, stop : BOOLEAN, hold : BOOLEAN]
  BY <1>7, <1>8
<1>10. InputTypeOK'
  <2>1. {sinceOn', sincePairing', sinceReset'} \subseteq BOOLEAN
    BY <1>7 DEF InputInv, InputTypeOK
  <2>2. /\ press'.combo \in SUBSET Buttons /\ press'.last \in SUBSET Buttons
        /\ press'.state \in {"released", "debouncing", "pressed"} /\ press'.age \in 0..5
        /\ press'.count \in 0..5 /\ press'.sent \in 0..52
    BY <1>7, <1>8 DEF Presses
  <2>3. coming' \subseteq {"factory", "hard"}
    BY <1>7 DEF InputInv, InputTypeOK, AfterRequest
  <2> QED
    BY <1>9, <2>1, <2>2, <2>3 DEF InputInv, InputTypeOK
<1>11. PressInv(press)'
  BY <1>7, <1>8
<1>12. (sinceOn => ignore.power)' /\ OffByAnotherPress'
  <2>1. CASE <<{"power"}, "on">> \in r.posts
    BY <1>5, <1>7, <1>9, <2>1 DEF Left, OffByAnotherPress
  <2>2. CASE sinceOn /\ b = {"power"} /\ <<{"power"}, "on">> \notin r.posts
    <3>1. f.power
      BY <1>2, <2>2 DEF InputInv
    <3> QED
      BY <1>5, <1>7, <1>9, <2>2, <3>1 DEF Left, OffByAnotherPress
  <2>3. CASE ~(sinceOn /\ b = {"power"}) /\ <<{"power"}, "on">> \notin r.posts
    BY <1>7, <2>3 DEF OffByAnotherPress
  <2> QED
    BY <2>1, <2>2, <2>3
<1>13. (sincePairing => ignore.stop /\ held \ {"power"} # {} /\ buttons \ {"power"} # {})' /\ PairingKept'
  <2>1. CASE held \ {"power"} = {}
    BY <1>7, <2>1 DEF PairingKept
  <2>2. CASE held \ {"power"} # {} /\ sincePairing
    <3>1. f.stop /\ b \ {"power"} # {}
      BY <1>2, <2>2
    <3> QED
      BY <1>5, <1>7, <1>9, <2>2, <3>1 DEF Left, PairingKept
  <2>3. CASE held \ {"power"} # {} /\ {"startPairing", "multichain"} \cap says # {}
    <3>1. PICK p \in r.posts : p[2] \in {"startPairing", "multichain"}
      BY <2>3
    <3>2. r.stop /\ "bt" \in b /\ \A o \in r.posts : ~EndsPairing(o, r.posts)
      BY <1>5, <3>1 DEF Left
    <3>3. b \ {"power"} # {}
      BY <3>2
    <3> QED
      BY <1>7, <1>9, <2>3, <3>2, <3>3 DEF PairingKept
  <2>4. CASE ~sincePairing /\ {"startPairing", "multichain"} \cap says = {}
    BY <1>7, <2>4 DEF PairingKept
  <2> QED
    BY <2>1, <2>2, <2>3, <2>4
<1>14. (ignore.hold => press.state = "pressed" /\ press.last \in {{"plus"}, {"minus"}})'
  BY <1>5, <1>7, <1>9 DEF Left
<1>15. (ignore.power => sinceReset \/ (press.state = "pressed" /\ press.last = {"power"}))'
  <2> SUFFICES ASSUME r.power, ~(s.press.state = "pressed" /\ s.press.last = {"power"}) PROVE sinceReset'
    BY <1>7, <1>9
  <2>1. f.power /\ ~(h.state = "pressed" /\ h.last = {"power"})
        /\ \A i \in 1..Len(s.events) : s.events[i] # <<{"power"}, RawRelease>>
    BY <1>5 DEF Left
  <2>2. sinceReset
    BY <1>2, <1>3, <2>1 DEF InputInv
  <2>3. DOMAIN s.events = 1..Len(s.events)
    BY <1>6
  <2> QED
    BY <1>7, <2>1, <2>2, <2>3
<1> QED
  BY <1>10, <1>11, <1>12, <1>13, <1>14, <1>15 DEF InputInv

LEMMA InputNext_Inv == InputInv /\ [InputNext]_inputs => InputInv'
<1> SUFFICES ASSUME InputInv, [InputNext]_inputs PROVE InputInv'
  OBVIOUS
<1>1. /\ hand \in SUBSET Buttons /\ held \in SUBSET Buttons /\ buttons \in SUBSET Buttons /\ held \subseteq hand
      /\ irq \in BOOLEAN /\ ignore.stop \in BOOLEAN
  BY DEF InputInv, InputTypeOK
<1>2. CASE PollPower
  <2> DEFINE b == (buttons \ {"power"}) \cup (held \cap {"power"})
             t == ignore.stop
  <2>1. b \in SUBSET Buttons /\ b \ {"power"} = buttons \ {"power"}
    BY <1>1
  <2>2. /\ buttons' = b /\ RunsHandler(b, t) /\ hand' = hand /\ held' = held /\ irq' = irq /\ ux' = ux
    BY <1>2 DEF PollPower
  <2>3. sincePairing => t = TRUE /\ b \ {"power"} # {}
    BY <1>1, <2>1 DEF InputInv
  <2>4. t \in BOOLEAN /\ irq' \in BOOLEAN
    BY <1>1, <2>2
  <2> HIDE DEF b, t
  <2> QED
    BY <2>1, <2>2, <2>3, <2>4, RunStep
<1>3. CASE ReadExpander
  <2>1. PICK b \in {held \ {"power"}, buttons} : buttons' = b /\ RunsHandler(b, ignore.stop /\ ~StopsIgnoring(b))
    BY <1>3 DEF ReadExpander
  <2> DEFINE t == (ignore.stop /\ ~StopsIgnoring(b))
  <2>2. b \in SUBSET Buttons /\ t \in BOOLEAN
    BY <1>1, <2>1
  <2>3. sincePairing => t = TRUE /\ b \ {"power"} # {}
    BY <1>1, <2>1 DEF InputInv, StopsIgnoring
  <2>4. hand' = hand /\ held' = held /\ irq' = FALSE /\ ux' = ux /\ RunsHandler(b, t)
    BY <1>3, <2>1 DEF ReadExpander
  <2> HIDE DEF t
  <2> QED
    BY <2>1, <2>2, <2>3, <2>4, RunStep
<1>4. CASE Touch
  <2>1. PICK k \in hand : /\ held' = IF k \in held THEN held \ {k} ELSE held \cup {k}
                          /\ irq' \in {irq, irq \/ k # "power"}
    BY <1>4 DEF Touch
  <2>2. /\ sincePairing' = (sincePairing /\ held' \ {"power"} # {}) /\ posts' = {}
        /\ UNCHANGED <<hand, buttons, press, ignore, ux, coming, sinceOn, sinceReset>>
    BY <1>4 DEF Touch
  <2>3. held' \in SUBSET Buttons /\ held' \subseteq hand /\ irq' \in BOOLEAN
    BY <1>1, <2>1
  <2>4. InputTypeOK'
    BY <2>2, <2>3 DEF InputInv, InputTypeOK
  <2> QED
    BY <2>2, <2>4 DEF InputInv, OffByAnotherPress, PairingKept
<1>5. CASE Progress
  <2>1. /\ posts' = {}
        /\ UNCHANGED <<hand, held, irq, buttons, press, ignore, coming, sinceOn, sincePairing, sinceReset>>
    BY <1>5 DEF Progress
  <2>2. ux' \in [on : BOOLEAN, pairing : BOOLEAN, chain : {"none", "master", "slave"}]
    <3>1. ux \in [on : BOOLEAN, pairing : BOOLEAN, chain : {"none", "master", "slave"}]
      BY DEF InputInv, InputTypeOK
    <3> QED
      BY <1>5, <3>1 DEF Progress
  <2>3. InputTypeOK'
    BY <2>1, <2>2 DEF InputInv, InputTypeOK
  <2> QED
    BY <2>1, <2>3 DEF InputInv, OffByAnotherPress, PairingKept
<1>6. CASE FactoryReset
  <2>1. /\ coming' \subseteq coming /\ ignore' = [ignore EXCEPT !.power = TRUE] /\ sinceReset' = TRUE /\ posts' = {}
        /\ UNCHANGED <<hand, held, irq, buttons, press, ux, sinceOn, sincePairing>>
    BY <1>6 DEF FactoryReset
  <2>2. /\ ignore' \in [power : BOOLEAN, stop : BOOLEAN, hold : BOOLEAN]
        /\ ignore'.power /\ ignore'.stop = ignore.stop /\ ignore'.hold = ignore.hold
    BY <2>1 DEF InputInv, InputTypeOK
  <2>3. InputTypeOK'
    BY <2>1, <2>2 DEF InputInv, InputTypeOK
  <2> QED
    BY <2>1, <2>2, <2>3 DEF InputInv, OffByAnotherPress, PairingKept
<1>7. CASE HardReset
  <2> DEFINE b == held \cap {"power"}
  <2>1. /\ coming' = {} /\ buttons' = b /\ press' = PressAtStart(b) /\ ignore' = IgnoreAtStart(b)
        /\ sinceReset' = (b # {}) /\ irq' = FALSE /\ posts' = {} /\ ux' = StatusAtStart
        /\ sinceOn' = FALSE /\ sincePairing' = FALSE /\ hand' = hand /\ held' = held
    BY <1>7 DEF HardReset
  <2>2. b \in SUBSET Buttons
    BY <1>1
  <2> HIDE DEF b
  <2>3. /\ PressInv(press') /\ ignore' \in [power : BOOLEAN, stop : BOOLEAN, hold : BOOLEAN]
        /\ ux' \in [on : BOOLEAN, pairing : BOOLEAN, chain : {"none", "master", "slave"}]
        /\ ignore'.power = (b # {}) /\ ~ignore'.hold
    BY <2>1, <2>2, AtStart
  <2>4. InputTypeOK'
    BY <1>1, <2>1, <2>2, <2>3 DEF InputTypeOK, PressInv, Presses
  <2> QED
    BY <2>1, <2>3, <2>4 DEF InputInv, OffByAnotherPress, PairingKept
<1>8. CASE UNCHANGED inputs
  BY <1>8 DEF inputs, InputInv, InputTypeOK, OffByAnotherPress, PairingKept
<1> QED
  BY <1>2, <1>3, <1>4, <1>5, <1>6, <1>7, <1>8 DEF InputNext

LEMMA InputsInv == InputSpec => []InputInv
<1> QED
  BY InputInit_Inv, InputNext_Inv, PTL DEF InputSpec

\* The press of POWER that switched the speaker on does not switch it off: the
\* handler has seen another state of the buttons between the two.
THEOREM OffNeedsAnotherPress == InputSpec => []OffByAnotherPress
<1>1. InputInv => OffByAnotherPress
  BY DEF InputInv
<1> QED
  BY <1>1, InputsInv, PTL

\* The buttons that started a pairing do not end it while one of them is held,
\* but to clear the list of devices and to start another pairing.
THEOREM PairingNotEnded == InputSpec => []PairingKept
<1>1. InputInv => PairingKept
  BY DEF InputInv
<1> QED
  BY <1>1, InputsInv, PTL

\* Nothing stays ignored once the press is over, but POWER after a start with
\* POWER held or after a factory reset, until POWER alone is released.
THEOREM NothingIgnored == InputSpec => []IgnoresEnd
<1>1. InputInv => IgnoresEnd
  BY DEF InputInv, IgnoresEnd
<1> QED
  BY <1>1, InputsInv, PTL

-----------------------------------------------------------------------------
(***************************************************************************)
(* Shell: what the loop over the words has found after the first i of them.*)
(***************************************************************************)
Searches == [parent : Seq(Words), lost : BOOLEAN, level : Nat, active : Seq(Words), handlerLevel : Nat,
             help : Seq(Words), helped : BOOLEAN]

LEMMA WordTypes ==
  ASSUME NEW s \in Searches, NEW w \in Words
  PROVE  Word(s, w) \in Searches
<1> DEFINE path == Append(s.parent, w)
<1>1. path \in Seq(Words) /\ s.level + 1 \in Nat
  BY DEF Searches
<1> HIDE DEF path
<1>2. Prepared(s, path) \in Searches
  BY <1>1 DEF Prepared, Searches
<1>3. [s EXCEPT !.helped = TRUE, !.active = s.help] \in Searches
  BY DEF Searches
<1>4. [s EXCEPT !.lost = TRUE, !.level = @ + 1] \in Searches
  BY <1>1 DEF Searches
<1> QED
  BY <1>2, <1>3, <1>4 DEF Word, path

LEMMA WordRounds ==
  ASSUME NEW a \in Seq(Words), NEW ws \in Seq(Words), NEW size \in Nat, size <= Len(ws)
  PROVE  /\ AfterWords(a, ws, size)[0] = NoWordYet(a)
         /\ \A i \in 1..size : AfterWords(a, ws, size)[i] = Word(AfterWords(a, ws, size)[i - 1], ws[i])
<1> DEFINE first == NoWordYet(a)
           Is(r) == r = [i \in 0..size |-> IF i = 0 THEN first ELSE Word(r[i - 1], ws[i])]
           round == [i \in 1..size |-> [d \in Searches |-> Word(d, ws[i])]]
<1>1. first \in Searches /\ \A i \in 1..size : ws[i] \in Words
  BY DEF NoWordYet, Searches, NoCommand
<1>2. round \in [1..size -> [Searches -> Searches]]
  BY <1>1, WordTypes
<1>3. \A i \in 1..size, d \in Searches : round[i][d] = Word(d, ws[i])
  OBVIOUS
<1> HIDE DEF round, first
<1>4. PICK g \in [0..size -> Searches] : g[0] = first /\ \A i \in 1..size : g[i] = round[i][g[i - 1]]
  <2>1. \E g \in [0..size -> Searches] : LoopOf(g, first, size, round)
    BY <1>1, <1>2, Loop
  <2> QED
    BY <2>1 DEF LoopOf
<1>5. Is(g)
  <2>1. \A i \in 1..size : g[i] = Word(g[i - 1], ws[i])
    <3> TAKE i \in 1..size
    <3>1. g[i - 1] \in Searches
      BY <1>4
    <3> QED
      BY <1>3, <1>4, <3>1
  <2> DEFINE h == [i \in 0..size |-> IF i = 0 THEN first ELSE Word(g[i - 1], ws[i])]
  <2>2. \A i \in 0..size : h[i] = g[i]
    BY <1>4, <2>1
  <2>3. h = g
    <3>1. h = [i \in 0..size |-> h[i]] /\ g = [i \in 0..size |-> g[i]]
      BY <1>4
    <3> QED
      BY <2>2, <3>1
  <2> QED
    BY <2>3
<1>6. AfterWords(a, ws, size) = CHOOSE r : Is(r)
  BY DEF AfterWords, first
<1>7. Is(CHOOSE r : Is(r))
  <2> HIDE DEF Is
  <2> QED
    BY <1>5, Zenon
<1>8. Is(AfterWords(a, ws, size))
  BY <1>6, <1>7
<1> DEFINE t == AfterWords(a, ws, size)
<1>9. t = [i \in 0..size |-> IF i = 0 THEN first ELSE Word(t[i - 1], ws[i])]
  BY <1>8
<1> HIDE DEF t, Is
<1>10. t[0] = first /\ \A i \in 1..size : t[i] = Word(t[i - 1], ws[i])
  BY <1>9
<1> QED
  BY <1>10 DEF t, first

\* The words that name the command that was found, and the deepest handler in its path.
Path(ws, k) == SubSeq(ws, 1, k)
NamesUpTo(ws, k) == \A j \in 1..k : Path(ws, j) \in Tree
DeepestUpTo(ws, k, s) ==
    \A j \in 1..k : Path(ws, j) \in Handlers /\ (\A o \in 1..k : Path(ws, o) \in Handlers => o <= j) =>
       s.active = Path(ws, j) /\ s.handlerLevel = j - 1
Found(ws, i, k, s) ==
    /\ ~s.helped /\ s.level = i /\ s.parent = Path(ws, k) /\ NamesUpTo(ws, k) /\ DeepestUpTo(ws, k, s)
    /\ IF s.lost THEN k < i /\ Path(ws, k + 1) \notin Tree ELSE k = i

LEMMA PathNext ==
  ASSUME NEW ws \in Seq(Words), NEW k \in Nat, k + 1 <= Len(ws)
  PROVE  Path(ws, k + 1) = Append(Path(ws, k), ws[k + 1])
<1>1. /\ Path(ws, k) \in Seq(Words) /\ Len(Path(ws, k)) = k /\ \A j \in 1..k : Path(ws, k)[j] = ws[j]
  BY DEF Path
<1>2. /\ Path(ws, k + 1) \in Seq(Words) /\ Len(Path(ws, k + 1)) = k + 1
      /\ \A j \in 1..(k + 1) : Path(ws, k + 1)[j] = ws[j]
  BY DEF Path
<1> DEFINE p == Path(ws, k)
           q == Path(ws, k + 1)
<1> HIDE DEF p, q
<1>3. ws[k + 1] \in Words
  OBVIOUS
<1>4. Append(p, ws[k + 1]) \in Seq(Words) /\ Len(Append(p, ws[k + 1])) = k + 1
      /\ \A j \in 1..(k + 1) : Append(p, ws[k + 1])[j] = ws[j]
  BY <1>1, <1>3 DEF p
<1>5. q = Append(p, ws[k + 1])
  BY <1>2, <1>4, SeqEqual DEF q
<1> QED
  BY <1>5 DEF p, q


\* One word more.
LEMMA FoundNext ==
  ASSUME NEW ws \in Seq(Words), NEW i \in Nat, i < Len(ws), i >= 1 => ws[i + 1] # HelpWord,
         NEW s \in Searches, NEW k \in 0..i, Found(ws, i, k, s)
  PROVE  \E m \in 0..i + 1 : Found(ws, i + 1, m, Word(s, ws[i + 1]))
<1> DEFINE w == ws[i + 1]
           path == Append(s.parent, w)
<1>1. ~s.helped /\ s.level = i /\ s.parent = Path(ws, k) /\ NamesUpTo(ws, k) /\ DeepestUpTo(ws, k, s)
  BY DEF Found
<1>2. ~(s.level > 0 /\ w = HelpWord)
  BY <1>1
<1>3. Word(s, w) = IF Search(s, w) THEN Prepared(s, path) ELSE [s EXCEPT !.lost = TRUE, !.level = @ + 1]
  BY <1>1, <1>2 DEF Word
<1>4. CASE Search(s, w)
  <2>1. ~s.lost /\ path \in Tree /\ k = i
    BY <1>4 DEF Search, Found
  <2>2. path = Path(ws, i + 1)
    BY <1>1, <2>1, PathNext
  <2> DEFINE t == Prepared(s, path)
  <2>3. /\ ~t.helped /\ ~t.lost /\ t.level = i + 1 /\ t.parent = path
        /\ t.active = (IF path \in Handlers THEN path ELSE s.active)
        /\ t.handlerLevel = (IF path \in Handlers THEN i ELSE s.handlerLevel)
    BY <1>1, <2>1 DEF Prepared, Searches
  <2> HIDE DEF t, path
  <2>4. NamesUpTo(ws, i + 1)
    <3> SUFFICES ASSUME NEW j \in 1..(i + 1) PROVE Path(ws, j) \in Tree
      BY DEF NamesUpTo
    <3>1. j \in 1..i \/ j = i + 1
      OBVIOUS
    <3> QED
      BY <1>1, <2>1, <2>2, <3>1 DEF NamesUpTo
  <2>5. DeepestUpTo(ws, i + 1, t)
    <3> SUFFICES ASSUME NEW j \in 1..(i + 1), Path(ws, j) \in Handlers,
                        \A o \in 1..(i + 1) : Path(ws, o) \in Handlers => o <= j
                 PROVE  t.active = Path(ws, j) /\ t.handlerLevel = j - 1
      BY DEF DeepestUpTo
    <3>1. CASE j = i + 1
      BY <2>2, <2>3, <3>1
    <3>2. CASE j # i + 1
      <4>1. j \in 1..i /\ path \notin Handlers
        BY <2>2, <3>2
      <4>2. \A o \in 1..i : Path(ws, o) \in Handlers => o <= j
        OBVIOUS
      <4>3. s.active = Path(ws, j) /\ s.handlerLevel = j - 1
        BY <1>1, <2>1, <4>1, <4>2 DEF DeepestUpTo
      <4> QED
        BY <2>3, <4>1, <4>3
    <3> QED
      BY <3>1, <3>2
  <2>6. Found(ws, i + 1, i + 1, t)
    BY <2>2, <2>3, <2>4, <2>5 DEF Found
  <2>7. Word(s, w) = t
    BY <1>3, <1>4 DEF t
  <2> QED
    BY <2>6, <2>7
<1>5. CASE ~Search(s, w)
  <2> DEFINE t == [s EXCEPT !.lost = TRUE, !.level = @ + 1]
  <2>1. /\ ~t.helped /\ t.lost /\ t.level = i + 1 /\ t.parent = s.parent
        /\ t.active = s.active /\ t.handlerLevel = s.handlerLevel
    BY <1>1 DEF Searches
  <2> HIDE DEF t
  <2>2. k < i + 1 /\ Path(ws, k + 1) \notin Tree
    <3>1. CASE s.lost
      BY <3>1 DEF Found
    <3>2. CASE ~s.lost
      <4>1. path \notin Tree /\ k = i
        BY <1>5, <3>2 DEF Search, Found
      <4>2. path = Path(ws, k + 1)
        BY <1>1, <4>1, PathNext
      <4> QED
        BY <4>1, <4>2
    <3> QED
      BY <3>1, <3>2
  <2>3. DeepestUpTo(ws, k, t)
    BY <1>1, <2>1 DEF DeepestUpTo
  <2>4. Found(ws, i + 1, k, t)
    BY <1>1, <2>1, <2>2, <2>3 DEF Found
  <2>5. Word(s, w) = t /\ k \in 0..i + 1
    BY <1>3, <1>5 DEF t
  <2> QED
    BY <2>4, <2>5
<1> QED
  BY <1>4, <1>5

LEMMA LineFound ==
  ASSUME NEW a \in Seq(Words), NEW ws \in Seq(Words), \A i \in 2..Len(ws) : ws[i] # HelpWord
  PROVE  \E k \in 0..Len(ws) : Found(ws, Len(ws), k, AfterWords(a, ws, Len(ws))[Len(ws)])
<1> DEFINE size == Len(ws)
           t == AfterWords(a, ws, size)
           S == {i \in 0..size : t[i] \in Searches /\ \E k \in 0..i : Found(ws, i, k, t[i])}
<1>1. size \in Nat /\ t[0] = NoWordYet(a) /\ \A i \in 1..size : t[i] = Word(t[i - 1], ws[i])
  BY WordRounds
<1> HIDE DEF t
<1>2. 0 \in S
  <2>1. t[0] = [parent |-> <<>>, lost |-> FALSE, level |-> 0, active |-> a, handlerLevel |-> 0, help |-> <<>>, helped |-> FALSE]
    BY <1>1 DEF NoWordYet, NoCommand
  <2>2. t[0] \in Searches
    BY <2>1 DEF Searches
  <2>3. Path(ws, 0) = <<>>
    BY DEF Path
  <2>4. NamesUpTo(ws, 0) /\ DeepestUpTo(ws, 0, t[0])
    BY DEF NamesUpTo, DeepestUpTo
  <2>5. Found(ws, 0, 0, t[0])
    BY <2>1, <2>3, <2>4 DEF Found
  <2> QED
    BY <1>1, <2>2, <2>5
<1>3. ASSUME NEW i \in S, i < size PROVE i + 1 \in S
  <2>1. i \in Nat /\ i + 1 \in 1..size /\ (i + 1) - 1 = i /\ i + 1 \in 0..size /\ t[i] \in Searches
    BY <1>1, <1>3
  <2>2. PICK k \in 0..i : Found(ws, i, k, t[i])
    BY <1>3
  <2>3. t[i + 1] = Word(t[i], ws[i + 1]) /\ ws[i + 1] \in Words
    BY <1>1, <2>1
  <2>4. i >= 1 => ws[i + 1] # HelpWord
    BY <2>1
  <2>5. \E m \in 0..i + 1 : Found(ws, i + 1, m, t[i + 1])
    BY <1>3, <2>1, <2>2, <2>3, <2>4, FoundNext
  <2>6. t[i + 1] \in Searches
    BY <2>1, <2>3, WordTypes
  <2> QED
    BY <2>1, <2>5, <2>6
<1>4. S \in SUBSET Nat
  BY <1>1
<1>5. size \in S
  <2> HIDE DEF S, size
  <2> QED
    BY <1>1, <1>2, <1>3, <1>4, Below
<1> QED
  BY <1>5 DEF t

\* Every step that enters a line calls what it names.
LEMMA EnterCalls ==
  ASSUME ShellTypeOK, Enter, line' \in Seq(Words)
  PROVE  DeepestIsCalled'
<1> DEFINE ws == line'
           size == Len(ws)
           s == Looked(ws, open')
<1> SUFFICES ASSUME Len(ws) <= ArgcMax, ~open', \A i \in 2..Len(ws) : ws[i] # HelpWord, NEW k \in 1..Len(ws),
                    Path(ws, k) \in Tree, Path(ws, k) \in Handlers,
                    \A j \in 1..Len(ws) : Path(ws, j) \in Tree /\ Path(ws, j) \in Handlers => j <= k
             PROVE  called' = IF Accepts(Path(ws, k), SubSeq(ws, k, Len(ws)))
                              THEN [handler |-> Path(ws, k), argv |-> SubSeq(ws, k, Len(ws))] ELSE NoCall
  BY DEF DeepestIsCalled, Calls, Named, PathsIn, Path
<1>1. size \in Nat /\ ArgcMax \in Nat /\ active \in Seq(Words)
  <2>1. Tree \subseteq Seq(Words) /\ ArgcMax \in Nat
    BY ShellAssumption
  <2>2. active \in Tree \/ active = <<>>
    BY DEF ShellTypeOK, NoCommand
  <2>3. <<>> \in Seq(Words)
    OBVIOUS
  <2>4. size \in Nat
    OBVIOUS
  <2>5. active \in Seq(Words)
    BY <2>1, <2>2, <2>3
  <2> QED
    BY <2>1, <2>4, <2>5
<1>2. s = AfterWords(active, ws, size)[size]
  BY <1>1 DEF Looked, LookedAt
<1>3. PICK m \in 0..size : Found(ws, size, m, s)
  BY <1>1, <1>2, LineFound
<1> HIDE DEF s
<1>4. k <= m
  <2>1. ASSUME m < k PROVE FALSE
    <3>1. s.lost /\ Path(ws, m + 1) \notin Tree
      BY <1>1, <1>3, <2>1 DEF Found
    <3>2. Path(Path(ws, k), m + 1) \in Tree
      <4>1. Len(Path(ws, k)) = k /\ m + 1 \in 1..k
        BY <1>1, <2>1 DEF Path
      <4> QED
        BY <4>1, ShellAssumption DEF Path
    <3>3. Path(Path(ws, k), m + 1) = Path(ws, m + 1)
      <4>1. /\ Path(ws, k) \in Seq(Words) /\ Len(Path(ws, k)) = k /\ \A j \in 1..k : Path(ws, k)[j] = ws[j]
        BY DEF Path
      <4>2. /\ Path(ws, m + 1) \in Seq(Words) /\ Len(Path(ws, m + 1)) = m + 1 /\ \A j \in 1..(m + 1) : Path(ws, m + 1)[j] = ws[j]
        BY <1>1, <2>1 DEF Path
      <4> DEFINE p == Path(ws, k)
      <4> HIDE DEF p
      <4>3. /\ Path(p, m + 1) \in Seq(Words) /\ Len(Path(p, m + 1)) = m + 1 /\ \A j \in 1..(m + 1) : Path(p, m + 1)[j] = p[j]
        BY <1>1, <2>1, <4>1 DEF Path, p
      <4>4. \A j \in 1..(m + 1) : Path(p, m + 1)[j] = ws[j]
        BY <2>1, <4>1, <4>3 DEF p
      <4>5. Path(p, m + 1) = Path(ws, m + 1)
        BY <4>2, <4>3, <4>4, SeqEqual
      <4> QED
        BY <4>5 DEF p
    <3> QED
      BY <3>1, <3>2, <3>3
  <2> QED
    BY <1>1, <2>1
<1>5. \A o \in 1..m : Path(ws, o) \in Handlers => o <= k
  BY <1>1, <1>3 DEF Found, NamesUpTo
<1>6. s.active = Path(ws, k) /\ s.handlerLevel = k - 1 /\ s.level = size /\ ~s.helped
  BY <1>3, <1>4, <1>5 DEF Found, DeepestUpTo
<1>7. ~(GivenUp(s, ws) \/ open')
  BY <1>1, <1>6 DEF GivenUp
<1>8. Execute(s, ws)
  BY <1>7 DEF Enter, s
<1>9. SubSeq(ws, s.handlerLevel + 1, s.level) = SubSeq(ws, k, size)
  BY <1>6
<1>10. called' = IF Accepts(s.active, SubSeq(ws, k, size)) THEN [handler |-> s.active, argv |-> SubSeq(ws, k, size)] ELSE NoCall
  BY <1>6, <1>8, <1>9 DEF Execute
<1> QED
  BY <1>6, <1>10


\* What the context keeps is a command.
Commands == Tree \cup {NoCommand}

LEMMA WordKeeps ==
  ASSUME NEW s \in Searches, s.active \in Commands, s.help \in Commands, s.handlerLevel <= s.level, NEW w \in Words
  PROVE  LET t == Word(s, w) IN
         /\ t.active \in Commands /\ t.help \in Commands /\ t.handlerLevel <= t.level /\ t.level <= s.level + 1
<1> DEFINE path == Append(s.parent, w)
           t == Word(s, w)
<1>1. Handlers \subseteq Tree
  BY ShellAssumption
<1>2. s.level \in Nat /\ s.handlerLevel \in Nat
  BY DEF Searches
<1>3. CASE s.helped
  BY <1>2, <1>3 DEF Word
<1>4. CASE ~s.helped /\ s.level > 0 /\ w = HelpWord /\ s.help # NoCommand
  <2>1. t = [s EXCEPT !.helped = TRUE, !.active = s.help]
    BY <1>4 DEF Word
  <2>2. t.active = s.help /\ t.help = s.help /\ t.handlerLevel = s.handlerLevel /\ t.level = s.level
    BY <2>1 DEF Searches
  <2> QED
    BY <1>2, <2>2
<1>5. CASE ~s.helped /\ ~(s.level > 0 /\ w = HelpWord /\ s.help # NoCommand) /\ Search(s, w)
  <2>1. t = Prepared(s, path) /\ path \in Tree
    BY <1>5 DEF Word, Search
  <2> HIDE DEF path, t
  <2>2. /\ t.active = (IF path \in Handlers THEN path ELSE s.active) /\ t.level = s.level + 1
        /\ t.handlerLevel = (IF path \in Handlers THEN s.level ELSE s.handlerLevel)
        /\ t.help = (IF path \in Helped THEN path ELSE s.help)
    BY <2>1 DEF Prepared, Searches
  <2>3. /\ t.active \in Commands /\ t.help \in Commands /\ t.handlerLevel <= t.level /\ t.level <= s.level + 1
    BY <1>1, <1>2, <2>1, <2>2 DEF Commands
  <2> QED
    BY <2>3 DEF t
<1>6. CASE ~s.helped /\ ~(s.level > 0 /\ w = HelpWord /\ s.help # NoCommand) /\ ~Search(s, w)
  <2>1. t = [s EXCEPT !.lost = TRUE, !.level = @ + 1]
    BY <1>6 DEF Word
  <2>2. t.active = s.active /\ t.help = s.help /\ t.handlerLevel = s.handlerLevel /\ t.level = s.level + 1
    BY <2>1 DEF Searches
  <2> QED
    BY <1>2, <2>2
<1> QED
  BY <1>3, <1>4, <1>5, <1>6

LEMMA LineKeeps ==
  ASSUME NEW a \in Commands, NEW ws \in Seq(Words), NEW size \in Nat, size <= Len(ws)
  PROVE  LET s == AfterWords(a, ws, size)[size] IN
         /\ s \in Searches /\ s.active \in Commands /\ s.help \in Commands
         /\ s.handlerLevel <= s.level /\ s.level <= size
<1> DEFINE t == AfterWords(a, ws, size)
           S == {i \in 0..size : /\ t[i] \in Searches /\ t[i].active \in Commands /\ t[i].help \in Commands
                              /\ t[i].handlerLevel <= t[i].level /\ t[i].level <= i}
<1>1. a \in Seq(Words)
  <2>1. Tree \subseteq Seq(Words) /\ <<>> \in Seq(Words)
    BY ShellAssumption
  <2> QED
    BY <2>1 DEF Commands, NoCommand
<1>2. t[0] = NoWordYet(a) /\ \A i \in 1..size : t[i] = Word(t[i - 1], ws[i])
  BY <1>1, WordRounds
<1> HIDE DEF t
<1>3. 0 \in S
  <2>1. t[0] = [parent |-> <<>>, lost |-> FALSE, level |-> 0, active |-> a, handlerLevel |-> 0, help |-> NoCommand, helped |-> FALSE]
    BY <1>2 DEF NoWordYet
  <2>2. t[0] \in Searches
    BY <1>1, <2>1 DEF Searches, NoCommand
  <2>3. t[0].active = a /\ t[0].help = NoCommand /\ t[0].handlerLevel = 0 /\ t[0].level = 0
    BY <2>1
  <2> QED
    BY <2>2, <2>3 DEF Commands
<1>4. ASSUME NEW i \in S, i < size PROVE i + 1 \in S
  <2>1. i \in Nat /\ i + 1 \in 1..size /\ (i + 1) - 1 = i /\ i + 1 \in 0..size
    BY <1>4
  <2>2. /\ t[i] \in Searches /\ t[i].active \in Commands /\ t[i].help \in Commands
        /\ t[i].handlerLevel <= t[i].level /\ t[i].level <= i
    BY <1>4
  <2>3. t[i + 1] = Word(t[i], ws[i + 1]) /\ ws[i + 1] \in Words
    BY <1>2, <2>1
  <2>4. t[i + 1] \in Searches
    BY <2>2, <2>3, WordTypes
  <2>5. /\ t[i + 1].active \in Commands /\ t[i + 1].help \in Commands /\ t[i + 1].handlerLevel <= t[i + 1].level
        /\ t[i + 1].level <= t[i].level + 1
    BY <2>2, <2>3, WordKeeps
  <2>6. t[i + 1].level <= i + 1
    <3>1. t[i].level \in Nat /\ t[i + 1].level \in Nat
      BY <2>2, <2>4 DEF Searches
    <3> QED
      BY <2>1, <2>2, <2>5, <3>1
  <2> QED
    BY <2>1, <2>4, <2>5, <2>6
<1>5. S \in SUBSET Nat
  OBVIOUS
<1>6. size \in S
  <2> HIDE DEF S
  <2> QED
    BY <1>3, <1>4, <1>5, Below
<1> QED
  BY <1>6 DEF t


LEMMA EnteredLine ==
  ASSUME Enter
  PROVE  line' \in Seq(Words) /\ line' # <<>>
<1>1. PICK size \in 1..ArgcMax + 1 : line' \in [1..size -> Words]
  BY DEF Enter
<1>2. size \in Nat /\ size >= 1
  BY ShellAssumption
<1>3. line' \in Seq(Words) /\ Len(line') = size
  BY <1>1, <1>2
<1> QED
  BY <1>2, <1>3

LEMMA EnterTypes ==
  ASSUME ShellTypeOK, Enter
  PROVE  ShellTypeOK'
<1> DEFINE ws == line'
           size == LookedAt(ws, open')
           s == Looked(ws, open')
<1>1. ws \in Seq(Words) /\ ws # <<>> /\ Len(ws) \in Nat /\ Len(ws) >= 1 /\ ArgcMax \in Nat
  BY EnteredLine, ShellAssumption
<1>2. size \in Nat /\ size <= Len(ws) /\ size <= ArgcMax
  BY <1>1 DEF LookedAt
<1>3. active \in Commands
  BY DEF ShellTypeOK, Commands
<1>4. s = AfterWords(active, ws, size)[size]
  BY DEF Looked
<1> HIDE DEF size
<1>5. /\ s \in Searches /\ s.active \in Commands /\ s.help \in Commands
      /\ s.handlerLevel <= s.level /\ s.level <= size
  BY <1>1, <1>2, <1>3, <1>4, LineKeeps
<1>6. open' \in BOOLEAN
  BY DEF Enter
<1>7. NoCall \in ShellCall
  <2>1. <<>> \in [1..0 -> Words] /\ 0 \in 0..ArgcMax
    BY <1>1
  <2>2. <<>> \in UNION {[1..k -> Words] : k \in 0..ArgcMax}
    BY <2>1
  <2> QED
    BY <2>2 DEF NoCall, ShellCall
<1> HIDE DEF s
<1>8. active' \in Commands /\ called' \in ShellCall
  <2>1. CASE GivenUp(s, ws) \/ open'
    <3>1. active' = s.active /\ called' = NoCall
      BY <2>1 DEF Enter, s
    <3> QED
      BY <1>5, <1>7, <3>1
  <2>2. CASE ~(GivenUp(s, ws) \/ open')
    <3> DEFINE argv == SubSeq(ws, s.handlerLevel + 1, s.level)
               len == s.level - s.handlerLevel
    <3>1. Execute(s, ws)
      BY <2>2 DEF Enter, s
    <3>2. s.level \in Nat /\ s.handlerLevel \in Nat
      BY <1>5 DEF Searches
    <3>3. len \in 0..ArgcMax
      BY <1>1, <1>2, <1>5, <3>2
    <3>4. argv \in [1..len -> Words]
      <4>1. \A j \in s.handlerLevel + 1..s.level : ws[j] \in Words
        BY <1>1, <1>2, <1>5, <3>2
      <4> DEFINE from == s.handlerLevel + 1
                 upto == s.level
      <4>2. from \in Nat /\ upto \in Nat /\ from >= 1 /\ upto <= Len(ws) /\ from <= upto + 1 /\ len = upto - from + 1
        BY <1>1, <1>2, <1>5, <3>2
      <4> HIDE DEF from, upto, len
      <4>3. SubSeq(ws, from, upto) \in Seq(Words) /\ Len(SubSeq(ws, from, upto)) = len
        BY <1>1, <4>2
      <4>4. SubSeq(ws, from, upto) \in [1..len -> Words]
        <5> DEFINE q == SubSeq(ws, from, upto)
        <5>1. q \in Seq(Words) /\ Len(q) = len
          BY <4>3
        <5> HIDE DEF q
        <5>2. q \in [1..len -> Words]
          BY <5>1
        <5> QED
          BY <5>2 DEF q
      <4> QED
        BY <4>4 DEF from, upto
    <3> HIDE DEF argv, len
    <3>5. argv \in UNION {[1..k -> Words] : k \in 0..ArgcMax}
      BY <3>3, <3>4
    <3>6. CASE s.active \in Handlers
      <4>1. /\ called' = IF Accepts(s.active, argv) THEN [handler |-> s.active, argv |-> argv] ELSE NoCall
            /\ active' = s.active
        BY <3>1, <3>6 DEF Execute, argv
      <4>2. [handler |-> s.active, argv |-> argv] \in ShellCall
        BY <1>5, <3>5 DEF ShellCall, Commands
      <4> QED
        BY <1>5, <1>7, <4>1, <4>2
    <3>7. CASE s.active \notin Handlers
      <4>1. called' = NoCall /\ active' \in {s.help, s.active}
        BY <3>1, <3>7 DEF Execute
      <4> QED
        BY <1>5, <1>7, <4>1
    <3> QED
      BY <3>6, <3>7
  <2> QED
    BY <2>1, <2>2
<1> QED
  BY <1>6, <1>8 DEF ShellTypeOK, Commands

ShellInv == ShellTypeOK /\ DeepestIsCalled

LEMMA ShellInit_Inv == ShellInit => ShellInv
<1> SUFFICES ASSUME ShellInit PROVE ShellInv
  OBVIOUS
<1>1. NoCall \in ShellCall
  <2>1. <<>> \in [1..0 -> Words] /\ 0 \in 0..ArgcMax
    BY ShellAssumption
  <2>2. <<>> \in UNION {[1..k -> Words] : k \in 0..ArgcMax}
    BY <2>1
  <2> QED
    BY <2>2 DEF NoCall, ShellCall
<1> QED
  BY <1>1 DEF ShellInit, ShellInv, ShellTypeOK, DeepestIsCalled

LEMMA ShellNext_Inv == ShellInv /\ [ShellNext]_shell => ShellInv'
<1> SUFFICES ASSUME ShellInv, [ShellNext]_shell PROVE ShellInv'
  OBVIOUS
<1>1. ShellTypeOK
  BY DEF ShellInv
<1>2. CASE Enter
  <2>1. line' \in Seq(Words)
    BY <1>2, EnteredLine
  <2> QED
    BY <1>1, <1>2, <2>1, EnterTypes, EnterCalls DEF ShellInv
<1>3. CASE Prompt
  <2>1. line' = <<>> /\ called' = NoCall /\ open' = FALSE /\ active' = active
    BY <1>3 DEF Prompt
  <2>2. NoCall \in ShellCall
    <3>1. <<>> \in [1..0 -> Words] /\ 0 \in 0..ArgcMax
      BY ShellAssumption
    <3>2. <<>> \in UNION {[1..k -> Words] : k \in 0..ArgcMax}
      BY <3>1
    <3> QED
      BY <3>2 DEF NoCall, ShellCall
  <2> QED
    BY <1>1, <2>1, <2>2 DEF ShellInv, ShellTypeOK, DeepestIsCalled
<1>4. CASE UNCHANGED shell
  BY <1>4 DEF shell, ShellInv, ShellTypeOK, DeepestIsCalled, Calls, Named, PathsIn
<1> QED
  BY <1>2, <1>3, <1>4 DEF ShellNext

LEMMA ShellsInv == ShellSpec => []ShellInv
<1> QED
  BY ShellInit_Inv, ShellNext_Inv, PTL DEF ShellSpec

\* A line that names a command calls the deepest one that it names, whatever
\* the context has kept of the line before.
THEOREM DeepestCalled == ShellSpec => []DeepestIsCalled
<1>1. ShellInv => DeepestIsCalled
  BY DEF ShellInv
<1> QED
  BY <1>1, ShellsInv, PTL

-----------------------------------------------------------------------------
(***************************************************************************)
(* The types, and the composition of MCDevices.                            *)
(***************************************************************************)
LEMMA IndicatorTypes == IndicatorSpec => []IndicatorTypeOK
<1>0. Levels \subseteq 0..100 /\ Wrap \in Nat /\ Wrap > 0
  BY IndicatorAssumption
<1>e. <<>> \in Seq({5, 10})
  OBVIOUS
<1>1. IndicatorInit => IndicatorTypeOK
  <2> SUFFICES ASSUME IndicatorInit PROVE IndicatorTypeOK
    OBVIOUS
  <2>1. {isOn, low5, low10, bankLow, bank} \subseteq BOOLEAN
    BY DEF IndicatorInit
  <2>2. now \in 0..Wrap - 1 /\ onTs \in 0..Wrap - 1 /\ shown \in 0..100 /\ status \in Statuses
    BY <1>0 DEF IndicatorInit, Statuses
  <2> QED
    BY <1>e, <2>1, <2>2 DEF IndicatorInit, IndicatorTypeOK
<1>2. IndicatorTypeOK /\ [IndicatorNext]_indicator => IndicatorTypeOK'
  <2> SUFFICES ASSUME IndicatorTypeOK, [IndicatorNext]_indicator PROVE IndicatorTypeOK'
    OBVIOUS
  <2>1. CASE Tick
    <3>1. (now + 1) % Wrap \in 0..Wrap - 1
      BY <1>0 DEF IndicatorTypeOK
    <3> QED
      BY <2>1, <3>1 DEF Tick, IndicatorTypeOK
  <2>2. CASE PowerOn
    <3>1. {isOn', low5', low10', bankLow', bank'} \subseteq BOOLEAN
      BY <2>2 DEF PowerOn, Clear, IndicatorTypeOK
    <3> QED
      BY <1>e, <2>2, <3>1 DEF PowerOn, Clear, IndicatorTypeOK
  <2>3. CASE PowerOff
    BY <2>3 DEF PowerOff, IndicatorTypeOK
  <2>4. CASE CheckBank
    <3>1. bankLow' \in BOOLEAN
      <4>1. shown \in 0..100
        BY DEF IndicatorTypeOK
      <4>2. CASE bankLow
        <5>1. bankLow' = (shown < 40)
          BY <2>4, <4>2 DEF CheckBank
        <5> QED
          BY <4>1, <5>1
      <4>3. CASE ~bankLow
        <5>1. bankLow' = (shown <= 20)
          BY <2>4, <4>3 DEF CheckBank
        <5> QED
          BY <4>1, <5>1
      <4> QED
        BY <4>2, <4>3
    <3>2. bank' \in BOOLEAN
      BY <2>4 DEF CheckBank
    <3> QED
      BY <2>4, <3>1, <3>2 DEF CheckBank, IndicatorTypeOK
  <2>5. ASSUME NEW l \in Levels, NewLevel(l) PROVE IndicatorTypeOK'
    <3>1. low5' \in BOOLEAN /\ low10' \in BOOLEAN
      BY <2>5 DEF NewLevel, Indicate
    <3>2. onTs' \in 0..Wrap - 1
      BY <1>0, <2>5 DEF NewLevel, Indicate, IndicatorTypeOK
    <3>3. said' \in Seq({5, 10})
      BY <2>5 DEF NewLevel, Indicate, IndicatorTypeOK
    <3> QED
      BY <1>0, <2>5, <3>1, <3>2, <3>3 DEF NewLevel, IndicatorTypeOK
  <2>6. ASSUME NEW s \in Statuses, NewStatus(s) PROVE IndicatorTypeOK'
    <3>1. low5' \in BOOLEAN /\ low10' \in BOOLEAN /\ said' \in Seq({5, 10})
      BY <1>e, <2>6 DEF NewStatus, Clear, IndicatorTypeOK
    <3> QED
      BY <2>6, <3>1 DEF NewStatus, IndicatorTypeOK
  <2>7. CASE UNCHANGED indicator
    BY <2>7 DEF indicator, IndicatorTypeOK
  <2> QED
    BY <2>1, <2>2, <2>3, <2>4, <2>5, <2>6, <2>7 DEF IndicatorNext
<1> QED
  BY <1>1, <1>2, PTL DEF IndicatorSpec

LEMMA IdleTypes == IdleSpec => []IdleTypeOK
<1> DEFINE T == {"activity", "timer", "enabled"} \X (0..Longest)
<1>0. Longest \in Nat /\ Longest > 0 /\ SystemQueue \in Nat /\ SystemQueue > 0
  BY IdleAssumption
<1>a. ASSUME NEW a \in Ages PROVE Aged(a) \in Ages
  BY <1>0, <1>a DEF Ages, Aged
<1>b. 0 \in Ages /\ Aged(Never) = Never /\ Longest + 1 \in Ages /\ 0 \in 0..Longest /\ Longest \in 0..Longest
  BY <1>0 DEF Ages, Aged, Never
<1>1. IdleInit => IdleTypeOK
  <2>1. <<>> \in Seq(T) /\ Len(<<>>) = 0
    OBVIOUS
  <2> SUFFICES ASSUME IdleInit PROVE IdleTypeOK
    OBVIOUS
  <2>2. box \in Seq(T) /\ Len(box) <= SystemQueue
    BY <1>0, <2>1 DEF IdleInit
  <2>3. {playing, inDfu, offEnabled, sawStream, offBy} \subseteq BOOLEAN /\ state \in {"off", "on", "other"}
    BY DEF IdleInit
  <2>4. {activityAge, sincePress, sinceStream} \subseteq Ages /\ streamAge \in Ages \cup {Never} /\ offTimer \in 0..Longest
    BY <1>b DEF IdleInit
  <2> QED
    BY <2>2, <2>3, <2>4 DEF IdleTypeOK
<1>2. IdleTypeOK /\ [IdleNext]_idle => IdleTypeOK'
  <2> SUFFICES ASSUME IdleTypeOK, [IdleNext]_idle PROVE IdleTypeOK'
    OBVIOUS
  <2>0. box \in Seq(T) /\ Len(box) \in Nat /\ Len(box) <= SystemQueue
    BY DEF IdleTypeOK
  <2>1. CASE Check
    BY <1>b, <2>1 DEF Check, StreamAge, IdleTypeOK
  <2>2. CASE Message
    <3>1. box' \in Seq(T) /\ Len(box') <= SystemQueue
      BY <1>0, <2>0, <2>2 DEF Message
    <3>2. Head(box) \in T
      BY <2>0, <2>2 DEF Message
    <3>3. offTimer' \in 0..Longest /\ activityAge' \in Ages /\ offEnabled' \in BOOLEAN
      BY <1>b, <2>2, <3>2 DEF Message, UserActivity, ActivityAge, OffTimer, EnableTimer, IdleTypeOK
    <3> QED
      BY <2>2, <3>1, <3>3 DEF Message, IdleTypeOK
  <2>3. CASE SwitchPower
    BY <2>3 DEF SwitchPower, IdleTypeOK
  <2>4. CASE PressButton \/ StreamState
    <3>1. <<"activity", 0>> \in T
      BY <1>b
    <3>2. box' = box \o << <<"activity", 0>> >> /\ Len(box') <= SystemQueue
      BY <2>4 DEF PressButton, StreamState, Mail
    <3>3. box' \in Seq(T)
      <4> HIDE DEF T
      <4> QED
        BY <2>0, <3>1, <3>2
    <3> QED
      BY <1>b, <2>4, <3>2, <3>3 DEF PressButton, StreamState, IdleTypeOK
  <2>5. CASE SetOffTimer
    <3>1. PICK on \in {0, 1}, t \in 0..Longest : Mail(<< <<"enabled", on>>, <<"timer", t>> >>)
      BY <2>5 DEF SetOffTimer
    <3>2. <<"enabled", on>> \in T /\ <<"timer", t>> \in T
      BY <1>0
    <3>3. box' = box \o << <<"enabled", on>>, <<"timer", t>> >> /\ Len(box') <= SystemQueue
      BY <3>1 DEF Mail
    <3>4. box' \in Seq(T)
      <4> HIDE DEF T
      <4> QED
        BY <2>0, <3>2, <3>3
    <3> QED
      BY <2>5, <3>3, <3>4 DEF SetOffTimer, IdleTypeOK
  <2>6. CASE SwitchDfu
    BY <2>6 DEF SwitchDfu, IdleTypeOK
  <2>7. CASE Grow
    BY <1>a, <1>b, <2>7 DEF Grow, IdleTypeOK
  <2>8. CASE UNCHANGED idle
    BY <2>8 DEF idle, IdleTypeOK
  <2> QED
    BY <2>1, <2>2, <2>3, <2>4, <2>5, <2>6, <2>7, <2>8 DEF IdleNext
<1> QED
  BY <1>1, <1>2, PTL DEF IdleSpec

\* In the composition each component does what its own specification allows:
\* what is proved of a component alone holds in MCDevices.
LEMMA EachAlone ==
  MCSpec => IndicatorSpec /\ AmpSpec /\ InputSpec /\ IdleSpec /\ ShellSpec /\ Spec
<1>1. MCInit => IndicatorInit /\ AmpInit /\ InputInit /\ IdleInit /\ ShellInit /\ Init
  BY DEF MCInit
<1>2. [MCNext]_MCVars => [IndicatorNext]_indicator
  BY DEF MCNext, MCVars
<1>3. [MCNext]_MCVars => [AmpNext]_ampVars
  BY DEF MCNext, MCVars
<1>4. [MCNext]_MCVars => [InputNext]_inputs
  BY DEF MCNext, MCVars
<1>5. [MCNext]_MCVars => [IdleNext]_idle
  BY DEF MCNext, MCVars
<1>6. [MCNext]_MCVars => [ShellNext]_shell
  BY DEF MCNext, MCVars
<1>7. [MCNext]_MCVars => [Next]_vars
  BY DEF MCNext, MCVars
<1> QED
  BY <1>1, <1>2, <1>3, <1>4, <1>5, <1>6, <1>7, PTL
     DEF MCSpec, IndicatorSpec, AmpSpec, InputSpec, IdleSpec, ShellSpec, Spec

(* Every component of MCDevices keeps its types, for every table, every set  *)
(* of chords, every set of requests and every tree of commands.              *)
THEOREM DevicesTypes == MCSpec => []DevicesTypeOK
<1>1. AmpInv => AmpTypeOK
  BY DEF AmpInv
<1>2. InputInv => InputTypeOK
  BY DEF InputInv
<1>3. ShellInv => ShellTypeOK
  BY DEF ShellInv
<1>4. IndicatorTypeOK /\ AmpTypeOK /\ InputTypeOK /\ IdleTypeOK /\ ShellTypeOK /\ TypeOK => DevicesTypeOK
  BY DEF DevicesTypeOK
<1> QED
  BY <1>1, <1>2, <1>3, <1>4, EachAlone, IndicatorTypes, AmpInvariance, InputsInv, IdleTypes, ShellsInv,
     EepromTypeCorrect, PTL

=============================================================================
