------------------------------- MODULE IdleTimer -------------------------------
(***************************************************************************)
(* The power off timer of the System task (check_idle_timeout in           *)
(* tasks/system/task_system.cpp) with the messages and the notification    *)
(* that keep the speaker awake.  The check runs in the idle callback, so   *)
(* only while the queue is empty; all times are ages, in units of which    *)
(* the longest OffTimer has Longest.                                       *)
(***************************************************************************)
EXTENDS Integers, Sequences

CONSTANTS
    Longest,   \* bound: values of OffTimer are 0 to Longest
    SystemQueue  \* QUEUE_SIZE of the System task

ASSUME IdleAssumption == {Longest, SystemQueue} \subseteq Nat \ {0}

VARIABLES
    state,       \* PowerState: "other" while the power sequence keeps the task busy
    box,         \* the queue of the System task
    playing,     \* StreamingActive
    inDfu,       \* Status is DfuMode
    offTimer, offEnabled,
    activityAge, \* board_get_ms_since(last_activity_timestamp)
    streamAge,   \* the same of stream_inactive_timestamp; Never stands for 0
    sincePress, sinceStream, \* history: since the last press; since a stream was on
    sawStream,   \* history: a check has seen the stream that is on
    offBy        \* history: the timer has switched off in this step

idle == <<state, box, playing, inDfu, offTimer, offEnabled, activityAge, streamAge, sincePress, sinceStream, sawStream, offBy>>

Never == -1
Ages == 0..Longest + 1
Aged(a) == IF a \in 0..Longest THEN a + 1 ELSE a

IdleTypeOK ==
    /\ state \in {"off", "on", "other"}
    /\ box \in Seq({"activity", "timer", "enabled"} \X (0..Longest)) /\ Len(box) <= SystemQueue
    /\ offTimer \in 0..Longest /\ {playing, inDfu, offEnabled, sawStream, offBy} \subseteq BOOLEAN
    /\ {activityAge, sincePress, sinceStream} \subseteq Ages /\ streamAge \in Ages \cup {Never}

IdleInit ==
    /\ state = "other" /\ box = <<>> /\ playing = FALSE /\ inDfu = FALSE
    /\ offTimer = Longest /\ offEnabled = TRUE
    /\ activityAge = 0 /\ streamAge = Never /\ sincePress = Longest + 1 /\ sinceStream = Longest + 1
    /\ sawStream = FALSE /\ offBy = FALSE

\* A post from another task. Bound: there is room within its 100 ticks.
Mail(ms) == Len(box \o ms) <= SystemQueue /\ box' = box \o ms
-----------------------------------------------------------------------------
\* stream_inactive_timestamp after the first part of the check.
StreamAge == IF playing THEN Never ELSE IF inDfu \/ streamAge = Never THEN 0 ELSE streamAge

Expired(a) == a > offTimer

\* check_idle_timeout
Check ==
    /\ state # "other" /\ box = <<>>
    /\ streamAge' = StreamAge
    /\ offBy' = (state = "on" /\ ~playing /\ offEnabled /\ Expired(activityAge) /\ Expired(StreamAge))
    /\ state' = IF offBy' THEN "other" ELSE state
    /\ sawStream' = (sawStream \/ playing)
    /\ UNCHANGED <<box, playing, inDfu, offTimer, offEnabled, activityAge, sincePress, sinceStream>>

\* Mutant: activity counts while the speaker is on only.
AgeWhileOn == IF state = "on" THEN 0 ELSE activityAge
ActivityAge == 0
UserActivity == Head(box)[1] = "activity" /\ activityAge' = ActivityAge /\ UNCHANGED <<offTimer, offEnabled>>
OffTimer     == Head(box)[1] = "timer" /\ offTimer' = Head(box)[2] /\ UNCHANGED <<activityAge, offEnabled>>
EnableTimer  == Head(box)[1] = "enabled" /\ offEnabled' = (Head(box)[2] = 1) /\ UNCHANGED <<activityAge, offTimer>>

Message ==
    /\ state # "other" /\ box # <<>> /\ box' = Tail(box) /\ offBy' = FALSE
    /\ (UserActivity \/ OffTimer \/ EnableTimer)
    /\ UNCHANGED <<state, playing, inDfu, streamAge, sincePress, sinceStream, sawStream>>

\* Any other power transition; that of the shell forgets the stream.
SwitchPower ==
    /\ offBy' = FALSE
    /\ \/ state # "other" /\ state' = "other" /\ streamAge' \in {streamAge, Never}
       \/ state = "other" /\ state' \in {"off", "on"} /\ UNCHANGED streamAge
    /\ UNCHANGED <<box, playing, inDfu, offTimer, offEnabled, activityAge, sincePress, sinceStream, sawStream>>
-----------------------------------------------------------------------------
(* What wakes it.                                                          *)

\* Any raw press, in the Audio task.
PressButton ==
    /\ Mail(<< <<"activity", 0>> >>)
    /\ sincePress' = 0 /\ offBy' = FALSE
    /\ UNCHANGED <<state, playing, inDfu, offTimer, offEnabled, activityAge, streamAge, sinceStream, sawStream>>

\* on_notify_stream_state. A stream lasts until a check has seen it, while there
\* are checks.
StreamState ==
    /\ playing => sawStream \/ state = "other"
    /\ playing' = ~playing /\ Mail(<< <<"activity", 0>> >>)
    /\ sinceStream' = IF playing THEN 0 ELSE sinceStream
    /\ sawStream' = FALSE /\ offBy' = FALSE
    /\ UNCHANGED <<state, inDfu, offTimer, offEnabled, activityAge, streamAge, sincePress>>

\* on_request_set_off_timer
SetOffTimer ==
    /\ \E on \in {0, 1}, t \in 0..Longest : Mail(<< <<"enabled", on>>, <<"timer", t>> >>)
    /\ offBy' = FALSE
    /\ UNCHANGED <<state, playing, inDfu, offTimer, offEnabled, activityAge, streamAge, sincePress, sinceStream, sawStream>>

SwitchDfu ==
    /\ inDfu' = ~inDfu /\ offBy' = FALSE
    /\ UNCHANGED <<state, box, playing, offTimer, offEnabled, activityAge, streamAge, sincePress, sinceStream, sawStream>>

Grow ==
    /\ box = <<>> \/ state = "other"
    /\ activityAge' = Aged(activityAge) /\ streamAge' = Aged(streamAge)
    /\ sincePress' = Aged(sincePress) /\ sinceStream' = Aged(sinceStream)
    /\ offBy' = FALSE
    /\ UNCHANGED <<state, box, playing, inDfu, offTimer, offEnabled, sawStream>>

IdleNext == Check \/ Message \/ SwitchPower \/ PressButton \/ StreamState \/ SetOffTimer \/ SwitchDfu \/ Grow
IdleSpec == IdleInit /\ [][IdleNext]_idle
-----------------------------------------------------------------------------
(* The timer switches the speaker off only when nothing was played and no   *)
(* button was pressed for as long as it says: the two time stamps are       *)
(* written by a message and by a poll, the value of the timer changes under *)
(* them, and all outlive a power off.                                       *)
OffOnlyWhenIdle == offBy => ~playing /\ sinceStream > offTimer /\ sincePress > offTimer
=============================================================================
