----------------------------- MODULE ActionsLink -----------------------------
(***************************************************************************)
(* The transport of the Actions link between the Bluetooth task and the    *)
(* Bluetooth module: actionslink_bt_ul.c on top of the frames of           *)
(* actionslink_bt_ll.c.  The task makes a call, which is a request that    *)
(* wants an acknowledgement and a response, or an event that wants an      *)
(* acknowledgement only; it waits for 300 ms, and tries twice.  Between    *)
(* two calls it ticks the link and answers what the module asks.           *)
(*                                                                         *)
(* A step of the task is one call of actionslink_bt_ul_tx or of            *)
(* actionslink_bt_ul_rx.  A frame that arrives damaged is Noise.  The      *)
(* module is external: it acknowledges what it gets, as bt_ll does on this *)
(* side, and answers requests in their order, some time later.             *)
(***************************************************************************)
EXTENDS Naturals, Sequences

CONSTANTS Tags,        \* which_Request, which_Event
          NoTag,       \* what they are before the first call
          IdCount,     \* how many transaction ids there are (256, a uint8_t)
          MaxCalls,    \* bound: calls of the task
          MaxUnasked,  \* bound: events and requests of the module
          MaxNoise,    \* bound: frames damaged or lost
          Faults       \* which of the faults may happen

(***************************************************************************)
(* noise: a frame is damaged or lost (bsp_bluetooth_uart.c drops bytes     *)
(* when its 128 are full).  nack: the module refuses a damaged frame the   *)
(* way send_nack does.  A module that takes longer than 300 ms is not a    *)
(* fault: it always may.                                                   *)
(***************************************************************************)
Fault == {"noise", "nack"}

ASSUME LinkAssumption ==
    /\ IdCount \in Nat \ {0}
    /\ MaxCalls \in Nat
    /\ MaxUnasked \in Nat
    /\ MaxNoise \in Nat
    /\ Faults \subseteq Fault

VARIABLES
    task,        \* the Bluetooth task: "free", or in actionslink_bt_ul_tx_rx
    state,       \* m_bt_ul.state between two steps
    message,     \* m_message: tag, transaction_id, expect_response
    retries,     \* m_bt_ul.tx_retries
    nextId,      \* m_bt_ul.next_tx_transaction_id
    call,        \* the call the task makes or made last
    reply,       \* the call whose response the task took last
    toModule,    \* frames on their way to the module
    toMcu,       \* frames on their way to the task
    work,        \* requests the module has taken and not answered
    handled,     \* history: the last request of the module that was answered
    outcome,     \* history: what became of each call
    deliveries,  \* history: how often the module got each call
    retried,     \* history: an attempt has failed since the start
    unasked,     \* bound: how much the module has said unasked
    noise        \* bound: how many frames were damaged or lost

taskVars == <<task, state, message, retries, nextId, call, reply, handled,
              outcome, retried>>
vars == <<task, state, message, retries, nextId, call, reply, toModule, toMcu,
          work, handled, outcome, deliveries, retried, unasked, noise>>

MaxRetries == 2   \* MAX_NUMBER_OF_TX_RETRIES
Kinds      == {"request", "event"}
Calls      == 1 .. MaxCalls
Ids        == 0 .. IdCount - 1

(***************************************************************************)
(* Frames.  A message of the task carries its kind, its tag, the call it   *)
(* is made for (as seq) and a transaction id.  What the module says        *)
(* carries no id here: the task acknowledges it and does not look at it.   *)
(***************************************************************************)
Message(kind, tag, number, id) ==
    [type |-> "message", kind |-> kind, tag |-> tag, seq |-> number, id |-> id]
Answer(seq, id)    == [type |-> "answer", seq |-> seq, id |-> id]
Ack(id)            == [type |-> "ack", id |-> id]
Response(tag, seq) == [type |-> "response", tag |-> tag, seq |-> seq]
Event              == [type |-> "event"]
Request(seq)       == [type |-> "request", seq |-> seq]
Noise              == [type |-> "noise"]
Confirmation       == [type |-> "confirmation"]

(***************************************************************************)
(* send_nack: an acknowledgement of transaction 0.  Its reason is in the   *)
(* value of the packet, which nobody reads.                                *)
(***************************************************************************)
Nack == Ack(0)

Messages  == {Message(k, t, n, i) : k \in Kinds, t \in Tags, n \in Calls, i \in Ids}
Answers   == {Answer(s, i) : s \in 1 .. MaxUnasked, i \in Ids}
ToModule  == Messages \cup Answers \cup {Confirmation, Noise}
Responses == {Response(t, n) : t \in Tags, n \in Calls}
ToMcu     == {Ack(i) : i \in Ids} \cup Responses
                \cup {Request(s) : s \in 1 .. MaxUnasked} \cup {Event, Noise}

Init ==
    /\ task = "free"
    /\ state = "IDLE"
    /\ message = [tag |-> NoTag, id |-> 0, expect |-> FALSE]
    /\ retries = 0
    /\ nextId = 0
    /\ call = [kind |-> "event", tag |-> NoTag, number |-> 0]
    /\ reply = 0
    /\ toModule = <<>>
    /\ toMcu = <<>>
    /\ work = <<>>
    /\ handled = 0
    /\ outcome = [n \in Calls |-> "none"]
    /\ deliveries = [n \in Calls |-> 0]
    /\ retried = FALSE
    /\ unasked = 0
    /\ noise = 0

-----------------------------------------------------------------------------
(***************************************************************************)
(* The task makes a call.                                                  *)
(***************************************************************************)
Call(kind, tag) ==
    /\ task = "free"
    /\ call.number < MaxCalls
    /\ task' = "sending"
    /\ call' = [kind |-> kind, tag |-> tag, number |-> call.number + 1]
    /\ retries' = 0
    /\ reply' = 0
    /\ outcome' = [outcome EXCEPT ![call.number + 1] = "open"]
    /\ UNCHANGED <<state, message, nextId, toModule, toMcu, work, handled,
                   deliveries, retried, unasked, noise>>

(***************************************************************************)
(* actionslink_bt_ul_tx: what it remembers of the message it sends.  The   *)
(* caller's state must be IDLE, or the transport is busy; BusyOnlyWaiting  *)
(* shows that it is.  (Mutant: no message expects a response.)             *)
(***************************************************************************)
SendsExpectingNothing(tag, expect) ==
    /\ state = "IDLE"
    /\ message' = [tag |-> tag, id |-> nextId, expect |-> FALSE]
    /\ nextId' = (nextId + 1) % IdCount

Sends(tag, expect) ==
    /\ state = "IDLE"
    /\ message' = [tag |-> tag, id |-> nextId, expect |-> expect]
    /\ nextId' = (nextId + 1) % IdCount

Transmit ==
    /\ task = "sending"
    /\ Sends(call.tag, call.kind = "request")
    /\ task' = "waiting"
    /\ state' = "ACK"
    /\ toModule' = Append(toModule, Message(call.kind, call.tag, call.number, nextId))
    /\ UNCHANGED <<retries, call, reply, toMcu, work, handled, outcome,
                   deliveries, retried, unasked, noise>>

(***************************************************************************)
(* How an attempt ends in actionslink_bt_ul_tx_rx: the call returns 0, or  *)
(* it is tried again, or it returns -1.  (Mutant of Failed: one attempt    *)
(* too many.)                                                              *)
(***************************************************************************)
Confirmed ==
    /\ task' = "free"
    /\ state' = "IDLE"
    /\ outcome' = [outcome EXCEPT ![call.number] = "confirmed"]
    /\ UNCHANGED <<retries, retried>>

FailedOnceMore ==
    /\ state' = "IDLE"
    /\ retried' = TRUE
    /\ retries' = retries + 1
    /\ IF retries < MaxRetries
       THEN task' = "sending" /\ UNCHANGED outcome
       ELSE /\ task' = "free"
            /\ outcome' = [outcome EXCEPT ![call.number] = "failed"]

Failed ==
    /\ state' = "IDLE"
    /\ retried' = TRUE
    /\ retries' = retries + 1
    /\ IF retries + 1 < MaxRetries
       THEN task' = "sending" /\ UNCHANGED outcome
       ELSE /\ task' = "free"
            /\ outcome' = [outcome EXCEPT ![call.number] = "failed"]

Goes(next) == state' = next /\ UNCHANGED <<task, retries, outcome, retried>>

(***************************************************************************)
(* actionslink_bt_ul_rx with a frame that is there.  bt_ll acknowledges    *)
(* everything but acknowledgements before it is looked at.                 *)
(***************************************************************************)
Takes(types) ==
    /\ task # "sending"
    /\ toMcu # <<>>
    /\ Head(toMcu).type \in types
    /\ toMcu' = Tail(toMcu)
    /\ UNCHANGED <<call, work, deliveries, unasked, noise>>

\* (Mutant of AckMatches: the transaction id is not looked at.)
AckMatchesAny == state = "ACK"

AckMatches == state = "ACK" /\ Head(toMcu).id = message.id

TakeAck ==
    /\ Takes({"ack"})
    /\ \/ AckMatches /\ message.expect /\ Goes("RESPONSE")
       \/ AckMatches /\ ~message.expect /\ Confirmed
       \/ ~AckMatches /\ Goes(state)
    /\ UNCHANGED <<message, nextId, reply, toModule, handled>>

ResponseMatches == state = "RESPONSE" /\ Head(toMcu).tag = message.tag

TakeResponse ==
    /\ Takes({"response"})
    /\ \/ ResponseMatches /\ Confirmed /\ reply' = Head(toMcu).seq
       \/ ~ResponseMatches /\ Goes(state) /\ UNCHANGED reply
    /\ toModule' = Append(toModule, Confirmation)
    /\ UNCHANGED <<message, nextId, handled>>

(***************************************************************************)
(* An event is handed to its handler in every state; the handlers post     *)
(* messages and call nothing of the link.  A request is handed on only     *)
(* when no call is being made: with one it is acknowledged and dropped.    *)
(***************************************************************************)
TakeEvent ==
    /\ Takes({"event"})
    /\ Goes(state)
    /\ toModule' = Append(toModule, Confirmation)
    /\ UNCHANGED <<message, nextId, reply, handled>>

DropRequest ==
    /\ Takes({"request"})
    /\ state # "IDLE"
    /\ Goes(state)
    /\ toModule' = Append(toModule, Confirmation)
    /\ UNCHANGED <<message, nextId, reply, handled>>

(***************************************************************************)
(* The handler of a request sends its answer with actionslink_bt_ul_tx,    *)
(* which leaves the state at ACK; the IDLE that transport_state_idle       *)
(* returns takes its place.  (Mutant: it does not.)                        *)
(***************************************************************************)
AnswerLeavesBusy(tag) ==
    /\ Takes({"request"})
    /\ Sends(tag, FALSE)
    /\ Goes("ACK")
    /\ toModule' = toModule \o <<Confirmation, Answer(Head(toMcu).seq, nextId)>>
    /\ handled' = Head(toMcu).seq
    /\ UNCHANGED reply

AnswerRequest(tag) ==
    /\ Takes({"request"})
    /\ Sends(tag, FALSE)
    /\ Goes("IDLE")
    /\ toModule' = toModule \o <<Confirmation, Answer(Head(toMcu).seq, nextId)>>
    /\ handled' = Head(toMcu).seq
    /\ UNCHANGED reply

(***************************************************************************)
(* A damaged frame is refused, and ends the attempt that is being made.    *)
(***************************************************************************)
TakeNoise ==
    /\ Takes({"noise"})
    /\ \/ task = "waiting" /\ Failed
       \/ task = "free" /\ Goes("IDLE")
    /\ toModule' = Append(toModule, Confirmation)
    /\ UNCHANGED <<message, nextId, reply, handled>>

(***************************************************************************)
(* actionslink_bt_ul_rx with nothing received for 300 ms.  (Mutant: only   *)
(* the acknowledgement is waited for with a limit.)                        *)
(***************************************************************************)
TimeoutOfAck ==
    /\ task = "waiting"
    /\ state = "ACK"
    /\ toMcu = <<>>
    /\ Failed
    /\ UNCHANGED <<message, nextId, call, reply, toModule, toMcu, work, handled,
                   deliveries, unasked, noise>>

Timeout ==
    /\ task = "waiting"
    /\ state \in {"ACK", "RESPONSE"}
    /\ toMcu = <<>>
    /\ Failed
    /\ UNCHANGED <<message, nextId, call, reply, toModule, toMcu, work, handled,
                   deliveries, unasked, noise>>

Take ==
    \/ TakeAck
    \/ TakeResponse
    \/ TakeEvent
    \/ DropRequest
    \/ \E tag \in Tags : AnswerRequest(tag)
    \/ TakeNoise

Mcu == Transmit \/ Take \/ Timeout

-----------------------------------------------------------------------------
(***************************************************************************)
(* The module: what it does with the next frame, the answer to the oldest  *)
(* request, and what it says by itself.                                    *)
(***************************************************************************)
Replies(frame) ==
    CASE frame.type \in {"message", "answer"} -> <<Ack(frame.id)>>
      [] frame.type = "noise" /\ "nack" \in Faults -> <<Nack>>
      [] OTHER -> <<>>

ModuleTakes ==
    /\ toModule # <<>>
    /\ LET frame == Head(toModule) IN
       /\ toMcu' = toMcu \o Replies(frame)
       /\ IF frame.type = "message"
          THEN deliveries' = [deliveries EXCEPT ![frame.seq] = @ + 1]
          ELSE UNCHANGED deliveries
       /\ IF frame.type = "message" /\ frame.kind = "request"
          THEN work' = Append(work, Response(frame.tag, frame.seq))
          ELSE UNCHANGED work
    /\ toModule' = Tail(toModule)
    /\ UNCHANGED <<taskVars, unasked, noise>>

ModuleAnswers ==
    /\ work # <<>>
    /\ toMcu' = Append(toMcu, Head(work))
    /\ work' = Tail(work)
    /\ UNCHANGED <<taskVars, toModule, deliveries, unasked, noise>>

ModuleSpeaks(frame) ==
    /\ unasked < MaxUnasked
    /\ unasked' = unasked + 1
    /\ toMcu' = Append(toMcu, frame)
    /\ UNCHANGED <<taskVars, toModule, work, deliveries, noise>>

Module ==
    \/ ModuleTakes
    \/ ModuleAnswers
    \/ \E frame \in {Event, Request(unasked + 1)} : ModuleSpeaks(frame)

(***************************************************************************)
(* The line damages or loses the frame at its end, in either direction.    *)
(***************************************************************************)
Damaged(frames) == {<<Noise>> \o Tail(frames), Tail(frames)}

Disturb ==
    /\ "noise" \in Faults
    /\ noise < MaxNoise
    /\ noise' = noise + 1
    /\ \/ toModule # <<>> /\ toModule' \in Damaged(toModule) /\ UNCHANGED toMcu
       \/ toMcu # <<>> /\ toMcu' \in Damaged(toMcu) /\ UNCHANGED toModule
    /\ UNCHANGED <<taskVars, work, deliveries, unasked>>

Next ==
    \/ \E kind \in Kinds, tag \in Tags : Call(kind, tag)
    \/ Mcu
    \/ Module
    \/ Disturb

Spec == Init /\ [][Next]_vars

(***************************************************************************)
(* The task keeps running, and a clock that has passed 300 ms is seen to   *)
(* have; nothing is assumed of the module or the line.                     *)
(***************************************************************************)
FairSpec == Spec /\ WF_vars(Mcu)

-----------------------------------------------------------------------------
(***************************************************************************)
(* Properties.                                                             *)
(***************************************************************************)
TypeOK ==
    /\ task \in {"free", "sending", "waiting"}
    /\ state \in {"IDLE", "ACK", "RESPONSE"}
    /\ message \in [tag : Tags \cup {NoTag}, id : Ids, expect : BOOLEAN]
    /\ retries \in 0 .. MaxRetries
    /\ nextId \in Ids
    /\ call \in [kind : Kinds, tag : Tags \cup {NoTag}, number : 0 .. MaxCalls]
    /\ reply \in 0 .. MaxCalls
    /\ toModule \in Seq(ToModule)
    /\ toMcu \in Seq(ToMcu)
    /\ work \in Seq(Responses)
    /\ handled \in 0 .. MaxUnasked
    /\ outcome \in [Calls -> {"none", "open", "confirmed", "failed"}]
    /\ deliveries \in [Calls -> Nat]
    /\ retried \in BOOLEAN
    /\ unasked \in 0 .. MaxUnasked
    /\ noise \in 0 .. MaxNoise

\* The transport is busy exactly while a call waits: whatever ended the last
\* attempt, and although the answer to a request leaves the state at ACK, the
\* next message finds it IDLE and is never refused as "transport busy".
BusyOnlyWaiting == (state = "IDLE") <=> (task # "waiting")

\* A call that returned 0 reached the module, whichever of its attempts was
\* acknowledged and whatever else was acknowledged, delayed or damaged.
ConfirmedMeansReceived ==
    \A n \in Calls : outcome[n] = "confirmed" => deliveries[n] > 0

\* The module is given a call twice at most.
AtMostTwice == \A n \in Calls : deliveries[n] <= MaxRetries

\* While no attempt has failed, the response a request returns with is its
\* own: the tag alone tells them apart as long as none is outstanding.
ReplyMatches ==
    (/\ ~retried /\ call.number > 0 /\ call.kind = "request"
     /\ outcome[call.number] = "confirmed") => reply = call.number

\* Every call comes to an end, whatever the module and the line do.
CallsEnd == (task # "free") ~> (task = "free")

\* The link keeps the promise of AtLeastOnce.
Promise == INSTANCE AtLeastOnce WITH begun <- call.number
AtLeastOnceSpec == Promise!Spec
=============================================================================
