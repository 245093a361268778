---------------------------- MODULE LinkInvariant ----------------------------
(***************************************************************************)
(* The inductive invariant of ActionsLink: it says of every frame on the   *)
(* line what its transaction id stands for.                                *)
(***************************************************************************)
EXTENDS ActionsLink

\* The window the invariant speaks of: no transaction id is used twice in it,
\* and the module refuses nothing in the name of transaction 0.
OneWindow ==
    /\ 2 * MaxCalls + MaxUnasked < IdCount
    /\ "nack" \notin Faults

Open == task # "free"

\* One call at a time, and the state of the transport goes with it.
CallInv ==
    /\ BusyOnlyWaiting
    /\ Open => /\ call.number \in Calls
               /\ call.tag \in Tags
               /\ outcome[call.number] = "open"
               /\ retries < MaxRetries
    /\ \A n \in Calls : outcome[n] = "open" => Open /\ n = call.number
    /\ task = "waiting" => message.expect = (call.kind = "request")

\* Transaction ids are used up one by one: two for each call, one for each
\* request of the module, which come in the order of their numbers.
Used == IF task = "free"    THEN 2 * call.number
   ELSE IF task = "sending" THEN 2 * call.number - 2 + retries
                            ELSE 2 * call.number - 1 + retries
IdInv ==
    /\ nextId <= Used + handled
    /\ task = "waiting" => message.id < nextId

Requests == {i \in 1 .. Len(toMcu) : toMcu[i].type = "request"}

RequestInv ==
    /\ handled <= unasked
    /\ \A i \in Requests : handled < toMcu[i].seq /\ toMcu[i].seq <= unasked
    /\ \A i, j \in Requests : i < j => toMcu[i].seq < toMcu[j].seq

\* On the way to the module: the id of the message that is being waited for
\* belongs to no other call.
SentOk(frame) ==
    /\ frame.type = "message" =>
           /\ frame.seq <= call.number
           /\ frame.id < nextId
           /\ (task = "waiting" /\ frame.id = message.id)
                  => frame.seq = call.number
    /\ frame.type = "answer" =>
           /\ frame.id < nextId
           /\ task = "waiting" => frame.id # message.id

SentInv == \A i \in 1 .. Len(toModule) : SentOk(toModule[i])

\* On the way back: an acknowledgement with that id says that the module has
\* been given the call.
AckOk(frame) ==
    frame.type = "ack" =>
        /\ frame.id < nextId
        /\ (task = "waiting" /\ frame.id = message.id)
               => deliveries[call.number] > 0

AckInv == \A i \in 1 .. Len(toMcu) : AckOk(toMcu[i])

DeliveredInv ==
    /\ state = "RESPONSE" => deliveries[call.number] > 0
    /\ \A n \in Calls : outcome[n] = "confirmed" => deliveries[n] > 0

LinkInv ==
    /\ TypeOK
    /\ CallInv
    /\ IdInv
    /\ RequestInv
    /\ SentInv
    /\ AckInv
    /\ DeliveredInv
=============================================================================
