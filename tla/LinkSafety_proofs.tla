--------------------------- MODULE LinkSafety_proofs ---------------------------
(***************************************************************************)
(* The Actions link: types, the inductive invariant, and that a call is    *)
(* confirmed only when the module was given it; no call is given more than *)
(* twice, and a reply is that of its request.                              *)
(***************************************************************************)
EXTENDS LinkInvariant, TLAPS, SequenceTheorems

USE LinkAssumption DEF LinkAssumption, Fault

(***************************************************************************)
(* Sequences: the elements of a tail, and of a sequence with something at  *)
(* its end.                                                                *)
(***************************************************************************)
LEMMA TailElements ==
    ASSUME NEW S, NEW s \in Seq(S), s # <<>>
    PROVE  /\ Len(s) \in Nat /\ Len(s) >= 1
           /\ Head(s) = s[1] /\ Head(s) \in S
           /\ Tail(s) \in Seq(S)
           /\ Len(Tail(s)) = Len(s) - 1
           /\ \A i \in 1 .. Len(Tail(s)) :
                  i + 1 \in 2 .. Len(s) /\ Tail(s)[i] = s[i + 1]
  BY SMT

LEMMA AppendElements ==
    ASSUME NEW S, NEW s \in Seq(S), NEW e \in S
    PROVE  /\ Append(s, e) \in Seq(S)
           /\ Len(Append(s, e)) = Len(s) + 1
           /\ \A i \in 1 .. Len(s) : Append(s, e)[i] = s[i]
           /\ Append(s, e)[Len(s) + 1] = e
  BY SMT

(***************************************************************************)
(* Frames: what each type of frame carries.                                *)
(***************************************************************************)
LEMMA FramesToModule ==
    ASSUME NEW f \in ToModule
    PROVE  /\ f.type \in {"message", "answer", "confirmation", "noise"}
           /\ f.type = "message" => /\ f.kind \in Kinds /\ f.tag \in Tags
                                    /\ f.seq \in Calls /\ f.id \in Ids
           /\ f.type = "answer"  => f.seq \in 1 .. MaxUnasked /\ f.id \in Ids
  BY DEF ToModule, Messages, Answers, Message, Answer, Confirmation, Noise

LEMMA FramesToMcu ==
    ASSUME NEW f \in ToMcu
    PROVE  /\ f.type \in {"ack", "response", "request", "event", "noise"}
           /\ f.type = "ack"      => f.id \in Ids
           /\ f.type = "response" => f.tag \in Tags /\ f.seq \in Calls
           /\ f.type = "request"  => f.seq \in 1 .. MaxUnasked
  BY DEF ToMcu, Responses, Ack, Response, Request, Event, Noise

LEMMA FixedFrames ==
    /\ Confirmation \in ToModule /\ Noise \in ToModule
    /\ Event \in ToMcu /\ Noise \in ToMcu
    /\ Confirmation.type = "confirmation"
    /\ Noise.type = "noise"
    /\ Event.type = "event"
  BY DEF ToModule, ToMcu, Confirmation, Noise, Event

LEMMA MessageFrames ==
    ASSUME NEW k \in Kinds, NEW t \in Tags, NEW n \in Calls, NEW i \in Ids
    PROVE  /\ Message(k, t, n, i) \in ToModule
           /\ Message(k, t, n, i).type = "message"
           /\ Message(k, t, n, i).seq = n
           /\ Message(k, t, n, i).id = i
  BY DEF ToModule, Messages, Message

LEMMA AnswerFrames ==
    ASSUME NEW s \in 1 .. MaxUnasked, NEW i \in Ids
    PROVE  /\ Answer(s, i) \in ToModule
           /\ Answer(s, i).type = "answer"
           /\ Answer(s, i).id = i
  BY DEF ToModule, Answers, Answer

LEMMA RequestFrames ==
    ASSUME NEW s \in 1 .. MaxUnasked
    PROVE  /\ Request(s) \in ToMcu
           /\ Request(s).type = "request"
           /\ Request(s).seq = s
  BY DEF ToMcu, Request

LEMMA AckFrames ==
    ASSUME NEW i \in Ids
    PROVE  Ack(i) \in ToMcu /\ Ack(i).type = "ack" /\ Ack(i).id = i
  BY DEF ToMcu, Ack

LEMMA ResponseFrames ==
    /\ \A t \in Tags, n \in Calls : Response(t, n) \in Responses
    /\ \A f \in Responses : f \in ToMcu /\ f.type = "response"
  BY DEF ToMcu, Responses, Response

LEMMA IdsWrap ==
    ASSUME NEW i \in Ids
    PROVE  i \in Nat /\ (i + 1) % IdCount \in Ids /\ 0 \in Ids
           /\ (i + 1 < IdCount => (i + 1) % IdCount = i + 1)
  BY DEF Ids

(***************************************************************************)
(* Types, and one call at a time.  TypeOK is not inductive by itself: that *)
(* an attempt leaves retries in its range is because CallInv says that a   *)
(* call which is open has attempts left.                                   *)
(***************************************************************************)
Types == TypeOK /\ CallInv

LEMMA InitTypes == Init => Types
  <1> SUFFICES ASSUME Init PROVE Types
    OBVIOUS
  <1>1. 0 \in Ids
    BY DEF Ids
  <1>2. /\ toModule \in Seq(ToModule) /\ toMcu \in Seq(ToMcu) /\ work \in Seq(Responses)
        /\ outcome \in [Calls -> {"none", "open", "confirmed", "failed"}]
        /\ deliveries \in [Calls -> Nat]
    BY DEF Init
  <1>3. /\ message \in [tag : Tags \cup {NoTag}, id : Ids, expect : BOOLEAN]
        /\ call \in [kind : Kinds, tag : Tags \cup {NoTag}, number : 0 .. MaxCalls]
    BY <1>1 DEF Init, Kinds
  <1>4. /\ task \in {"free", "sending", "waiting"}
        /\ state \in {"IDLE", "ACK", "RESPONSE"}
        /\ retries \in 0 .. 2 /\ nextId \in Ids /\ reply \in 0 .. MaxCalls
        /\ handled \in 0 .. MaxUnasked /\ unasked \in 0 .. MaxUnasked
        /\ noise \in 0 .. MaxNoise
    BY <1>1 DEF Init
  <1>7. retried \in BOOLEAN
    BY Zenon DEF Init
  <1>6. TypeOK
    BY <1>2, <1>3, <1>4, <1>7 DEF TypeOK, MaxRetries
  <1>5. CallInv
    BY DEF Init, CallInv, BusyOnlyWaiting, Open, Calls, MaxRetries
  <1> QED
    BY <1>5, <1>6 DEF Types

\* How an attempt ends: what Confirmed, Failed and Goes leave.
LEMMA AttemptEnds ==
    ASSUME Types, task = "waiting", UNCHANGED <<call, message>>,
           Confirmed \/ Failed
    PROVE  /\ task' \in {"free", "sending"}
           /\ state' = "IDLE"
           /\ retries' \in 0 .. MaxRetries
           /\ outcome' \in [Calls -> {"none", "open", "confirmed", "failed"}]
           /\ retried' \in BOOLEAN
           /\ CallInv'
  <1> USE DEF MaxRetries, Calls
  <1>1. call.number \in Calls /\ retries < MaxRetries /\ retries \in 0 .. 2
    BY DEF Types, TypeOK, CallInv, Open
  <1>2. outcome \in [Calls -> {"none", "open", "confirmed", "failed"}]
        /\ retried \in BOOLEAN /\ call.number \in Nat
    BY DEF Types, TypeOK
  <1>3. CASE Confirmed
    BY <1>1, <1>2, <1>3 DEF Confirmed, Types, CallInv, BusyOnlyWaiting, Open
  <1>4. CASE Failed
    BY <1>1, <1>2, <1>4 DEF Failed, Types, CallInv, BusyOnlyWaiting, Open
  <1> QED
    BY <1>3, <1>4

\* A frame that is taken leaves a frame of ToMcu less, and is one.
LEMMA Taken ==
    ASSUME Types, NEW types, Takes(types)
    PROVE  /\ Head(toMcu) \in ToMcu /\ Head(toMcu).type \in types
           /\ toMcu' \in Seq(ToMcu)
           /\ Append(toModule, Confirmation) \in Seq(ToModule)
  BY TailElements, AppendElements, FixedFrames DEF Types, TypeOK, Takes

\* What every step leaves of the invariant when the frames and the task's
\* bookkeeping are typed.
LEMMA TypesStep ==
    ASSUME Types, [Next]_vars
    PROVE  Types'
  <1> USE DEF MaxRetries
  <1>0. TypeOK /\ CallInv /\ call.number \in Nat
    BY DEF Types, TypeOK
  <1>1. ASSUME NEW kind \in Kinds, NEW tag \in Tags, Call(kind, tag)
        PROVE  Types'
    <2>1. TypeOK'
      BY <1>0, <1>1 DEF TypeOK, Call, Calls
    <2>2. CallInv'
      BY <1>0, <1>1 DEF TypeOK, CallInv, BusyOnlyWaiting, Open, Call, Calls
    <2> QED
      BY <2>1, <2>2 DEF Types
  <1>2. CASE Transmit
    <2>1. /\ call.number \in Calls /\ call.kind \in Kinds /\ call.tag \in Tags
          /\ nextId \in Ids
      BY <1>0, <1>2 DEF TypeOK, CallInv, Open, Transmit
    <2>2. message' \in [tag : Tags \cup {NoTag}, id : Ids, expect : BOOLEAN]
          /\ message'.expect = (call.kind = "request")
      BY <2>1, <1>2 DEF Transmit, Sends
    <2>3. nextId' \in Ids
      BY <2>1, <1>2, IdsWrap DEF Transmit, Sends
    <2>4. toModule' \in Seq(ToModule)
      BY <2>1, <1>0, <1>2, MessageFrames, AppendElements DEF TypeOK, Transmit
    <2>5. TypeOK'
      BY <2>2, <2>3, <2>4, <1>0, <1>2 DEF TypeOK, Transmit
    <2>6. CallInv'
      BY <2>2, <1>0, <1>2 DEF CallInv, BusyOnlyWaiting, Open, Transmit
    <2> QED
      BY <2>5, <2>6 DEF Types
  <1>3. CASE TakeAck
    <2>1. toMcu' \in Seq(ToMcu)
      BY <1>3, Taken DEF TakeAck
    <2>2. CASE Goes(state) \/ (AckMatches /\ Goes("RESPONSE"))
      <3>1. TypeOK'
        BY <2>1, <2>2, <1>0, <1>3 DEF TypeOK, TakeAck, Takes, Goes
      <3>2. CallInv'
        BY <2>2, <1>0, <1>3 DEF CallInv, BusyOnlyWaiting, Open, TakeAck, Takes, Goes, AckMatches
      <3> QED
        BY <3>1, <3>2 DEF Types
    <2>3. CASE AckMatches /\ Confirmed
      <3>1. task = "waiting"
        BY <2>3, <1>0 DEF CallInv, BusyOnlyWaiting, AckMatches
      <3>2. UNCHANGED <<call, message>>
        BY <1>3 DEF TakeAck, Takes
      <3>3. TypeOK'
        BY <3>1, <3>2, <2>1, <2>3, <1>0, <1>3, AttemptEnds DEF TypeOK, TakeAck, Takes
      <3> QED
        BY <3>1, <3>2, <3>3, <2>3, AttemptEnds DEF Types
    <2> QED
      BY <2>2, <2>3, <1>3 DEF TakeAck
  <1>4. CASE TakeResponse
    <2>1. toMcu' \in Seq(ToMcu) /\ toModule' \in Seq(ToModule)
      BY <1>4, Taken DEF TakeResponse
    <2>2. CASE Goes(state) /\ UNCHANGED reply
      <3>1. TypeOK'
        BY <2>1, <2>2, <1>0, <1>4 DEF TypeOK, TakeResponse, Takes, Goes
      <3>2. CallInv'
        BY <2>2, <1>0, <1>4 DEF CallInv, BusyOnlyWaiting, Open, TakeResponse, Takes, Goes
      <3> QED
        BY <3>1, <3>2 DEF Types
    <2>3. CASE ResponseMatches /\ Confirmed /\ reply' = Head(toMcu).seq
      <3>1. task = "waiting"
        BY <2>3, <1>0 DEF CallInv, BusyOnlyWaiting, ResponseMatches
      <3>2. UNCHANGED <<call, message>>
        BY <1>4 DEF TakeResponse, Takes
      <3>3. Head(toMcu) \in ToMcu /\ Head(toMcu).type = "response"
        BY <1>4, Taken DEF TakeResponse
      <3>4. reply' \in 0 .. MaxCalls
        BY <3>3, <2>3, FramesToMcu DEF Calls
      <3>5. TypeOK'
        BY <3>1, <3>2, <3>4, <2>1, <2>3, <1>0, <1>4, AttemptEnds
           DEF TypeOK, TakeResponse, Takes
      <3> QED
        BY <3>1, <3>2, <3>5, <2>3, AttemptEnds DEF Types
    <2> QED
      BY <2>2, <2>3, <1>4 DEF TakeResponse
  <1>5. CASE TakeEvent
    <2>1. toMcu' \in Seq(ToMcu) /\ toModule' \in Seq(ToModule)
      BY <1>5, Taken DEF TakeEvent
    <2>2. TypeOK'
      BY <2>1, <1>0, <1>5 DEF TypeOK, TakeEvent, Takes, Goes
    <2>3. CallInv'
      BY <1>0, <1>5 DEF CallInv, BusyOnlyWaiting, Open, TakeEvent, Takes, Goes
    <2> QED
      BY <2>2, <2>3 DEF Types
  <1>6. CASE DropRequest
    <2>1. toMcu' \in Seq(ToMcu) /\ toModule' \in Seq(ToModule)
      BY <1>6, Taken DEF DropRequest
    <2>2. TypeOK'
      BY <2>1, <1>0, <1>6 DEF TypeOK, DropRequest, Takes, Goes
    <2>3. CallInv'
      BY <1>0, <1>6 DEF CallInv, BusyOnlyWaiting, Open, DropRequest, Takes, Goes
    <2> QED
      BY <2>2, <2>3 DEF Types
  <1>7. ASSUME NEW tag \in Tags, AnswerRequest(tag)
        PROVE  Types'
    <2>1. /\ toMcu' \in Seq(ToMcu)
          /\ Head(toMcu) \in ToMcu /\ Head(toMcu).type = "request"
      BY <1>7, Taken DEF AnswerRequest
    <2>2. nextId \in Ids /\ Head(toMcu).seq \in 1 .. MaxUnasked
      BY <2>1, <1>0, FramesToMcu DEF TypeOK
    <2>3. toModule' \in Seq(ToModule)
      <3>1. /\ Answer(Head(toMcu).seq, nextId) \in ToModule
            /\ Confirmation \in ToModule
        BY <2>2, AnswerFrames, FixedFrames
      <3>2. toModule \in Seq(ToModule)
        BY <1>0 DEF TypeOK
      <3>3. <<Confirmation, Answer(Head(toMcu).seq, nextId)>> \in Seq(ToModule)
        BY <3>1
      <3> QED
        BY <3>2, <3>3, <1>7 DEF AnswerRequest
    <2>4. message' \in [tag : Tags \cup {NoTag}, id : Ids, expect : BOOLEAN]
      BY <2>2, <1>7 DEF AnswerRequest, Sends
    <2>5. nextId' \in Ids
      BY <2>2, <1>7, IdsWrap DEF AnswerRequest, Sends
    <2>6. TypeOK'
      BY <2>1, <2>2, <2>3, <2>4, <2>5, <1>0, <1>7 DEF TypeOK, AnswerRequest, Takes, Goes
    <2>7. CallInv'
      BY <1>0, <1>7 DEF CallInv, BusyOnlyWaiting, Open, AnswerRequest, Takes, Goes, Sends
    <2> QED
      BY <2>6, <2>7 DEF Types
  <1>8. CASE TakeNoise
    <2>1. toMcu' \in Seq(ToMcu) /\ toModule' \in Seq(ToModule)
      BY <1>8, Taken DEF TakeNoise
    <2>2. CASE task = "waiting" /\ Failed
      <3>1. UNCHANGED <<call, message>>
        BY <1>8 DEF TakeNoise, Takes
      <3>2. TypeOK'
        BY <3>1, <2>1, <2>2, <1>0, <1>8, AttemptEnds DEF TypeOK, TakeNoise, Takes
      <3> QED
        BY <3>1, <3>2, <2>2, AttemptEnds DEF Types
    <2>3. CASE task = "free" /\ Goes("IDLE")
      <3>1. TypeOK'
        BY <2>1, <2>3, <1>0, <1>8 DEF TypeOK, TakeNoise, Takes, Goes
      <3>2. CallInv'
        BY <2>3, <1>0, <1>8 DEF CallInv, BusyOnlyWaiting, Open, TakeNoise, Takes, Goes
      <3> QED
        BY <3>1, <3>2 DEF Types
    <2> QED
      BY <2>2, <2>3, <1>8 DEF TakeNoise
  <1>9. CASE Timeout
    <2>1. task = "waiting" /\ Failed /\ UNCHANGED <<call, message>>
      BY <1>9 DEF Timeout
    <2>2. TypeOK'
      BY <2>1, <1>0, <1>9, AttemptEnds DEF TypeOK, Timeout
    <2> QED
      BY <2>1, <2>2, AttemptEnds DEF Types
  <1>10. CASE ModuleTakes
    <2>1. CallInv'
      BY <1>0, <1>10 DEF CallInv, BusyOnlyWaiting, Open, ModuleTakes, taskVars
    <2> DEFINE frame == Head(toModule)
    <2>2. frame \in ToModule /\ toModule' \in Seq(ToModule)
      BY <1>0, <1>10, TailElements DEF TypeOK, ModuleTakes
    <2>3. Replies(frame) \in Seq(ToMcu)
      <3>1. \A i \in Ids : <<Ack(i)>> \in Seq(ToMcu)
        BY AckFrames
      <3>2. 0 \in Ids
        BY DEF Ids
      <3>3. frame.type \in {"message", "answer"} => frame.id \in Ids
        BY <2>2, FramesToModule
      <3> QED
        BY <3>1, <3>2, <3>3 DEF Replies, Nack
    <2>4. toMcu' \in Seq(ToMcu)
      BY <2>3, <1>0, <1>10 DEF TypeOK, ModuleTakes
    <2>5. deliveries' \in [Calls -> Nat]
      <3>1. frame.type = "message" => frame.seq \in Calls
        BY <2>2, FramesToModule
      <3>2. /\ deliveries \in [Calls -> Nat]
            /\ deliveries' \in {deliveries,
                                [deliveries EXCEPT ![frame.seq] = deliveries[frame.seq] + 1]}
        BY <1>0, <1>10 DEF TypeOK, ModuleTakes
      <3>3. CASE frame.type = "message"
        BY <3>1, <3>2, <3>3
      <3> QED
        BY <3>2, <3>3, <1>10 DEF ModuleTakes
    <2>6. work' \in Seq(Responses)
      <3>1. frame.type = "message" => frame.seq \in Calls /\ frame.tag \in Tags
        BY <2>2, FramesToModule
      <3>2. frame.type = "message" => Response(frame.tag, frame.seq) \in Responses
        BY <3>1, ResponseFrames
      <3>3. CASE frame.type = "message" /\ frame.kind = "request"
        <4>1. work' = Append(work, Response(frame.tag, frame.seq))
          BY <3>3, <1>10 DEF ModuleTakes
        <4> QED
          BY <4>1, <3>2, <3>3, <1>0, AppendElements DEF TypeOK
      <3>4. CASE ~(frame.type = "message" /\ frame.kind = "request")
        BY <3>4, <1>0, <1>10 DEF TypeOK, ModuleTakes
      <3> QED
        BY <3>3, <3>4
    <2>7. TypeOK'
      BY <2>2, <2>4, <2>5, <2>6, <1>0, <1>10 DEF TypeOK, ModuleTakes, taskVars
    <2> QED
      BY <2>1, <2>7 DEF Types
  <1>11. CASE ModuleAnswers
    <2>1. CallInv'
      BY <1>0, <1>11 DEF CallInv, BusyOnlyWaiting, Open, ModuleAnswers, taskVars
    <2>2. Head(work) \in Responses /\ work' \in Seq(Responses)
      BY <1>0, <1>11, TailElements DEF TypeOK, ModuleAnswers
    <2>3. toMcu' \in Seq(ToMcu)
      BY <2>2, <1>0, <1>11, ResponseFrames, AppendElements DEF TypeOK, ModuleAnswers
    <2>4. TypeOK'
      BY <2>2, <2>3, <1>0, <1>11 DEF TypeOK, ModuleAnswers, taskVars
    <2> QED
      BY <2>1, <2>4 DEF Types
  <1>12. ASSUME NEW frame \in {Event, Request(unasked + 1)}, ModuleSpeaks(frame)
         PROVE  Types'
    <2>1. CallInv'
      BY <1>0, <1>12 DEF CallInv, BusyOnlyWaiting, Open, ModuleSpeaks, taskVars
    <2>2. unasked' \in 1 .. MaxUnasked
      BY <1>0, <1>12 DEF TypeOK, ModuleSpeaks
    <2>3. frame \in ToMcu
      BY <2>2, <1>12, FixedFrames, RequestFrames DEF ModuleSpeaks
    <2>4. toMcu' \in Seq(ToMcu)
      BY <2>3, <1>0, <1>12, AppendElements DEF TypeOK, ModuleSpeaks
    <2>5. TypeOK'
      BY <2>2, <2>4, <1>0, <1>12 DEF TypeOK, ModuleSpeaks, taskVars
    <2> QED
      BY <2>1, <2>5 DEF Types
  <1>13. CASE Disturb
    <2>1. CallInv'
      BY <1>0, <1>13 DEF CallInv, BusyOnlyWaiting, Open, Disturb, taskVars
    <2>2. ASSUME NEW S, NEW s \in Seq(S), s # <<>>, Noise \in S, NEW t \in Damaged(s)
          PROVE  t \in Seq(S)
      <3>1. Tail(s) \in Seq(S) /\ <<Noise>> \in Seq(S)
        BY <2>2, TailElements
      <3> QED
        BY <3>1, <2>2 DEF Damaged
    <2>3. toModule' \in Seq(ToModule) /\ toMcu' \in Seq(ToMcu)
      BY <2>2, <1>0, <1>13, FixedFrames DEF TypeOK, Disturb
    <2>4. TypeOK'
      BY <2>3, <1>0, <1>13 DEF TypeOK, Disturb, taskVars
    <2> QED
      BY <2>1, <2>4 DEF Types
  <1>14. CASE UNCHANGED vars
    BY <1>0, <1>14 DEF Types, TypeOK, CallInv, BusyOnlyWaiting, Open, vars
  <1> QED
    BY <1>1, <1>2, <1>3, <1>4, <1>5, <1>6, <1>7, <1>8, <1>9, <1>10, <1>11, <1>12,
       <1>13, <1>14 DEF Next, Mcu, Take, Module

LEMMA TypesInvariant == Spec => []Types
  BY InitTypes, TypesStep, PTL DEF Spec

\* Types, for every number of calls, ids and faults.
THEOREM LinkTypeCorrect == Spec => []TypeOK
  <1>1. Types => TypeOK
    BY DEF Types
  <1> QED
    BY <1>1, TypesInvariant, PTL

\* The transport is busy exactly while a call waits (BusyOnlyWaiting), so
\* that no message of the task is ever refused: with every fault, and although
\* the answers to the module's requests leave the state at ACK for a moment.
THEOREM TransportNeverBusy == Spec => []BusyOnlyWaiting
  <1>1. Types => BusyOnlyWaiting
    BY DEF Types, CallInv
  <1> QED
    BY <1>1, TypesInvariant, PTL

-----------------------------------------------------------------------------
(***************************************************************************)
(* The inductive invariant, in one window of transaction ids.  What a step *)
(* does to a call and its ids is one of five things.                       *)
(***************************************************************************)
Keeps ==
    UNCHANGED <<task, message, nextId, call, retries, handled>>

Begins ==
    /\ task = "free" /\ task' = "sending"
    /\ call.number < MaxCalls /\ call'.number = call.number + 1 /\ retries' = 0
    /\ UNCHANGED <<message, nextId, handled>>

Waits ==
    /\ task = "sending" /\ task' = "waiting"
    /\ message'.id = nextId /\ nextId' = nextId + 1
    /\ UNCHANGED <<call, retries, handled>>

Ends ==
    /\ task = "waiting" /\ task' # "waiting" /\ Used <= Used'
    /\ UNCHANGED <<message, nextId, call, handled>>

Obeys ==
    /\ task = "free" /\ task' = "free"
    /\ nextId' = nextId + 1
    /\ handled < handled' /\ handled' <= unasked
    /\ UNCHANGED <<call, retries>>

LEMMA AttemptEndsUsed ==
    ASSUME Types, task = "waiting", UNCHANGED <<message, nextId, call, handled>>,
           Confirmed \/ Failed
    PROVE  Ends
  <1>1. call.number \in Nat /\ retries \in 0 .. 2 /\ retries < 2
    BY DEF Types, TypeOK, CallInv, Open, MaxRetries
  <1>2. CASE Confirmed
    BY <1>1, <1>2 DEF Confirmed, Ends, Used
  <1>3. CASE Failed
    BY <1>1, <1>3 DEF Failed, Ends, Used, MaxRetries
  <1> QED
    BY <1>2, <1>3

LEMMA RequestAnswered ==
    ASSUME OneWindow, Types, IdInv, RequestInv, NEW tag \in Tags, AnswerRequest(tag)
    PROVE  Obeys
  <1>0. /\ call.number \in 0 .. MaxCalls /\ nextId \in Ids
        /\ handled \in 0 .. MaxUnasked /\ unasked \in 0 .. MaxUnasked
        /\ toMcu \in Seq(ToMcu) /\ task \in {"free", "sending", "waiting"}
    BY DEF Types, TypeOK
  <1>1. task = "free"
    BY <1>0 DEF Types, CallInv, BusyOnlyWaiting, AnswerRequest, Takes, Sends
  <1>2. 1 \in Requests /\ handled' = toMcu[1].seq
    BY <1>0, TailElements DEF AnswerRequest, Takes, Requests
  <1>3. handled < handled' /\ handled' <= unasked
    BY <1>2 DEF RequestInv
  <1>4. handled' \in Nat
    BY <1>2, <1>0, FramesToMcu DEF Requests
  <1>5. nextId + 1 < IdCount
    BY <1>1, <1>3, <1>4, <1>0 DEF IdInv, Used, OneWindow, Ids
  <1>6. nextId' = nextId + 1
    BY <1>5, <1>0, IdsWrap DEF AnswerRequest, Sends
  <1> QED
    BY <1>1, <1>3, <1>6 DEF AnswerRequest, Takes, Goes, Obeys

LEMMA Steps ==
    ASSUME OneWindow, Types, IdInv, RequestInv, [Next]_vars
    PROVE  Keeps \/ Begins \/ Waits \/ Ends \/ Obeys
  <1>0. /\ call.number \in 0 .. MaxCalls /\ retries \in 0 .. 2 /\ nextId \in Ids
        /\ handled \in 0 .. MaxUnasked /\ unasked \in 0 .. MaxUnasked
        /\ toMcu \in Seq(ToMcu) /\ task \in {"free", "sending", "waiting"}
    BY DEF Types, TypeOK, MaxRetries
  <1>1. ASSUME NEW kind \in Kinds, NEW tag \in Tags, Call(kind, tag)
        PROVE  Begins
    BY <1>1 DEF Call, Begins
  <1>2. CASE Transmit
    <2>1. retries < 2 /\ call.number \in Calls
      BY <1>2 DEF Types, CallInv, Open, Transmit, MaxRetries
    <2>2. nextId + 1 < IdCount
      BY <2>1, <1>0, <1>2 DEF Transmit, IdInv, Used, OneWindow, Ids, Calls
    <2>3. nextId' = nextId + 1
      BY <2>2, <1>0, <1>2, IdsWrap DEF Transmit, Sends
    <2> QED
      BY <2>3, <1>2 DEF Transmit, Sends, Waits
  <1>3. CASE TakeAck
    <2>1. AckMatches => task = "waiting"
      BY DEF Types, CallInv, BusyOnlyWaiting, AckMatches
    <2> QED
      BY <2>1, <1>3, AttemptEndsUsed DEF TakeAck, Takes, Goes, Keeps
  <1>4. CASE TakeResponse
    <2>1. ResponseMatches => task = "waiting"
      BY DEF Types, CallInv, BusyOnlyWaiting, ResponseMatches
    <2> QED
      BY <2>1, <1>4, AttemptEndsUsed DEF TakeResponse, Takes, Goes, Keeps
  <1>5. CASE TakeEvent \/ DropRequest
    BY <1>5 DEF TakeEvent, DropRequest, Takes, Goes, Keeps
  <1>6. ASSUME NEW tag \in Tags, AnswerRequest(tag)
        PROVE  Obeys
    BY <1>6, RequestAnswered
  <1>7. CASE TakeNoise
    BY <1>7, AttemptEndsUsed DEF TakeNoise, Takes, Goes, Keeps
  <1>8. CASE Timeout
    BY <1>8, AttemptEndsUsed DEF Timeout
  <1>9. CASE Module \/ Disturb \/ UNCHANGED vars
    BY <1>9 DEF Module, ModuleTakes, ModuleAnswers, ModuleSpeaks, Disturb, taskVars,
       vars, Keeps
  <1> QED
    BY <1>1, <1>2, <1>3, <1>4, <1>5, <1>6, <1>7, <1>8, <1>9 DEF Next, Mcu, Take

\* Ids are used up one by one.
LEMMA IdStep ==
    ASSUME OneWindow, Types, IdInv, RequestInv, [Next]_vars
    PROVE  IdInv'
  <1>1. /\ call.number \in 0 .. MaxCalls /\ retries \in 0 .. 2 /\ nextId \in Nat
        /\ handled \in Nat /\ unasked \in Nat /\ message.id \in Nat
        /\ task \in {"free", "sending", "waiting"}
    BY DEF Types, TypeOK, MaxRetries, Ids
  <1>2. retries' \in Nat /\ handled' \in Nat
    BY TypesStep DEF Types, TypeOK, MaxRetries
  <1>3. CASE Keeps
    BY <1>3 DEF Keeps, IdInv, Used
  <1>4. CASE Begins
    BY <1>1, <1>4 DEF Begins, IdInv, Used
  <1>5. CASE Waits
    BY <1>1, <1>5 DEF Waits, IdInv, Used
  <1>6. CASE Ends
    <2>1. Used \in Int /\ Used' \in Int
      BY <1>1, <1>2, <1>6 DEF Ends, Used
    <2>2. \A u, v \in Int : nextId <= u + handled /\ u <= v => nextId <= v + handled
      BY <1>1
    <2>3. nextId <= Used' + handled
      BY <2>1, <2>2, <1>6 DEF Ends, IdInv
    <2>4. nextId' <= Used' + handled'
      BY <2>3, <1>6 DEF Ends
    <2> QED
      BY <2>4, <1>6 DEF Ends, IdInv
  <1>7. CASE Obeys
    BY <1>1, <1>2, <1>7 DEF Obeys, IdInv, Used
  <1> QED
    BY <1>3, <1>4, <1>5, <1>6, <1>7, Steps

(***************************************************************************)
(* What may have become of the frames of a sequence: the first is gone,    *)
(* the first is damaged, or one or none has come to its end.               *)
(***************************************************************************)
LEMMA TailFrame ==
    ASSUME NEW S, NEW s \in Seq(S), s # <<>>, NEW i \in 1 .. Len(Tail(s))
    PROVE  i + 1 \in 1 .. Len(s) /\ Tail(s)[i] = s[i + 1]
  BY TailElements

LEMMA AppendFrame ==
    ASSUME NEW S, NEW s \in Seq(S), NEW e \in S, NEW i \in 1 .. Len(Append(s, e))
    PROVE  \/ i \in 1 .. Len(s) /\ Append(s, e)[i] = s[i]
           \/ i = Len(s) + 1 /\ Append(s, e)[i] = e
  BY AppendElements

LEMMA DamagedFrame ==
    ASSUME NEW S, NEW s \in Seq(S), s # <<>>, NEW t \in Damaged(s), Noise \in S
    PROVE  \E k \in {0, 1} : \A i \in 1 .. Len(t) :
               t[i] = Noise \/ (i + k \in 1 .. Len(s) /\ t[i] = s[i + k])
  <1>1. CASE t = Tail(s)
    BY <1>1, TailFrame
  <1>2. CASE t = <<Noise>> \o Tail(s)
    <2>1. Tail(s) \in Seq(S) /\ <<Noise>> \in Seq(S) /\ Len(Tail(s)) = Len(s) - 1
          /\ Len(s) \in Nat
      BY TailElements
    <2>2. \A i \in 1 .. Len(t) : i = 1 \/ i - 1 \in 1 .. Len(Tail(s))
      BY <2>1, <1>2
    <2>3. \A i \in 1 .. Len(t) : t[i] = IF i = 1 THEN Noise ELSE Tail(s)[i - 1]
      BY <2>1, <2>2, <1>2
    <2>4. \A i \in 1 .. Len(t) : i # 1 => i + 0 \in 1 .. Len(s) /\ t[i] = s[i + 0]
      BY <2>1, <2>2, <2>3, TailFrame
    <2> QED
      BY <2>3, <2>4
  <1> QED
    BY <1>1, <1>2 DEF Damaged

(***************************************************************************)
(* The requests of the module come in the order of their numbers.          *)
(***************************************************************************)
LEMMA RequestsKept ==
    ASSUME RequestInv, Types, Types', handled' = handled, unasked <= unasked',
           NEW k \in {0, 1},
           \A i \in Requests' : i + k \in Requests /\ toMcu'[i] = toMcu[i + k]
    PROVE  RequestInv'
  <1>1. handled \in Nat /\ unasked \in Nat /\ unasked' \in Nat
    BY DEF Types, TypeOK
  <1>2. \A i \in Requests : toMcu[i].seq \in Nat
    <2>0. toMcu \in Seq(ToMcu)
      BY DEF Types, TypeOK
    <2>1. \A i \in Requests : toMcu[i] \in ToMcu /\ toMcu[i].type = "request"
      BY <2>0 DEF Requests
    <2> QED
      BY <2>1, FramesToMcu
  <1>3. \A i \in Requests' : i \in Nat
    BY DEF Requests
  <1>4. handled' <= unasked'
    BY <1>1 DEF RequestInv
  <1>5. \A i \in Requests' : handled' < toMcu'[i].seq /\ toMcu'[i].seq <= unasked'
    BY <1>1, <1>2 DEF RequestInv
  <1>6. ASSUME NEW i \in Requests', NEW j \in Requests', i < j
        PROVE  toMcu'[i].seq < toMcu'[j].seq
    BY <1>3, <1>6 DEF RequestInv
  <1> QED
    BY <1>4, <1>5, <1>6 DEF RequestInv

\* No frame of another type puts a request on the line.
LEMMA NoNewRequest ==
    ASSUME Types, RequestInv, [Next]_vars, handled' = handled, unasked <= unasked',
           \/ toMcu' = toMcu
           \/ toMcu # <<>> /\ toMcu' = Tail(toMcu)
           \/ \E f \in ToMcu : f.type # "request" /\ toMcu' = Append(toMcu, f)
           \/ toMcu # <<>> /\ toMcu' \in Damaged(toMcu)
    PROVE  RequestInv'
  <1>1. Types' /\ toMcu \in Seq(ToMcu)
    BY TypesStep DEF Types, TypeOK
  <1>2. CASE toMcu' = toMcu
    <2>1. \A i \in Requests' : i + 0 \in Requests /\ toMcu'[i] = toMcu[i + 0]
      BY <1>2 DEF Requests
    <2> QED
      BY <2>1, <1>1, RequestsKept
  <1>3. CASE toMcu # <<>> /\ toMcu' = Tail(toMcu)
    <2>1. \A i \in Requests' : i + 1 \in Requests /\ toMcu'[i] = toMcu[i + 1]
      BY <1>1, <1>3, TailFrame DEF Requests
    <2> QED
      BY <2>1, <1>1, RequestsKept
  <1>4. CASE \E f \in ToMcu : f.type # "request" /\ toMcu' = Append(toMcu, f)
    <2>1. \A i \in Requests' : i + 0 \in Requests /\ toMcu'[i] = toMcu[i + 0]
      BY <1>1, <1>4, AppendFrame DEF Requests
    <2> QED
      BY <2>1, <1>1, RequestsKept
  <1>5. CASE toMcu # <<>> /\ toMcu' \in Damaged(toMcu)
    <2>1. PICK k \in {0, 1} : \A i \in 1 .. Len(toMcu') :
              toMcu'[i] = Noise \/ (i + k \in 1 .. Len(toMcu) /\ toMcu'[i] = toMcu[i + k])
      BY <1>1, <1>5, DamagedFrame, FixedFrames
    <2>2. \A i \in Requests' : i + k \in Requests /\ toMcu'[i] = toMcu[i + k]
      BY <2>1, FixedFrames DEF Requests
    <2> QED
      BY <2>2, <1>1, RequestsKept
  <1> QED
    BY <1>2, <1>3, <1>4, <1>5

LEMMA RequestStep ==
    ASSUME Types, RequestInv, [Next]_vars
    PROVE  RequestInv'
  <1>0. unasked \in Nat /\ handled \in Nat /\ toMcu \in Seq(ToMcu) /\ toModule \in Seq(ToModule)
    BY DEF Types, TypeOK
  <1>1. CASE \/ \E kind \in Kinds, tag \in Tags : Call(kind, tag)
             \/ Transmit
             \/ Timeout
             \/ UNCHANGED vars
    BY <1>0, <1>1, NoNewRequest DEF Call, Transmit, Timeout, vars
  <1>2. CASE TakeAck \/ TakeResponse \/ TakeEvent \/ DropRequest \/ TakeNoise
    BY <1>0, <1>2, NoNewRequest
       DEF TakeAck, TakeResponse, TakeEvent, DropRequest, TakeNoise, Takes
  <1>3. ASSUME NEW tag \in Tags, AnswerRequest(tag)
        PROVE  RequestInv'
    <2>1. /\ toMcu # <<>> /\ toMcu' = Tail(toMcu) /\ unasked' = unasked
          /\ 1 \in Requests /\ handled' = toMcu[1].seq
      BY <1>0, <1>3, TailElements DEF AnswerRequest, Takes, Requests
    <2>2. \A i \in Requests' : i \in Nat /\ i >= 1 /\ i + 1 \in Requests
                                /\ toMcu'[i] = toMcu[i + 1]
      BY <2>1, <1>0, TailFrame DEF Requests
    <2>3. \A i \in Requests' : handled' < toMcu'[i].seq /\ toMcu'[i].seq <= unasked'
      <3>1. \A j \in Requests : j > 1 => toMcu[1].seq < toMcu[j].seq
        BY <2>1 DEF RequestInv
      <3>2. \A j \in Requests : toMcu[j].seq <= unasked
        BY DEF RequestInv
      <3>3. ASSUME NEW i \in Requests'
            PROVE  handled' < toMcu'[i].seq /\ toMcu'[i].seq <= unasked'
        <4>1. i + 1 \in Requests /\ i + 1 > 1 /\ toMcu'[i] = toMcu[i + 1]
          BY <2>2, <3>3
        <4>2. toMcu[1].seq < toMcu[i + 1].seq /\ toMcu[i + 1].seq <= unasked
          BY <3>1, <3>2, <4>1
        <4>3. handled' = toMcu[1].seq /\ unasked' = unasked
          BY <2>1
        <4> QED
          BY <4>1, <4>2, <4>3
      <3> QED
        BY <3>3
    <2>4. ASSUME NEW i \in Requests', NEW j \in Requests', i < j
          PROVE  toMcu'[i].seq < toMcu'[j].seq
      BY <2>2, <2>4 DEF RequestInv
    <2>5. handled' <= unasked'
      BY <2>1 DEF RequestInv
    <2> QED
      BY <2>3, <2>4, <2>5 DEF RequestInv
  <1>4. CASE ModuleTakes
    <2> DEFINE frame == Head(toModule)
    <2>1. frame \in ToModule /\ 0 \in Ids
      BY <1>0, <1>4, TailElements DEF ModuleTakes, Ids
    <2>2. \/ toMcu' = toMcu
          \/ \E i \in Ids : toMcu' = Append(toMcu, Ack(i))
      <3>1. frame.type \in {"message", "answer"} => frame.id \in Ids
        BY <2>1, FramesToModule
      <3>2. Replies(frame) = <<>> \/ \E i \in Ids : Replies(frame) = <<Ack(i)>>
        BY <3>1, <2>1 DEF Replies, Nack
      <3>3. toMcu \o <<>> = toMcu
        BY <1>0
      <3>4. \A i \in Ids : toMcu \o <<Ack(i)>> = Append(toMcu, Ack(i))
        BY <1>0, AckFrames
      <3> QED
        BY <3>2, <3>3, <3>4, <1>4 DEF ModuleTakes
    <2> QED
      BY <2>2, <1>0, <1>4, AckFrames, NoNewRequest DEF ModuleTakes, taskVars
  <1>5. CASE ModuleAnswers
    <2>1. Head(work) \in ToMcu /\ Head(work).type # "request"
      BY <1>5, TailElements, ResponseFrames DEF ModuleAnswers, Types, TypeOK
    <2> QED
      BY <2>1, <1>0, <1>5, NoNewRequest DEF ModuleAnswers, taskVars
  <1>6. CASE ModuleSpeaks(Event)
    BY <1>0, <1>6, FixedFrames, NoNewRequest DEF ModuleSpeaks, taskVars
  <1>7. CASE ModuleSpeaks(Request(unasked + 1))
    <2> DEFINE new == Request(unasked + 1)
    <2>1. unasked + 1 \in 1 .. MaxUnasked /\ unasked' = unasked + 1 /\ handled' = handled
      BY <1>0, <1>7 DEF ModuleSpeaks, taskVars
    <2>2. new \in ToMcu /\ new.seq = unasked + 1 /\ toMcu' = Append(toMcu, new)
      BY <2>1, <1>7, RequestFrames DEF ModuleSpeaks
    <2>3. \A i \in Requests' :
              \/ i \in Requests /\ toMcu'[i] = toMcu[i]
              \/ i = Len(toMcu) + 1 /\ toMcu'[i] = new
      BY <2>2, <1>0, AppendFrame DEF Requests
    <2>4. \A i \in Requests : i \in Nat /\ i <= Len(toMcu) /\ toMcu[i].seq \in Nat
      <3>1. \A i \in Requests : /\ i \in Nat /\ i <= Len(toMcu)
                                /\ toMcu[i] \in ToMcu /\ toMcu[i].type = "request"
        BY <1>0 DEF Requests
      <3> QED
        BY <3>1, FramesToMcu
    <2>5. Len(toMcu) \in Nat
      BY <1>0
    <2>6. handled' <= unasked'
      BY <2>1, <1>0 DEF RequestInv
    <2>7. \A i \in Requests' : handled' < toMcu'[i].seq /\ toMcu'[i].seq <= unasked'
      <3>1. ASSUME NEW i \in Requests, toMcu'[i] = toMcu[i]
            PROVE  handled' < toMcu'[i].seq /\ toMcu'[i].seq <= unasked'
        <4>1. handled < toMcu[i].seq /\ toMcu[i].seq <= unasked /\ toMcu[i].seq \in Nat
          BY <2>4 DEF RequestInv
        <4> QED
          BY <4>1, <3>1, <2>1, <1>0
      <3>2. handled < new.seq /\ new.seq <= unasked'
        BY <2>1, <2>2, <1>0 DEF RequestInv
      <3> QED
        BY <3>1, <3>2, <2>1, <2>3
    <2>8. ASSUME NEW i \in Requests', NEW j \in Requests', i < j
          PROVE  toMcu'[i].seq < toMcu'[j].seq
      <3>1. i \in Requests /\ toMcu'[i] = toMcu[i]
        BY <2>3, <2>4, <2>5, <2>8
      <3> QED
        BY <3>1, <2>2, <2>3, <2>4, <2>8, <1>0 DEF RequestInv
    <2> QED
      BY <2>6, <2>7, <2>8 DEF RequestInv
  <1>8. CASE Disturb
    BY <1>0, <1>8, NoNewRequest DEF Disturb, taskVars
  <1> QED
    BY <1>1, <1>2, <1>3, <1>4, <1>5, <1>6, <1>7, <1>8 DEF Next, Mcu, Take, Module

(***************************************************************************)
(* What is said of a frame on its way to the module stays true of it: the  *)
(* id of a message that is sent anew is above every id on the line.        *)
(***************************************************************************)
LEMMA SentKept ==
    ASSUME OneWindow, Types, IdInv, RequestInv, [Next]_vars,
           NEW f \in ToModule, SentOk(f)
    PROVE  SentOk(f)'
  <1>1. /\ call.number \in Nat /\ nextId \in Nat /\ task \in {"free", "sending", "waiting"}
        /\ f.type = "message" => f.seq \in Nat /\ f.id \in Nat
        /\ f.type = "answer" => f.id \in Nat
    BY FramesToModule DEF Types, TypeOK, Ids, Calls
  <1>2. CASE Keeps
    BY <1>2 DEF Keeps, SentOk
  <1>3. CASE Begins
    BY <1>1, <1>3 DEF Begins, SentOk
  <1>4. CASE Waits
    BY <1>1, <1>4 DEF Waits, SentOk
  <1>5. CASE Ends
    BY <1>5 DEF Ends, SentOk
  <1>6. CASE Obeys
    BY <1>1, <1>6 DEF Obeys, SentOk
  <1> QED
    BY <1>2, <1>3, <1>4, <1>5, <1>6, Steps

\* A step that puts nothing on the line, or something that carries no id.
LEMMA NothingSent ==
    ASSUME OneWindow, Types, IdInv, RequestInv, SentInv, [Next]_vars,
           \/ toModule' = toModule
           \/ toModule # <<>> /\ toModule' = Tail(toModule)
           \/ toModule' = Append(toModule, Confirmation)
           \/ toModule # <<>> /\ toModule' \in Damaged(toModule)
    PROVE  SentInv'
  <1>1. toModule \in Seq(ToModule)
    BY DEF Types, TypeOK
  <1>2. \A i \in 1 .. Len(toModule) : toModule[i] \in ToModule /\ SentOk(toModule[i])
    BY <1>1 DEF SentInv
  <1>3. SUFFICES ASSUME NEW i \in (1 .. Len(toModule))'
                 PROVE  \/ \E j \in 1 .. Len(toModule) : toModule'[i] = toModule[j]
                        \/ toModule'[i].type \in {"confirmation", "noise"}
    <2>1. \A f \in ToModule : SentOk(f) => SentOk(f)'
      BY SentKept
    <2>2. ASSUME NEW i \in (1 .. Len(toModule))'
          PROVE  SentOk(toModule[i])'
      <3>1. CASE toModule'[i].type \in {"confirmation", "noise"}
        BY <3>1 DEF SentOk
      <3>2. CASE \E j \in 1 .. Len(toModule) : toModule'[i] = toModule[j]
        <4>1. PICK j \in 1 .. Len(toModule) : toModule'[i] = toModule[j]
          BY <3>2
        <4>2. toModule[j] \in ToModule /\ SentOk(toModule[j])
          BY <1>2
        <4> QED
          BY <4>1, <4>2, <2>1 DEF SentOk
      <3> QED
        BY <1>3, <2>2, <3>1, <3>2
    <2> QED
      BY <2>2 DEF SentInv
  <1>4. CASE toModule' = toModule
    BY <1>4
  <1>5. CASE toModule # <<>> /\ toModule' = Tail(toModule)
    BY <1>1, <1>5, TailFrame
  <1>6. CASE toModule' = Append(toModule, Confirmation)
    BY <1>1, <1>6, AppendFrame, FixedFrames
  <1>7. CASE toModule # <<>> /\ toModule' \in Damaged(toModule)
    BY <1>1, <1>7, DamagedFrame, FixedFrames
  <1> QED
    BY <1>4, <1>5, <1>6, <1>7

LEMMA SentStep ==
    ASSUME OneWindow, Types, IdInv, RequestInv, SentInv, [Next]_vars
    PROVE  SentInv'
  <1>0. /\ toModule \in Seq(ToModule) /\ nextId \in Ids /\ nextId \in Nat
        /\ call.number \in Nat /\ toMcu \in Seq(ToMcu)
    BY DEF Types, TypeOK, Ids
  <1>1. ASSUME \A f \in ToModule : SentOk(f) => SentOk(f)',
               NEW s \in Seq(ToModule), toModule' = toModule \o s,
               \A i \in 1 .. Len(s) : SentOk(s[i])'
        PROVE  SentInv'
    <2>1. /\ \A i \in 1 .. Len(toModule) : toModule'[i] = toModule[i]
                                           /\ toModule[i] \in ToModule
          /\ \A i \in 1 .. Len(toModule') :
                 i \in 1 .. Len(toModule) \/ i - Len(toModule) \in 1 .. Len(s)
          /\ \A i \in 1 .. Len(s) : toModule'[i + Len(toModule)] = s[i]
          /\ Len(toModule) \in Nat
      BY <1>0, <1>1
    <2>2. ASSUME NEW i \in (1 .. Len(toModule))'
          PROVE  SentOk(toModule[i])'
      <3>1. CASE i \in 1 .. Len(toModule)
        <4>1. toModule[i] \in ToModule /\ SentOk(toModule[i]) /\ toModule'[i] = toModule[i]
          BY <2>1, <3>1 DEF SentInv
        <4> QED
          BY <4>1, <1>1 DEF SentOk
      <3>2. CASE i - Len(toModule) \in 1 .. Len(s)
        <4>1. toModule'[i] = s[i - Len(toModule)]
          BY <2>1, <3>2
        <4> QED
          BY <4>1, <3>2, <1>1 DEF SentOk
      <3> QED
        BY <2>1, <3>1, <3>2
    <2> QED
      BY <2>2 DEF SentInv
  <1>2. CASE \/ \E kind \in Kinds, tag \in Tags : Call(kind, tag)
             \/ Timeout \/ TakeAck \/ ModuleAnswers \/ UNCHANGED vars
             \/ \E frame \in {Event, Request(unasked + 1)} : ModuleSpeaks(frame)
    BY <1>2, NothingSent
       DEF Call, Timeout, TakeAck, ModuleAnswers, ModuleSpeaks, vars
  <1>3. CASE Transmit
    <2>1. Waits
      BY <1>3, Steps DEF Transmit, Keeps, Begins, Ends, Obeys
    <2>2. PICK new \in ToModule : /\ new.type = "message" /\ new.seq = call.number
                                 /\ new.id = nextId
                                 /\ toModule' = Append(toModule, new)
      BY <1>0, <1>3, MessageFrames DEF Transmit, Types, TypeOK, CallInv, Open
    <2>3. SentOk(new)'
      BY <2>1, <2>2, <1>0 DEF Waits, SentOk
    <2>4. toModule' = toModule \o <<new>> /\ <<new>> \in Seq(ToModule)
      BY <2>2, <1>0
    <2>5. \A i \in 1 .. Len(<<new>>) : SentOk(<<new>>[i])'
      BY <2>3 DEF SentOk
    <2> QED
      BY <2>4, <2>5, <1>1, SentKept
  <1>4. CASE TakeResponse \/ TakeEvent \/ DropRequest \/ TakeNoise
    BY <1>4, NothingSent DEF TakeResponse, TakeEvent, DropRequest, TakeNoise
  <1>5. ASSUME NEW tag \in Tags, AnswerRequest(tag)
        PROVE  SentInv'
    <2>1. /\ task = "free" /\ task' = "free" /\ nextId' = nextId + 1
      BY <1>5, RequestAnswered DEF Obeys
    <2>2. PICK new \in ToModule : /\ new.type = "answer" /\ new.id = nextId
                                 /\ toModule' = toModule \o <<Confirmation, new>>
      <3>1. Head(toMcu).seq \in 1 .. MaxUnasked
        BY <1>0, <1>5, TailElements, FramesToMcu DEF AnswerRequest, Takes
      <3> QED
        BY <3>1, <1>0, <1>5, AnswerFrames DEF AnswerRequest
    <2>3. SentOk(new)' /\ SentOk(Confirmation)'
      BY <2>1, <2>2, <1>0, FixedFrames DEF SentOk
    <2>4. <<Confirmation, new>> \in Seq(ToModule)
      BY FixedFrames
    <2>5. \A i \in 1 .. Len(<<Confirmation, new>>) : SentOk(<<Confirmation, new>>[i])'
      BY <2>3 DEF SentOk
    <2> QED
      BY <2>2, <2>4, <2>5, <1>1, SentKept
  <1>6. CASE ModuleTakes
    BY <1>6, NothingSent DEF ModuleTakes
  <1>7. CASE Disturb
    BY <1>7, NothingSent DEF Disturb
  <1> QED
    BY <1>2, <1>3, <1>4, <1>5, <1>6, <1>7 DEF Next, Mcu, Take, Module

(***************************************************************************)
(* Acknowledgements.  What the module has been given it was given.         *)
(***************************************************************************)
LEMMA DeliveriesGrow ==
    ASSUME Types, [Next]_vars, NEW n \in Calls
    PROVE  /\ deliveries[n] \in Nat /\ deliveries'[n] \in Nat
           /\ deliveries[n] > 0 => deliveries'[n] > 0
  <1>1. deliveries \in [Calls -> Nat] /\ deliveries' \in [Calls -> Nat]
    BY TypesStep DEF Types, TypeOK
  <1>2. CASE deliveries' = deliveries
    BY <1>1, <1>2
  <1>3. CASE ModuleTakes
    <2>1. deliveries' \in {deliveries,
              [deliveries EXCEPT ![Head(toModule).seq] = deliveries[Head(toModule).seq] + 1]}
      BY <1>3 DEF ModuleTakes
    <2>2. PICK k : deliveries' \in {deliveries, [deliveries EXCEPT ![k] = deliveries[k] + 1]}
      BY <2>1
    <2> QED
      BY <1>1, <2>2
  <1>4. deliveries' = deliveries \/ ModuleTakes
    BY DEF Next, Call, Mcu, Transmit, Take, TakeAck, TakeResponse, TakeEvent, DropRequest,
           AnswerRequest, TakeNoise, Takes, Timeout, Module, ModuleAnswers, ModuleSpeaks,
           Disturb, vars
  <1> QED
    BY <1>1, <1>2, <1>3, <1>4

LEMMA AckKept ==
    ASSUME OneWindow, Types, IdInv, RequestInv, [Next]_vars,
           NEW f \in ToMcu, AckOk(f)
    PROVE  AckOk(f)'
  <1>1. /\ nextId \in Nat /\ task \in {"free", "sending", "waiting"}
        /\ f.type = "ack" => f.id \in Nat
        /\ task = "waiting" => call.number \in Calls
    BY FramesToMcu DEF Types, TypeOK, Ids, CallInv, Open
  <1>2. CASE Keeps
    BY <1>1, <1>2, DeliveriesGrow DEF Keeps, AckOk
  <1>3. CASE Begins
    BY <1>3 DEF Begins, AckOk
  <1>4. CASE Waits
    BY <1>1, <1>4 DEF Waits, AckOk
  <1>5. CASE Ends
    BY <1>5 DEF Ends, AckOk
  <1>6. CASE Obeys
    BY <1>1, <1>6 DEF Obeys, AckOk
  <1> QED
    BY <1>2, <1>3, <1>4, <1>5, <1>6, Steps

\* A step after which every frame was there before, or acknowledges nothing,
\* or is an acknowledgement that says the truth.
LEMMA FramesAcked ==
    ASSUME OneWindow, Types, IdInv, RequestInv, AckInv, [Next]_vars,
           \A i \in (1 .. Len(toMcu))' :
               \/ \E j \in 1 .. Len(toMcu) : toMcu'[i] = toMcu[j]
               \/ toMcu'[i].type # "ack"
               \/ AckOk(toMcu[i])'
    PROVE  AckInv'
  <1>1. \A i \in 1 .. Len(toMcu) : toMcu[i] \in ToMcu /\ AckOk(toMcu[i])
    BY DEF AckInv, Types, TypeOK
  <1>2. \A f \in ToMcu : AckOk(f) => AckOk(f)'
    BY AckKept
  <1>3. ASSUME NEW i \in (1 .. Len(toMcu))'
        PROVE  AckOk(toMcu[i])'
    <2>1. CASE \E j \in 1 .. Len(toMcu) : toMcu'[i] = toMcu[j]
      <3>1. PICK j \in 1 .. Len(toMcu) : toMcu'[i] = toMcu[j]
        BY <2>1
      <3>2. toMcu[j] \in ToMcu /\ AckOk(toMcu[j])
        BY <1>1
      <3> QED
        BY <3>1, <3>2, <1>2 DEF AckOk
    <2>2. CASE toMcu'[i].type # "ack"
      BY <2>2 DEF AckOk
    <2> QED
      BY <2>1, <2>2, <1>3
  <1> QED
    BY <1>3 DEF AckInv

LEMMA AckStep ==
    ASSUME OneWindow, Types, IdInv, RequestInv, SentInv, AckInv, [Next]_vars
    PROVE  AckInv'
  <1>0. toMcu \in Seq(ToMcu) /\ toModule \in Seq(ToModule)
    BY DEF Types, TypeOK
  <1>1. CASE toMcu' = toMcu
    BY <1>1, FramesAcked
  <1>2. CASE toMcu # <<>> /\ toMcu' = Tail(toMcu)
    <2>1. \A i \in (1 .. Len(toMcu))' : \E j \in 1 .. Len(toMcu) : toMcu'[i] = toMcu[j]
      BY <1>0, <1>2, TailFrame
    <2> QED
      BY <2>1, FramesAcked
  <1>3. CASE \E f \in ToMcu : f.type # "ack" /\ toMcu' = Append(toMcu, f)
    <2>1. \A i \in (1 .. Len(toMcu))' : \/ \E j \in 1 .. Len(toMcu) : toMcu'[i] = toMcu[j]
                                       \/ toMcu'[i].type # "ack"
      BY <1>0, <1>3, AppendFrame
    <2> QED
      BY <2>1, FramesAcked
  <1>4. CASE toMcu # <<>> /\ toMcu' \in Damaged(toMcu)
    <2>1. \A i \in (1 .. Len(toMcu))' : \/ \E j \in 1 .. Len(toMcu) : toMcu'[i] = toMcu[j]
                                       \/ toMcu'[i].type # "ack"
      BY <1>0, <1>4, DamagedFrame, FixedFrames
    <2> QED
      BY <2>1, FramesAcked
  <1>5. CASE ModuleTakes
    <2> DEFINE frame == Head(toModule)
    <2>1. /\ toModule # <<>> /\ frame \in ToModule /\ frame = toModule[1]
          /\ 1 \in 1 .. Len(toModule)
      BY <1>0, <1>5, TailElements DEF ModuleTakes
    <2>2. SentOk(frame) /\ UNCHANGED <<task, call, message, nextId>>
      BY <2>1, <1>5 DEF SentInv, ModuleTakes, taskVars
    <2>3. CASE frame.type \in {"message", "answer"}
      <3>1. PICK new \in ToMcu : /\ new.type = "ack" /\ new.id = frame.id
                                /\ toMcu' = Append(toMcu, new)
        <4>1. frame.id \in Ids /\ Replies(frame) = <<Ack(frame.id)>>
          BY <2>1, <2>3, FramesToModule DEF Replies
        <4>2. Ack(frame.id) \in ToMcu /\ Ack(frame.id).type = "ack"
              /\ Ack(frame.id).id = frame.id
          BY <4>1, AckFrames
        <4>3. toMcu' = Append(toMcu, Ack(frame.id))
          <5>1. toMcu' = toMcu \o Replies(frame)
            BY <1>5 DEF ModuleTakes
          <5> HIDE DEF frame
          <5> QED
            BY <5>1, <4>1, <4>2, <1>0
        <4> HIDE DEF frame
        <4> QED
          BY <4>2, <4>3
      <3>2. task = "waiting" /\ frame.id = message.id => deliveries'[call.number] > 0
        <4>1. SUFFICES ASSUME task = "waiting", frame.id = message.id
                       PROVE  deliveries'[call.number] > 0
          OBVIOUS
        <4>2. frame.type = "message" /\ frame.seq = call.number
          BY <4>1, <2>2, <2>3 DEF SentOk
        <4>3. call.number \in Calls
          BY <2>1, <4>2, FramesToModule
        <4>4. deliveries \in [Calls -> Nat]
              /\ deliveries' = [deliveries EXCEPT ![frame.seq] = deliveries[frame.seq] + 1]
          BY <4>2, <1>5 DEF ModuleTakes, Types, TypeOK
        <4> HIDE DEF frame
        <4> QED
          BY <4>2, <4>3, <4>4
      <3>3. frame.id < nextId
        BY <2>2, <2>3 DEF SentOk
      <3>4. AckOk(new)'
        BY <3>1, <3>2, <3>3, <2>2 DEF AckOk
      <3>5. \A i \in (1 .. Len(toMcu))' :
                \/ \E j \in 1 .. Len(toMcu) : toMcu'[i] = toMcu[j]
                \/ toMcu'[i] = new
        BY <3>1, <1>0, AppendFrame
      <3>6. \A i \in (1 .. Len(toMcu))' :
                \/ \E j \in 1 .. Len(toMcu) : toMcu'[i] = toMcu[j]
                \/ toMcu'[i].type # "ack"
                \/ AckOk(toMcu[i])'
        BY <3>4, <3>5 DEF AckOk
      <3> QED
        BY <3>6, FramesAcked
    <2>4. CASE frame.type \notin {"message", "answer"}
      <3>1. Replies(frame) = <<>>
        BY <2>4 DEF Replies, OneWindow
      <3>2. toMcu' = toMcu
        BY <3>1, <1>0, <1>5 DEF ModuleTakes
      <3> QED
        BY <3>2, <1>1
    <2> QED
      BY <2>3, <2>4
  <1>6. CASE ModuleAnswers
    <2>1. work \in Seq(Responses) /\ work # <<>>
      BY <1>6 DEF ModuleAnswers, Types, TypeOK
    <2>2. Head(work) \in ToMcu /\ Head(work).type # "ack"
      BY <2>1, TailElements, ResponseFrames
    <2> QED
      BY <2>2, <1>3, <1>6 DEF ModuleAnswers
  <1>7. ASSUME NEW frame \in {Event, Request(unasked + 1)}, ModuleSpeaks(frame)
        PROVE  AckInv'
    <2>1. unasked + 1 \in 1 .. MaxUnasked
      BY <1>7 DEF ModuleSpeaks, Types, TypeOK
    <2>2. frame \in ToMcu /\ frame.type # "ack"
      BY <2>1, FixedFrames, RequestFrames
    <2> QED
      BY <2>2, <1>3, <1>7 DEF ModuleSpeaks
  <1>8. \/ toMcu' = toMcu
        \/ toMcu # <<>> /\ toMcu' = Tail(toMcu)
        \/ toMcu # <<>> /\ toMcu' \in Damaged(toMcu)
        \/ ModuleTakes \/ ModuleAnswers
        \/ \E frame \in {Event, Request(unasked + 1)} : ModuleSpeaks(frame)
    BY DEF Next, Call, Mcu, Transmit, Take, TakeAck, TakeResponse, TakeEvent, DropRequest,
           AnswerRequest, TakeNoise, Takes, Timeout, Module, Disturb, vars
  <1> QED
    BY <1>1, <1>2, <1>4, <1>5, <1>6, <1>7, <1>8

(***************************************************************************)
(* A call is confirmed by an acknowledgement of its own.                   *)
(***************************************************************************)
LEMMA AckReceived ==
    ASSUME Types, AckInv, TakeAck, AckMatches
    PROVE  task = "waiting" /\ call.number \in Calls /\ deliveries[call.number] > 0
  <1>1. task = "waiting" /\ call.number \in Calls
    BY DEF Types, CallInv, BusyOnlyWaiting, Open, AckMatches
  <1>2. toMcu # <<>> /\ toMcu \in Seq(ToMcu) /\ Head(toMcu).type = "ack"
        /\ Head(toMcu).id = message.id
    BY DEF Types, TypeOK, TakeAck, Takes, AckMatches
  <1>3. Head(toMcu) = toMcu[1] /\ 1 \in 1 .. Len(toMcu)
    BY <1>2, TailElements
  <1> QED
    BY <1>1, <1>2, <1>3 DEF AckInv, AckOk

LEMMA DeliveredStep ==
    ASSUME Types, AckInv, DeliveredInv, [Next]_vars
    PROVE  DeliveredInv'
  <1>0. /\ outcome \in [Calls -> {"none", "open", "confirmed", "failed"}]
        /\ task = "waiting" => call.number \in Calls
        /\ state = "RESPONSE" => task = "waiting"
    BY DEF Types, TypeOK, CallInv, BusyOnlyWaiting, Open
  <1>1. \A n \in Calls : deliveries[n] > 0 => deliveries'[n] > 0
    BY DeliveriesGrow
  <1>2. CASE UNCHANGED <<state, call, outcome>>
    BY <1>0, <1>1, <1>2 DEF DeliveredInv
  <1>3. ASSUME NEW kind \in Kinds, NEW tag \in Tags, Call(kind, tag)
        PROVE  DeliveredInv'
    BY <1>0, <1>1, <1>3 DEF DeliveredInv, Call
  <1>4. CASE Transmit \/ \E tag \in Tags : AnswerRequest(tag)
    BY <1>0, <1>1, <1>4 DEF DeliveredInv, Transmit, AnswerRequest, Takes, Goes
  <1>5. CASE AckMatches /\ TakeAck
    <2>1. call.number \in Calls /\ deliveries[call.number] > 0 /\ call' = call
      BY <1>5, AckReceived DEF TakeAck, Takes
    <2> QED
      BY <2>1, <1>0, <1>1, <1>5 DEF TakeAck, DeliveredInv, Goes, Confirmed
  <1>6. CASE ResponseMatches /\ TakeResponse
    <2>1. call.number \in Calls /\ deliveries[call.number] > 0 /\ call' = call
      BY <1>0, <1>6 DEF TakeResponse, Takes, ResponseMatches, DeliveredInv
    <2> QED
      BY <2>1, <1>0, <1>1, <1>6 DEF TakeResponse, DeliveredInv, Goes, Confirmed
  <1>7. CASE TakeNoise \/ Timeout
    BY <1>0, <1>1, <1>7 DEF TakeNoise, Timeout, Takes, Failed, Goes, DeliveredInv
  <1>8. ASSUME \/ TakeAck /\ ~AckMatches
               \/ TakeResponse /\ ~ResponseMatches
               \/ TakeEvent \/ DropRequest
        PROVE  UNCHANGED <<state, call, outcome>>
    BY <1>8 DEF TakeAck, TakeResponse, TakeEvent, DropRequest, Takes, Goes
  <1>9. ASSUME Module \/ Disturb \/ UNCHANGED vars
        PROVE  UNCHANGED <<state, call, outcome>>
    BY <1>9 DEF Module, ModuleTakes, ModuleAnswers, ModuleSpeaks, Disturb, taskVars, vars
  <1> QED
    BY <1>2, <1>3, <1>4, <1>5, <1>6, <1>7, <1>8, <1>9 DEF Next, Mcu, Take

-----------------------------------------------------------------------------
LEMMA LinkInit == Init => LinkInv
  <1> SUFFICES ASSUME Init PROVE LinkInv
    OBVIOUS
  <1>1. TypeOK /\ CallInv
    BY InitTypes DEF Types
  <1>2. Len(toMcu) = 0 /\ Len(toModule) = 0
    BY DEF Init
  <1>3. Requests = {}
    BY <1>2 DEF Requests
  <1>4. IdInv /\ RequestInv
    BY <1>3 DEF Init, IdInv, Used, RequestInv
  <1>5. SentInv /\ AckInv
    BY <1>2 DEF SentInv, AckInv
  <1>6. DeliveredInv
    BY DEF Init, DeliveredInv
  <1> QED
    BY <1>1, <1>4, <1>5, <1>6 DEF LinkInv

\* Every part of LinkInv is kept by every step, as long as no transaction id
\* is used twice and nothing is refused in the name of transaction 0.
THEOREM LinkInvariance == ASSUME OneWindow PROVE Spec => []LinkInv
  <1>1. LinkInv /\ [Next]_vars => LinkInv'
    <2> SUFFICES ASSUME LinkInv, [Next]_vars PROVE LinkInv'
      OBVIOUS
    <2>1. Types /\ IdInv /\ RequestInv /\ SentInv /\ AckInv /\ DeliveredInv
      BY DEF LinkInv, Types
    <2>2. Types'
      BY <2>1, TypesStep
    <2>3. IdInv' /\ RequestInv'
      BY <2>1, IdStep, RequestStep
    <2>4. SentInv' /\ AckInv' /\ DeliveredInv'
      BY <2>1, SentStep, AckStep, DeliveredStep
    <2> QED
      BY <2>2, <2>3, <2>4 DEF LinkInv, Types
  <1> QED
    BY <1>1, LinkInit, PTL DEF Spec

\* A call that returned 0 reached the module (ConfirmedMeansReceived), whatever
\* was acknowledged late, twice or for another message, and whatever was
\* damaged or lost.
THEOREM ConfirmedReceived == ASSUME OneWindow PROVE Spec => []ConfirmedMeansReceived
  <1>1. LinkInv => ConfirmedMeansReceived
    BY DEF LinkInv, DeliveredInv, ConfirmedMeansReceived
  <1> QED
    BY <1>1, LinkInvariance, PTL

-----------------------------------------------------------------------------
(***************************************************************************)
(* The refinement: Call begins a call, a message that the module takes     *)
(* delivers it, and the end of the last attempt confirms it or fails it.   *)
(***************************************************************************)
LEMMA PromiseStep ==
    ASSUME Types, AckInv, DeliveredInv, SentInv, [Next]_vars
    PROVE  Promise!Next \/ UNCHANGED <<call.number, outcome, deliveries>>
  <1> USE DEF Calls, Promise!Calls
  <1>0. /\ outcome \in [Calls -> {"none", "open", "confirmed", "failed"}]
        /\ deliveries \in [Calls -> Nat] /\ call.number \in 0 .. MaxCalls
        /\ task = "waiting" => call.number \in Calls /\ outcome[call.number] = "open"
        /\ task = "free" /\ call.number > 0 => outcome[call.number] # "open"
    BY DEF Types, TypeOK, CallInv, Open
  <1>1. ASSUME task = "waiting", deliveries[call.number] > 0, Confirmed,
               UNCHANGED <<call, deliveries>>
        PROVE  Promise!Next
    <2>1. Promise!Confirm(call.number)
      BY <1>0, <1>1 DEF Confirmed, Promise!Confirm
    <2> QED
      BY <2>1, <1>0, <1>1 DEF Promise!Next
  <1>2. ASSUME task = "waiting", Failed, UNCHANGED <<call, deliveries>>
        PROVE  Promise!Next \/ UNCHANGED <<call.number, outcome, deliveries>>
    <2>1. CASE outcome' = outcome
      BY <2>1, <1>2
    <2>2. CASE outcome' = [outcome EXCEPT ![call.number] = "failed"]
      <3>1. Promise!Fail(call.number)
        BY <2>2, <1>0, <1>2 DEF Promise!Fail
      <3> QED
        BY <3>1, <1>0, <1>2 DEF Promise!Next
    <2> QED
      BY <2>1, <2>2, <1>2 DEF Failed
  <1>3. ASSUME NEW kind \in Kinds, NEW tag \in Tags, Call(kind, tag)
        PROVE  Promise!Next
    <2>1. Promise!Begin
      BY <1>0, <1>3 DEF Call, Promise!Begin
    <2> QED
      BY <2>1 DEF Promise!Next
  <1>4. CASE TakeAck
    <2>1. CASE AckMatches /\ Confirmed
      BY <2>1, <1>1, <1>4, AckReceived DEF TakeAck, Takes
    <2>2. CASE ~(AckMatches /\ Confirmed)
      BY <2>2, <1>4 DEF TakeAck, Takes, Goes
    <2> QED
      BY <2>1, <2>2
  <1>5. CASE TakeResponse
    <2>1. CASE ResponseMatches /\ Confirmed
      <3>1. task = "waiting" /\ deliveries[call.number] > 0
        BY <2>1 DEF ResponseMatches, DeliveredInv, Types, CallInv, BusyOnlyWaiting
      <3> QED
        BY <3>1, <2>1, <1>1, <1>5 DEF TakeResponse, Takes
    <2>2. CASE ~(ResponseMatches /\ Confirmed)
      BY <2>2, <1>5 DEF TakeResponse, Takes, Goes
    <2> QED
      BY <2>1, <2>2
  <1>6. CASE TakeNoise
    BY <1>2, <1>6 DEF TakeNoise, Takes, Goes
  <1>7. CASE Timeout
    BY <1>2, <1>7 DEF Timeout
  <1>8. CASE ModuleTakes
    <2>1. PICK f \in ToModule :
              /\ f.type = "message" => f.seq <= call.number
              /\ deliveries' = IF f.type = "message"
                               THEN [deliveries EXCEPT ![f.seq] = deliveries[f.seq] + 1]
                               ELSE deliveries
      <3>1. /\ toModule \in Seq(ToModule) /\ toModule # <<>>
        BY <1>8 DEF ModuleTakes, Types, TypeOK
      <3>2. /\ Head(toModule) \in ToModule /\ Head(toModule) = toModule[1]
            /\ 1 \in 1 .. Len(toModule)
        BY <3>1, TailElements
      <3>3. SentOk(toModule[1])
        BY <3>2 DEF SentInv
      <3> QED
        BY <3>2, <3>3, <1>8 DEF ModuleTakes, SentOk
    <2>2. UNCHANGED <<call, outcome>>
      BY <1>8 DEF ModuleTakes, taskVars
    <2>3. CASE f.type = "message"
      <3>1. f.seq \in Calls /\ Promise!Deliver(f.seq)
        BY <2>1, <2>2, <2>3, FramesToModule DEF Promise!Deliver
      <3> QED
        BY <3>1 DEF Promise!Next
    <2>4. CASE f.type # "message"
      BY <2>1, <2>2, <2>4
    <2> QED
      BY <2>3, <2>4
  <1>9. CASE \/ Transmit \/ TakeEvent \/ DropRequest \/ ModuleAnswers \/ Disturb
             \/ \E tag \in Tags : AnswerRequest(tag)
             \/ \E frame \in {Event, Request(unasked + 1)} : ModuleSpeaks(frame)
             \/ UNCHANGED vars
    BY <1>9 DEF Transmit, TakeEvent, DropRequest, AnswerRequest, Takes, Goes,
       ModuleAnswers, ModuleSpeaks, Disturb, taskVars, vars
  <1> QED
    BY <1>3, <1>4, <1>5, <1>6, <1>7, <1>8, <1>9 DEF Next, Mcu, Take, Module

\* The link keeps the promise of AtLeastOnce (AtLeastOnceSpec): one call at a
\* time, confirmed only when the module was given it, and nothing is given to
\* the module that was not called for.
THEOREM LinkKeepsPromise == ASSUME OneWindow PROVE Spec => AtLeastOnceSpec
  <1>1. Init => Promise!Init
    BY DEF Init, Promise!Init, Calls, Promise!Calls
  <1>2. LinkInv /\ [Next]_vars => [Promise!Next]_<<call.number, outcome, deliveries>>
    BY PromiseStep DEF LinkInv, Types
  <1> QED
    BY <1>1, <1>2, LinkInvariance, PTL DEF Spec, AtLeastOnceSpec, Promise!Spec

-----------------------------------------------------------------------------
(***************************************************************************)
(* How often the module is given a call.  What it was given of a call and  *)
(* what is on its way are together no more than the attempts that were     *)
(* made; there are two of them at most.                                    *)
(***************************************************************************)
AttemptsOf(n, number, t, tried) ==
    IF n > number THEN 0
    ELSE IF n < number \/ t = "free" THEN 2
    ELSE IF t = "sending" THEN tried ELSE tried + 1

Attempts(n) == AttemptsOf(n, call.number, task, retries)

OnTheWay(s, n) == {i \in 1 .. Len(s) : s[i].type = "message" /\ s[i].seq = n}

\* d deliveries and the messages for n in s are a or less, and a is 2 or less.
Fit(s, n, d, a) ==
    /\ d <= a
    /\ \A i \in OnTheWay(s, n) : d + 1 <= a
    /\ \A i, j \in OnTheWay(s, n) : i < j => d + 2 <= a
    /\ \A i, j, k \in OnTheWay(s, n) : ~(i < j /\ j < k)

AttemptInv == \A n \in Calls : Fit(toModule, n, deliveries[n], Attempts(n))

LEMMA FitMore ==
    ASSUME NEW s, NEW n, NEW d \in Nat, NEW a \in Nat, NEW b \in Nat, a <= b, Fit(s, n, d, a)
    PROVE  Fit(s, n, d, b)
  BY DEF Fit

LEMMA FitAppendOther ==
    ASSUME NEW s \in Seq(ToModule), NEW n, NEW d \in Nat, NEW a \in Nat, Fit(s, n, d, a),
           NEW f \in ToModule, ~(f.type = "message" /\ f.seq = n)
    PROVE  Append(s, f) \in Seq(ToModule) /\ Fit(Append(s, f), n, d, a)
  <1>1. OnTheWay(Append(s, f), n) = OnTheWay(s, n)
    BY AppendElements DEF OnTheWay
  <1> QED
    BY <1>1, AppendElements DEF Fit

LEMMA FitAppend ==
    ASSUME NEW s \in Seq(ToModule), NEW n, NEW d \in Nat, NEW a \in 0 .. 1, Fit(s, n, d, a),
           NEW f \in ToModule
    PROVE  Fit(Append(s, f), n, d, a + 1)
  <1>1. Len(s) \in Nat
    BY AppendElements
  <1>2. \A i \in OnTheWay(Append(s, f), n) : i \in OnTheWay(s, n) \/ i = Len(s) + 1
    BY AppendElements DEF OnTheWay
  <1>3. \A i \in OnTheWay(s, n) : i \in Int /\ i <= Len(s)
    BY <1>1 DEF OnTheWay
  <1>4. \A i, j, k \in OnTheWay(Append(s, f), n) : ~(i < j /\ j < k)
    <2> SUFFICES ASSUME NEW i \in OnTheWay(Append(s, f), n), NEW j \in OnTheWay(Append(s, f), n),
                        NEW k \in OnTheWay(Append(s, f), n), i < j, j < k
                 PROVE  FALSE
      OBVIOUS
    <2>1. i \in OnTheWay(s, n) /\ j \in OnTheWay(s, n)
      BY <1>1, <1>2, <1>3
    <2>2. d + 2 <= a
      BY <2>1 DEF Fit
    <2> QED
      BY <2>2
  <1>5. \A i, j \in OnTheWay(Append(s, f), n) : i < j => d + 1 <= a
    <2> SUFFICES ASSUME NEW i \in OnTheWay(Append(s, f), n), NEW j \in OnTheWay(Append(s, f), n), i < j
                 PROVE  d + 1 <= a
      OBVIOUS
    <2>1. i \in OnTheWay(s, n)
      BY <1>1, <1>2, <1>3
    <2> QED
      BY <2>1 DEF Fit
  <1> QED
    BY <1>4, <1>5 DEF Fit

LEMMA FitTail ==
    ASSUME NEW s \in Seq(ToModule), s # <<>>, NEW n, NEW d \in Nat, NEW a \in Nat, Fit(s, n, d, a),
           NEW e \in Nat, e = IF 1 \in OnTheWay(s, n) THEN d + 1 ELSE d
    PROVE  Fit(Tail(s), n, e, a)
  <1>1. \A i \in OnTheWay(Tail(s), n) : i \in Int /\ 1 < i + 1 /\ i + 1 \in OnTheWay(s, n)
    BY TailElements DEF OnTheWay
  <1>2. \A i, j, k \in OnTheWay(Tail(s), n) : ~(i < j /\ j < k)
    BY <1>1 DEF Fit
  <1>3. e <= a
    BY DEF Fit
  <1>4. ASSUME NEW i \in OnTheWay(Tail(s), n) PROVE e + 1 <= a
    <2>1. i + 1 \in OnTheWay(s, n) /\ 1 < i + 1
      BY <1>1
    <2> QED
      BY <2>1 DEF Fit
  <1>5. ASSUME NEW i \in OnTheWay(Tail(s), n), NEW j \in OnTheWay(Tail(s), n), i < j PROVE e + 2 <= a
    <2>1. i + 1 \in OnTheWay(s, n) /\ j + 1 \in OnTheWay(s, n) /\ 1 < i + 1 /\ i + 1 < j + 1
      BY <1>1, <1>5
    <2>2. 1 \notin OnTheWay(s, n)
      BY <2>1 DEF Fit
    <2> QED
      BY <2>1, <2>2 DEF Fit
  <1> QED
    BY <1>2, <1>3, <1>4, <1>5 DEF Fit

LEMMA FitDamaged ==
    ASSUME NEW s \in Seq(ToModule), s # <<>>, NEW n, NEW d \in Nat, NEW a \in Nat, Fit(s, n, d, a),
           NEW t \in Damaged(s)
    PROVE  Fit(t, n, d, a)
  <1>1. PICK k \in {0, 1} : \A i \in 1 .. Len(t) :
               t[i] = Noise \/ (i + k \in 1 .. Len(s) /\ t[i] = s[i + k])
    BY DamagedFrame, FixedFrames
  <1>2. t \in Seq(ToModule)
    <2>1. Tail(s) \in Seq(ToModule) /\ <<Noise>> \in Seq(ToModule)
      BY TailElements, FixedFrames
    <2>2. <<Noise>> \o Tail(s) \in Seq(ToModule)
      BY <2>1
    <2> QED
      BY <2>1, <2>2 DEF Damaged
  <1>3. Noise.type # "message"
    BY FixedFrames
  <1>4. \A i \in OnTheWay(t, n) : i \in Int /\ i + k \in OnTheWay(s, n)
    BY <1>1, <1>2, <1>3 DEF OnTheWay
  <1> HIDE <1>1
  <1>5. k \in Int
    OBVIOUS
  <1>6. \A i, j, l \in OnTheWay(t, n) : ~(i < j /\ j < l)
    BY <1>4, <1>5 DEF Fit
  <1>7. \A i, j \in OnTheWay(t, n) : i < j => d + 2 <= a
    BY <1>4, <1>5 DEF Fit
  <1>8. \A i \in OnTheWay(t, n) : d + 1 <= a
    BY <1>4 DEF Fit
  <1> QED
    BY <1>6, <1>7, <1>8 DEF Fit

LEMMA AttemptsBound ==
    ASSUME NEW n \in Int, NEW number \in Nat, NEW t \in {"free", "sending", "waiting"},
           NEW tried \in 0 .. 2, t # "free" => tried < 2
    PROVE  AttemptsOf(n, number, t, tried) \in 0 .. 2
  <1>1. CASE t = "free"
    BY <1>1 DEF AttemptsOf
  <1>2. CASE t = "sending"
    BY <1>2 DEF AttemptsOf
  <1>3. CASE t = "waiting"
    <2>1. tried + 1 \in 0 .. 2
      BY <1>3
    <2> QED
      BY <1>3, <2>1 DEF AttemptsOf
  <1> QED
    BY <1>1, <1>2, <1>3

LEMMA AttemptsBounded ==
    ASSUME Types, NEW n \in Calls
    PROVE  Attempts(n) \in 0 .. 2
  <1>1. /\ call.number \in Nat /\ retries \in 0 .. 2 /\ task \in {"free", "sending", "waiting"}
        /\ task # "free" => retries < 2
    BY DEF Types, TypeOK, CallInv, Open, MaxRetries
  <1> QED
    BY <1>1, AttemptsBound DEF Attempts, Calls

\* The attempts of a call are counted when they are made and never less later.
LEMMA AttemptsGrow ==
    ASSUME Types, [Next]_vars, NEW n \in Calls
    PROVE  /\ Attempts(n) \in 0 .. 2 /\ Attempts(n)' \in 0 .. 2 /\ Attempts(n) <= Attempts(n)'
           /\ Transmit /\ n = call.number => Attempts(n)' = Attempts(n) + 1
  <1> USE DEF MaxRetries
  <1>0. /\ call.number \in Nat /\ retries \in 0 .. 2 /\ task \in {"free", "sending", "waiting"}
        /\ task # "free" => retries < 2
    BY DEF Types, TypeOK, CallInv, Open
  <1>p. /\ call'.number \in Nat /\ retries' \in 0 .. 2 /\ task' \in {"free", "sending", "waiting"}
        /\ task' # "free" => retries' < 2
    <2>1. Types'
      BY TypesStep
    <2> QED
      BY <2>1 DEF Types, TypeOK, CallInv, Open
  <1>1. n \in Int
    BY DEF Calls
  <1>2. Attempts(n) \in 0 .. 2 /\ Attempts(n)' \in 0 .. 2
    BY <1>0, <1>p, <1>1, AttemptsBound DEF Attempts
  <1>3. ASSUME UNCHANGED call, Confirmed \/ Failed, task = "waiting"
        PROVE  Attempts(n) <= Attempts(n)' /\ ~Transmit
    <2>1. task' = "free" \/ (task' = "sending" /\ retries' = retries + 1)
      BY <1>3 DEF Confirmed, Failed
    <2>2. Attempts(n) <= Attempts(n)'
      BY <1>0, <1>1, <1>3, <2>1 DEF Attempts, AttemptsOf
    <2> QED
      BY <1>3, <2>2 DEF Transmit
  <1>4. ASSUME UNCHANGED <<call, task, retries>>
        PROVE  Attempts(n) <= Attempts(n)' /\ ~Transmit
    BY <1>0, <1>2, <1>4 DEF Attempts, AttemptsOf, Transmit
  <1>5. ASSUME NEW kind \in Kinds, NEW tag \in Tags, Call(kind, tag)
        PROVE  Attempts(n) <= Attempts(n)' /\ ~Transmit
    BY <1>0, <1>1, <1>5 DEF Attempts, AttemptsOf, Call, Transmit
  <1>6. CASE Transmit
    BY <1>0, <1>1, <1>6 DEF Attempts, AttemptsOf, Transmit
  <1>7. CASE TakeAck
    <2>1. AckMatches => task = "waiting"
      BY DEF Types, CallInv, BusyOnlyWaiting, AckMatches
    <2> QED
      BY <1>2, <1>3, <1>4, <1>7, <2>1 DEF TakeAck, Takes, Goes
  <1>8. CASE TakeResponse
    <2>1. ResponseMatches => task = "waiting"
      BY DEF Types, CallInv, BusyOnlyWaiting, ResponseMatches
    <2> QED
      BY <1>2, <1>3, <1>4, <1>8, <2>1 DEF TakeResponse, Takes, Goes
  <1>9. CASE TakeEvent \/ DropRequest \/ \E tag \in Tags : AnswerRequest(tag)
    BY <1>2, <1>4, <1>9 DEF TakeEvent, DropRequest, AnswerRequest, Takes, Goes
  <1>10. CASE TakeNoise
    BY <1>2, <1>3, <1>4, <1>10 DEF TakeNoise, Takes, Goes
  <1>11. CASE Timeout
    BY <1>2, <1>3, <1>11 DEF Timeout
  <1>12. CASE Module \/ Disturb \/ UNCHANGED vars
    BY <1>2, <1>4, <1>12 DEF Module, ModuleTakes, ModuleAnswers, ModuleSpeaks, Disturb, taskVars, vars
  <1> QED
    BY <1>2, <1>5, <1>6, <1>7, <1>8, <1>9, <1>10, <1>11, <1>12 DEF Next, Mcu, Take

LEMMA AttemptStep ==
    ASSUME Types, AttemptInv, [Next]_vars
    PROVE  AttemptInv'
  <1> SUFFICES ASSUME NEW n \in Calls
               PROVE  Fit(toModule', n, deliveries'[n], Attempts(n)')
    BY DEF AttemptInv
  <1> DEFINE d == deliveries[n]
             a == Attempts(n)
             b == Attempts(n)'
  <1>0. /\ toModule \in Seq(ToModule) /\ toMcu \in Seq(ToMcu) /\ d \in Nat /\ n \in Int
        /\ deliveries \in [Calls -> Nat]
        /\ Fit(toModule, n, d, a) /\ a \in 0 .. 2 /\ b \in 0 .. 2 /\ a <= b
    BY AttemptsGrow DEF AttemptInv, Types, TypeOK, Calls
  <1> HIDE DEF a, b, d
  <1>1. Fit(toModule, n, d, b)
    BY <1>0, FitMore
  <1>2. CASE Transmit
    <2>1. PICK f \in ToModule : /\ f.type = "message" /\ f.seq = call.number
                                /\ toModule' = Append(toModule, f)
      BY <1>2, MessageFrames DEF Transmit, Types, TypeOK, CallInv, Open
    <2>2. deliveries'[n] = d
      BY <1>2 DEF Transmit, d
    <2>3. CASE n = call.number
      <3>1. b = a + 1
        BY <1>2, <2>3, AttemptsGrow DEF a, b
      <3>2. a \in 0 .. 1
        BY <1>0, <3>1
      <3>3. Fit(toModule', n, d, a + 1)
        BY <1>0, <2>1, <3>2, FitAppend
      <3> QED
        BY <2>2, <3>1, <3>3 DEF b
    <2>4. CASE n # call.number
      <3>1. Fit(toModule', n, d, b)
        BY <1>0, <1>1, <2>1, <2>4, FitAppendOther
      <3> QED
        BY <2>2, <3>1 DEF b
    <2> QED
      BY <2>3, <2>4
  <1>3. CASE TakeResponse \/ TakeEvent \/ DropRequest \/ TakeNoise
    <2>1. toModule' = Append(toModule, Confirmation) /\ deliveries' = deliveries
      BY <1>3 DEF TakeResponse, TakeEvent, DropRequest, TakeNoise, Takes
    <2>2. Fit(toModule', n, d, b)
      BY <1>0, <1>1, <2>1, FitAppendOther, FixedFrames
    <2> QED
      BY <2>1, <2>2 DEF b, d
  <1>4. ASSUME NEW tag \in Tags, AnswerRequest(tag)
        PROVE  Fit(toModule', n, deliveries'[n], Attempts(n)')
    <2>1. Head(toMcu).seq \in 1 .. MaxUnasked /\ nextId \in Ids
      BY <1>0, <1>4, TailElements, FramesToMcu DEF AnswerRequest, Takes, Types, TypeOK
    <2>2. PICK f \in ToModule : f.type = "answer" /\ toModule' = toModule \o <<Confirmation, f>>
      BY <2>1, <1>4, AnswerFrames DEF AnswerRequest
    <2>3. toModule' = Append(Append(toModule, Confirmation), f) /\ deliveries' = deliveries
      BY <1>0, <1>4, <2>2, FixedFrames DEF AnswerRequest, Takes
    <2>4. Append(toModule, Confirmation) \in Seq(ToModule) /\ Fit(Append(toModule, Confirmation), n, d, b)
      BY <1>0, <1>1, FitAppendOther, FixedFrames
    <2> DEFINE m == Append(toModule, Confirmation)
    <2> HIDE DEF m
    <2>5. m \in Seq(ToModule) /\ Fit(m, n, d, b) /\ ~(f.type = "message" /\ f.seq = n) /\ b \in Nat
      BY <1>0, <2>2, <2>4 DEF m
    <2>6. Fit(Append(m, f), n, d, b)
      BY <1>0, <2>5, FitAppendOther
    <2> QED
      BY <2>3, <2>6 DEF b, d, m
  <1>5. CASE ModuleTakes
    <2>1. toModule # <<>> /\ toModule' = Tail(toModule) /\ Head(toModule) \in ToModule
          /\ Head(toModule) = toModule[1] /\ 1 \in 1 .. Len(toModule)
      BY <1>0, <1>5, TailElements DEF ModuleTakes
    <2>2. deliveries'[n] = IF 1 \in OnTheWay(toModule, n) THEN d + 1 ELSE d
      <3>1. CASE Head(toModule).type = "message"
        <4>1. deliveries' = [deliveries EXCEPT ![Head(toModule).seq] = deliveries[Head(toModule).seq] + 1]
              /\ Head(toModule).seq \in Calls
          BY <1>5, <2>1, <3>1, FramesToModule DEF ModuleTakes
        <4> QED
          BY <1>0, <2>1, <3>1, <4>1 DEF OnTheWay, d
      <3>2. CASE Head(toModule).type # "message"
        BY <1>5, <2>1, <3>2 DEF ModuleTakes, OnTheWay, d
      <3> QED
        BY <3>1, <3>2
    <2>3. deliveries'[n] \in Nat
      BY <1>0, <2>2
    <2> DEFINE e == deliveries'[n]
    <2> HIDE DEF e
    <2>4. e \in Nat /\ e = (IF 1 \in OnTheWay(toModule, n) THEN d + 1 ELSE d) /\ b \in Nat
      BY <1>0, <2>2, <2>3 DEF e
    <2>5. Fit(Tail(toModule), n, e, b)
      BY <1>0, <1>1, <2>1, <2>4, FitTail
    <2> QED
      BY <2>1, <2>5 DEF b, e
  <1>6. CASE Disturb
    <2>1. deliveries' = deliveries
          /\ (toModule' = toModule \/ (toModule # <<>> /\ toModule' \in Damaged(toModule)))
      BY <1>6 DEF Disturb
    <2>2. Fit(toModule', n, d, b)
      BY <1>0, <1>1, <2>1, FitDamaged
    <2> QED
      BY <2>1, <2>2 DEF b, d
  <1>7. CASE \/ \E kind \in Kinds, tag \in Tags : Call(kind, tag)
             \/ Timeout \/ TakeAck \/ ModuleAnswers \/ UNCHANGED vars
             \/ \E frame \in {Event, Request(unasked + 1)} : ModuleSpeaks(frame)
    <2>1. toModule' = toModule /\ deliveries' = deliveries
      BY <1>7 DEF Call, Timeout, TakeAck, Takes, ModuleAnswers, ModuleSpeaks, vars
    <2> QED
      BY <1>1, <2>1 DEF b, d
  <1> QED
    BY <1>2, <1>3, <1>4, <1>5, <1>6, <1>7 DEF Next, Mcu, Take, Module

(* The module is given no call more often than there are attempts           *)
(* (MAX_NUMBER_OF_TX_RETRIES), under every fault, whatever the line keeps   *)
(* back, and however often the transaction ids wrap.                        *)
THEOREM GivenAtMostTwice == Spec => []AtMostTwice
  <1>1. Init => AttemptInv
    <2> SUFFICES ASSUME Init, NEW n \in Calls
                 PROVE  Fit(toModule, n, deliveries[n], Attempts(n))
      BY DEF AttemptInv
    <2>1. toModule = <<>> /\ deliveries[n] = 0 /\ call.number = 0 /\ n \in Nat \ {0}
      BY DEF Init, Calls
    <2>2. OnTheWay(toModule, n) = {}
      BY <2>1 DEF OnTheWay
    <2>3. Attempts(n) = 0
      BY <2>1 DEF Attempts, AttemptsOf
    <2> QED
      BY <2>1, <2>2, <2>3 DEF Fit
  <1>2. Types /\ AttemptInv /\ [Next]_vars => AttemptInv'
    BY AttemptStep
  <1>3. ASSUME Types, AttemptInv PROVE AtMostTwice
    <2> SUFFICES ASSUME NEW n \in Calls PROVE deliveries[n] <= 2
      BY DEF AtMostTwice, MaxRetries
    <2>1. deliveries[n] \in Nat
      BY <1>3 DEF Types, TypeOK
    <2>2. deliveries[n] <= Attempts(n)
      BY <1>3 DEF AttemptInv, Fit
    <2>3. Attempts(n) \in 0 .. 2
      BY <1>3, AttemptsBounded
    <2> QED
      BY <2>1, <2>2, <2>3
  <1> QED
    BY <1>1, <1>2, <1>3, TypesInvariant, PTL DEF Spec
-----------------------------------------------------------------------------
(***************************************************************************)
(* Which response a request returns with.  While no attempt has failed     *)
(* there is one response at most between the task and the module: still    *)
(* asked for, owed by the module or on its way back; and it is that of the *)
(* call that waits.                                                        *)
(***************************************************************************)
Wanted(f) == f.type = "response" \/ (f.type = "message" /\ f.kind = "request")
Wanting(s) == {i \in 1 .. Len(s) : Wanted(s[i])}

Settled == Wanting(toModule) = {} /\ work = <<>> /\ Wanting(toMcu) = {}

OneReply ==
    /\ \A i, j \in Wanting(toModule) : i = j
    /\ \A i, j \in Wanting(toMcu) : i = j
    /\ Len(work) <= 1
    /\ Wanting(toModule) # {} => work = <<>> /\ Wanting(toMcu) = {}
    /\ work # <<>> => Wanting(toMcu) = {}
    /\ \A i \in Wanting(toModule) : toModule[i].seq = call.number
    /\ \A i \in 1 .. Len(work) : work[i].seq = call.number
    /\ \A i \in Wanting(toMcu) : toMcu[i].seq = call.number
    /\ Settled \/ (task = "waiting" /\ call.kind = "request")

ReplyInv == (retried \/ OneReply) /\ ReplyMatches

\* Nothing that brings or asks for a response has come to the frames of s.
Kept(s, t) ==
    \E k \in {0, 1} : \A i \in 1 .. Len(t) :
        ~Wanted(t[i]) \/ (i + k \in 1 .. Len(s) /\ t[i] = s[i + k])

LEMMA KeptOne ==
    ASSUME NEW s, NEW t, Len(s) \in Nat, Len(t) \in Nat, Kept(s, t)
    PROVE  /\ (\A i, j \in Wanting(s) : i = j) => (\A i, j \in Wanting(t) : i = j)
           /\ Wanting(s) = {} => Wanting(t) = {}
           /\ \A n : (\A i \in Wanting(s) : s[i].seq = n) => (\A i \in Wanting(t) : t[i].seq = n)
  <1>1. PICK k \in {0, 1} : \A i \in 1 .. Len(t) :
               ~Wanted(t[i]) \/ (i + k \in 1 .. Len(s) /\ t[i] = s[i + k])
    BY DEF Kept
  <1>2. \A i \in Wanting(t) : i \in Int /\ i + k \in Wanting(s) /\ t[i] = s[i + k]
    BY <1>1 DEF Wanting
  <1>3. k \in Int
    OBVIOUS
  <1>4. ASSUME \A i, j \in Wanting(s) : i = j, NEW i \in Wanting(t), NEW j \in Wanting(t) PROVE i = j
    <2>1. i + k = j + k
      BY <1>2, <1>4
    <2> QED
      BY <1>2, <1>3, <2>1
  <1> QED
    BY <1>2, <1>4

LEMMA KeptSame == ASSUME NEW s, Len(s) \in Nat PROVE Kept(s, s)
  <1>1. \A i \in 1 .. Len(s) : i + 0 \in 1 .. Len(s) /\ s[i] = s[i + 0]
    OBVIOUS
  <1> QED
    BY <1>1 DEF Kept

LEMMA KeptTail == ASSUME NEW S, NEW s \in Seq(S), s # <<>> PROVE Kept(s, Tail(s))
  <1>1. \A i \in 1 .. Len(Tail(s)) : i + 1 \in 1 .. Len(s) /\ Tail(s)[i] = s[i + 1]
    BY TailElements
  <1> QED
    BY <1>1 DEF Kept

LEMMA KeptAppend ==
    ASSUME NEW S, NEW s \in Seq(S), NEW e \in S, ~Wanted(e)
    PROVE  Kept(s, Append(s, e)) /\ Append(s, e) \in Seq(S)
  <1>1. Len(s) \in Nat /\ Append(s, e) \in Seq(S)
    BY AppendElements
  <1>2. ASSUME NEW i \in 1 .. Len(Append(s, e))
        PROVE  ~Wanted(Append(s, e)[i]) \/ (i + 0 \in 1 .. Len(s) /\ Append(s, e)[i] = s[i + 0])
    <2>1. i \in 1 .. Len(s) \/ i = Len(s) + 1
      BY <1>1, AppendElements
    <2>2. CASE i = Len(s) + 1
      BY <2>2, AppendElements
    <2>3. CASE i \in 1 .. Len(s)
      <3>1. i + 0 = i
        BY <1>1, <2>3
      <3> QED
        BY <2>3, <3>1, AppendElements
    <2> QED
      BY <2>1, <2>2, <2>3
  <1> QED
    BY <1>1, <1>2 DEF Kept

LEMMA KeptDamaged ==
    ASSUME NEW S, NEW s \in Seq(S), s # <<>>, NEW t \in Damaged(s), Noise \in S
    PROVE  Kept(s, t)
  <1>1. PICK k \in {0, 1} : \A i \in 1 .. Len(t) :
               t[i] = Noise \/ (i + k \in 1 .. Len(s) /\ t[i] = s[i + k])
    BY DamagedFrame
  <1>2. ~Wanted(Noise)
    BY FixedFrames DEF Wanted
  <1> QED
    BY <1>1, <1>2 DEF Kept

\* The only thing that asks, owes or brings is at the end of s.
LEMMA OneAppended ==
    ASSUME NEW S, NEW s \in Seq(S), Wanting(s) = {}, NEW e \in S
    PROVE  \A i \in Wanting(Append(s, e)) : i = Len(s) + 1 /\ Append(s, e)[i] = e
  <1>1. Len(s) \in Nat
    OBVIOUS
  <1>2. ASSUME NEW i \in Wanting(Append(s, e)) PROVE i = Len(s) + 1
    <2>1. i \in 1 .. Len(s) + 1 /\ Wanted(Append(s, e)[i])
      BY <1>2, AppendElements DEF Wanting
    <2>2. i \notin 1 .. Len(s)
      BY <2>1, AppendElements DEF Wanting
    <2> QED
      BY <1>1, <2>1, <2>2
  <1> QED
    BY <1>2, AppendElements

LEMMA FirstOnly ==
    ASSUME NEW S, NEW s \in Seq(S), s # <<>>, Wanted(Head(s)), \A i, j \in Wanting(s) : i = j
    PROVE  1 \in Wanting(s) /\ Wanting(Tail(s)) = {}
  <1>1. Len(s) \in Nat /\ Len(s) >= 1 /\ Head(s) = s[1]
    BY TailElements
  <1>2. 1 \in Wanting(s)
    BY <1>1 DEF Wanting
  <1>3. \A i \in Wanting(Tail(s)) : i \in Int /\ i >= 1 /\ i + 1 \in Wanting(s)
    BY TailElements DEF Wanting
  <1>4. \A i \in Wanting(Tail(s)) : i + 1 = 1
    BY <1>2, <1>3
  <1> QED
    BY <1>2, <1>3, <1>4

\* Frames that ask for nothing change nothing of it.
LEMMA ReplyKept ==
    ASSUME TypeOK, TypeOK', OneReply, Kept(toModule, toModule'), work' = work,
           Kept(toMcu, toMcu'), UNCHANGED <<call, task>> \/ Settled
    PROVE  OneReply'
  <1>1. Len(toModule) \in Nat /\ Len(toModule') \in Nat /\ Len(toMcu) \in Nat /\ Len(toMcu') \in Nat
        /\ Len(work) \in Nat
    BY DEF TypeOK
  <1>2. /\ \A i, j \in Wanting(toModule') : i = j
        /\ Wanting(toModule) = {} => Wanting(toModule') = {}
        /\ \A n : (\A i \in Wanting(toModule) : toModule[i].seq = n)
                    => (\A i \in Wanting(toModule') : toModule'[i].seq = n)
    BY <1>1, KeptOne DEF OneReply
  <1>3. /\ \A i, j \in Wanting(toMcu') : i = j
        /\ Wanting(toMcu) = {} => Wanting(toMcu') = {}
        /\ \A n : (\A i \in Wanting(toMcu) : toMcu[i].seq = n)
                    => (\A i \in Wanting(toMcu') : toMcu'[i].seq = n)
    BY <1>1, KeptOne DEF OneReply
  <1>4. Settled => Settled'
    BY <1>2, <1>3 DEF Settled
  <1>5. CASE Settled
    <2>1. Settled' /\ Len(work') = 0
      BY <1>4, <1>5 DEF Settled
    <2> QED
      BY <1>2, <1>3, <2>1 DEF OneReply, Settled
  <1>6. CASE UNCHANGED <<call, task>>
    BY <1>2, <1>3, <1>4, <1>6 DEF OneReply
  <1> QED
    BY <1>5, <1>6

LEMMA WantedFrames ==
    /\ ~Wanted(Confirmation) /\ ~Wanted(Event) /\ ~Wanted(Noise)
    /\ \A n \in Nat, i \in Nat : ~Wanted(Answer(n, i)) /\ ~Wanted(Request(n)) /\ ~Wanted(Ack(i))
    /\ \A f \in Responses : Wanted(f)
  BY DEF Wanted, Confirmation, Event, Noise, Answer, Request, Ack, Responses, Response

\* What the task may do to the frames while it takes one.
LEMMA Confirms ==
    ASSUME Types, toMcu # <<>>
    PROVE  /\ Kept(toModule, Append(toModule, Confirmation))
           /\ Kept(toMcu, Tail(toMcu))
           /\ Kept(toModule, toModule) /\ Kept(toMcu, toMcu)
  <1>1. toModule \in Seq(ToModule) /\ toMcu \in Seq(ToMcu) /\ Len(toModule) \in Nat /\ Len(toMcu) \in Nat
    BY DEF Types, TypeOK
  <1> QED
    BY <1>1, KeptAppend, KeptTail, KeptSame, WantedFrames, FixedFrames

LEMMA ReplyAnswered ==
    ASSUME Types, OneReply, NEW tag \in Tags, AnswerRequest(tag)
    PROVE  OneReply'
  <1>0. Types' /\ toModule \in Seq(ToModule) /\ toMcu \in Seq(ToMcu) /\ toMcu # <<>>
        /\ Head(toMcu).type = "request"
    BY TypesStep DEF Types, TypeOK, Next, Mcu, Take, AnswerRequest, Takes
  <1>1. Head(toMcu).seq \in 1 .. MaxUnasked /\ nextId \in Ids
    BY <1>0, TailElements, FramesToMcu DEF Types, TypeOK
  <1> DEFINE f == Answer(Head(toMcu).seq, nextId)
             m == Append(toModule, Confirmation)
  <1>2. f \in ToModule /\ ~Wanted(f)
    BY <1>1, AnswerFrames, WantedFrames, IdsWrap
  <1>3. toModule' = Append(m, f)
    BY <1>0, <1>2, FixedFrames DEF AnswerRequest
  <1> HIDE DEF f
  <1>4. m \in Seq(ToModule) /\ Kept(toModule, m)
    BY <1>0, KeptAppend, WantedFrames, FixedFrames
  <1> HIDE DEF m
  <1>5. Kept(m, Append(m, f))
    BY <1>2, <1>4, KeptAppend
  <1>6. Kept(toModule, Append(m, f))
    <2>0. Append(m, f) \in Seq(ToModule) /\ Len(m) \in Nat /\ Len(toModule) \in Nat
          /\ Len(Append(m, f)) = Len(m) + 1 /\ Append(m, f)[Len(m) + 1] = f
          /\ \A i \in 1 .. Len(m) : Append(m, f)[i] = m[i]
      BY <1>0, <1>2, <1>4, AppendElements
    <2>1. PICK k \in {0, 1} : \A i \in 1 .. Len(m) :
                 ~Wanted(m[i]) \/ (i + k \in 1 .. Len(toModule) /\ m[i] = toModule[i + k])
      BY <1>4 DEF Kept
    <2>2. \A i \in 1 .. Len(Append(m, f)) : i \in 1 .. Len(m) \/ i = Len(m) + 1
      BY <2>0
    <2>3. \A i \in 1 .. Len(Append(m, f)) :
             ~Wanted(Append(m, f)[i])
             \/ (i + k \in 1 .. Len(toModule) /\ Append(m, f)[i] = toModule[i + k])
      BY <1>2, <2>0, <2>1, <2>2
    <2> QED
      BY <2>3 DEF Kept
  <1>7. Kept(toModule, toModule') /\ Kept(toMcu, toMcu') /\ work' = work /\ UNCHANGED <<call, task>>
    BY <1>0, <1>3, <1>6, Confirms DEF AnswerRequest, Takes, Goes
  <1> QED
    BY <1>0, <1>7, ReplyKept DEF Types

LEMMA ReplyTaken ==
    ASSUME Types, OneReply, TakeAck \/ TakeResponse \/ TakeEvent \/ DropRequest \/ TakeNoise
    PROVE  retried' \/ OneReply'
  <1>0. /\ Types' /\ toModule \in Seq(ToModule) /\ toMcu \in Seq(ToMcu) /\ toMcu # <<>>
        /\ work' = work /\ toMcu' = Tail(toMcu) /\ call' = call
    BY TypesStep DEF Types, TypeOK, Next, Mcu, Take, TakeAck, TakeResponse, TakeEvent,
                     DropRequest, TakeNoise, Takes
  <1>1. Kept(toModule, toModule') /\ Kept(toMcu, toMcu')
    BY <1>0, Confirms DEF TakeAck, TakeResponse, TakeEvent, DropRequest, TakeNoise
  <1>2. CASE UNCHANGED task
    BY <1>0, <1>1, <1>2, ReplyKept DEF Types
  <1>3. CASE Settled
    BY <1>0, <1>1, <1>3, ReplyKept DEF Types
  <1>4. CASE TakeEvent \/ DropRequest
    BY <1>2, <1>4 DEF TakeEvent, DropRequest, Goes
  <1>5. CASE TakeNoise
    BY <1>2, <1>5 DEF TakeNoise, Goes, Failed
  <1>6. CASE TakeAck
    <2>1. CASE AckMatches /\ ~message.expect
      <3>1. task = "waiting" /\ call.kind # "request"
        BY <2>1 DEF Types, CallInv, BusyOnlyWaiting, AckMatches
      <3> QED
        BY <1>3, <3>1 DEF OneReply
    <2> QED
      BY <1>2, <1>6, <2>1 DEF TakeAck, Goes
  <1>7. CASE TakeResponse
    <2>1. CASE ResponseMatches
      <3>1. Wanted(Head(toMcu))
        BY <1>7 DEF TakeResponse, Takes, Wanted
      <3>2. 1 \in Wanting(toMcu) /\ Wanting(Tail(toMcu)) = {}
        BY <1>0, <3>1, FirstOnly DEF OneReply
      <3>3. Wanting(toModule) = {} /\ work = <<>>
        BY <3>2 DEF OneReply
      <3>4. Len(toModule) \in Nat /\ Len(toModule') \in Nat
        BY <1>0 DEF Types, TypeOK
      <3>5. Wanting(toModule') = {}
        BY <1>1, <3>3, <3>4, KeptOne
      <3> QED
        BY <1>0, <3>2, <3>3, <3>5 DEF Settled, OneReply
    <2> QED
      BY <1>2, <1>7, <2>1 DEF TakeResponse, Goes
  <1> QED
    BY <1>4, <1>5, <1>6, <1>7

LEMMA ReplySent ==
    ASSUME Types, OneReply, Transmit
    PROVE  OneReply'
  <1>0. /\ toModule \in Seq(ToModule) /\ call.number \in Calls /\ call.kind \in Kinds
        /\ call.tag \in Tags /\ nextId \in Ids
    BY DEF Types, TypeOK, Transmit, CallInv, Open
  <1> DEFINE f == Message(call.kind, call.tag, call.number, nextId)
  <1>1. f \in ToModule /\ f.type = "message" /\ f.kind = call.kind /\ f.seq = call.number
    BY <1>0, MessageFrames DEF Message
  <1>2. /\ toModule' = Append(toModule, f) /\ task' = "waiting"
        /\ UNCHANGED <<call, work, toMcu>>
    BY DEF Transmit
  <1> HIDE DEF f
  <1>3. Settled
    BY DEF Transmit, OneReply
  <1>4. CASE call.kind = "event"
    <2>1. ~Wanted(f)
      BY <1>1, <1>4 DEF Wanted
    <2>2. Kept(toModule, toModule') /\ Kept(toMcu, toMcu')
      BY <1>0, <1>1, <1>2, <2>1, KeptAppend, KeptSame DEF Types, TypeOK
    <2> QED
      BY <1>2, <1>3, <2>2, ReplyKept, TypesStep DEF Types, Next, Mcu
  <1>5. CASE call.kind = "request"
    <2>1. \A i \in Wanting(toModule') : i = Len(toModule) + 1 /\ toModule'[i] = f
      BY <1>0, <1>1, <1>2, <1>3, OneAppended DEF Settled
    <2> QED
      BY <1>1, <1>2, <1>3, <1>5, <2>1 DEF OneReply, Settled
  <1> QED
    BY <1>0, <1>4, <1>5 DEF Kinds

LEMMA RepliesWanted ==
    ASSUME NEW f \in ToModule
    PROVE  /\ Replies(f) \in Seq(ToMcu) /\ Len(Replies(f)) \in Nat
           /\ \A i \in 1 .. Len(Replies(f)) : ~Wanted(Replies(f)[i])
  <1>1. f.type \in {"message", "answer"} => f.id \in Ids
    BY FramesToModule
  <1>2. 0 \in Ids /\ \A n \in Ids : n \in Nat
    BY IdsWrap DEF Ids
  <1>3. CASE Replies(f) = <<>>
    BY <1>3
  <1>4. ASSUME NEW n \in Ids, Replies(f) = <<Ack(n)>> PROVE ~Wanted(Replies(f)[1])
    BY <1>2, <1>4, WantedFrames
  <1>5. Replies(f) = <<>> \/ \E n \in Ids : Replies(f) = <<Ack(n)>>
    BY <1>1, <1>2 DEF Replies, Nack
  <1>6. ASSUME NEW n \in Ids, Replies(f) = <<Ack(n)>>
        PROVE  Replies(f) \in Seq(ToMcu) /\ Len(Replies(f)) = 1
    BY <1>6, AckFrames
  <1> QED
    BY <1>3, <1>4, <1>5, <1>6

LEMMA KeptMore ==
    ASSUME NEW S, NEW s \in Seq(S), NEW t \in Seq(S), \A i \in 1 .. Len(t) : ~Wanted(t[i])
    PROVE  Kept(s, s \o t)
  <1>1. /\ Len(s) \in Nat /\ Len(t) \in Nat /\ Len(s \o t) = Len(s) + Len(t)
        /\ \A i \in 1 .. Len(s) : (s \o t)[i] = s[i]
        /\ \A i \in 1 .. Len(s) + Len(t) : i > Len(s) => (s \o t)[i] = t[i - Len(s)]
    OBVIOUS
  <1>2. \A i \in 1 .. Len(s \o t) : i \in 1 .. Len(s) \/ (i > Len(s) /\ i - Len(s) \in 1 .. Len(t))
    BY <1>1
  <1>3. \A i \in 1 .. Len(s \o t) :
           ~Wanted((s \o t)[i]) \/ (i + 0 \in 1 .. Len(s) /\ (s \o t)[i] = s[i + 0])
    BY <1>1, <1>2
  <1> QED
    BY <1>3 DEF Kept

LEMMA ReplyModule ==
    ASSUME Types, OneReply, Module
    PROVE  OneReply'
  <1>0. /\ toModule \in Seq(ToModule) /\ toMcu \in Seq(ToMcu) /\ work \in Seq(Responses)
        /\ Types' /\ UNCHANGED <<call, task>>
    BY TypesStep DEF Types, TypeOK, Next, Module, ModuleTakes, ModuleAnswers, ModuleSpeaks, taskVars
  <1>1. ASSUME ModuleTakes PROVE OneReply'
    <2> DEFINE f == Head(toModule)
    <2>0. f \in ToModule /\ toModule # <<>> /\ Kept(toModule, toModule') /\ toModule' = Tail(toModule)
      BY <1>0, <1>1, TailElements, KeptTail DEF ModuleTakes
    <2>1. Kept(toMcu, toMcu')
      BY <1>0, <1>1, <2>0, RepliesWanted, KeptMore DEF ModuleTakes
    <2>2. CASE ~Wanted(f)
      <3>1. work' = work
        BY <1>1, <2>2 DEF ModuleTakes, Wanted
      <3> QED
        BY <1>0, <2>0, <2>1, <3>1, ReplyKept DEF Types
    <2>3. CASE Wanted(f)
      <3>1. 1 \in Wanting(toModule) /\ Wanting(toModule') = {}
        BY <1>0, <2>0, <2>3, FirstOnly DEF OneReply
      <3>2. /\ f = toModule[1] /\ f.seq = call.number
            /\ work = <<>> /\ Wanting(toMcu) = {}
            /\ task = "waiting" /\ call.kind = "request"
        BY <1>0, <2>0, <3>1, TailElements DEF OneReply, Settled
      <3>3. work' = <<Response(f.tag, f.seq)>>
        <4>1. f.type # "response"
          BY <2>0, FramesToModule
        <4> QED
          BY <1>1, <2>3, <3>2, <4>1 DEF ModuleTakes, Wanted
      <3>4. Len(work') = 1 /\ work'[1].seq = call.number /\ work' # <<>>
        BY <3>2, <3>3 DEF Response
      <3>5. Wanting(toMcu') = {}
        <4>1. Len(toMcu) \in Nat /\ Len(toMcu') \in Nat
          BY <1>0 DEF Types, TypeOK
        <4> QED
          BY <2>1, <3>2, <4>1, KeptOne
      <3> QED
        BY <1>0, <3>1, <3>2, <3>4, <3>5 DEF OneReply
    <2> QED
      BY <2>2, <2>3
  <1>2. ASSUME ModuleAnswers PROVE OneReply'
    <2>1. /\ work # <<>> /\ Len(work) = 1 /\ Head(work) = work[1] /\ Head(work) \in Responses
          /\ work' = <<>> /\ toMcu' = Append(toMcu, Head(work)) /\ toModule' = toModule
          /\ work[1].seq = call.number
      <3>1. work # <<>> /\ work' = Tail(work) /\ toMcu' = Append(toMcu, Head(work)) /\ toModule' = toModule
        BY <1>2 DEF ModuleAnswers
      <3>2. /\ Len(work) >= 1 /\ Len(work) \in Nat /\ Head(work) = work[1] /\ Head(work) \in Responses
            /\ Tail(work) \in Seq(Responses) /\ Len(Tail(work)) = Len(work) - 1
        BY <1>0, <3>1, TailElements
      <3>3. Len(work) <= 1
        BY DEF OneReply
      <3>4. Len(work) = 1 /\ Tail(work) = <<>>
        BY <3>2, <3>3
      <3>5. work[1].seq = call.number
        BY <3>4 DEF OneReply
      <3> QED
        BY <3>1, <3>2, <3>4, <3>5
    <2>2. /\ Wanting(toMcu) = {} /\ Wanting(toModule) = {} /\ task = "waiting" /\ call.kind = "request"
      BY <2>1 DEF OneReply, Settled
    <2>3. Head(work) \in ToMcu
      BY <2>1, ResponseFrames
    <2>4. \A i \in Wanting(toMcu') : i = Len(toMcu) + 1 /\ toMcu'[i] = work[1]
      BY <1>0, <2>1, <2>2, <2>3, OneAppended
    <2> QED
      BY <1>0, <2>1, <2>2, <2>4 DEF OneReply
  <1>3. ASSUME NEW frame \in {Event, Request(unasked + 1)}, ModuleSpeaks(frame)
        PROVE  OneReply'
    <2>1. frame \in ToMcu /\ ~Wanted(frame)
      <3>1. unasked + 1 \in 1 .. MaxUnasked
        BY <1>3 DEF Types, TypeOK, ModuleSpeaks
      <3> QED
        BY <3>1, FixedFrames, RequestFrames, WantedFrames DEF Wanted
    <2>2. Kept(toMcu, toMcu') /\ Kept(toModule, toModule') /\ work' = work
      BY <1>0, <1>3, <2>1, KeptAppend, KeptSame DEF ModuleSpeaks
    <2> QED
      BY <1>0, <2>2, ReplyKept DEF Types
  <1> QED
    BY <1>1, <1>2, <1>3 DEF Module

LEMMA ReplyDisturbed ==
    ASSUME Types, OneReply, Disturb
    PROVE  OneReply'
  <1>0. /\ toModule \in Seq(ToModule) /\ toMcu \in Seq(ToMcu)
        /\ Types' /\ UNCHANGED <<call, task, work>>
    BY TypesStep DEF Types, TypeOK, Next, Disturb, taskVars
  <1>1. Kept(toModule, toModule') /\ Kept(toMcu, toMcu')
    BY <1>0, KeptDamaged, KeptSame, FixedFrames DEF Disturb
  <1> QED
    BY <1>0, <1>1, ReplyKept DEF Types

\* The one response is still that of the call, after every step.
LEMMA OneReplyStep ==
    ASSUME Types, retried \/ OneReply, [Next]_vars
    PROVE  (retried \/ OneReply)'
  <1>0. retried => retried'
    BY DEF Next, Mcu, Take, Module, Call, Transmit, TakeAck, TakeResponse, TakeEvent, DropRequest,
           AnswerRequest, TakeNoise, Timeout, ModuleTakes, ModuleAnswers, ModuleSpeaks, Disturb,
           Goes, Confirmed, Failed, taskVars, vars
  <1> SUFFICES ASSUME OneReply PROVE retried' \/ OneReply'
    BY <1>0
  <1>1. ASSUME NEW kind \in Kinds, NEW tag \in Tags, Call(kind, tag) PROVE OneReply'
    <2>1. Settled /\ UNCHANGED <<toModule, toMcu, work>>
      BY <1>1 DEF OneReply, Call
    <2>2. Kept(toModule, toModule') /\ Kept(toMcu, toMcu')
      BY <2>1, KeptSame DEF Types, TypeOK
    <2> QED
      BY <1>1, <2>1, <2>2, ReplyKept, TypesStep DEF Types, Next
  <1>2. CASE Timeout
    BY <1>2 DEF Timeout, Failed
  <1>3. CASE UNCHANGED vars
    BY <1>3 DEF vars, OneReply, Settled
  <1> QED
    BY <1>1, <1>2, <1>3, ReplySent, ReplyTaken, ReplyAnswered, ReplyModule, ReplyDisturbed
    DEF Next, Mcu, Take

LEMMA ReplyMatchesStep ==
    ASSUME Types, retried \/ OneReply, ReplyMatches, [Next]_vars
    PROVE  ReplyMatches'
  <1>1. CASE retried'
    BY <1>1 DEF ReplyMatches
  <1>2. CASE UNCHANGED <<call, reply, outcome, retried>>
    BY <1>2 DEF ReplyMatches
  <1>3. ASSUME NEW kind \in Kinds, NEW tag \in Tags, Call(kind, tag) PROVE ReplyMatches'
    <2>1. call.number + 1 \in Calls /\ call'.number = call.number + 1
          /\ outcome'[call.number + 1] = "open"
      BY <1>3 DEF Types, TypeOK, Call, Calls
    <2> QED
      BY <2>1 DEF ReplyMatches
  <1>4. CASE TakeAck /\ AckMatches /\ ~message.expect
    <2>1. call.kind # "request" /\ call' = call
      BY <1>4 DEF Types, CallInv, BusyOnlyWaiting, AckMatches, TakeAck, Takes
    <2> QED
      BY <2>1 DEF ReplyMatches
  <1>5. CASE TakeResponse /\ ResponseMatches
    <2>1. Wanted(Head(toMcu)) /\ toMcu # <<>> /\ toMcu \in Seq(ToMcu)
          /\ reply' = Head(toMcu).seq /\ call' = call /\ retried' = retried
      BY <1>5 DEF TakeResponse, Takes, Wanted, Types, TypeOK, Confirmed
    <2>2. CASE OneReply
      <3>1. 1 \in Wanting(toMcu) /\ Head(toMcu) = toMcu[1]
        BY <2>1, <2>2, FirstOnly, TailElements DEF OneReply
      <3> QED
        BY <2>1, <2>2, <3>1 DEF OneReply, ReplyMatches
    <2> QED
      BY <1>1, <2>1, <2>2
  <1>6. CASE TakeAck
    BY <1>2, <1>4, <1>6 DEF TakeAck, Takes, Goes
  <1>7. CASE TakeResponse
    BY <1>2, <1>5, <1>7 DEF TakeResponse, Takes, Goes
  <1>8. CASE TakeEvent \/ DropRequest \/ \E tag \in Tags : AnswerRequest(tag)
    BY <1>2, <1>8 DEF TakeEvent, DropRequest, AnswerRequest, Takes, Goes
  <1>9. CASE TakeNoise \/ Timeout
    BY <1>1, <1>2, <1>9 DEF TakeNoise, Timeout, Takes, Goes, Failed
  <1>10. CASE Transmit \/ Module \/ Disturb \/ UNCHANGED vars
    BY <1>2, <1>10 DEF Transmit, Module, ModuleTakes, ModuleAnswers, ModuleSpeaks, Disturb, taskVars, vars
  <1> QED
    BY <1>3, <1>6, <1>7, <1>8, <1>9, <1>10 DEF Next, Mcu, Take

(* While no attempt has failed, a request returns with its own response,    *)
(* although only the tag is compared (transport_state_response of           *)
(* actionslink_bt_ul.c): under every fault, for any number of calls and     *)
(* however often the transaction ids wrap.                                  *)
THEOREM ReplyIsOwn == Spec => []ReplyMatches
  <1>1. Init => ReplyInv
    <2> SUFFICES ASSUME Init PROVE ReplyInv
      OBVIOUS
    <2>1. Settled
      BY DEF Init, Settled, Wanting
    <2>2. OneReply
      BY <2>1 DEF OneReply, Settled
    <2> QED
      BY <2>2 DEF Init, ReplyInv, ReplyMatches
  <1>2. Types /\ ReplyInv /\ [Next]_vars => ReplyInv'
    BY OneReplyStep, ReplyMatchesStep DEF ReplyInv
  <1>3. ReplyInv => ReplyMatches
    BY DEF ReplyInv
  <1> QED
    BY <1>1, <1>2, <1>3, TypesInvariant, PTL DEF Spec
=============================================================================
