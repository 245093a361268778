----------------------------- MODULE AtLeastOnce -----------------------------
(***************************************************************************)
(* What a call over the Actions link promises.  Calls are numbered and     *)
(* made one at a time.  The module may be given a call several times, and  *)
(* late, after the caller has given up.  A call ends as confirmed only if  *)
(* the module has been given it; it may fail whatever has happened.        *)
(***************************************************************************)
EXTENDS Naturals

CONSTANT MaxCalls   \* bound: the number of calls

VARIABLES
    begun,        \* the number of the last call that was begun
    outcome,      \* what became of each call
    deliveries    \* how often the module was given each call

Calls == 1 .. MaxCalls

Init ==
    /\ begun = 0
    /\ outcome = [n \in Calls |-> "none"]
    /\ deliveries = [n \in Calls |-> 0]

Begin ==
    /\ begun < MaxCalls
    /\ begun > 0 => outcome[begun] # "open"
    /\ begun' = begun + 1
    /\ outcome' = [outcome EXCEPT ![begun + 1] = "open"]
    /\ UNCHANGED deliveries

Deliver(n) ==
    /\ n <= begun
    /\ deliveries' = [deliveries EXCEPT ![n] = @ + 1]
    /\ UNCHANGED <<begun, outcome>>

Confirm(n) ==
    /\ outcome[n] = "open"
    /\ deliveries[n] > 0
    /\ outcome' = [outcome EXCEPT ![n] = "confirmed"]
    /\ UNCHANGED <<begun, deliveries>>

Fail(n) ==
    /\ outcome[n] = "open"
    /\ outcome' = [outcome EXCEPT ![n] = "failed"]
    /\ UNCHANGED <<begun, deliveries>>

Next ==
    \/ Begin
    \/ \E n \in Calls : Deliver(n) \/ Confirm(n) \/ Fail(n)

Spec == Init /\ [][Next]_<<begun, outcome, deliveries>>
=============================================================================
