---------------------------- MODULE SettingsStore ----------------------------
(***************************************************************************)
(* What the emulated EEPROM promises.  It holds one value per key.  A      *)
(* write takes effect in a single step or, when the power is cut before,   *)
(* not at all; and nothing but a write changes what is stored.             *)
(***************************************************************************)
CONSTANTS Key, Value, NoValue,
          Nothing    \* no write is under way

VARIABLES store,     \* the value of each key
          request    \* the write under way

Init ==
    /\ store = [k \in Key |-> NoValue]
    /\ request = Nothing

Ask ==
    /\ request = Nothing
    /\ request' \in [key : Key, value : Value]
    /\ UNCHANGED store

TakeEffect ==
    /\ request # Nothing
    /\ store' = [store EXCEPT ![request.key] = request.value]
    /\ request' \in {request, Nothing}

\* The write returned, or the power was cut.
End == request' = Nothing /\ UNCHANGED store

Next == Ask \/ TakeEffect \/ End

Spec == Init /\ [][Next]_<<store, request>>
=============================================================================
