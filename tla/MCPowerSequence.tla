--------------------------- MODULE MCPowerSequence ---------------------------
(* Instances of PowerSequence for TLC: queues of one or two messages. *)
EXTENDS PowerInvariant

Queues  == [t \in Task |-> IF t = "Bluetooth" THEN 2 ELSE 1]
Queues1 == [t \in Task |-> 1]
=============================================================================
