------------------------------ MODULE MCVEeprom ------------------------------
(***************************************************************************)
(* Instances of VEeprom for TLC.                                           *)
(***************************************************************************)
EXTENDS VEepromInvariant

CONSTANTS k1, k2, v1, v2

Both  == <<k1, k2>>
Only1 == <<k1>>
=============================================================================
