---------------------------- MODULE MCChargeControl ----------------------------
(***************************************************************************)
(* Instances of ChargeControl for TLC: a sample on either side of each     *)
(* threshold that a run is about.                                          *)
(***************************************************************************)
EXTENDS ChargeControl

AllTemperatures == {-20, -15, -10, 0, 3, 5, 25, 40, 43, 45, 50, 55, 60}
WarmAndHot      == {25, 43, 45, 60}
AllVoltages     == {7900, 8100, 8150, 8350}
AllCurrents     == {500, 501}
=============================================================================
