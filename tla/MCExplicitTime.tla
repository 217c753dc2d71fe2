--------------------------- MODULE MCExplicitTime ---------------------------
(* ExplicitTime with every time around and between the bounds.             *)
EXTENDS ExplicitTime

EverySecond == -30 .. SecMax + 3
EveryMilli == -3 .. MsMax + 3

(* The long divisions of every second leave the limbs of an int.           *)
ASSUME LimbsOfDigits == DivisionExact
=============================================================================
