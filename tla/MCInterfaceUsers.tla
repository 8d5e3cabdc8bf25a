--------------------------- MODULE MCInterfaceUsers ---------------------------
(* Instances of InterfaceUsers for TLC. *)
EXTENDS InterfaceUsers

CONSTANTS u1, u2, u3, u4

TwoUsers == {u1, u2}
FourUsers == {u1, u2, u3, u4}
LastSilent == {u4}
NoneSilent == {}
===============================================================================
