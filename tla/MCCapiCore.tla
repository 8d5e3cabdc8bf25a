------------------------------- MODULE MCCapiCore -------------------------------
(* Instances of CapiCore for TLC. *)
EXTENDS CapiCoreProps

CONSTANTS d1, d2, a1, a2

OneDev == {d1}
TwoDevs == {d1, d2}
OneAppl == {a1}
TwoAppls == {a1, a2}
===============================================================================
