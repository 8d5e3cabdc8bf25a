------------------------------ MODULE MCApplList ------------------------------
(* Instances of ApplList for TLC. *)
EXTENDS ApplList

CONSTANTS a1, a2, a3, a4, r1, r2

FourAppls == {a1, a2, a3, a4}
TwoReaders == {r1, r2}
===============================================================================
