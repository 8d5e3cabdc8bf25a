------------------------------- MODULE MCCapi20 -------------------------------
(* Instances of Capi20 for TLC. *)
EXTENDS Capi20, TLC

CONSTANTS f1, f2, n1, n2, m1, m2, m3

TwoFiles == {f1, f2}
TwoNccis == {n1, n2}
ThreeStructs == {m1, m2, m3}

(* Files, NCCIs and addresses are only compared with each other. *)
Names == Permutations(TwoFiles) \cup Permutations(TwoNccis) \cup Permutations(ThreeStructs)
===============================================================================
