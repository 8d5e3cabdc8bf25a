------------------------------- MODULE MCCapiDrv -------------------------------
(* Instances of CapiDrv for TLC. *)
EXTENDS CapiDrv, TLC

CONSTANTS p1, p2, m1, m2

OnePlci == {p1}
TwoPlcis == {p1, p2}
OneId == {m1}
TwoIds == {m1, m2}

(* Numbers of connections and messages are only compared.                  *)
Symmetry == Permutations(TwoPlcis) \cup Permutations(TwoIds)
===============================================================================
