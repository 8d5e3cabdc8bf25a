----------------------------- MODULE MCRegistries ------------------------------
(* Instances of Registries for TLC. *)
EXTENDS Registries

CONSTANTS c1, c2, c3, r1, u1, u2, u3

ThreeClients == {c1, c2, c3}
OneReader == {r1}
ThreeUsers == {u1, u2, u3}
LastSilent == {u3}

Alike == Permutations(ThreeClients) \cup Permutations({u1, u2})
===============================================================================
