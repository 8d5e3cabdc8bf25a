----------------------------- MODULE MCKernelCapi -----------------------------
(* Instances of KernelCapi for TLC. *)
EXTENDS KernelCapi

CONSTANTS c1, c2, c3, c4

TwoClients == {c1, c2}
FourClients == {c1, c2, c3, c4}
===============================================================================
