----------------------------- MODULE ApplNumbering -----------------------------
(***************************************************************************)
(* What capi_register and capi_release promise about application numbers   *)
(* (core.c:274-279): a number is unique while it is in use, and an         *)
(* application is refused only when every number is in use.                *)
(***************************************************************************)
EXTENDS Naturals

CONSTANTS Appls, MaxAppls

VARIABLE number    \* 0 for an application that is not registered

Used == {number[a] : a \in Appls} \ {0}

Init == number = [a \in Appls |-> 0]

Take(a) ==
  /\ number[a] = 0
  /\ \E n \in (1 .. MaxAppls) \ Used : number' = [number EXCEPT ![a] = n]

Give(a) == number[a] # 0 /\ number' = [number EXCEPT ![a] = 0]

Next == \E a \in Appls : Take(a) \/ Give(a)

Spec == Init /\ [][Next]_number
===============================================================================
