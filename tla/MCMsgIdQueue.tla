---------------------------- MODULE MCMsgIdQueue ----------------------------
(* Instances of MsgIdQueue for TLC. *)
EXTENDS MsgIdQueue

CONSTANTS x, y    \* application numbers

OneAppl == {x}
TwoAppls == {x, y}
ThreeIds == 1 .. 3
OneNcci == {<<x, 1>>}
UpToFour == 0 .. 4
===============================================================================
