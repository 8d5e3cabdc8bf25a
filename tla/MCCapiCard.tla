------------------------------ MODULE MCCapiCard ------------------------------
(* The instance of capidrv_card.cfg: a controller of CapiDrv, and the codec *)
(* that its messages pass.  Neither reads what the other keeps, so messages *)
(* are only coded while the controller is new.                              *)
EXTENDS MCCapiDrv, CapiMsg

CardInit == Init /\ MsgInit
CardNext ==
  \/ cmsg = Nothing /\ Next /\ UNCHANGED msgvars
  \/ /\ Init
     /\ capi_cmsg2message \/ capi_message2cmsg \/ Handled
     /\ UNCHANGED vars
CardSpec == CardInit /\ [][CardNext]_<<vars, msgvars>> /\ Fairness
===============================================================================
