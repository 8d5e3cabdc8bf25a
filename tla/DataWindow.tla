------------------------------ MODULE DataWindow ------------------------------
(***************************************************************************)
(* The CAPI data window as the capilib promises it to a device driver: a   *)
(* data transfer message is accepted as long as fewer than size of its     *)
(* NCCI's messages await their confirmation, and a confirmation takes the  *)
(* oldest message with its number out of the window.                       *)
(***************************************************************************)
EXTENDS Naturals, SequencesExt

CONSTANTS
  Nccis,       \* pairs of application and network connection
  MsgIds,
  MaxWindow    \* CAPI_MAXDATAWINDOW

VARIABLES
  size,        \* of the window of an NCCI, 0 while it is down
  window,      \* numbers of the accepted, unconfirmed messages
  answer       \* an NCCI and the answer to the last call, if it was a request, or <<>>

Init ==
  /\ size = [k \in Nccis |-> 0]
  /\ window = [k \in Nccis |-> <<>>]
  /\ answer = <<>>

Open(k) ==
  /\ size[k] = 0
  /\ \E w \in 1 .. MaxWindow : size' = [size EXCEPT ![k] = w]
  /\ answer' = <<>> /\ UNCHANGED window

Request(k, m) ==
  /\ UNCHANGED size
  /\ \/ /\ Len(window[k]) < size[k]
        /\ window' = [window EXCEPT ![k] = Append(@, m)]
        /\ answer' = <<k, "NOERROR">>
     \/ /\ size[k] > 0 /\ Len(window[k]) = size[k]
        /\ answer' = <<k, "SENDQUEUEFULL">> /\ UNCHANGED window
     \/ /\ size[k] = 0
        /\ answer' = <<k, "NOERROR">> /\ UNCHANGED window

Confirm(k, m) ==
  /\ Contains(window[k], m)
  /\ window' = [window EXCEPT ![k] = RemoveFirst(@, m)]
  /\ answer' = <<>> /\ UNCHANGED size

Close(K) ==
  /\ size' = [k \in Nccis |-> IF k \in K THEN 0 ELSE size[k]]
  /\ window' = [k \in Nccis |-> IF k \in K THEN <<>> ELSE window[k]]
  /\ answer' = <<>>

Next ==
  \/ \E k \in Nccis : Open(k)
  \/ \E k \in Nccis, m \in MsgIds : Request(k, m) \/ Confirm(k, m)
  \/ \E K \in SUBSET Nccis : Close(K)

Spec == Init /\ [][Next]_<<size, window, answer>>
===============================================================================
