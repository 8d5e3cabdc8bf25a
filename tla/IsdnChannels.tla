----------------------------- MODULE IsdnChannels -----------------------------
(***************************************************************************)
(* What a driver of B channels promises to isdn4linux: the order of the    *)
(* callbacks of one channel between a call's begin and its DHUP.           *)
(***************************************************************************)
CONSTANT Chan

VARIABLES
  told,      \* channel -> what isdn4linux has been told of it
  running    \* between the callbacks RUN and STOP

Init == told = [c \in Chan |-> "free"] /\ running = TRUE

Step(c, from, to) ==
  /\ told[c] \in from
  /\ told' = [told EXCEPT ![c] = to]
  /\ UNCHANGED running

Dial(c) == Step(c, {"free"}, "dialing")
Offer(c) == Step(c, {"free"}, "ringing")
Reject(c) == Step(c, {"ringing"}, "rejected")
Connect(c) == Step(c, {"dialing", "ringing"}, "connected")   \* DCONN, ACCEPTD
BConnect(c) == Step(c, {"connected"}, "up")
BHangup(c) == Step(c, {"connected", "up"}, "connected")

(* The B channel is down before the D channel, as long as the driver runs. *)
DHangup(c) ==
  \/ Step(c, {"dialing", "ringing", "rejected", "connected"}, "free")
  \/ ~running /\ Step(c, {"up"}, "free")

(* A driver that stops takes its channels back as they are, for good.      *)
Discard(c) == ~running /\ Step(c, {told[c]}, "discarded")
Stop == running' = FALSE /\ UNCHANGED told
Restart == ~running /\ running' = TRUE /\ told' = [c \in Chan |-> "free"]

Next ==
  \/ \E c \in Chan :
       \/ Dial(c) \/ Offer(c) \/ Reject(c) \/ Connect(c)
       \/ BConnect(c) \/ BHangup(c) \/ DHangup(c) \/ Discard(c)
  \/ Stop \/ Restart

Spec == Init /\ [][Next]_<<told, running>>
===============================================================================
