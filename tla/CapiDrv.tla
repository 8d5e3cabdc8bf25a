-------------------------------- MODULE CapiDrv --------------------------------
(***************************************************************************)
(* The bridge from the kernelcapi to isdn4linux (capidrv.c): one           *)
(* controller with its B channels, the PLCI and NCCI structures of its     *)
(* calls, the messages of the device and the commands of isdn4linux.       *)
(*                                                                         *)
(* The handling of a message and a command are steps of their own.  That   *)
(* assumes one processor, and that the tasklet, which handles messages     *)
(* when an interrupt ends, does not run in the middle of a command: the    *)
(* code has nothing to keep it out, and tests a channel before it uses it. *)
(* Only the callback ISDN_STAT_ICALL, from which isdn4linux commands the   *)
(* offered channel, and the removal of the controller are split.           *)
(*                                                                         *)
(* A PLCI structure belongs to one channel and is named by it; so is the   *)
(* NCCI structure that bchans[].nccip leads to.  An operator that changes  *)
(* state maps a record s = [k |-> driver, l |-> line] to the next one, or, *)
(* when a message is sent on the way, to the set of the possible ones.     *)
(***************************************************************************)
EXTENDS Integers, FiniteSets, Lists

CONSTANTS
  NbChan,       \* profile.nbchannel
  Plci,         \* numbers of connections of the device, without 0
  Msgids,       \* message numbers of CONNECT_REQ and ALERT_REQ, without 0
  Null,
  MayFail,      \* whether kmalloc may fail
  MayRefuse,    \* whether capi_put_message may fail while the device is there
  MaxQueue,     \* bound: messages of a connection before the device waits
  MaxData       \* bound: unconfirmed data blocks of a connection

Chan == 0 .. NbChan - 1

VARIABLES
  card,    \* struct capidrv_contr
  line,    \* the device and the messages it has sent (external)
  icall,   \* channel of the call that statcallb(ISDN_STAT_ICALL) offers
  pc       \* capidrv_addcontr and capidrv_delcontr

vars == <<card, line, icall, pc>>

PlciStates == {"NONE", "OUTGOING", "ALLOCATED", "ACTIVE", "INCOMING",
               "ACCEPTING", "DISCONNECTING", "DISCONNECTED"}
NcciStates == {"NONE", "OUTGOING", "INCOMING", "ALLOCATED", "ACTIVE",
               "DISCONNECTING", "DISCONNECTED"}

ASSUME DrvAssumption ==
  /\ NbChan \in Nat /\ MaxData \in Nat /\ 0 \notin Plci /\ 0 \notin Msgids
  /\ Null \notin Chan
  /\ Null \notin [plci : Plci \cup {0}, msgid : Msgids \cup {0}, state : PlciStates]
  /\ Null \notin [ncci : Plci \cup {0}, live : BOOLEAN, state : NcciStates,
                  oldstate : NcciStates, handle : 0 .. MaxData, acks : Seq(0 .. MaxData)]

-------------------------------------------------------------------------------
(* Definitions with the suffix _mutant are never part of the specification *)
(* as it stands: each is a bug that could be in the definition it is named *)
(* after, and makes a run fail when it is put in that definition's place.  *)

(* The device: the state of each connection and of its B3 connection, the  *)
(* data blocks it holds, what it sent and is not handled yet.  Messages    *)
(* that are not of a connection are in queue 0.                            *)
NewLine == [d |-> [p \in Plci |-> "idle"], b |-> [p \in Plci |-> "none"],
            data |-> [p \in Plci |-> <<>>], up |-> [p \in Plci \cup {0} |-> <<>>],
            listening |-> FALSE, lost |-> FALSE]

Msg(cmd, ok, id) == [cmd |-> cmd, ok |-> ok, id |-> id]
Up(l, p, m) == [l EXCEPT !.up[p] = Append(@, m)]
Ind(l, p, cmd) == Up(l, p, Msg(cmd, TRUE, 0))
Conf(l, p, cmd, ok, id) == Up(l, p, Msg(cmd, ok, id))

Outgoing == {"out", "out_act"}
Incoming == {"in", "in_acc", "in_act"}

(* The device takes a request: it answers at once, and refuses what does   *)
(* not fit the state of its connection.                                    *)
Take(l, cmd, p, id) ==
  CASE cmd = "LISTEN_REQ" ->
         {Conf([l EXCEPT !.listening = TRUE], 0, "LISTEN_CONF", TRUE, 0),
          Conf(l, 0, "LISTEN_CONF", FALSE, 0)}
    [] cmd = "CONNECT_REQ" ->
         {Conf([l EXCEPT !.d[q] = "out"], q, "CONNECT_CONF", TRUE, id) :
            q \in {q \in Plci : l.d[q] = "idle"}}
         \cup {Conf(l, 0, "CONNECT_CONF", FALSE, id)}
    [] cmd = "CONNECT_RESP" /\ l.d[p] = "in" -> {[l EXCEPT !.d[p] = "in_acc"]}
    [] cmd = "CONNECT_REJECT" /\ l.d[p] = "in" -> {[l EXCEPT !.d[p] = "clear"]}
    [] cmd = "DISCONNECT_REQ" ->
         IF l.d[p] \in Outgoing \cup Incoming
         THEN {Conf([l EXCEPT !.d[p] = "clear"], p, "DISCONNECT_CONF", TRUE, 0)}
         ELSE {Conf(l, p, "DISCONNECT_CONF", FALSE, 0)}
    [] cmd = "DISCONNECT_RESP" /\ l.d[p] = "gone" ->
         {[l EXCEPT !.d[p] = "idle", !.b[p] = "none", !.data[p] = <<>>]}
    [] cmd = "CONNECT_B3_REQ" ->
         {Conf(l, p, "CONNECT_B3_CONF", FALSE, 0)} \cup
         (IF l.d[p] = "out_act" /\ l.b[p] = "none"
          THEN {Conf([l EXCEPT !.b[p] = "alloc"], p, "CONNECT_B3_CONF", TRUE, 0)}
          ELSE {})
    [] cmd = "CONNECT_B3_RESP" /\ l.b[p] = "in" -> {[l EXCEPT !.b[p] = "alloc"]}
    [] cmd = "CONNECT_B3_REJECT" /\ l.b[p] = "in" -> {[l EXCEPT !.b[p] = "clear"]}
    [] cmd = "DISCONNECT_B3_REQ" /\ p # 0 ->
         (IF l.b[p] \in {"in", "alloc", "act"}
          THEN {Conf([l EXCEPT !.b[p] = "clear"], p, "DISCONNECT_B3_CONF", TRUE, 0)}
          ELSE {}) \cup
         (IF l.b[p] # "act"
          THEN {Conf(l, p, "DISCONNECT_B3_CONF", FALSE, 0)} ELSE {})
    [] cmd = "DISCONNECT_B3_RESP" /\ l.b[p] = "gone" ->
         {[l EXCEPT !.b[p] = "none", !.data[p] = <<>>]}
    [] OTHER -> {l}

(* capi_put_message.  A device that has been unregistered takes nothing.   *)
Accepted(l, cmd, p, id) == IF pc = "up" THEN Take(l, cmd, p, id) ELSE {}
Refused(l) == IF pc # "up" \/ MayRefuse THEN {[l EXCEPT !.lost = TRUE]} ELSE {}

(* send_message does not look at what capi_put_message answers.            *)
send_message(s, cmd, p, id) ==
  {[s EXCEPT !.l = l] : l \in Accepted(s.l, cmd, p, id) \cup Refused(s.l)}

-------------------------------------------------------------------------------
(* Structures: plci_list, the channels' PLCIs and NCCIs.                   *)

NewCard ==
  [plcip |-> [c \in Chan |-> Null], plci_list |-> <<>>,
   nccip |-> [c \in Chan |-> Null], incoming |-> {}, disconnecting |-> {},
   nbchan |-> NbChan, state |-> "NONE", told |-> [c \in Chan |-> "free"]]

(* A callback of a channel; isdn4linux does not know it after DISCH.        *)
Tell(s, c, what) ==
  [s EXCEPT !.k.told[c] = IF @ = "discarded" THEN @ ELSE what]

FirstOf(list, found) ==
  LET hits == {i \in DOMAIN list : list[i] \in found}
  IN IF hits = {} THEN Null ELSE list[CHOOSE i \in hits : \A j \in hits : i <= j]

Calls(k) == {c \in Chan : k.plcip[c] # Null}
find_plci_by_plci(k, p) ==
  FirstOf(k.plci_list, {c \in Calls(k) : k.plcip[c].plci = p})
find_plci_by_msgid(k, id) ==
  FirstOf(k.plci_list, {c \in Calls(k) : k.plcip[c].msgid = id})

new_plci_mutant(s, c, p, id) ==
  [s EXCEPT !.k.plcip[c] = [plci |-> p, msgid |-> id, state |-> "NONE"],
            !.k.plci_list = Append(@, c)]
new_plci(s, c, p, id) ==
  [s EXCEPT !.k.plcip[c] = [plci |-> p, msgid |-> id, state |-> "NONE"],
            !.k.plci_list = <<c>> \o @]

(* An NCCI of the freed PLCI stays in bchans[].nccip: live is FALSE then.  *)
Orphaned(n) == IF n = Null THEN Null ELSE [n EXCEPT !.live = FALSE]
free_plci_mutant(s, c) ==
  [s EXCEPT !.k.plcip[c] = Null,
            !.k.plci_list = Without(@, {c}),
            !.k.nccip[c] = Orphaned(@),
            !.k.disconnecting = @ \ {c}]
free_plci(s, c) ==
  [s EXCEPT !.k.plcip[c] = Null,
            !.k.plci_list = Without(@, {c}),
            !.k.nccip[c] = Orphaned(@),
            !.k.disconnecting = @ \ {c},
            !.k.incoming = @ \ {c}]

(* ncci is the connection's number, and 0 for the PLCI's address that      *)
(* stands in for the number until CONNECT_B3_CONF.                         *)
new_ncci(s, c, n) ==
  [s EXCEPT !.k.nccip[c] = [ncci |-> n, live |-> TRUE, state |-> "NONE",
                            oldstate |-> "NONE", handle |-> 0, acks |-> <<>>]]

free_ncci(s, c) == [s EXCEPT !.k.nccip[c] = Null]

HasNcci(k, c) == k.nccip[c] # Null /\ k.nccip[c].live
find_ncci(k, p) ==
  LET c == find_plci_by_plci(k, p)
  IN IF c # Null /\ HasNcci(k, c) /\ k.nccip[c].ncci = p THEN c ELSE Null
find_ncci_by_msgid(k, p) ==
  LET c == find_plci_by_plci(k, p)
  IN IF c # Null /\ HasNcci(k, c) THEN c ELSE Null

new_bchan(k) ==
  LET open == {c \in 0 .. k.nbchan - 1 : k.plcip[c] = Null}
  IN IF open = {} THEN Null ELSE CHOOSE c \in open : \A x \in open : c <= x

-------------------------------------------------------------------------------
(* The state machines.  Events that no code raises (facilities, hold and   *)
(* resume, reset requests), and the states only they lead to, are left out *)
(* of the tables.                                                          *)

Listening == {"ACTIVE", "ACTIVE_WAIT_CONF"}
listen_change_state(k, event) ==
  [k EXCEPT !.state =
     CASE event = "REQ" /\ @ = "NONE" -> "WAIT_CONF"
       [] event = "REQ" /\ @ = "ACTIVE" -> "ACTIVE_WAIT_CONF"
       [] event = "CONF_ERROR" /\ @ = "WAIT_CONF" -> "NONE"
       [] event = "CONF_ERROR" /\ @ = "ACTIVE_WAIT_CONF" -> "ACTIVE"
       [] event = "CONF_OK" /\ @ \in {"WAIT_CONF", "ACTIVE_WAIT_CONF"} -> "ACTIVE"
       [] OTHER -> @]

InCall == {"ALLOCATED", "ACTIVE", "INCOMING", "ACCEPTING"}
plcitable_mutant ==
  {<<"NONE", "CONNECT_REQ", "OUTGOING">>, <<"NONE", "CONNECT_IND", "INCOMING">>,
   <<"OUTGOING", "CONNECT_CONF_ERROR", "NONE">>,
   <<"OUTGOING", "CONNECT_CONF_OK", "ALLOCATED">>,
   <<"ALLOCATED", "CONNECT_ACTIVE_IND", "ACTIVE">>,
   <<"ACCEPTING", "CONNECT_ACTIVE_IND", "ACTIVE">>,
   <<"INCOMING", "CONNECT_REJECT", "DISCONNECTING">>,
   <<"INCOMING", "CONNECT_RESP", "ACCEPTING">>,
   <<"DISCONNECTED", "DISCONNECT_RESP", "NONE">>}
  \cup InCall \X {"DISCONNECT_REQ"} \X {"DISCONNECTING"}
  \cup InCall \X {"DISCONNECT_IND"} \X {"DISCONNECTED"}
plcitable ==
  {<<"NONE", "CONNECT_REQ", "OUTGOING">>, <<"NONE", "CONNECT_IND", "INCOMING">>,
   <<"OUTGOING", "CONNECT_CONF_ERROR", "NONE">>,
   <<"OUTGOING", "CONNECT_CONF_OK", "ALLOCATED">>,
   <<"ALLOCATED", "CONNECT_ACTIVE_IND", "ACTIVE">>,
   <<"ACCEPTING", "CONNECT_ACTIVE_IND", "ACTIVE">>,
   <<"INCOMING", "CONNECT_REJECT", "DISCONNECTING">>,
   <<"INCOMING", "CONNECT_RESP", "ACCEPTING">>,
   <<"DISCONNECTED", "DISCONNECT_RESP", "NONE">>}
  \cup InCall \X {"DISCONNECT_REQ"} \X {"DISCONNECTING"}
  \cup (InCall \cup {"DISCONNECTING"}) \X {"DISCONNECT_IND"} \X {"DISCONNECTED"}

p0(s, c) == free_plci(Tell(s, c, "free"), c)

plci_change_state(s, c, event) ==
  LET next == {t[3] : t \in {t \in plcitable :
                               t[1] = s.k.plcip[c].state /\ t[2] = event}}
  IN CASE next = {} -> s
       [] "NONE" \in next -> p0(s, c)
       [] OTHER -> [s EXCEPT !.k.plcip[c].state = CHOOSE n \in next : TRUE]

Linked == {"INCOMING", "ALLOCATED", "ACTIVE"}
nccitable ==
  {<<"NONE", "CONNECT_B3_REQ", "OUTGOING">>, <<"NONE", "CONNECT_B3_IND", "INCOMING">>,
   <<"OUTGOING", "CONNECT_B3_CONF_OK", "ALLOCATED">>,
   <<"OUTGOING", "CONNECT_B3_CONF_ERROR", "NONE">>,
   <<"INCOMING", "CONNECT_B3_RESP", "ALLOCATED">>,
   <<"ALLOCATED", "CONNECT_B3_ACTIVE_IND", "ACTIVE">>,
   <<"DISCONNECTING", "DISCONNECT_B3_CONF_ERROR", "PREVIOUS">>,
   <<"DISCONNECTED", "DISCONNECT_B3_RESP", "NONE">>}
  \cup Linked \X {"DISCONNECT_B3_REQ"} \X {"DISCONNECTING"}
  \cup (Linked \cup {"DISCONNECTING"}) \X {"DISCONNECT_B3_IND"} \X {"DISCONNECTED"}

n0_mutant(s, c) ==
  {free_ncci(plci_change_state(t, c, "DISCONNECT_REQ"), c) :
     t \in send_message(s, "DISCONNECT_REQ", s.k.plcip[c].plci, 0)}
n0(s, c) ==
  {free_ncci(Tell(plci_change_state(t, c, "DISCONNECT_REQ"), c, "connected"), c) :
     t \in send_message(s, "DISCONNECT_REQ", s.k.plcip[c].plci, 0)}

ncci_change_state(s, c, event) ==
  LET n == s.k.nccip[c]
      next == {t[3] : t \in {t \in nccitable : t[1] = n.state /\ t[2] = event}}
      Enter(state) == [s EXCEPT !.k.nccip[c].state = state,
                                !.k.nccip[c].oldstate = n.state]
  IN CASE next = {} -> {s}
       [] "NONE" \in next -> n0(s, c)
       [] "PREVIOUS" \in next -> {Enter(n.oldstate)}
       [] OTHER -> {Enter(CHOOSE m \in next : TRUE)}

-------------------------------------------------------------------------------
(* Handlers of messages: from s, with the message taken off the queue, to  *)
(* the set of the states the handler can leave.                            *)

Disconnecting(s, c) == [s EXCEPT !.k.disconnecting = @ \cup {c}]

handle_disconnect_ind(s, p) ==
  LET c == find_plci_by_plci(s.k, p)
  IN IF c = Null THEN send_message(s, "DISCONNECT_RESP", p, 0)
     ELSE {plci_change_state(t, c, "DISCONNECT_RESP") :
             t \in send_message(
               plci_change_state(Disconnecting(s, c), c, "DISCONNECT_IND"),
               "DISCONNECT_RESP", p, 0)}

handle_disconnect_conf(s, p) ==
  LET c == find_plci_by_plci(s.k, p)
  IN {IF c = Null THEN s ELSE Disconnecting(s, c)}

(* An error leaves nothing of the address in the freed structure.          *)
handle_connect_conf(s, p, m) ==
  LET c == find_plci_by_msgid(s.k, m.id)
      t == [s EXCEPT !.k.plcip[c].plci = p]
  IN {CASE c = Null -> s
        [] c # Null /\ m.ok -> plci_change_state(t, c, "CONNECT_CONF_OK")
        [] OTHER -> plci_change_state(t, c, "CONNECT_CONF_ERROR")}

(* CONNECT_ACTIVE_RESP and CONNECT_B3_ACTIVE_RESP change nothing in the    *)
(* device.                                                                 *)
handle_connect_active_ind(s, p) ==
  LET c == find_plci_by_plci(s.k, p)
      t == new_ncci(s, c, 0)
  IN CASE c = Null -> {s}
       [] c # Null /\ c \in s.k.incoming ->
            {plci_change_state(s, c, "CONNECT_ACTIVE_IND")}
       [] OTHER ->
            (IF MayFail THEN {s} ELSE {}) \cup
            UNION {ncci_change_state(
                     plci_change_state(Tell(u, c, "connected"), c, "CONNECT_ACTIVE_IND"),
                     c, "CONNECT_B3_REQ") :
                   u \in send_message(t, "CONNECT_B3_REQ", p, 0)}

handle_connect_b3_ind(s, p) ==
  LET c == find_plci_by_plci(s.k, p)
      t == new_ncci(s, c, p)
  IN (IF c = Null \/ MayFail THEN send_message(s, "CONNECT_B3_REJECT", p, 0) ELSE {})
     \cup (IF c = Null THEN {}
           ELSE UNION {ncci_change_state(v, c, "CONNECT_B3_RESP") : v \in
                  UNION {send_message(u, "CONNECT_B3_RESP", p, 0) :
                           u \in ncci_change_state(t, c, "CONNECT_B3_IND")}})

handle_connect_b3_conf(s, p, m) ==
  LET c == find_ncci_by_msgid(s.k, p)
      t == [s EXCEPT !.k.nccip[c].ncci = p]
  IN CASE c = Null -> {s}
       [] c # Null /\ m.ok -> ncci_change_state(t, c, "CONNECT_B3_CONF_OK")
       [] OTHER -> ncci_change_state(t, c, "CONNECT_B3_CONF_ERROR")

(* BCONN is told in whatever state the NCCI is.                            *)
handle_connect_b3_active_ind(s, p) ==
  LET c == find_ncci(s.k, p)
  IN IF c = Null THEN {s}
     ELSE {Tell(t, c, "up") : t \in ncci_change_state(s, c, "CONNECT_B3_ACTIVE_IND")}

handle_disconnect_b3_ind(s, p) ==
  LET c == find_ncci(s.k, p)
  IN IF c = Null THEN {s}
     ELSE UNION {ncci_change_state(u, c, "DISCONNECT_B3_RESP") : u \in
            UNION {send_message(t, "DISCONNECT_B3_RESP", p, 0) :
                     t \in ncci_change_state(Disconnecting(s, c), c, "DISCONNECT_B3_IND")}}

handle_disconnect_b3_conf(s, p, m) ==
  LET c == find_ncci(s.k, p)
  IN IF c = Null \/ m.ok THEN {s}
     ELSE ncci_change_state(s, c, "DISCONNECT_B3_CONF_ERROR")

capidrv_del_ack_mutant(acks, handle) == acks
capidrv_del_ack(acks, handle) == Without(acks, {handle})

(* BSENT is told for the block that the handle is found of.                *)
handle_data_b3_conf(s, p, m) ==
  LET c == find_ncci(s.k, p)
  IN {IF c = Null THEN s
      ELSE [s EXCEPT !.k.nccip[c].acks = capidrv_del_ack(@, m.id)]}

(* cipmask is never 0, so that EV_LISTEN_CONF_EMPTY is not raised.         *)
handle_listen_conf(s, m) ==
  {[s EXCEPT !.k = listen_change_state(@, IF m.ok THEN "CONF_OK" ELSE "CONF_ERROR")]}

(* handle_controller, handle_plci and handle_ncci, but for CONNECT_IND.    *)
(* DATA_B3_IND is delivered by handle_data, which changes no state.        *)
handle(s, p, m) ==
  CASE m.cmd = "LISTEN_CONF" -> handle_listen_conf(s, m)
    [] m.cmd = "CONNECT_CONF" -> handle_connect_conf(s, p, m)
    [] m.cmd = "CONNECT_ACTIVE_IND" -> handle_connect_active_ind(s, p)
    [] m.cmd = "DISCONNECT_IND" -> handle_disconnect_ind(s, p)
    [] m.cmd = "DISCONNECT_CONF" -> handle_disconnect_conf(s, p)
    [] m.cmd = "CONNECT_B3_IND" -> handle_connect_b3_ind(s, p)
    [] m.cmd = "CONNECT_B3_CONF" -> handle_connect_b3_conf(s, p, m)
    [] m.cmd = "CONNECT_B3_ACTIVE_IND" -> handle_connect_b3_active_ind(s, p)
    [] m.cmd = "DISCONNECT_B3_IND" -> handle_disconnect_b3_ind(s, p)
    [] m.cmd = "DISCONNECT_B3_CONF" -> handle_disconnect_b3_conf(s, p, m)
    [] m.cmd = "DATA_B3_CONF" -> handle_data_b3_conf(s, p, m)
    [] m.cmd = "DATA_B3_IND" -> {s}

-------------------------------------------------------------------------------
Init ==
  /\ card = [NewCard EXCEPT !.state = "WAIT_CONF"]
  /\ \E l \in Take(NewLine, "LISTEN_REQ", 0, 0) : line = l
  /\ icall = Null
  /\ pc = "up"

now == [k |-> card, l |-> line]
Become(t) == card' = t.k /\ line' = t.l

(* The tasklet and the commands of isdn4linux do not interrupt each other  *)
(* (an assumption, see the head of the module) nor handle_incoming_call.   *)
Idle == icall = Null
HasCard == pc # "removed"

Head1(p) == line.up[p] # <<>>
Taken(p) == [now EXCEPT !.l.up[p] = Tail(@)]

(* capidrv_recv_message gets a message and handles it to its end.          *)
capidrv_recv_message(p) ==
  /\ Idle /\ Head1(p)
  /\ IF HasCard
     THEN /\ Head(line.up[p]).cmd # "CONNECT_IND"
          /\ \E t \in {Taken(p)} :
               \E u \in handle(t, p, Head(line.up[p])) : Become(u)
     ELSE Become(Taken(p))
  /\ UNCHANGED <<icall, pc>>

(* Up to the callback; a call without a channel or structure is dropped.   *)
handle_incoming_call(p) ==
  /\ Idle /\ HasCard /\ Head1(p) /\ Head(line.up[p]).cmd = "CONNECT_IND"
  /\ LET c == new_bchan(card)
         t == [Taken(p) EXCEPT !.k.disconnecting = @ \ {c}]
         u == [new_plci(t, c, p, 0) EXCEPT !.k.incoming = @ \cup {c}]
     IN \/ (c = Null \/ MayFail) /\ Become(t) /\ UNCHANGED icall
        \/ /\ c # Null
           /\ Become(Tell(plci_change_state(u, c, "CONNECT_IND"), c, "ringing"))
           /\ icall' = c
  /\ UNCHANGED pc

FreshIds ==
  Msgids \ UNION {{line.up[p][i].id : i \in {i \in DOMAIN line.up[p] :
                     line.up[p][i].cmd = "CONNECT_CONF"}} : p \in DOMAIN line.up}

(* isdn4linux rejects a call or ignores it; it has sent a HANGUP before.   *)
icall_rejected ==
  /\ icall # Null /\ card.plcip[icall].state = "INCOMING"
  /\ \E t \in send_message(now, "CONNECT_REJECT", card.plcip[icall].plci, 0) :
       Become(Tell(plci_change_state(t, icall, "CONNECT_REJECT"), icall, "rejected"))
  /\ icall' = Null
  /\ UNCHANGED pc

(* isdn4linux rings a tty, unless a network interface accepted the call.   *)
icall_taken ==
  /\ icall # Null
  /\ \/ /\ card.plcip[icall].state = "INCOMING" /\ icall \notin card.disconnecting
        /\ \E id \in FreshIds :
             \E t \in send_message(now, "ALERT_REQ", card.plcip[icall].plci, id) :
               Become([t EXCEPT !.k.plcip[icall].msgid = id])
     \/ card.plcip[icall].state # "INCOMING" /\ UNCHANGED <<card, line>>
  /\ icall' = Null
  /\ UNCHANGED pc

Commanded(c) == pc \in {"up", "unregistered"} /\ icall \in {Null, c}

(* The call of isdn4linux is refused where its channel is in use.          *)
capidrv_command_dial(c) ==
  /\ Commanded(c) /\ Idle
  /\ card.plcip[c] = Null
  /\ \E id \in FreshIds :
       \E t \in send_message(plci_change_state(new_plci(now, c, 0, id), c, "CONNECT_REQ"),
                             "CONNECT_REQ", 0, id) :
         Become(Tell(t, c, "dialing"))
  /\ UNCHANGED <<icall, pc>>

(* isdn4linux accepts a call that it was offered and has not hung up.      *)
capidrv_command_acceptd(c) ==
  /\ Commanded(c)
  /\ card.told[c] = "ringing" /\ c \notin card.disconnecting
  /\ \E t \in send_message(plci_change_state(now, c, "CONNECT_RESP"),
                           "CONNECT_RESP", card.plcip[c].plci, 0) :
       Become(Tell(t, c, "connected"))
  /\ UNCHANGED <<icall, pc>>

(* A hangup of a channel that is disconnecting, free, or still waiting for *)
(* CONNECT_CONF changes nothing.                                           *)
capidrv_command_hangup(c) ==
  /\ Commanded(c)
  /\ c \notin card.disconnecting
  /\ LET t == Disconnecting(now, c)
         n == card.nccip[c]
         x == card.plcip[c]
     IN \/ /\ n # Null
           /\ \E u \in ncci_change_state(t, c, "DISCONNECT_B3_REQ") :
                \E v \in send_message(u, "DISCONNECT_B3_REQ", n.ncci, 0) : Become(v)
        \/ /\ n = Null /\ x # Null /\ x.state = "INCOMING"
           /\ Become(t)
        \/ /\ n = Null /\ x # Null /\ x.state # "INCOMING" /\ x.plci # 0
           /\ \E v \in send_message(plci_change_state(t, c, "DISCONNECT_REQ"),
                                    "DISCONNECT_REQ", x.plci, 0) : Become(v)
  /\ UNCHANGED <<icall, pc>>

(* A refused block leaves nothing behind.                                  *)
if_sendbuf(c) ==
  /\ Commanded(c) /\ Idle
  /\ LET n == card.nccip[c]
     IN /\ n # Null /\ n.state = "ACTIVE"
        /\ pc = "up"
        /\ Len(n.acks) < MaxData
        /\ card' = [card EXCEPT !.nccip[c].acks = Append(@, n.handle),
                                !.nccip[c].handle = (@ + 1) % (MaxData + 1)]
        /\ line' = [line EXCEPT !.data[n.ncci] = Append(@, n.handle)]
  /\ UNCHANGED <<icall, pc>>

(* A previous LISTEN_REQ may be unanswered, or never have arrived.         *)
NoAnswer == \A i \in DOMAIN line.up[0] : line.up[0][i].cmd # "LISTEN_CONF"
listentimerfunc ==
  /\ pc \in {"up", "unregistered"} /\ Idle /\ NoAnswer
  /\ \E t \in send_message(now, "LISTEN_REQ", 0, 0) :
       Become([t EXCEPT !.k = listen_change_state(@, "REQ")])
  /\ UNCHANGED <<icall, pc>>

(* capi_device_unregister: the device is silent and takes no message any   *)
(* more, what it sent before is still to be handled.                       *)
unregister_capi_device ==
  /\ pc = "up"
  /\ pc' = "unregistered"
  /\ UNCHANGED <<card, line, icall>>

Removing(from, to) == Idle /\ pc = from /\ pc' = to /\ UNCHANGED <<line, icall>>

(* del_timer and ISDN_STAT_STOP.                                           *)
capidrv_delcontr == Removing("unregistered", "disch") /\ UNCHANGED card

Top == card.nbchan - 1
capidrv_delcontr_disch ==
  /\ Removing("disch", "free")
  /\ card.nbchan > 0
  /\ card' = [card EXCEPT !.told[Top] = "discarded"]

capidrv_delcontr_free_mutant ==
  /\ Removing("free", "next")
  /\ card' = (IF card.nccip[Top] # Null THEN free_ncci(now, Top)
              ELSE IF card.plcip[Top] # Null THEN free_plci(now, Top) ELSE now).k
capidrv_delcontr_free ==
  /\ Removing("free", "next")
  /\ LET t == IF card.nccip[Top] = Null THEN now ELSE free_ncci(now, Top)
     IN card' = (IF card.plcip[Top] = Null THEN t ELSE free_plci(t, Top)).k

capidrv_delcontr_next ==
  /\ Removing("next", "disch")
  /\ card' = [card EXCEPT !.nbchan = @ - 1]

capidrv_delcontr_unlist ==
  /\ Removing("disch", "removed")
  /\ card.nbchan = 0
  /\ UNCHANGED card

capidrv_addcontr ==
  /\ pc = "removed" /\ pc' = "up"
  /\ \A p \in DOMAIN line.up : line.up[p] = <<>>
  /\ card' = [NewCard EXCEPT !.state = "WAIT_CONF"]
  /\ \E l \in Take(NewLine, "LISTEN_REQ", 0, 0) : line' = l
  /\ UNCHANGED icall

-------------------------------------------------------------------------------
(* What the device does by itself.                                         *)

Device(p) ==
  /\ pc = "up" /\ Len(line.up[p]) < MaxQueue
  /\ UNCHANGED <<card, icall, pc>>

Reports(p, from, to, cmd) ==
  /\ Device(p)
  /\ line.d[p] \in from
  /\ line' = Ind([line EXCEPT !.d[p] = to], p, cmd)

ReportsB3(p, from, to, cmd) ==
  /\ Device(p)
  /\ line.b[p] \in from
  /\ line' = Ind([line EXCEPT !.b[p] = to], p, cmd)

Ring(p) == line.listening /\ Reports(p, {"idle"}, "in", "CONNECT_IND")
Answered(p) == \/ Reports(p, {"out"}, "out_act", "CONNECT_ACTIVE_IND")
               \/ Reports(p, {"in_acc"}, "in_act", "CONNECT_ACTIVE_IND")
Ends(p, from) ==
  line.b[p] \in {"none", "gone"} /\ Reports(p, from, "gone", "DISCONNECT_IND")
RingB3(p) == line.d[p] = "in_act" /\ ReportsB3(p, {"none"}, "in", "CONNECT_B3_IND")
ActiveB3(p) == ReportsB3(p, {"alloc"}, "act", "CONNECT_B3_ACTIVE_IND")
EndsB3(p, from) == ReportsB3(p, from, "gone", "DISCONNECT_B3_IND")
Confirms(p) ==
  /\ pc = "up" /\ line.data[p] # <<>>
  /\ line' = Conf([line EXCEPT !.data[p] = Tail(@)], p, "DATA_B3_CONF", TRUE,
                  Head(line.data[p]))
  /\ UNCHANGED <<card, icall, pc>>
Receives(p) == line.b[p] = "act" /\ ReportsB3(p, {"act"}, "act", "DATA_B3_IND")

(* What it does for a request to disconnect.                               *)
Clears(p) ==
  \/ Ends(p, {"clear"})
  \/ EndsB3(p, {"clear"})
  \/ line.d[p] = "clear" /\ EndsB3(p, {"in", "alloc", "act"})

icall_return == icall_rejected \/ icall_taken
recv(p) == capidrv_recv_message(p) \/ handle_incoming_call(p)

(* Calls of a controller that listens and stays.                           *)
CallNext ==
  \/ \E p \in DOMAIN line.up : capidrv_recv_message(p) \/ handle_incoming_call(p)
  \/ icall_rejected \/ icall_taken
  \/ \E c \in Chan : \/ capidrv_command_dial(c) \/ capidrv_command_acceptd(c)
                     \/ capidrv_command_hangup(c)
  \/ \E p \in Plci : \/ Ring(p) \/ Answered(p) \/ Ends(p, Outgoing \cup Incoming)
                      \/ RingB3(p) \/ ActiveB3(p)
                      \/ EndsB3(p, {"in", "alloc", "act"})
                      \/ Clears(p)

Next ==
  \/ CallNext
  \/ \E c \in Chan : if_sendbuf(c)
  \/ \E p \in Plci : Confirms(p) \/ Receives(p)
  \/ listentimerfunc
  \/ unregister_capi_device \/ capidrv_delcontr \/ capidrv_delcontr_disch
  \/ capidrv_delcontr_free \/ capidrv_delcontr_next \/ capidrv_delcontr_unlist
  \/ capidrv_addcontr

Spec == Init /\ [][Next]_vars

CallInit ==
  /\ card = [NewCard EXCEPT !.state = "ACTIVE"]
  /\ line = [NewLine EXCEPT !.listening = TRUE]
  /\ icall = Null
  /\ pc = "up"

CallSpec == CallInit /\ [][CallNext]_vars

(* The tasklet runs while messages wait, isdn4linux returns from its       *)
(* callback, the device disconnects when asked to.                         *)
Fairness ==
  /\ \A p \in Plci : WF_vars(recv(p))
  /\ WF_vars(icall_return)
  /\ \A p \in Plci : WF_vars(Clears(p))

-------------------------------------------------------------------------------
(* Properties *)

TypeOK ==
  /\ icall \in Chan \cup {Null}
  /\ \A c \in Chan :
       /\ card.plcip[c] # Null => card.plcip[c].state \in PlciStates
       /\ card.nccip[c] # Null => card.nccip[c].state \in NcciStates
  /\ card.incoming \subseteq Chan /\ card.disconnecting \subseteq Chan

HasCall(c) == card.plcip[c] # Null /\ card.plcip[c].plci # 0

(* CallsAreOnLine: while the device is there, a PLCI structure with a      *)
(* number leads to a connection that the device has, and two channels      *)
(* never to the same one (plcitable, handle_plci: a structure is freed no  *)
(* later than DISCONNECT_RESP lets the device use the number again).       *)
CallsAreOnLine ==
  pc = "up" => \A c \in Chan : HasCall(c) =>
     /\ line.d[card.plcip[c].plci] # "idle"
     /\ \A x \in Chan \ {c} : HasCall(x) => card.plcip[x].plci # card.plcip[c].plci

(* RolesAgree: bchan->incoming, which CONNECT_ACTIVE_IND consults to       *)
(* decide who opens the B3 connection, is the direction that the device    *)
(* gives the call, also on a channel that had a call of the other kind     *)
(* before (free_plci).                                                     *)
RolesAgree ==
  pc = "up" => \A c \in Chan : HasCall(c) =>
     /\ line.d[card.plcip[c].plci] \in Outgoing => c \notin card.incoming
     /\ line.d[card.plcip[c].plci] \in Incoming => c \in card.incoming

(* ConfFindsCall: find_plci_by_msgid leads every CONNECT_CONF to a call    *)
(* that waits for one, although the structures of older calls still have   *)
(* the message numbers of their CONNECT_REQ and ALERT_REQ and the numbers  *)
(* repeat: new_plci puts the newest structure in front.                    *)
ConfFindsCall ==
  pc = "up" => \A p \in DOMAIN line.up : \A i \in DOMAIN line.up[p] :
     LET m == line.up[p][i]
         c == find_plci_by_msgid(card, m.id)
     IN m.cmd = "CONNECT_CONF" => c # Null /\ card.plcip[c].state = "OUTGOING"

(* AcksExact: the ackqueue of a live NCCI holds the blocks that the device *)
(* has not confirmed or whose DATA_B3_CONF is not handled yet, and no      *)
(* others (if_sendbuf, handle_data_b3_conf).                               *)
InFlight(p) ==
  {line.up[p][i].id : i \in {i \in DOMAIN line.up[p] : line.up[p][i].cmd = "DATA_B3_CONF"}}
AcksExact ==
  pc = "up" => \A c \in Chan : card.nccip[c] # Null /\ card.nccip[c].live =>
     LET n == card.nccip[c]
     IN n.ncci # 0 =>
        {n.acks[i] : i \in DOMAIN n.acks} =
        InFlight(n.ncci) \cup {line.data[n.ncci][i] : i \in DOMAIN line.data[n.ncci]}

(* CallbackOrder: the driver keeps the order of callbacks of IsdnChannels, *)
(* whatever order messages, commands and the removal come in.              *)
Channels == INSTANCE IsdnChannels WITH told <- card.told,
                                       running <- pc \in {"up", "unregistered"}
CallbackOrder == Channels!Spec

(* RemovalComplete: capidrv_delcontr leaves no connection behind, and no   *)
(* call but one that was offered while it ran (the FIXME of the code).     *)
RemovalComplete ==
  pc = "removed" => \A c \in Chan :
     /\ card.nccip[c] = Null
     /\ card.plcip[c] # Null => c \in card.incoming

(* HangupEnds: a call that isdn4linux hangs up, or whose end the device    *)
(* has begun, ends with its structure freed, unless a message was refused, *)
(* the device went away, or the hangup did nothing because the call was    *)
(* still offered or its B3 connection not in a state that could be ended.  *)
Deaf(c) ==
  \/ card.plcip[c].state = "INCOMING"
  \/ card.nccip[c] # Null /\ card.nccip[c].state # "DISCONNECTING"
HangupEnds ==
  \A c \in Chan :
    (c \in card.disconnecting /\ card.plcip[c] # Null /\ pc = "up") ~>
      (card.plcip[c] = Null \/ line.lost \/ Deaf(c) \/ pc # "up")
===============================================================================
