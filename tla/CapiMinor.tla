------------------------------- MODULE CapiMinor -------------------------------
(***************************************************************************)
(* The data path of a middleware tty (capi.c, struct capiminor): the bytes *)
(* that a tty writes become DATA_B3_REQ messages, DATA_B3_IND messages     *)
(* become its input.  No lock guards a minor, and nothing on the path      *)
(* sleeps: the model is of one processor without preemption, where calls   *)
(* do not overlap.  They do nest: the line discipline calls the tty again  *)
(* from receive_buf and write_wakeup.  So todo is the stack of the calls   *)
(* under way, and each pass of a loop in them is a step; the device works  *)
(* at any time.                                                            *)
(***************************************************************************)
EXTENDS Naturals, SequencesExt

CONSTANTS
  BlkSize,       \* bytes that a block of put_char has room for: what alloc_skb
                 \* makes of CAPI_MAX_BLKSIZE, which it may round up
  HandleLimit,   \* values of datahandle, 2^16 in the code
  Window,        \* unconfirmed data requests that the device takes
  MaxMsgs,       \* bound on the messages in the application's queue
  MaxWritten,    \* bound on the bytes written to a minor
  MaxReceived    \* bound on the packets received for a minor

ASSUME MinorAssumption ==
  /\ BlkSize \in Nat \ {0} /\ HandleLimit \in Nat \ {0} /\ Window \in Nat \ {0}
  /\ MaxMsgs \in Nat /\ MaxWritten \in Nat /\ MaxReceived \in Nat

VARIABLES
  alive,                   \* whether the minor is allocated
  nccip,                   \* ... and belongs to an NCCI
  linked,                  \* ... which is in the list of its file
  tty,                     \* ... and has a tty
  ttyinstop, ttyoutstop,
  ttyskb,                  \* block that put_char fills, <<>> for none
  outqueue, outbytes,
  ackqueue, datahandle,
  inqueue,
  todo,                    \* stack of the calls under way
  msgs,                    \* the application's queue: messages of this NCCI
  outstanding,             \* data requests the device has not confirmed
  received,                \* packets of the device, numbered from 1
  written,                 \* history: bytes the tty took, numbered from 1
  sent,                    \* history: bytes the device took
  lost,                    \* history: bytes that were dropped
  delivered,               \* history: packets given to the line discipline
  stalled                  \* history: "in", "out": the last try to empty that queue
                           \* met a refusal whose end no message announces

life == <<alive, nccip, linked, tty>>
flow == <<ttyinstop, ttyoutstop>>
output == <<ttyskb, outqueue, outbytes, ackqueue, datahandle, written, sent, lost>>
input == <<inqueue, delivered>>
device == <<msgs, outstanding, received>>
vars == <<life, flow, output, input, todo, device, stalled>>

Handles == 0 .. HandleLimit - 1
Ind(n) == <<"DATA_B3_IND", n>>
Conf(h) == <<"DATA_B3_CONF", h>>

Blocks == {block \in Seq(1 .. MaxWritten) : Len(block) <= BlkSize}
Calls == {"capi_recv_message", "handle_minor_recv", "handle_minor_send", "ldisc"}

TypeOK ==
  /\ {alive, nccip, linked, tty, ttyinstop, ttyoutstop} \subseteq BOOLEAN
  /\ ttyskb \in Blocks /\ outqueue \in Seq(Blocks)
  /\ outbytes \in 0 .. MaxWritten
  /\ ackqueue \in Seq(Handles) /\ datahandle \in Handles
  /\ inqueue \in Seq(1 .. MaxReceived) /\ delivered \in Seq(1 .. MaxReceived)
  /\ todo \in Seq(Calls)
  /\ msgs \in Seq({Ind(n) : n \in 1 .. MaxReceived} \cup {Conf(h) : h \in Handles})
  /\ outstanding \subseteq Handles /\ received \in 0 .. MaxReceived
  /\ written \in 0 .. MaxWritten /\ sent \in Seq(1 .. MaxWritten) /\ lost \subseteq 1 .. MaxWritten
  /\ stalled \subseteq {"in", "out"}

Cleared ==
  /\ ttyinstop' = FALSE /\ ttyoutstop' = FALSE
  /\ ttyskb' = <<>> /\ outqueue' = <<>> /\ outbytes' = 0
  /\ ackqueue' = <<>> /\ datahandle' = 0
  /\ inqueue' = <<>>
  /\ msgs' = <<>> /\ outstanding' = {} /\ received' = 0
  /\ written' = 0 /\ sent' = <<>> /\ lost' = {} /\ delivered' = <<>> /\ stalled' = {}

Init ==
  /\ alive = FALSE /\ nccip = FALSE /\ linked = FALSE /\ tty = FALSE
  /\ ttyinstop = FALSE /\ ttyoutstop = FALSE
  /\ ttyskb = <<>> /\ outqueue = <<>> /\ outbytes = 0
  /\ ackqueue = <<>> /\ datahandle = 0
  /\ inqueue = <<>>
  /\ todo = <<>> /\ msgs = <<>> /\ outstanding = {} /\ received = 0
  /\ written = 0 /\ sent = <<>> /\ lost = {} /\ delivered = <<>> /\ stalled = {}

-------------------------------------------------------------------------------
(* Definitions with the suffix _mutant are never part of the specification *)
(* as it stands: each is a bug that could be in the definition it is named *)
(* after, and makes a run fail when it is put in that definition's place.  *)

(* CONNECT_B3_CONF or CONNECT_B3_IND: a new NCCI with a minor.  While the  *)
(* reader sleeps in capifs_new_ncci the messages wait for it; that is as   *)
(* if it did not read yet.                                                 *)
capiminor_alloc ==
  /\ todo = <<>> /\ ~alive
  /\ alive' = TRUE /\ nccip' = TRUE /\ linked' = TRUE
  /\ UNCHANGED <<tty, flow, output, input, todo, device, stalled>>

(* The minor is gone with all its queues; the next one starts from zeroes. *)
capiminor_free ==
  /\ alive' = FALSE /\ nccip' = FALSE /\ linked' = FALSE /\ tty' = FALSE
  /\ Cleared

(* The NCCI ends, by DISCONNECT_B3_RESP or with the application.  First it *)
(* leaves the list, and its messages no longer find the minor; the tty     *)
(* works on while capincci_free sleeps in capifs_free_ncci.                *)
capincci_unlink ==
  /\ todo = <<>> /\ linked
  /\ linked' = FALSE /\ msgs' = <<>> /\ outstanding' = {}
  /\ UNCHANGED <<alive, nccip, tty, flow, output, input, todo, received, stalled>>

(* Then a minor without a tty is freed; one that has a tty lives on until  *)
(* the tty, which is hung up, is closed.                                   *)
capincci_free ==
  /\ todo = <<>> /\ nccip /\ ~linked
  /\ \/ /\ tty
        /\ nccip' = FALSE
        /\ UNCHANGED <<alive, linked, tty, flow, output, input, device, stalled>>
     \/ ~tty /\ capiminor_free
  /\ UNCHANGED todo

-------------------------------------------------------------------------------
(* The device: packets for the application, and confirmations.             *)

DataInd ==
  /\ linked /\ Len(msgs) < MaxMsgs /\ received < MaxReceived
  /\ received' = received + 1
  /\ msgs' = Append(msgs, Ind(received'))
  /\ UNCHANGED <<life, flow, output, input, todo, outstanding, stalled>>

DataConf(h) ==
  /\ h \in outstanding /\ Len(msgs) < MaxMsgs
  /\ outstanding' = outstanding \ {h}
  /\ msgs' = Append(msgs, Conf(h))
  /\ UNCHANGED <<life, flow, output, input, todo, received, stalled>>

-------------------------------------------------------------------------------
(* The stack of calls *)

Under(call) == todo # <<>> /\ Head(todo) = call
Return == todo' = Tail(todo)
Call(calls) == todo' = calls \o todo

(* An operation of the tty is called by a process or, nested, by the line  *)
(* discipline.                                                             *)
TtyCalled == tty /\ (todo = <<>> \/ Under("ldisc"))

ldisc_return ==
  /\ Under("ldisc") /\ Return
  /\ UNCHANGED <<life, flow, output, input, device, stalled>>

(* capi_read or capi_poll *)
capi_read ==
  /\ todo = <<>> /\ msgs # <<>>
  /\ Call(<<"capi_recv_message">>)
  /\ UNCHANGED <<life, flow, output, input, device, stalled>>

del_ack(acks, h) == RemoveFirst(acks, h)

(* What a confirmation makes the application call: the loop of             *)
(* handle_minor_send, after the write_wakeup of a tty.                     *)
OnConf_mutant == IF tty THEN <<"ldisc">> ELSE <<>>
OnConf == (IF tty THEN <<"ldisc">> ELSE <<>>) \o <<"handle_minor_send">>

OnInd_mutant(n) == inqueue' = <<n>> \o inqueue
OnInd(n) == inqueue' = Append(inqueue, n)

capi_recv_message ==
  /\ Under("capi_recv_message")
  /\ \/ /\ msgs = <<>> /\ Return
        /\ UNCHANGED <<output, input, msgs>>
     \/ /\ msgs # <<>> /\ msgs' = Tail(msgs)
        /\ \/ \E n \in 1 .. MaxReceived :
                /\ Head(msgs) = Ind(n)
                /\ OnInd(n)
                /\ Call(<<"handle_minor_recv">>)
                /\ UNCHANGED <<output, delivered>>
           \/ \E h \in Handles :
                /\ Head(msgs) = Conf(h)
                /\ ackqueue' = del_ack(ackqueue, h)
                /\ Call(OnConf)
                /\ UNCHANGED <<ttyskb, outqueue, outbytes, datahandle, written, sent, lost, input>>
  /\ UNCHANGED <<life, flow, outstanding, received, stalled>>

(* A pass of the loop over inqueue.  The line discipline may have no room, *)
(* there may be no memory for the DATA_B3_RESP, and the device may refuse  *)
(* it: the packet goes back to the head of the queue.                      *)
handle_minor_recv ==
  /\ Under("handle_minor_recv")
  /\ \/ /\ inqueue # <<>> /\ tty /\ ~ttyinstop
        /\ delivered' = Append(delivered, Head(inqueue))
        /\ inqueue' = Tail(inqueue)
        /\ Call(<<"ldisc">>)
        /\ UNCHANGED stalled
     \/ /\ inqueue # <<>> /\ tty /\ ~ttyinstop
        /\ stalled' = stalled \cup {"in"}
        /\ Return /\ UNCHANGED input
     \/ /\ inqueue = <<>> \/ ~tty \/ ttyinstop
        /\ stalled' = stalled \ {"in"}
        /\ Return /\ UNCHANGED input
  /\ UNCHANGED <<life, flow, output, device>>

(* DATA_B3_REQ is accepted: the next request has the next handle. *)
Accepted_mutant(block) == datahandle' = datahandle
Accepted(block) == datahandle' = (datahandle + 1) % HandleLimit

(* It is refused, and the block goes back to the head of the queue. *)
Requeued_mutant == Append(Tail(outqueue), Head(outqueue))
Requeued == outqueue

(* A pass of the loop over outqueue.  The msgid is left out.  A request    *)
(* for an NCCI that is not listed may be accepted too; its confirmation    *)
(* does not find the minor.                                                *)
handle_minor_send ==
  /\ Under("handle_minor_send")
  /\ \/ /\ outqueue = <<>> \/ (tty /\ ttyoutstop)
        /\ Return
        /\ stalled' = stalled \ {"out"}
        /\ UNCHANGED <<output, outstanding>>
     \/ /\ outqueue # <<>> /\ ~(tty /\ ttyoutstop)
        /\ \/ /\ linked => Cardinality(outstanding) < Window         \* NOERR
              /\ ackqueue' = Append(ackqueue, datahandle)
              /\ outstanding' = outstanding \cup (IF linked THEN {datahandle} ELSE {})
              /\ sent' = sent \o Head(outqueue)
              /\ outqueue' = Tail(outqueue)
              /\ outbytes' = outbytes - Len(Head(outqueue))
              /\ Accepted(Head(outqueue))
              /\ UNCHANGED <<lost, todo, stalled>>
           \/ /\ ackqueue' = del_ack(Append(ackqueue, datahandle), datahandle)
              /\ outqueue' = Requeued                         \* QUEUEFULL
              /\ Return
              /\ stalled' = IF outstanding = {} THEN stalled \cup {"out"} ELSE stalled \ {"out"}
              /\ UNCHANGED <<outbytes, datahandle, sent, lost, outstanding>>
           \/ /\ ackqueue' = del_ack(Append(ackqueue, datahandle), datahandle)
              /\ outqueue' = Tail(outqueue)               \* any other refusal
              /\ outbytes' = outbytes - Len(Head(outqueue))
              /\ lost' = lost \cup ToSet(Head(outqueue))
              /\ UNCHANGED <<datahandle, sent, outstanding, todo, stalled>>
           \/ /\ outqueue' = Requeued        \* no memory for the ackqueue
              /\ Return
              /\ stalled' = stalled \cup {"out"}
              /\ UNCHANGED <<outbytes, ackqueue, datahandle, sent, lost, outstanding>>
        /\ UNCHANGED <<ttyskb, written>>
  /\ UNCHANGED <<life, flow, input, msgs, received>>

-------------------------------------------------------------------------------
(* Operations of the tty *)

capinc_tty_open ==
  /\ todo = <<>> /\ nccip /\ ~tty
  /\ tty' = TRUE
  /\ Call(<<"handle_minor_recv">>)
  /\ UNCHANGED <<alive, nccip, linked, flow, output, input, device, stalled>>

capinc_tty_close ==
  /\ todo = <<>> /\ tty
  /\ \/ /\ nccip /\ tty' = FALSE
        /\ UNCHANGED <<alive, nccip, linked, flow, output, input, device, stalled>>
     \/ ~nccip /\ capiminor_free
  /\ UNCHANGED todo

(* The block of put_char goes in front of what is written after it.        *)
Flushed == IF ttyskb = <<>> THEN outqueue ELSE Append(outqueue, ttyskb)

(* One byte stands for all the bytes of a write.  Without memory nothing   *)
(* is taken, but the block of put_char is queued.                          *)
capinc_tty_write ==
  /\ TtyCalled /\ nccip /\ written < MaxWritten
  /\ ttyskb' = <<>>
  /\ \/ /\ written' = written + 1
        /\ outqueue' = Append(Flushed, <<written'>>)
        /\ outbytes' = outbytes + Len(ttyskb) + 1
        /\ Call(<<"handle_minor_send", "handle_minor_recv">>)
        /\ UNCHANGED stalled
     \/ /\ outqueue' = Flushed
        /\ outbytes' = outbytes + Len(ttyskb)
        /\ stalled' = stalled \cup {"out"}
        /\ UNCHANGED <<written, todo>>
  /\ UNCHANGED <<life, flow, ackqueue, datahandle, sent, lost, input, device>>

(* skb_tailroom: the block has room for another byte. *)
Tailroom_mutant == ttyskb # <<>> /\ Len(ttyskb) <= BlkSize
Tailroom == ttyskb # <<>> /\ Len(ttyskb) < BlkSize

(* The byte joins the block, or the full block is queued and sent and the  *)
(* byte starts a new one, for which there may be no memory.                *)
capinc_tty_put_char ==
  /\ TtyCalled /\ nccip /\ written < MaxWritten
  /\ written' = written + 1
  /\ \/ /\ Tailroom
        /\ ttyskb' = Append(ttyskb, written')
        /\ UNCHANGED <<outqueue, outbytes, lost, todo>>
     \/ /\ ~Tailroom
        /\ outqueue' = Flushed
        /\ outbytes' = outbytes + Len(ttyskb)
        /\ Call(IF ttyskb = <<>> THEN <<>> ELSE <<"handle_minor_send">>)
        /\ \/ ttyskb' = <<written'>> /\ UNCHANGED lost
           \/ ttyskb' = <<>> /\ lost' = lost \cup {written'}
  /\ UNCHANGED <<life, flow, ackqueue, datahandle, sent, input, device, stalled>>

capinc_tty_flush_chars ==
  /\ TtyCalled /\ nccip
  /\ ttyskb' = <<>>
  /\ outqueue' = Flushed
  /\ outbytes' = outbytes + Len(ttyskb)
  /\ Call((IF ttyskb = <<>> THEN <<>> ELSE <<"handle_minor_send">>) \o <<"handle_minor_recv">>)
  /\ UNCHANGED <<life, flow, ackqueue, datahandle, written, sent, lost, input, device, stalled>>

capinc_tty_throttle ==
  /\ TtyCalled
  /\ ttyinstop' = TRUE
  /\ UNCHANGED <<life, ttyoutstop, output, input, todo, device, stalled>>

OnUnthrottle_mutant == <<>>
OnUnthrottle == <<"handle_minor_recv">>

capinc_tty_unthrottle ==
  /\ TtyCalled
  /\ ttyinstop' = FALSE
  /\ Call(OnUnthrottle)
  /\ UNCHANGED <<life, ttyoutstop, output, input, device, stalled>>

capinc_tty_stop ==
  /\ TtyCalled
  /\ ttyoutstop' = TRUE
  /\ UNCHANGED <<life, ttyinstop, output, input, todo, device, stalled>>

capinc_tty_start ==
  /\ TtyCalled
  /\ ttyoutstop' = FALSE
  /\ Call(<<"handle_minor_send">>)
  /\ UNCHANGED <<life, ttyinstop, output, input, device, stalled>>

-------------------------------------------------------------------------------
CallsGoOn == handle_minor_recv \/ handle_minor_send \/ ldisc_return \/ capi_recv_message

Next ==
  \/ capiminor_alloc \/ capincci_unlink \/ capincci_free
  \/ DataInd \/ \E h \in Handles : DataConf(h)
  \/ capi_read \/ CallsGoOn
  \/ capinc_tty_open \/ capinc_tty_close
  \/ capinc_tty_write \/ capinc_tty_put_char \/ capinc_tty_flush_chars
  \/ capinc_tty_throttle \/ capinc_tty_unthrottle \/ capinc_tty_stop \/ capinc_tty_start

Spec == Init /\ [][Next]_vars

(* The device confirms what it took; loops go on; the line discipline      *)
(* calls the tty finitely often before it returns; and the application,    *)
(* which capi_signal wakes, gets to read its messages between the calls of *)
(* others.                                                                 *)
FairSpec ==
  /\ Spec
  /\ WF_vars(CallsGoOn)
  /\ SF_vars(ldisc_return)
  /\ WF_vars(\E h \in Handles : DataConf(h))
  /\ SF_vars(capi_read)

-------------------------------------------------------------------------------
(* Properties *)

(* What the tty writes reaches the device in order, once: the bytes sent,  *)
(* queued and in the block of put_char are all that were taken, less those *)
(* that were dropped, however writes, flushes, refusals and confirmations  *)
(* mix and nest.                                                           *)
OutputInOrder ==
  LET stream == sent \o FlattenSeq(outqueue) \o ttyskb IN
  /\ \A i, j \in DOMAIN stream : i < j => stream[i] < stream[j]
  /\ ToSet(stream) = (1 .. written) \ lost

(* What the device sends reaches the line discipline in order, once, also  *)
(* when the line discipline calls the tty while it takes a packet: packets *)
(* that are neither delivered nor queued are still to be read.             *)
InputInOrder ==
  linked => LET stream == delivered \o inqueue IN
           /\ stream = [i \in DOMAIN stream |-> i]
           /\ \A n \in 1 .. MaxReceived :
                Contains(msgs, Ind(n)) <=> n \in Len(stream) + 1 .. received

(* Every handle on the ackqueue is that of one request whose confirmation  *)
(* is still to come or to be read: handles that wrap around are not used   *)
(* twice, and none stays on the queue.                                     *)
AcksExact ==
  linked =>
    /\ IsInjective(ackqueue)
    /\ ToSet(ackqueue) = outstanding \cup {h \in Handles : Contains(msgs, Conf(h))}

(* Output is never forgotten: queued bytes are sent, unless the tty is     *)
(* stopped, the NCCI ends, or the last attempt lacked memory or was        *)
(* refused while no request was unconfirmed, so that no confirmation will  *)
(* start another.                                                          *)
OutputDrains ==
  outqueue # <<>> ~> outqueue = <<>> \/ ttyoutstop \/ ~linked \/ "out" \in stalled

(* Nor is input: queued packets are delivered as soon as there is a tty    *)
(* that is not throttled, unless the line discipline or the device refuses.*)
InputDrains ==
  inqueue # <<>> ~> inqueue = <<>> \/ ttyinstop \/ ~tty \/ "in" \in stalled
===============================================================================
