------------------------------ MODULE MsgIdQueue ------------------------------
(***************************************************************************)
(* The message-number queues of the capilib (capilib.c), with which a      *)
(* device driver keeps the CAPI data window: every NCCI has a pool of      *)
(* slots, linked into a queue of unconfirmed messages and a free list.     *)
(* The driver serialises its calls.                                        *)
(***************************************************************************)
EXTENDS Naturals, SequencesExt, Lists

CONSTANTS
  Applids,
  Nccis,            \* pairs of an application number and an NCCI
  MsgIds,           \* values of the 16 bit msgid
  MaxWindow,        \* CAPI_MAXDATAWINDOW
  WinSizes          \* window sizes that applications ask for

ASSUME WindowAssumption ==
  /\ MaxWindow \in Nat \ {0} /\ WinSizes \subseteq Nat /\ MsgIds \subseteq Nat
  /\ \A k \in Nccis : k[1] \in Applids

Pool == 1 .. MaxWindow     \* the slots of msgidpool
Null == 0

VARIABLES
  np,         \* NCCI -> its control block, while it is in the driver's list
  listed,     \* the NCCIs in that list
  answer,     \* an NCCI and the answer to the last call, if it was
              \* capilib_data_b3_req on that NCCI, or <<>>
  accepted,   \* history: requests answered NOERROR and not yet confirmed
  unordered   \* history: NCCIs with a confirmation out of order

vars == <<np, listed, answer, accepted, unordered>>

Ptr == Pool \cup {Null}
Block == [winsize : 0 .. MaxWindow, nmsg : 0 .. MaxWindow, msgidqueue : Ptr,
          msgidlast : Ptr, msgidfree : Ptr, next : [Pool -> Ptr],
          msgid : [Pool -> MsgIds \cup {0}]]

TypeOK ==
  /\ listed \subseteq Nccis
  /\ np \in [Nccis -> Block]
  /\ answer \in {<<>>} \cup (Nccis \X {"NOERROR", "SENDQUEUEFULL"})
  /\ accepted \in [Nccis -> Seq(MsgIds)]
  /\ unordered \subseteq Nccis

-------------------------------------------------------------------------------
(* Definitions with the suffix _mutant are never part of the specification *)
(* as it stands: each is a bug that could be in the definition it is named *)
(* after, and makes a run fail when it is put in that definition's place.  *)

(* The slots of the queue and of the free list. *)
Queue(q) == Chain(q.next, q.msgidqueue, Null, MaxWindow + 1)
Free(q) == Chain(q.next, q.msgidfree, Null, MaxWindow + 1)

mq_init_mutant(w) ==
  [winsize |-> w, nmsg |-> 0, msgidqueue |-> Null, msgidlast |-> Null,
   msgidfree |-> MaxWindow, msgid |-> [i \in Pool |-> 0],
   next |-> [i \in Pool |-> i - 1]]

(* The free list is linked from the last slot down; the first is in it     *)
(* whatever the window size.                                               *)
mq_init(w) ==
  [winsize |-> w, nmsg |-> 0, msgidqueue |-> Null, msgidlast |-> Null,
   msgidfree |-> IF w = 0 THEN 1 ELSE w, msgid |-> [i \in Pool |-> 0],
   next |-> [i \in Pool |-> IF i <= w THEN i - 1 ELSE Null]]

mq_enqueue_mutant(q, m) ==
  LET mq == q.msgidfree IN
  [q EXCEPT !.msgidfree = q.next[mq], !.msgid[mq] = m, !.msgidlast = mq,
            !.msgidqueue = IF @ = Null THEN mq ELSE @, !.nmsg = @ + 1,
            !.next = [i \in Pool |-> IF i = q.msgidlast THEN mq ELSE q.next[i]]]

(* Called with a non-empty free list. *)
mq_enqueue(q, m) ==
  LET mq == q.msgidfree IN
  [q EXCEPT !.msgidfree = q.next[mq], !.msgid[mq] = m, !.msgidlast = mq,
            !.msgidqueue = IF @ = Null THEN mq ELSE @, !.nmsg = @ + 1,
            !.next = [i \in Pool |-> CASE i = q.msgidlast -> mq
                                       [] i = mq -> Null
                                       [] OTHER -> q.next[i]]]

OnQueue(q, m) == \E i \in DOMAIN Queue(q) : q.msgid[Queue(q)[i]] = m

(* Place of the first slot of the queue with a number that is on it. *)
Found(q, m) == SelectInSeq(Queue(q), LAMBDA p : q.msgid[p] = m)

(* Called with m on the queue: its first slot with that number is unlinked *)
(* and becomes the head of the free list; if it was the last of the queue, *)
(* msgidlast is null.  The number in a free slot, which nothing reads, is *)
(* modelled as 0.                                                          *)
mq_dequeue(q, m) ==
  LET k == Found(q, m)
      mq == Queue(q)[k]
  IN  [q EXCEPT !.msgidfree = mq, !.nmsg = @ - 1, !.msgid[mq] = 0,
                !.msgidqueue = IF k = 1 THEN q.next[mq] ELSE @,
                !.msgidlast = IF @ = mq THEN Null ELSE @,
                !.next = [p \in Pool |->
                   CASE p = mq -> q.msgidfree
                     [] k > 1 /\ p = Queue(q)[k - 1] -> q.next[mq]
                     [] OTHER -> q.next[p]]]

-------------------------------------------------------------------------------
Clamped_mutant(winsize) == winsize
Clamped(winsize) == IF winsize > MaxWindow THEN MaxWindow ELSE winsize

Init ==
  /\ np = [k \in Nccis |-> mq_init(0)]
  /\ listed = {}
  /\ answer = <<>>
  /\ accepted = [k \in Nccis |-> <<>>]
  /\ unordered = {}

(* The driver opens an NCCI that is down.  When the kmalloc fails nothing  *)
(* changes: the NCCI stays out of the list, and its window unguarded.      *)
capilib_new_ncci(k) ==
  /\ k \notin listed
  /\ \E winsize \in WinSizes : np' = [np EXCEPT ![k] = mq_init(Clamped(winsize))]
  /\ listed' = listed \cup {k}
  /\ answer' = <<>>
  /\ UNCHANGED <<accepted, unordered>>

(* list_del and kfree of the control blocks of a set of NCCIs. *)
Forget(K) ==
  /\ listed' = listed \ K
  /\ np' = [k \in Nccis |-> IF k \in K THEN mq_init(0) ELSE np[k]]
  /\ accepted' = [k \in Nccis |-> IF k \in K THEN <<>> ELSE accepted[k]]
  /\ unordered' = unordered \ K
  /\ answer' = <<>>

capilib_free_ncci(k) == k \in listed /\ Forget({k})

capilib_release_appl(a) == Forget({k \in listed : k[1] = a})

capilib_release == Forget(listed)

capilib_data_b3_req(k, m) ==
  /\ \/ /\ k \in listed /\ np[k].msgidfree # Null
        /\ np' = [np EXCEPT ![k] = mq_enqueue(@, m)]
        /\ accepted' = [accepted EXCEPT ![k] = Append(@, m)]
        /\ answer' = <<k, "NOERROR">>
     \/ /\ k \in listed /\ np[k].msgidfree = Null
        /\ answer' = <<k, "SENDQUEUEFULL">>
        /\ UNCHANGED <<np, accepted>>
     \/ /\ k \notin listed
        /\ answer' = <<k, "NOERROR">>
        /\ UNCHANGED <<np, accepted>>
  /\ UNCHANGED <<listed, unordered>>

(* The driver confirms a message that it accepted.  A message that is not  *)
(* on the queue is reported and changes nothing.                           *)
capilib_data_b3_conf(k, m) ==
  /\ k \in listed /\ Contains(accepted[k], m)
  /\ unordered' = IF m = Head(accepted[k]) THEN unordered ELSE unordered \cup {k}
  /\ accepted' = [accepted EXCEPT ![k] = RemoveFirst(@, m)]
  /\ np' = IF OnQueue(np[k], m) THEN [np EXCEPT ![k] = mq_dequeue(@, m)] ELSE np
  /\ answer' = <<>>
  /\ UNCHANGED listed

Next ==
  \/ \E k \in Nccis : capilib_new_ncci(k) \/ capilib_free_ncci(k)
  \/ \E a \in Applids : capilib_release_appl(a)
  \/ capilib_release
  \/ \E k \in Nccis, m \in MsgIds : capilib_data_b3_req(k, m) \/ capilib_data_b3_conf(k, m)

Spec == Init /\ [][Next]_vars

-------------------------------------------------------------------------------
(* Properties *)

(* What a driver may not suffer in whatever order it confirms: a slot that *)
(* is in both lists, or twice in one, or outside the window.               *)
ListsDisjoint ==
  \A k \in listed : LET s == Queue(np[k]) \o Free(np[k]) IN
    /\ \A i, j \in DOMAIN s : i # j => s[i] # s[j]
    /\ ToSet(s) \subseteq 1 .. (IF np[k].winsize = 0 THEN 1 ELSE np[k].winsize)

(* The window is never exceeded: the messages a driver accepted and has    *)
(* not confirmed fit into the window, in whatever order it confirms.       *)
WithinWindow ==
  \A k \in listed :
    Len(accepted[k]) <= IF np[k].winsize = 0 THEN 1 ELSE np[k].winsize

Window(k) ==
  IF k \in listed THEN [i \in DOMAIN Queue(np[k]) |-> np[k].msgid[Queue(np[k])[i]]]
                  ELSE <<>>

(* What is seen of the NCCIs whose confirmations came in order. *)
Kept == listed \ unordered
KeptSizes == [k \in Nccis |-> IF k \notin Kept THEN 0
                              ELSE IF np[k].winsize = 0 THEN 1 ELSE np[k].winsize]
KeptWindows == [k \in Nccis |-> IF k \in unordered THEN <<>> ELSE Window(k)]
KeptAnswer == IF answer # <<>> /\ answer[1] \in unordered THEN <<>> ELSE answer

Data == INSTANCE DataWindow WITH
  answer <- KeptAnswer, window <- KeptWindows, size <- KeptSizes

(* The pools implement the data window until a confirmation comes out of   *)
(* order, which the refinement maps to the end of the NCCI's window:       *)
(* requests are refused exactly when the window is full, and confirmations *)
(* find their message.                                                     *)
WindowKept == Data!Spec
===============================================================================
